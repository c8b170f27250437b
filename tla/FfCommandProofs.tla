--------------------------- MODULE FfCommandProofs ---------------------------
(***************************************************************************)
(* Theorems of FfCommand, for any calls: any filelists and layouts of      *)
(* links, any macros and environments.  First the files (IInv), then what  *)
(* the output says: the stack of frames and levels means what the lines    *)
(* read so far mean (MInv).                                                *)
(***************************************************************************)
EXTENDS FfCommand, SequenceTheorems, FiniteSetTheorems, WellFoundedInduction, TLAPS

-----------------------------------------------------------------------------
(* Paths, references and entries.                                          *)

\* The identity of a path is a path, and what exists has a path.
LEMMA RealIsPath ==
  ASSUME IsCall(call), NEW p
  PROVE  /\ p \in Path => Place(p) \in Path /\ Real(p) \in Path
         /\ Real(p) \in DOMAIN call.texts => p \in Path /\ Real(p) \in Path
         /\ Exists(p) => p \in Path /\ Real(p) \in Path
  <1>1. /\ DOMAIN call.texts \subseteq Path /\ call.files \subseteq Path
        /\ DOMAIN call.at \subseteq Path /\ \A q \in DOMAIN call.at : call.at[q] \in Path
        /\ DOMAIN call.links \subseteq Path /\ \A q \in DOMAIN call.links : call.links[q] \in Path
    BY DEF IsCall
  <1>2. p \in Path => Place(p) \in Path /\ Real(p) \in Path
    BY <1>1 DEF Place, Real
  <1>3. Real(p) \in Path => p \in Path
    BY <1>1 DEF Place, Real
  <1> QED
    BY <1>1, <1>2, <1>3 DEF Exists

\* The directory of a path is a path.
LEMMA ParentIsPath ==
  ASSUME NEW p \in Path
  PROVE  Parent(p) \in Path
  <1>1. Len(p) \in Nat /\ \A i \in 1 .. Len(p) - 1 : p[i] \in Component
    BY LenProperties, ElementOfSeq DEF Path
  <1> QED
    BY <1>1, SubSeqProperties DEF Parent, Path

\* What the kind of an entry says of its fields.
LEMMA EntryFields ==
  ASSUME NEW e \in Entry
  PROVE  /\ e.kind = "text" => e.section \in Section
         /\ e.kind = "incdir" => e.refs \in Seq(Ref)
  BY DEF Entry, Section

\* The annotation of a path that exists is a list of lines.
LEMMA NoteIsOutput ==
  ASSUME IsCall(call), NEW p \in Path
  PROVE  Note(p) \in Seq(Output)
  <1>1. Real(p) \in Path
    BY RealIsPath
  <1>2. <<"link", Real(p)>> \in Output
    BY <1>1 DEF Output
  <1> QED
    BY <1>2 DEF Note

\* A remark is a list of lines.
LEMMA RemarkIsOutput ==
  ASSUME NEW f \in FrameType, NEW e
  PROVE  Remark(e, f) \in Seq(Output)
  <1>1. <<"remark", f.file, f.line>> \in Output
    BY DEF Output, FrameType
  <1> QED
    BY <1>1 DEF Remark

\* So are directories that exist.
LEMMA DirectoriesAreOutput ==
  ASSUME IsCall(call), NEW refs \in Seq(Ref), NEW base,
         \A i \in DOMAIN refs : Exists(Resolve(refs[i], base))
  PROVE  Directories(refs, base) \in Seq(Output)
  <1>1. Len(refs) \in Nat /\ DOMAIN refs = 1 .. Len(refs)
    BY LenProperties
  <1> DEFINE line(i) == <<"path", Resolve(refs[i], base), Real(Resolve(refs[i], base))>>
  <1>2. ASSUME NEW i \in 1 .. Len(refs) PROVE line(i) \in Output
    BY <1>1, RealIsPath DEF Output
  <1>3. Directories(refs, base) = [i \in 1 .. Len(refs) |-> line(i)]
    BY <1>1 DEF Directories
  <1> HIDE DEF line
  <1> QED
    BY <1>1, <1>2, <1>3, IsASeq

-----------------------------------------------------------------------------
(* The types of the flattener's state.                                     *)

\* The frame at work, while the flattener is at work.
LEMMA TopFacts ==
  ASSUME FlattenerTypeOK, outcome = "none", frames # <<>>
  PROVE  /\ Len(frames) \in Nat \ {0} /\ DOMAIN frames = 1 .. Len(frames)
         /\ Top \in FrameType /\ Top.levels # <<>>
         /\ Real(Top.file) \in DOMAIN call.texts /\ Text(Top) \in Seq(Entry)
         /\ Depth \in Nat \ {0} /\ Inner \in Level
         /\ Depth > 1 => Entered \in Level
  <1> USE DEF FlattenerTypeOK
  <1>1. Len(frames) \in Nat \ {0} /\ DOMAIN frames = 1 .. Len(frames)
    BY LenProperties, EmptySeq
  <1>2. Top \in FrameType /\ Top.levels # <<>> /\ Real(Top.file) \in DOMAIN call.texts
    BY <1>1, ElementOfSeq DEF Top
  <1>3. Text(Top) \in Seq(Entry)
    BY <1>2 DEF Text, IsCall
  <1>4. Top.levels \in Seq(Level)
    BY <1>2 DEF FrameType
  <1>5. Depth \in Nat \ {0}
    BY <1>2, <1>4, EmptySeq DEF Depth
  <1>6. Inner \in Level /\ (Depth > 1 => Entered \in Level)
    BY <1>4, <1>5, ElementOfSeq DEF Inner, Entered, Depth
  <1> QED
    BY <1>1, <1>2, <1>3, <1>5, <1>6

\* The entry a frame is at.
LEMMA ThisIsEntry ==
  ASSUME FlattenerTypeOK, Reading
  PROVE  This \in Entry
  <1>1. Text(Top) \in Seq(Entry) /\ Top.line \in Nat \ {0} /\ Top.line <= Len(Text(Top))
    BY TopFacts DEF Reading, Flattening, FrameType
  <1> QED
    BY <1>1, ElementOfSeq, LenProperties DEF This

\* A step to the next line keeps the types, whatever it makes of the frame.
LEMMA GoKeepsTypes ==
  ASSUME FlattenerTypeOK, Flattening, NEW f \in FrameType,
         f.file = Top.file, f.levels # <<>>, Go(f)
  PROVE  FlattenerTypeOK'
  <1> DEFINE g == [f EXCEPT !.line = @ + 1]
  <1>1. g \in FrameType /\ g.levels # <<>> /\ g.file = Top.file
    BY DEF FrameType
  <1>2. frames' = [frames EXCEPT ![Len(frames)] = g]
        /\ call' = call /\ inputs' = inputs /\ outcome' = outcome /\ result' = result
    BY DEF Go
  <1>3. /\ Len(frames) \in 1 .. Len(frames) /\ DOMAIN frames = 1 .. Len(frames)
        /\ Real(Top.file) \in DOMAIN call.texts
    BY TopFacts DEF Flattening
  <1> HIDE DEF g
  <1>4. frames' \in Seq(FrameType) /\ Len(frames') = Len(frames)
    BY <1>1, <1>2, <1>3, ExceptSeq DEF FlattenerTypeOK
  <1>5. ASSUME NEW i \in DOMAIN frames'
        PROVE  frames'[i].levels # <<>> /\ Real(frames'[i].file) \in DOMAIN call.texts
    BY <1>1, <1>2, <1>3 DEF FlattenerTypeOK
  <1>6. \A p : (Real(p))' = Real(p)
    BY <1>2 DEF Real, Place
  <1> QED
    BY <1>2, <1>4, <1>5, <1>6 DEF FlattenerTypeOK, IsCall

\* Items go to a section.
LEMMA AddKeepsTypes ==
  ASSUME FlattenerTypeOK, Flattening, NEW section \in Section,
         NEW items \in Seq(Output), Add(section, items)
  PROVE  FlattenerTypeOK'
  <1> DEFINE f == [Top EXCEPT !.sections[section] = @ \o items]
  <1>1. Top \in FrameType /\ Top.levels # <<>>
    BY TopFacts DEF Flattening
  <1>2. Top.sections \in [Section -> Seq(Output)] /\ Top.sections[section] \o items \in Seq(Output)
    BY <1>1, ConcatProperties DEF FrameType
  <1>3. f \in FrameType /\ f.file = Top.file /\ f.levels = Top.levels
    BY <1>1, <1>2 DEF FrameType
  <1> HIDE DEF f
  <1>4. Go(f)
    BY DEF Add, f
  <1> QED
    BY <1>1, <1>3, <1>4, GoKeepsTypes

\* The levels of a frame change.
LEMMA LevelsKeepTypes ==
  ASSUME FlattenerTypeOK, Flattening, NEW ls \in Seq(Level), ls # <<>>,
         Go([Top EXCEPT !.levels = ls])
  PROVE  FlattenerTypeOK'
  <1>1. Top \in FrameType
    BY TopFacts DEF Flattening
  <1>2. /\ [Top EXCEPT !.levels = ls] \in FrameType
        /\ [Top EXCEPT !.levels = ls].file = Top.file
        /\ [Top EXCEPT !.levels = ls].levels = ls
    BY <1>1 DEF FrameType
  <1> QED
    BY <1>2, GoKeepsTypes

\* What an inclusion makes of the frames.
LEMMA IncludeFrames ==
  ASSUME FlattenerTypeOK, Include
  PROVE  /\ Len(frames) \in Nat \ {0} /\ DOMAIN frames = 1 .. Len(frames)
         /\ frames' \in Seq(FrameType) /\ DOMAIN frames' = 1 .. Len(frames) + 1
         /\ Len(frames) + 1 \in DOMAIN frames'
         /\ frames'[Len(frames) + 1] = Frame(Child, ContentBase(This.kind, Child))
         /\ frames'[Len(frames) + 1].file = Child /\ frames'[Len(frames) + 1].levels # <<>>
         /\ frames'[Len(frames)] = Announced
         /\ \A i \in DOMAIN frames :
               /\ i \in DOMAIN frames'
               /\ i # Len(frames) => frames'[i] = frames[i]
               /\ frames'[i].file = frames[i].file /\ frames'[i].levels = frames[i].levels
         /\ Announced.file = Top.file /\ Announced.levels = Top.levels
         /\ Announced.line = Top.line + 1
         /\ Real(Child) \in DOMAIN call.texts
  <1>0. Flattening /\ Real(Child) \in DOMAIN call.texts
    BY DEF Include, Including, Selects, Ordinary, Reading
  <1>1. /\ Len(frames) \in 1 .. Len(frames) /\ Len(frames) \in Nat \ {0}
        /\ DOMAIN frames = 1 .. Len(frames) /\ Top \in FrameType /\ Top.levels # <<>>
    BY <1>0, TopFacts DEF Flattening
  <1>2. Child \in Path
    BY <1>0, RealIsPath DEF FlattenerTypeOK
  <1>3. /\ Announced \in FrameType /\ Announced.file = Top.file
        /\ Announced.levels = Top.levels /\ Announced.line = Top.line + 1
    <2>1. Remark(This, Top) \in Seq(Output) /\ Note(Child) \in Seq(Output)
      BY <1>1, <1>2, RemarkIsOutput, NoteIsOutput DEF FlattenerTypeOK
    <2>2. Top.sections \in [Section -> Seq(Output)] /\ "others" \in Section
      BY <1>1 DEF FrameType, Section
    <2>3. Top.sections["others"] \o Remark(This, Top) \o Note(Child) \in Seq(Output)
      BY <2>1, <2>2, ConcatProperties
    <2> DEFINE sections == [Top.sections EXCEPT !["others"] =
                                @ \o Remark(This, Top) \o Note(Child)]
    <2>4. sections \in [Section -> Seq(Output)]
      BY <2>2, <2>3
    <2>5. Announced = [Top EXCEPT !.line = @ + 1, !.sections = sections]
      BY DEF Announced
    <2> HIDE DEF sections
    <2>6. Announced = [file |-> Top.file, base |-> Top.base, line |-> Top.line + 1,
                       levels |-> Top.levels, sections |-> sections]
      BY <1>1, <2>5 DEF FrameType
    <2> QED
      BY <1>1, <2>4, <2>6 DEF FrameType
  <1> DEFINE new == Frame(Child, ContentBase(This.kind, Child))
  <1>4. new \in FrameType /\ new.levels # <<>> /\ new.file = Child
    <2>1. ContentBase(This.kind, Child) \in Path
      BY <1>2, ParentIsPath DEF ContentBase, FlattenerTypeOK, IsCall
    <2>2. <<Outside>> \in Seq(Level) /\ <<Outside>> # <<>>
      BY DEF Outside, Level
    <2>3. Nothing \in [Section -> Seq(Output)]
      BY DEF Nothing
    <2> QED
      BY <1>2, <2>1, <2>2, <2>3 DEF Frame, FrameType
  <1> DEFINE old == [frames EXCEPT ![Len(frames)] = Announced]
  <1>5. /\ old \in Seq(FrameType) /\ Len(old) = Len(frames)
        /\ \A i \in 1 .. Len(frames) : old[i] = IF i = Len(frames) THEN Announced ELSE frames[i]
    BY <1>1, <1>3, ExceptSeq DEF FlattenerTypeOK
  <1>6. frames' = Append(old, new)
    BY DEF Include
  <1> HIDE DEF new, old
  <1>7. /\ frames' \in Seq(FrameType) /\ DOMAIN frames' = 1 .. Len(frames) + 1
        /\ frames'[Len(frames) + 1] = new
        /\ \A i \in 1 .. Len(frames) : frames'[i] = old[i]
    <2> DEFINE n == Len(frames)
    <2>1. n \in Nat /\ old \in Seq(FrameType) /\ Len(old) = n /\ new \in FrameType
      BY <1>1, <1>4, <1>5
    <2> HIDE DEF n
    <2>2. /\ Append(old, new) \in Seq(FrameType) /\ DOMAIN Append(old, new) = 1 .. n + 1
          /\ Append(old, new)[n + 1] = new
          /\ \A i \in 1 .. n : Append(old, new)[i] = old[i]
      BY <2>1
    <2> QED
      BY <1>6, <2>2 DEF n
  <1>8. frames'[Len(frames)] = Announced
    BY <1>1, <1>5, <1>7
  <1>9. ASSUME NEW i \in DOMAIN frames
        PROVE  /\ i \in DOMAIN frames'
               /\ i # Len(frames) => frames'[i] = frames[i]
               /\ frames'[i].file = frames[i].file /\ frames'[i].levels = frames[i].levels
    <2>1. i \in 1 .. Len(frames) /\ i \in DOMAIN frames'
      BY <1>1, <1>7
    <2> QED
      BY <1>3, <1>5, <1>7, <2>1 DEF Top
  <1>10. Len(frames) + 1 \in DOMAIN frames'
    BY <1>1, <1>7
  <1> QED
    BY <1>0, <1>1, <1>3, <1>4, <1>7, <1>8, <1>9, <1>10 DEF new

\* What the end of a filelist makes of them.
LEMMA ReturnFrames ==
  ASSUME FlattenerTypeOK, Return
  PROVE  /\ Len(frames) \in Nat \ {0} /\ frames' \in Seq(FrameType)
         /\ DOMAIN frames' = 1 .. Len(frames) - 1
         /\ \A i \in DOMAIN frames' :
               /\ i \in DOMAIN frames
               /\ i # Len(frames) - 1 => frames'[i] = frames[i]
               /\ frames'[i].file = frames[i].file /\ frames'[i].levels = frames[i].levels
               /\ i = Len(frames) - 1 =>
                     frames'[i] = [frames[i] EXCEPT !.sections = Extend(@, Top.sections)]
  <1> DEFINE n == Len(frames) - 1
  <1> DEFINE f == [frames[n] EXCEPT !.sections = Extend(@, Top.sections)]
  <1> DEFINE rest == SubSeq(frames, 1, n)
  <1>1. /\ Len(frames) \in Nat \ {0} /\ DOMAIN frames = 1 .. Len(frames) /\ Len(frames) > 1
        /\ Top \in FrameType
    BY TopFacts DEF Return, AtEnd, Flattening
  <1>2. /\ n \in 1 .. Len(frames) /\ n \in Nat /\ n \in 1 .. n
        /\ \A i \in 1 .. n : i \in DOMAIN frames
    BY <1>1
  <1>3. frames[n] \in FrameType
    BY <1>1, <1>2, ElementOfSeq DEF FlattenerTypeOK
  <1>4. Extend(frames[n].sections, Top.sections) \in [Section -> Seq(Output)]
    BY <1>1, <1>3, ConcatProperties DEF Extend, FrameType
  <1>5. f \in FrameType /\ f.file = frames[n].file /\ f.levels = frames[n].levels
    BY <1>3, <1>4 DEF FrameType
  <1>6. rest \in Seq(FrameType) /\ Len(rest) = n /\ \A i \in 1 .. n : rest[i] = frames[i]
    BY <1>1, <1>2, SubSeqProperties, ElementOfSeq DEF FlattenerTypeOK
  <1>7. frames' = [rest EXCEPT ![n] = [rest[n] EXCEPT !.sections = Extend(@, Top.sections)]]
    BY DEF Return
  <1>8. frames' = [rest EXCEPT ![n] = f]
    BY <1>2, <1>6, <1>7
  <1> HIDE DEF f, rest
  <1>9. /\ frames' \in Seq(FrameType) /\ Len(frames') = n
        /\ \A i \in 1 .. n : frames'[i] = IF i = n THEN f ELSE rest[i]
    BY <1>2, <1>5, <1>6, <1>8, ExceptSeq
  <1>10. DOMAIN frames' = 1 .. n
    BY <1>9
  <1>11. ASSUME NEW i \in 1 .. n
         PROVE  /\ i # n => frames'[i] = frames[i]
                /\ frames'[i].file = frames[i].file /\ frames'[i].levels = frames[i].levels
    BY <1>5, <1>6, <1>9
  <1>12. frames'[n] = [frames[n] EXCEPT !.sections = Extend(@, Top.sections)]
    BY <1>2, <1>9 DEF f
  <1> QED
    BY <1>1, <1>2, <1>9, <1>10, <1>11, <1>12

\* Opening and closing a filelist keeps the types.
LEMMA FramesKeepTypes ==
  ASSUME FlattenerTypeOK, Include \/ Return
  PROVE  FlattenerTypeOK'
  <1>1. /\ call' = call /\ outcome' = outcome /\ result' = result
        /\ inputs' \subseteq DOMAIN call.texts /\ frames' \in Seq(FrameType)
    BY IncludeFrames, ReturnFrames DEF Include, Return, FlattenerTypeOK
  <1>2. \A p : (Real(p))' = Real(p)
    BY <1>1 DEF Real, Place
  <1>3. ASSUME NEW i \in DOMAIN frames'
        PROVE  frames'[i].levels # <<>> /\ Real(frames'[i].file) \in DOMAIN call.texts
    <2>1. CASE i \in DOMAIN frames
      <3>1. frames'[i].file = frames[i].file /\ frames'[i].levels = frames[i].levels
        BY <2>1, IncludeFrames, ReturnFrames
      <3> QED
        BY <2>1, <3>1 DEF FlattenerTypeOK
    <2>2. CASE i \notin DOMAIN frames
      <3>1. Include /\ i = Len(frames) + 1
        BY <2>2, IncludeFrames, ReturnFrames
      <3> QED
        BY <3>1, IncludeFrames
    <2> QED
      BY <2>1, <2>2
  <1> QED
    BY <1>1, <1>2, <1>3 DEF FlattenerTypeOK, IsCall

\* Every step of the flattener keeps the types.
LEMMA FlattenKeepsTypes ==
  ASSUME FlattenerTypeOK, Flatten
  PROVE  FlattenerTypeOK'
  <1> USE DEF Directive, Reads, Selects, Ordinary, Reading
  <1>1. ASSUME NEW how \in {"error", "cycle"}, outcome' = how,
               UNCHANGED <<call, frames, result>>, inputs' \in SUBSET DOMAIN call.texts
        PROVE  FlattenerTypeOK'
    <2>1. \A p : (Real(p))' = Real(p)
      BY <1>1 DEF Real, Place
    <2> QED
      BY <1>1, <2>1 DEF FlattenerTypeOK, IsCall
  <1>2. Fail("error") => FlattenerTypeOK'
    BY <1>1 DEF Fail, FlattenerTypeOK
  <1>3. CASE Open
    <2> DEFINE selected == Inner.active /\ (This.macro \in call.macros <=> This.kind = "ifdef")
    <2> DEFINE new == [active |-> selected, taken |-> selected, elseSeen |-> FALSE]
    <2>1. Top.levels \in Seq(Level) /\ Top.levels # <<>>
      BY <1>3, TopFacts DEF Open, Flattening, FrameType
    <2>2. new \in Level
      BY DEF Level
    <2> HIDE DEF new
    <2>3. Append(Top.levels, new) \in Seq(Level) /\ Append(Top.levels, new) # <<>>
      BY <2>1, <2>2
    <2>4. Go([Top EXCEPT !.levels = Append(Top.levels, new)])
      BY <1>3 DEF Open, new
    <2> QED
      BY <1>3, <2>3, <2>4, LevelsKeepTypes DEF Open
  <1>4. ASSUME NEW selected \in BOOLEAN, NEW isElse \in BOOLEAN, Flattening,
               Branch(selected, isElse)
        PROVE  FlattenerTypeOK'
    <2> DEFINE new == [active |-> selected, taken |-> Inner.taken \/ selected, elseSeen |-> isElse]
    <2>1. /\ Top.levels \in Seq(Level) /\ Top.levels # <<>>
          /\ Depth \in 1 .. Len(Top.levels) /\ Len(Top.levels) \in Nat \ {0}
      BY <1>4, TopFacts DEF Flattening, FrameType, Depth
    <2>2. new \in Level
      BY DEF Level
    <2> HIDE DEF new
    <2>3. /\ [Top.levels EXCEPT ![Depth] = new] \in Seq(Level)
          /\ Len([Top.levels EXCEPT ![Depth] = new]) # 0
      BY <2>1, <2>2, ExceptSeq
    <2>4. Go([Top EXCEPT !.levels = [Top.levels EXCEPT ![Depth] = new]])
      BY <1>4 DEF Branch, new
    <2> QED
      BY <1>4, <2>3, <2>4, EmptySeq, LevelsKeepTypes
  <1>5. CASE Elsif \/ Else
    BY <1>4, <1>5 DEF Elsif, Else
  <1>6. CASE Endif
    <2>1. Top.levels \in Seq(Level) /\ Depth \in Nat /\ Depth > 1 /\ Depth = Len(Top.levels)
      BY <1>6, TopFacts DEF Endif, Flattening, FrameType, Depth
    <2> DEFINE outer == SubSeq(Top.levels, 1, Depth - 1)
    <2>2. outer \in Seq(Level) /\ Len(outer) = Depth - 1
      BY <2>1, SubSeqProperties, ElementOfSeq
    <2>3. Go([Top EXCEPT !.levels = outer])
      BY <1>6 DEF Endif
    <2> HIDE DEF outer
    <2>4. outer # <<>>
      BY <2>1, <2>2
    <2> QED
      BY <1>6, <2>2, <2>3, <2>4, LevelsKeepTypes DEF Endif
  <1>7. CASE Skip
    BY <1>7, TopFacts, GoKeepsTypes DEF Skip, Flattening
  <1>8. CASE PassText
    <2>1. This.section \in Section /\ Top \in FrameType
      BY <1>8, ThisIsEntry, EntryFields, TopFacts DEF PassText, Flattening
    <2>2. <<"text", Top.file, Top.line>> \in Output
      BY <2>1 DEF Output, FrameType
    <2>3. << <<"text", Top.file, Top.line>> >> \in Seq(Output)
      BY <2>2
    <2> QED
      BY <1>8, <2>1, <2>3, AddKeepsTypes DEF PassText
  <1>9. CASE AddPath
    <2> DEFINE p == Resolve(This.ref, Top.base)
    <2>1. CASE Exists(p)
      <3>1. <<"path", p, Real(p)>> \in Output
        BY <2>1, RealIsPath DEF FlattenerTypeOK, Output
      <3>2. Add("others", << <<"path", p, Real(p)>> >>)
        BY <1>9, <2>1 DEF AddPath
      <3>3. "others" \in Section /\ << <<"path", p, Real(p)>> >> \in Seq(Output)
        BY <3>1 DEF Section
      <3> QED
        BY <1>9, <3>2, <3>3, AddKeepsTypes DEF AddPath
    <2>2. CASE ~Exists(p)
      BY <1>2, <1>9, <2>2 DEF AddPath
    <2> QED
      BY <2>1, <2>2
  <1>10. CASE AddDirectories
    <2>1. CASE \A i \in DOMAIN This.refs : Exists(Resolve(This.refs[i], Top.base))
      <3>1. This.refs \in Seq(Ref) /\ Top \in FrameType
        BY <1>10, ThisIsEntry, EntryFields, TopFacts DEF AddDirectories, Flattening
      <3>2. Remark(This, Top) \o Directories(This.refs, Top.base) \in Seq(Output)
        BY <2>1, <3>1, RemarkIsOutput, DirectoriesAreOutput, ConcatProperties DEF FlattenerTypeOK
      <3>3. Add("incdirs", Remark(This, Top) \o Directories(This.refs, Top.base))
        BY <1>10, <2>1 DEF AddDirectories
      <3> QED
        BY <1>10, <3>2, <3>3, AddKeepsTypes DEF AddDirectories, Section
    <2>2. CASE ~ \A i \in DOMAIN This.refs : Exists(Resolve(This.refs[i], Top.base))
      BY <1>2, <1>10, <2>2 DEF AddDirectories
    <2> QED
      BY <2>1, <2>2
  <1>11. CASE Cycle
    BY <1>1, <1>11 DEF Cycle, Including, FlattenerTypeOK
  <1>12. CASE Include \/ Return
    BY <1>12, FramesKeepTypes
  <1>14. CASE Finish
    <2>1. /\ Top.sections \in [Section -> Seq(Output)] /\ "others" \in Section
          /\ Note(call.top) \in Seq(Output)
      BY <1>14, TopFacts, NoteIsOutput
         DEF Finish, AtEnd, Flattening, FrameType, FlattenerTypeOK, IsCall, Section
    <2>2. Note(call.top) \o Top.sections["others"] \in Seq(Output)
      BY <2>1, ConcatProperties
    <2>3. /\ result' = [Top.sections EXCEPT !["others"] = Note(call.top) \o @]
          /\ outcome' = "flattened" /\ call' = call /\ frames' = frames /\ inputs' = inputs
      BY <1>14 DEF Finish
    <2>4. result' \in [Section -> Seq(Output)]
      BY <2>1, <2>2, <2>3
    <2>5. \A p : (Real(p))' = Real(p)
      BY <2>3 DEF Real, Place
    <2> QED
      BY <2>3, <2>4, <2>5 DEF FlattenerTypeOK, IsCall
  <1>15. CASE CannotRead \/ Misplaced \/ Reject \/ NoChild \/ Unterminated
    BY <1>2, <1>15 DEF CannotRead, Misplaced, Reject, NoChild, Unterminated
  <1> QED
    BY <1>3, <1>5, <1>6, <1>7, <1>8, <1>9, <1>10, <1>11, <1>12, <1>14, <1>15 DEF Flatten

-----------------------------------------------------------------------------
(* The chain of inclusions.                                                *)

\* What depends on the call alone stands with it.
LEMMA CallStands ==
  ASSUME call' = call
  PROVE  /\ \A p : (Place(p))' = Place(p) /\ (Real(p))' = Real(p) /\ (Exists(p))' = Exists(p)
         /\ \A ref, base : (Resolve(ref, base))' = Resolve(ref, base)
         /\ \A from, to : (Leads(from, to))' = Leads(from, to)
         /\ \A p, q : (Same(p, q))' = Same(p, q)
         /\ Logs' = Logs /\ Places' = Places
  <1>1. \A p : (Place(p))' = Place(p) /\ (Real(p))' = Real(p)
    BY DEF Place, Real
  <1>2. \A p : (Exists(p))' = Exists(p)
    BY <1>1 DEF Exists
  <1>3. \A ref, base : (Resolve(ref, base))' = Resolve(ref, base)
    BY DEF Resolve, Expand
  <1>4. \A from, to : (Leads(from, to))' = Leads(from, to)
    BY <1>1, <1>3 DEF Leads, Text
  <1>5. \A p, q : (Same(p, q))' = Same(p, q)
    BY <1>1, <1>2 DEF Same
  <1>6. Logs' = Logs /\ Places' = Places
    BY <1>1 DEF Logs, Places
  <1> QED
    BY <1>1, <1>2, <1>3, <1>4, <1>5, <1>6

\* A step to the next line keeps the chain.
LEMMA GoKeepsChain ==
  ASSUME FlattenerTypeOK, ChainIsReal, Flattening, NEW f,
         [f EXCEPT !.line = @ + 1].file = Top.file, Go(f)
  PROVE  ChainIsReal'
  <1> DEFINE g == [f EXCEPT !.line = @ + 1]
  <1>1. g.file = Top.file
    OBVIOUS
  <1>2. frames' = [frames EXCEPT ![Len(frames)] = g] /\ call' = call /\ outcome' = "none"
    BY DEF Go, Flattening
  <1>3. Len(frames) \in Nat /\ DOMAIN frames = 1 .. Len(frames) /\ DOMAIN frames' = DOMAIN frames
    BY <1>2, TopFacts DEF Flattening
  <1> HIDE DEF g
  <1>4. \A i \in DOMAIN frames : frames'[i].file = frames[i].file
    BY <1>1, <1>2, <1>3 DEF Top
  <1>5. \A i \in DOMAIN frames : i # Len(frames) => frames'[i] = frames[i]
    BY <1>2
  <1>6. ASSUME NEW i \in DOMAIN frames, i > 1
        PROVE  Leads(frames'[i - 1], frames'[i])
    <2>1. frames'[i - 1] = frames[i - 1]
      BY <1>3, <1>5, <1>6
    <2>2. Leads(frames[i - 1], frames[i])
      BY <1>6 DEF ChainIsReal
    <2> QED
      BY <1>4, <2>1, <2>2 DEF Leads
  <1> QED
    BY <1>2, <1>3, <1>4, <1>6, CallStands DEF ChainIsReal

\* An inclusion adds to it.
LEMMA IncludeKeepsChain ==
  ASSUME FlattenerTypeOK, ChainIsReal, Include
  PROVE  ChainIsReal'
  <1> DEFINE n == Len(frames)
  <1>1. /\ Flattening /\ Inner.active /\ This.kind \in {"f", "F"} /\ Real(Child) \notin Opened
        /\ Top.line \in Nat
    BY TopFacts DEF Include, Including, Selects, Ordinary, Reading, Flattening, FrameType
  <1>2. n \in Nat \ {0} /\ DOMAIN frames = 1 .. n /\ DOMAIN frames' = 1 .. n + 1
    BY IncludeFrames
  <1>3. call' = call /\ outcome' = "none"
    BY <1>1 DEF Include, Flattening
  <1>4. \A k \in DOMAIN frames' : k = n + 1 \/ k \in DOMAIN frames
    BY <1>2
  <1> HIDE DEF n
  <1>5. ASSUME NEW i \in DOMAIN frames', NEW j \in DOMAIN frames',
               Real(frames'[i].file) = Real(frames'[j].file)
        PROVE  i = j
    <2>1. \A k \in DOMAIN frames :
             /\ frames'[k].file = frames[k].file
             /\ Real(frames[k].file) # Real(frames'[n + 1].file)
      BY <1>1, IncludeFrames DEF Opened, n
    <2> QED
      BY <1>4, <1>5, <2>1 DEF ChainIsReal
  <1>6. ASSUME NEW i \in DOMAIN frames', i > 1
        PROVE  Leads(frames'[i - 1], frames'[i])
    <2>1. CASE i = n + 1
      <3>1. i - 1 = n
        BY <1>2, <2>1
      <3>2. frames'[i - 1] = Announced /\ frames'[i].file = Child
        BY <2>1, <3>1, IncludeFrames DEF n
      <3>3. Text(Announced)[Announced.line - 1] = This
        <4>1. Announced.file = Top.file /\ Announced.line = Top.line + 1
          BY IncludeFrames
        <4>2. Announced.line - 1 = Top.line
          BY <1>1, <4>1
        <4> QED
          BY <4>1, <4>2 DEF Text, This
      <3>4. Announced.levels[Len(Announced.levels)].active
        BY <1>1, IncludeFrames DEF Inner, Depth
      <3>5. Child = Resolve(This.ref, IF This.kind = "f" THEN call.cwd
                                      ELSE Parent(Announced.file))
        BY IncludeFrames DEF Child
      <3> QED
        BY <1>1, <3>2, <3>3, <3>4, <3>5 DEF Leads
    <2>2. CASE i \in DOMAIN frames
      <3>1. i - 1 \in DOMAIN frames /\ i - 1 # n
        BY <1>2, <1>6, <2>2
      <3>2. frames'[i - 1] = frames[i - 1] /\ frames'[i].file = frames[i].file
        BY <2>2, <3>1, IncludeFrames DEF n
      <3>3. Leads(frames[i - 1], frames[i])
        BY <1>6, <2>2 DEF ChainIsReal
      <3> QED
        BY <3>2, <3>3 DEF Leads
    <2> QED
      BY <1>4, <2>1, <2>2
  <1> QED
    BY <1>3, <1>5, <1>6, CallStands DEF ChainIsReal

\* The end of a filelist takes its last link away.
LEMMA ReturnKeepsChain ==
  ASSUME FlattenerTypeOK, ChainIsReal, Return
  PROVE  ChainIsReal'
  <1> DEFINE n == Len(frames) - 1
  <1>1. call' = call /\ outcome' = "none"
    BY DEF Return, AtEnd, Flattening
  <1>2. /\ \A i \in DOMAIN frames' : i \in DOMAIN frames /\ frames'[i].file = frames[i].file
        /\ \A i \in DOMAIN frames' : i # n => frames'[i] = frames[i]
    BY ReturnFrames
  <1>3. n \in Int /\ DOMAIN frames' = 1 .. n
    BY ReturnFrames
  <1> HIDE DEF n
  <1>4. ASSUME NEW i \in DOMAIN frames', i > 1
        PROVE  Leads(frames'[i - 1], frames'[i])
    <2>1. i - 1 \in DOMAIN frames' /\ i - 1 # n
      BY <1>3, <1>4
    <2>2. Leads(frames[i - 1], frames[i])
      BY <1>2, <1>4 DEF ChainIsReal
    <2> QED
      BY <1>2, <2>1, <2>2 DEF Leads
  <1> QED
    BY <1>1, <1>2, <1>4, CallStands DEF ChainIsReal

\* An end of flattening leaves it as it is.
LEMMA EndKeepsChain ==
  ASSUME ChainIsReal, UNCHANGED <<call, frames>>,
         outcome' = "cycle" => Real(Child) \in Opened
  PROVE  ChainIsReal'
  <1>1. Child' = Child
    BY CallStands DEF Child, This, Top, Text
  <1> QED
    BY <1>1, CallStands DEF ChainIsReal, Opened

\* The flattener keeps the chain; when it reports a cycle, it leads back.
LEMMA FlattenKeepsChain ==
  ASSUME FlattenerTypeOK, ChainIsReal, Flatten
  PROVE  ChainIsReal'
  <1> USE DEF Directive, Reads, Selects, Ordinary, Reading
  <1>1. Flattening => Top \in FrameType
    BY TopFacts DEF Flattening
  <1>2. ASSUME Flattening, NEW ls, Go([Top EXCEPT !.levels = ls])
        PROVE  ChainIsReal'
    <2>1. [[Top EXCEPT !.levels = ls] EXCEPT !.line = @ + 1].file = Top.file
      BY <1>1, <1>2 DEF FrameType
    <2> QED
      BY <1>2, <2>1, GoKeepsChain
  <1>3. ASSUME Flattening, NEW section, NEW items, Add(section, items)
        PROVE  ChainIsReal'
    <2> DEFINE f == [Top EXCEPT !.sections[section] = @ \o items]
    <2>1. [f EXCEPT !.line = @ + 1].file = Top.file
      BY <1>1, <1>3 DEF FrameType
    <2>2. Go(f)
      BY <1>3 DEF Add
    <2> HIDE DEF f
    <2> QED
      BY <1>3, <2>1, <2>2, GoKeepsChain
  <1>4. ASSUME Fail("error")
        PROVE  ChainIsReal'
    BY <1>4, EndKeepsChain DEF Fail
  <1>5. CASE Open \/ Elsif \/ Else \/ Endif
    BY <1>2, <1>5 DEF Open, Elsif, Else, Endif, Branch
  <1>6. CASE Skip
    <2>1. [Top EXCEPT !.line = @ + 1].file = Top.file
      BY <1>1, <1>6 DEF Skip, FrameType
    <2> QED
      BY <1>6, <2>1, GoKeepsChain DEF Skip
  <1>7. CASE PassText \/ AddPath \/ AddDirectories
    BY <1>3, <1>4, <1>7 DEF PassText, AddPath, AddDirectories
  <1>8. CASE Include \/ Return
    BY <1>8, IncludeKeepsChain, ReturnKeepsChain
  <1>9. CASE Cycle
    BY <1>9, EndKeepsChain DEF Cycle, Including
  <1>10. CASE Finish
    BY <1>10, EndKeepsChain DEF Finish
  <1>11. CASE CannotRead \/ Misplaced \/ Reject \/ NoChild \/ Unterminated
    BY <1>4, <1>11 DEF CannotRead, Misplaced, Reject, NoChild, Unterminated
  <1> QED
    BY <1>5, <1>6, <1>7, <1>8, <1>9, <1>10, <1>11 DEF Flatten

-----------------------------------------------------------------------------
(* The command.  By the time main is at a line it has made certain checks, *)
(* and until the output is replaced it has changed no file.                *)

Before == {"start", "check"}
After == {"done", "failed", "internal"}

\* Nothing is read before flattening begins, and then the top filelist first.
ReadingFollowsPc ==
    /\ pc \in Before => frames = <<>> /\ inputs = {} /\ outcome = "none"
    /\ pc \in {"lines", "write", "replace"} => Real(call.top) \in inputs
    /\ pc \in {"write", "replace", "done"} => outcome = "flattened"

\* The comparisons of main and of flatten_filelist that have been made.
Compared ==
    /\ (Logs /\ pc \notin {"start", "exit"}) => ~Same(call.log, call.top)
    /\ pc \in {"write", "replace"} => ~OutputIsInput
    /\ (outcome = "flattened" /\ pc \in {"write", "replace"} \cup After) => ~LogIsInput

\* What has become of the files.
FilesFollowPc ==
    /\ pc \notin {"done", "exit"} => \A p \in Places : disk[p] = "kept"
    /\ pc = "done" => disk[Place(call.output)] = "flattened"
    /\ \A p \in Places : disk[p] # "partial"
    /\ pc # "exit" <=> exit = None
    /\ pc = "start" => temps = {}
    /\ pc \in {"check", "lines"} \cup After => temps = IF Logs THEN {"log"} ELSE {}
    /\ pc \in {"write", "replace"} => temps = (IF Logs THEN {"log"} ELSE {}) \cup {"output"}

IInv ==
    /\ FfTypeOK
    /\ ChainIsReal
    /\ ReadingFollowsPc
    /\ Compared
    /\ FilesFollowPc
    /\ InputsSurvive
    /\ ExitTells

\* The places of filelists, output and log are places.
LEMMA PlacesContain ==
  ASSUME FfTypeOK
  PROVE  /\ Place(call.output) \in Places /\ (Logs => Place(call.log) \in Places)
         /\ inputs \subseteq Places /\ inputs \subseteq DOMAIN call.texts
         /\ DOMAIN call.texts \subseteq Places
  BY DEF Places, FfTypeOK, FlattenerTypeOK

\* A filelist in the place of a path is what the path leads to.
LEMMA FilelistInPlace ==
  ASSUME FfTypeOK, NEW p, Place(p) \in DOMAIN call.texts
  PROVE  Real(p) = Place(p) /\ Exists(p)
  BY DEF Real, Exists, FfTypeOK, FlattenerTypeOK, IsCall

\* The top filelist leads to itself.
LEMMA RealIsReal ==
  ASSUME FfTypeOK, Real(call.top) \in DOMAIN call.texts
  PROVE  Exists(call.top)
  BY DEF Exists

\* The calls begin with the invariant.
THEOREM InitIInv == Init => IInv
  <1> SUFFICES ASSUME Init PROVE IInv
    OBVIOUS
  <1> USE DEF Init
  <1>1. FfTypeOK
    <2>1. IsCall(call)
      BY CallsAssumption
    <2>2. Nothing \in [Section -> Seq(Output)] /\ <<>> \in Seq(FrameType)
      BY DEF Nothing
    <2> QED
      BY <2>1, <2>2 DEF FfTypeOK, FlattenerTypeOK
  <1>2. ChainIsReal
    BY DEF ChainIsReal
  <1>3. ReadingFollowsPc /\ Compared /\ FilesFollowPc
    BY DEF ReadingFollowsPc, Compared, FilesFollowPc, Before, After
  <1>4. InputsSurvive
    BY <1>1, PlacesContain DEF InputsSurvive
  <1>5. ExitTells
    BY <1>1, PlacesContain, ExitAssumption DEF ExitTells
  <1> QED
    BY <1>1, <1>2, <1>3, <1>4, <1>5 DEF IInv

\* A step of the command alone keeps what is said of the flattener.
LEMMA CommandKeepsFlattener ==
  ASSUME IInv, UNCHANGED flattener
  PROVE  FlattenerTypeOK' /\ ChainIsReal'
  <1>1. call' = call /\ frames' = frames /\ inputs' = inputs /\ outcome' = outcome
        /\ result' = result
    BY DEF flattener
  <1>2. FlattenerTypeOK'
    BY <1>1, CallStands DEF IInv, FfTypeOK, FlattenerTypeOK, IsCall
  <1>3. outcome' = "cycle" => Real(Child) \in Opened
    BY <1>1 DEF IInv, ChainIsReal, Opened
  <1>4. ChainIsReal'
    BY <1>1, <1>3, EndKeepsChain DEF IInv
  <1> QED
    BY <1>2, <1>4

\* Nor does it change what the comparisons find.
LEMMA CommandKeepsComparisons ==
  ASSUME UNCHANGED flattener
  PROVE  /\ (LogIsInput)' = LogIsInput /\ (OutputIsInput)' = OutputIsInput
         /\ (Same(call.log, call.top))' = Same(call.log, call.top)
         /\ Logs' = Logs /\ Places' = Places
         /\ (Place(call.output))' = Place(call.output) /\ (Place(call.log))' = Place(call.log)
         /\ (Real(call.top))' = Real(call.top) /\ inputs' = inputs /\ call' = call
         /\ outcome' = outcome /\ frames' = frames
  <1>1. call' = call /\ inputs' = inputs /\ outcome' = outcome /\ frames' = frames
    BY DEF flattener
  <1> QED
    BY <1>1, CallStands DEF LogIsInput, OutputIsInput

\* The steps before the end that change no file and leave the flattener alone.
QuietStep ==
    \/ OpenLog \/ NoLog \/ NotBegun \/ LinesFail \/ Unexpected \/ OutputConflict
    \/ MakeOutput \/ WriteOutput \/ OutputFails

\* They keep the invariant, for they change a line of main and a temporary file only.
LEMMA QuietStepKeeps ==
  ASSUME IInv, QuietStep
  PROVE  IInv'
  <1> USE DEF QuietStep, OpenLog, NoLog, NotBegun, LinesFail, Unexpected, OutputConflict,
              MakeOutput, WriteOutput, OutputFails
  <1>1. UNCHANGED flattener /\ disk' = disk /\ exit' = exit /\ pc # "exit" /\ pc' # "exit"
    BY DEF flattener
  <1>2. /\ temps' \subseteq {"log", "output"} /\ pc' \in {"check", "write", "replace", "failed", "internal"}
    BY DEF IInv, FfTypeOK
  <1>3. FfTypeOK' /\ ChainIsReal'
    BY <1>1, <1>2, CommandKeepsFlattener, CommandKeepsComparisons DEF IInv, FfTypeOK
  <1>4. ReadingFollowsPc'
    BY <1>1, CommandKeepsComparisons DEF IInv, ReadingFollowsPc, Before
  <1>5. Compared'
    BY <1>1, CommandKeepsComparisons DEF IInv, Compared, After, ReadingFollowsPc, Before
  <1>6. FilesFollowPc'
    BY <1>1, CommandKeepsComparisons DEF IInv, FilesFollowPc, After, ReadingFollowsPc, Before
  <1>7. InputsSurvive'
    BY <1>1, CommandKeepsComparisons DEF IInv, InputsSurvive
  <1>8. ExitTells'
    BY <1>1, CommandKeepsComparisons, ExitAssumption DEF IInv, ExitTells, FilesFollowPc
  <1> QED
    BY <1>3, <1>4, <1>5, <1>6, <1>7, <1>8 DEF IInv

\* The steps to the end that change no file.
SilentEnd == RefuseLog \/ LogConflict \/ PublishFails \/ Unlogged \/ Kill

\* They keep it, for every file is as it was.
LEMMA SilentEndKeeps ==
  ASSUME IInv, SilentEnd
  PROVE  IInv'
  <1> USE DEF SilentEnd, RefuseLog, LogConflict, PublishFails, Unlogged, Kill, Exit
  <1>1. UNCHANGED flattener /\ disk' = disk /\ pc # "exit" /\ pc' = "exit"
    BY DEF flattener
  <1>2. temps' \subseteq {"log", "output"} /\ exit' \in {0, 1, 3, 137}
    BY DEF IInv, FfTypeOK, Code
  <1>3. FfTypeOK' /\ ChainIsReal'
    BY <1>1, <1>2, CommandKeepsFlattener, CommandKeepsComparisons DEF IInv, FfTypeOK
  <1>4. ReadingFollowsPc' /\ Compared'
    BY <1>1, CommandKeepsComparisons DEF IInv, ReadingFollowsPc, Compared, Before, After
  <1>5. FilesFollowPc'
    BY <1>1, <1>2, ExitAssumption, CommandKeepsComparisons DEF IInv, FilesFollowPc, After
  <1>6. InputsSurvive'
    BY <1>1, CommandKeepsComparisons DEF IInv, InputsSurvive
  <1>7. ExitTells'
    <2> DEFINE out == disk[Place(call.output)]
    <2>1. pc # "done" => out = "kept"
      BY <1>1, PlacesContain DEF IInv, FilesFollowPc
    <2>2. pc = "done" => out = "flattened"
      BY DEF IInv, FilesFollowPc
    <2>3. exit' = 0 => pc = "done" /\ ~Logs
      BY <1>1 DEF Code
    <2>4. exit' = 1 => pc # "done"
      BY <1>1 DEF Code
    <2>5. exit' = 3 => pc # "done" \/ Logs
      BY <1>1 DEF Code
    <2>6. exit' \in {0, 3} => temps' = {}
      BY <1>1 DEF Code, IInv, FilesFollowPc, After
    <2> QED
      BY <1>1, <2>1, <2>2, <2>3, <2>4, <2>5, <2>6, CommandKeepsComparisons DEF ExitTells
  <1> QED
    BY <1>3, <1>4, <1>5, <1>6, <1>7 DEF IInv

\* The output is replaced: it is no input, and so not the top filelist either.
LEMMA ReplaceOutputKeeps ==
  ASSUME IInv, ReplaceOutput
  PROVE  IInv'
  <1> USE DEF ReplaceOutput
  <1>1. /\ UNCHANGED flattener /\ pc = "replace" /\ pc' = "done" /\ exit' = exit
        /\ disk' = [disk EXCEPT ![Place(call.output)] = "flattened"]
        /\ temps' = temps \ {"output"}
    BY DEF flattener
  <1>2. FfTypeOK /\ disk \in [Places -> {"kept", "partial", "flattened", "log"}]
    BY DEF IInv, FfTypeOK
  <1>3. FfTypeOK' /\ ChainIsReal'
    BY <1>1, CommandKeepsFlattener, CommandKeepsComparisons DEF IInv, FfTypeOK
  <1>4. ReadingFollowsPc' /\ Compared'
    BY <1>1, CommandKeepsComparisons DEF IInv, ReadingFollowsPc, Compared, Before, After
  <1>5. FilesFollowPc'
    BY <1>1, <1>2, PlacesContain, CommandKeepsComparisons DEF IInv, FilesFollowPc, After
  <1>6. Place(call.output) \notin inputs /\ Real(call.top) \in inputs
    BY <1>1, <1>2, PlacesContain, FilelistInPlace
       DEF IInv, ReadingFollowsPc, Compared, OutputIsInput
  <1>7. InputsSurvive'
    BY <1>1, <1>2, <1>6, PlacesContain, CommandKeepsComparisons DEF IInv, InputsSurvive
  <1>8. ExitTells'
    BY <1>1, <1>2, PlacesContain, CommandKeepsComparisons, ExitAssumption
       DEF IInv, ExitTells, FilesFollowPc
  <1> QED
    BY <1>3, <1>4, <1>5, <1>7, <1>8 DEF IInv

\* The log is published: it is not the top filelist, and after flattening it is
\* no input.
LEMMA PublishLogKeeps ==
  ASSUME IInv, PublishLog
  PROVE  IInv'
  <1> USE DEF PublishLog, Exit
  <1>1. /\ UNCHANGED flattener /\ pc \in After /\ pc' = "exit" /\ exit' = Code /\ Logs
        /\ disk' = [disk EXCEPT ![Place(call.log)] = "log"] /\ temps' = temps \ {"log"}
    BY DEF flattener, After
  <1>2. FfTypeOK /\ disk \in [Places -> {"kept", "partial", "flattened", "log"}]
    BY DEF IInv, FfTypeOK
  <1>3. /\ pc = "done" => Code = 0
        /\ pc = "failed" => Code = 1
        /\ pc = "internal" => Code = 3
    BY DEF Code
  <1>4. FfTypeOK' /\ ChainIsReal'
    BY <1>1, <1>3, CommandKeepsFlattener, CommandKeepsComparisons DEF IInv, FfTypeOK, After
  <1>5. ReadingFollowsPc' /\ Compared'
    BY <1>1, CommandKeepsComparisons DEF IInv, ReadingFollowsPc, Compared, Before, After
  <1>6. FilesFollowPc'
    BY <1>1, <1>2, <1>3, PlacesContain, CommandKeepsComparisons, ExitAssumption
       DEF IInv, FilesFollowPc, After
  <1>7. InputsSurvive'
    <2>1. Real(call.top) \in DOMAIN call.texts => Place(call.log) # Real(call.top)
      <3>1. ~Same(call.log, call.top)
        BY <1>1 DEF IInv, Compared, After
      <3> QED
        BY <1>2, <3>1, FilelistInPlace, RealIsReal DEF Same
    <2>2. outcome = "flattened" => Place(call.log) \notin inputs
      BY <1>1, <1>2, PlacesContain, FilelistInPlace DEF IInv, Compared, LogIsInput, After
    <2> QED
      BY <1>1, <1>2, <2>1, <2>2, PlacesContain, CommandKeepsComparisons DEF IInv, InputsSurvive
  <1>8. ExitTells'
    BY <1>1, <1>2, <1>3, PlacesContain, CommandKeepsComparisons
       DEF IInv, ExitTells, FilesFollowPc, After
  <1> QED
    BY <1>4, <1>5, <1>6, <1>7, <1>8 DEF IInv

\* Flattening begins with the top filelist.
LEMMA BeginKeeps ==
  ASSUME IInv, Begin
  PROVE  IInv'
  <1> USE DEF Begin
  <1>1. /\ call' = call /\ outcome' = "none" /\ result' = result
        /\ disk' = disk /\ temps' = temps /\ exit' = exit /\ pc = "check" /\ pc' = "lines"
        /\ frames' = <<Frame(call.top, Parent(call.top))>> /\ inputs' = {Real(call.top)}
        /\ Real(call.top) \in DOMAIN call.texts
    BY DEF IInv, ReadingFollowsPc, Before
  <1>2. FlattenerTypeOK'
    <2>1. call.top \in Path /\ Parent(call.top) \in Path
      BY ParentIsPath DEF IInv, FfTypeOK, FlattenerTypeOK, IsCall
    <2>2. <<Outside>> \in Seq(Level) /\ <<Outside>> # <<>> /\ Nothing \in [Section -> Seq(Output)]
      BY DEF Outside, Level, Nothing
    <2> DEFINE f == Frame(call.top, Parent(call.top))
    <2>3. f \in FrameType /\ f.levels # <<>> /\ f.file = call.top
      BY <2>1, <2>2 DEF Frame, FrameType
    <2> HIDE DEF f
    <2>4. frames' \in Seq(FrameType) /\ \A i \in DOMAIN frames' : frames'[i] = f
      BY <1>1, <2>3 DEF f
    <2> QED
      BY <1>1, <2>3, <2>4, CallStands DEF IInv, FfTypeOK, FlattenerTypeOK, IsCall
  <1>3. FfTypeOK'
    BY <1>1, <1>2, CallStands DEF IInv, FfTypeOK
  <1>4. ChainIsReal'
    BY <1>1 DEF ChainIsReal
  <1>5. ReadingFollowsPc' /\ Compared'
    BY <1>1, CallStands DEF IInv, ReadingFollowsPc, Compared, Before, After
  <1>6. FilesFollowPc'
    BY <1>1, CallStands DEF IInv, FilesFollowPc, After
  <1>7. InputsSurvive'
    BY <1>1, CallStands, PlacesContain DEF IInv, FilesFollowPc, InputsSurvive
  <1>8. ExitTells'
    BY <1>1, CallStands DEF IInv, ExitTells
  <1> QED
    BY <1>3, <1>4, <1>5, <1>6, <1>7, <1>8 DEF IInv

\* A step of the flattener changes no file, and never shortens the inputs.
LEMMA LinesKeeps ==
  ASSUME IInv, Lines
  PROVE  IInv'
  <1>1. pc = "lines" /\ Flatten /\ disk' = disk /\ temps' = temps /\ exit' = exit /\ pc' = pc
    BY DEF Lines, command
  <1>2. call' = call /\ inputs \subseteq inputs'
    BY <1>1 DEF Flatten, CannotRead, Open, Elsif, Else, Endif, Misplaced, Skip, Reject,
                PassText, AddPath, AddDirectories, NoChild, Cycle, Include, Unterminated,
                Return, Finish, Fail, Go, Add, Branch
  <1>3. FfTypeOK' /\ ChainIsReal'
    BY <1>1, <1>2, CallStands, FlattenKeepsTypes, FlattenKeepsChain DEF IInv, FfTypeOK
  <1>4. ReadingFollowsPc' /\ Compared'
    BY <1>1, <1>2, CallStands DEF IInv, ReadingFollowsPc, Compared, Before, After
  <1>5. FilesFollowPc'
    BY <1>1, <1>2, CallStands DEF IInv, FilesFollowPc, After
  <1>6. InputsSurvive'
    <2>1. inputs' \subseteq Places
      BY <1>2, <1>3, CallStands, PlacesContain DEF FfTypeOK, FlattenerTypeOK, Places
    <2> QED
      BY <1>1, <1>2, <2>1, CallStands, PlacesContain DEF IInv, FilesFollowPc, InputsSurvive
  <1>7. ExitTells'
    BY <1>1, <1>2, CallStands DEF IInv, ExitTells
  <1> QED
    BY <1>3, <1>4, <1>5, <1>6, <1>7 DEF IInv

\* A stuttering step.
LEMMA StutterKeeps ==
  ASSUME IInv, UNCHANGED vars
  PROVE  IInv'
  <1>1. UNCHANGED flattener /\ pc' = pc /\ disk' = disk /\ temps' = temps /\ exit' = exit
    BY DEF vars, command, flattener
  <1>2. FfTypeOK' /\ ChainIsReal'
    BY <1>1, CommandKeepsFlattener, CommandKeepsComparisons DEF IInv, FfTypeOK
  <1>3. ReadingFollowsPc' /\ Compared' /\ FilesFollowPc' /\ InputsSurvive' /\ ExitTells'
    BY <1>1, CommandKeepsComparisons
       DEF IInv, ReadingFollowsPc, Compared, FilesFollowPc, InputsSurvive, ExitTells
  <1> QED
    BY <1>2, <1>3 DEF IInv

\* IInv is inductive.
THEOREM NextIInv == IInv /\ [Next]_vars => IInv'
  <1> SUFFICES ASSUME IInv, [Next]_vars PROVE IInv'
    OBVIOUS
  <1>1. CASE Step
    BY <1>1, QuietStepKeeps, SilentEndKeeps, ReplaceOutputKeeps, PublishLogKeeps,
       BeginKeeps, LinesKeeps DEF Step, QuietStep, SilentEnd
  <1>2. CASE Unexpected \/ OutputFails
    BY <1>2, QuietStepKeeps DEF QuietStep
  <1>3. CASE PublishFails \/ Kill
    BY <1>3, SilentEndKeeps DEF SilentEnd
  <1>4. CASE Ended \/ UNCHANGED vars
    BY <1>4, StutterKeeps DEF Ended
  <1> QED
    BY <1>1, <1>2, <1>3, <1>4 DEF Next

\* IInv is an invariant.
LEMMA Invariance == Spec => []IInv
  BY InitIInv, NextIInv, PTL DEF Spec

-----------------------------------------------------------------------------
\* Every reachable state is of its types, for any filelists: in particular no
\* `endif and no end of a filelist empties a stack of levels.
THEOREM TypeCorrect == Spec => []FfTypeOK
  <1>1. IInv => FfTypeOK
    BY DEF IInv
  <1> QED
    BY <1>1, Invariance, PTL

\* However filelists include each other, through whatever links, no file is open
\* twice, what is open was included by a selected line, and what is called a
\* cycle is one.
THEOREM RecursionIsReal == Spec => []ChainIsReal
  <1>1. IInv => ChainIsReal
    BY DEF IInv
  <1> QED
    BY <1>1, Invariance, PTL

\* No layout of links, log and output makes a call lose the top filelist, or one
\* that has flattened lose an input.
THEOREM InputsAreSafe == Spec => []InputsSurvive
  <1>1. IInv => InputsSurvive
    BY DEF IInv
  <1> QED
    BY <1>1, Invariance, PTL

\* The exit code tells what has become of output, log and temporary files, with
\* failures and kills anywhere.
THEOREM ExitCodeTells == Spec => []ExitTells
  <1>1. IInv => ExitTells
    BY DEF IInv
  <1> QED
    BY <1>1, Invariance, PTL

-----------------------------------------------------------------------------
(* What the filelists mean.  First the blocks a line is in.                *)

\* The opening lines of the blocks that line n is in, outermost first, and what
\* the levels say of them.
Blocks(text, n, levels, o) ==
    LET D == Len(levels)
    IN  /\ o \in [1 .. D - 1 -> 1 .. n - 1]
        /\ \A i, j \in 1 .. D - 1 : i < j => o[i] < o[j]
        /\ Enclosing(text, n) = {o[j] : j \in 1 .. D - 1}
        /\ \A j \in 1 .. D - 1 : Enclosing(text, o[j]) = {o[i] : i \in 1 .. j - 1}
        /\ \A j \in 1 .. D - 1 :
              Count(text, o[j], n - 1, Opening) = Count(text, o[j], n - 1, {"endif"}) + (D - j)
        /\ levels[1] = Outside
        /\ \A j \in 1 .. D - 1 :
              /\ levels[j + 1].taken <=>
                    levels[j].active /\ \E h \in Heads(text, o[j], n - 1) : Holds(text[h])
              /\ levels[j + 1].active <=> levels[j].active /\ InSelected(text, o[j], n - 1)

FrameBlocks(f) ==
    /\ f.line <= Len(Text(f)) + 1
    /\ \E o : Blocks(Text(f), f.line, f.levels, o)

\* What a frame has read, as the meaning of the lines it has read: all that the
\* last one has, and the ones before it but for what the next one stands for.
MeansUpTo(i) == UpTo(Within[Deep - i], frames[i].file, frames[i].base)
FrameMeans(i) ==
    LET f == frames[i]
        e == Text(f)[f.line - 1]
        g == frames[i + 1]
    IN  IF i = Len(frames) THEN f.sections = MeansUpTo(i)[f.line - 1]
        ELSE /\ f.line > 1 /\ e.kind \in {"f", "F"} /\ Selected(Text(f), f.line - 1)
             /\ g.file = Resolve(e.ref, IF e.kind = "f" THEN call.cwd ELSE Parent(f.file))
             /\ g.base = (IF e.kind = "f" THEN call.cwd ELSE Parent(g.file))
             /\ f.sections = With(MeansUpTo(i)[f.line - 2], "others",
                                  Remark(e, [file |-> f.file, line |-> f.line - 1]) \o Note(g.file))

StacksMean ==
    /\ frames # <<>> => frames[1].file = call.top /\ frames[1].base = Parent(call.top)
    /\ \A i \in 1 .. Len(frames) : FrameBlocks(frames[i]) /\ FrameMeans(i)

\* Every directive stands apart from its macro by a space.
Spaced(c) ==
    \A p \in DOMAIN c.texts : \A n \in 1 .. Len(c.texts[p]) :
        c.texts[p][n].kind \in {"ifdef", "ifndef", "elsif"} => ~c.texts[p][n].tab

\* With IInv the inductive invariant behind FlattensSelected.
MInv == IInv /\ (Spaced(call) => StacksMean /\ FlattensSelected)

\* Sets with the same members are equal.
LEMMA SetEquality ==
  ASSUME NEW S, NEW T, \A x : x \in S <=> x \in T
  PROVE  S = T
  OBVIOUS

\* Induction, for sets of numbers.
LEMMA UpToInduction ==
  ASSUME NEW N \in Nat, NEW T, 0 \in T, \A n \in 1 .. N : n - 1 \in T => n \in T
  PROVE  0 .. N \subseteq T
  <1> DEFINE S == {n \in 0 .. N : n \notin T}
             R == OpToRel(<, Nat)
  <1> SUFFICES ASSUME S # {} PROVE FALSE
    OBVIOUS
  <1>0. IsWellFoundedOn(R, Nat)
    BY NatLessThanWellFounded
  <1>1. \A m, n \in Nat : <<n, m>> \in R <=> n < m
    BY DEF OpToRel
  <1>2. PICK m \in S : \A n \in S : ~(<<n, m>> \in R)
    <2>1. S \in SUBSET Nat
      OBVIOUS
    <2> HIDE DEF S, R
    <2> QED
      BY <1>0, <2>1, WFMin, Zenon
  <1> HIDE DEF R
  <1>3. m \in 1 .. N /\ m \notin T /\ m - 1 \in 0 .. N /\ m - 1 < m
    OBVIOUS
  <1>4. <<m - 1, m>> \in R /\ (m - 1 \in T \/ m - 1 \in S)
    BY <1>1, <1>3
  <1> QED
    BY <1>2, <1>3, <1>4

\* A count goes up by one at a line that is counted.
LEMMA CountStep ==
  ASSUME NEW text, NEW b \in Nat, NEW n \in Nat, b <= n, NEW kinds
  PROVE  /\ Count(text, b, n - 1, kinds) \in Nat /\ Count(text, b, n, kinds) \in Nat
         /\ Count(text, b, n, kinds)
               = Count(text, b, n - 1, kinds) + (IF text[n].kind \in kinds THEN 1 ELSE 0)
         /\ b = n => Count(text, b, n - 1, kinds) = 0
  <1> DEFINE A == {i \in b .. n - 1 : text[i].kind \in kinds}
             B == {i \in b .. n : text[i].kind \in kinds}
  <1>1. IsFiniteSet(A) /\ IsFiniteSet(B)
    <2>1. IsFiniteSet(b .. n - 1) /\ IsFiniteSet(b .. n)
      BY FS_Interval
    <2> QED
      BY <2>1, FS_Subset
  <1>2. Cardinality(A) \in Nat /\ Cardinality(B) \in Nat
    BY <1>1, FS_CardinalityType
  <1>3. B = IF text[n].kind \in kinds THEN A \cup {n} ELSE A
    OBVIOUS
  <1>4. n \notin A /\ (b = n => A = {})
    OBVIOUS
  <1>5. Count(text, b, n - 1, kinds) = Cardinality(A) /\ Count(text, b, n, kinds) = Cardinality(B)
    BY DEF Count
  <1> HIDE DEF A, B
  <1>6. Cardinality(A \cup {n}) = Cardinality(A) + 1 /\ Cardinality({}) = 0
    BY <1>1, <1>4, FS_AddElement, FS_EmptySet
  <1>7. Cardinality(B) = Cardinality(A) + (IF text[n].kind \in kinds THEN 1 ELSE 0)
    BY <1>2, <1>3, <1>6
  <1>8. b = n => Cardinality(A) = 0
    BY <1>4, <1>6
  <1> QED
    BY <1>2, <1>5, <1>7, <1>8

\* A count of one line.
LEMMA CountOne ==
  ASSUME NEW text, NEW n \in Nat, NEW kinds
  PROVE  Count(text, n, n, kinds) = IF text[n].kind \in kinds THEN 1 ELSE 0
  <1> DEFINE b == n
  <1>1. b \in Nat /\ b <= n /\ b = n
    OBVIOUS
  <1> HIDE DEF b
  <1>2. /\ Count(text, b, n - 1, kinds) = 0
        /\ Count(text, b, n, kinds)
              = Count(text, b, n - 1, kinds) + (IF text[n].kind \in kinds THEN 1 ELSE 0)
    BY <1>1, CountStep
  <1>3. Count(text, b, n, kinds) = IF text[n].kind \in kinds THEN 1 ELSE 0
    BY <1>2
  <1> QED
    BY <1>3 DEF b

\* A line closes the blocks in which as much is closed as opened; it may open one.
LEMMA EnclosingStep ==
  ASSUME NEW text, NEW n \in Nat \ {0}
  PROVE  /\ \A b : b \in Enclosing(text, n + 1) <=>
               /\ b \in Enclosing(text, n) \/ (b = n /\ text[n].kind \in Opening)
               /\ Count(text, b, n, Opening) > Count(text, b, n, {"endif"})
         /\ \A b \in Enclosing(text, n) :
               /\ b \in 1 .. n - 1 /\ text[b].kind \in Opening
               /\ Count(text, b, n - 1, Opening) > Count(text, b, n - 1, {"endif"})
  <1> DEFINE Unclosed(b, m) == Count(text, b, m, Opening) > Count(text, b, m, {"endif"})
  <1>1. \A k : \A b : b \in Enclosing(text, k) <=>
           b \in 1 .. k - 1 /\ text[b].kind \in Opening /\ \A m \in b .. k - 1 : Unclosed(b, m)
    BY DEF Enclosing
  <1> HIDE DEF Unclosed
  <1>2. (n + 1) - 1 = n
    OBVIOUS
  <1>3. \A b : b \in Enclosing(text, n + 1) <=>
           b \in 1 .. n /\ text[b].kind \in Opening /\ \A m \in b .. n : Unclosed(b, m)
    BY <1>1, <1>2
  <1>4. ASSUME NEW b \in 1 .. n - 1
        PROVE  (\A m \in b .. n : Unclosed(b, m)) <=> (\A m \in b .. n - 1 : Unclosed(b, m)) /\ Unclosed(b, n)
    <2>1. \A m : m \in b .. n <=> m \in b .. n - 1 \/ m = n
      OBVIOUS
    <2> QED
      BY <2>1
  <1>5. (\A m \in n .. n : Unclosed(n, m)) <=> Unclosed(n, n)
    <2>1. \A m : m \in n .. n <=> m = n
      OBVIOUS
    <2> QED
      BY <2>1
  <1>6. \A b : b \in 1 .. n <=> b \in 1 .. n - 1 \/ b = n
    OBVIOUS
  <1>7. \A b : b \in Enclosing(text, n + 1) <=>
           /\ b \in Enclosing(text, n) \/ (b = n /\ text[n].kind \in Opening)
           /\ Unclosed(b, n)
    BY <1>1, <1>3, <1>4, <1>5, <1>6
  <1>8. \A b \in 1 .. n - 1 : n - 1 \in b .. n - 1
    OBVIOUS
  <1>9. \A b \in Enclosing(text, n) : b \in 1 .. n - 1 /\ text[b].kind \in Opening /\ Unclosed(b, n - 1)
    BY <1>1, <1>8
  <1> QED
    BY <1>7, <1>9 DEF Unclosed

\* A block has one more branch at most after each line.
LEMMA HeadsStep ==
  ASSUME NEW text, NEW b \in Nat, NEW n \in Nat, b <= n
  PROVE  /\ b < n => \A h : h \in Heads(text, b, n) <=>
               \/ h \in Heads(text, b, n - 1)
               \/ /\ h = n /\ text[n].kind \in {"elsif", "else"}
                  /\ Enclosing(text, n) = Enclosing(text, b) \cup {b}
         /\ b < n => Heads(text, b, n - 1) \subseteq b .. n - 1
         /\ Heads(text, n, n) = {n}
  <1>1. \A h : h \in b + 1 .. n <=> h \in b + 1 .. n - 1 \/ (h = n /\ b < n)
    OBVIOUS
  <1>2. n + 1 .. n = {}
    OBVIOUS
  <1>3. b < n => b + 1 .. n - 1 \subseteq b .. n - 1 /\ b \in b .. n - 1
    OBVIOUS
  <1> QED
    BY <1>1, <1>2, <1>3 DEF Heads

\* What is in no branch's head leaves the branches as they are.
LEMMA HeadsStay ==
  ASSUME NEW text, NEW b \in Nat, NEW n \in Nat, b < n,
         text[n].kind \notin {"elsif", "else"} \/ Enclosing(text, n) # Enclosing(text, b) \cup {b}
  PROVE  /\ Heads(text, b, n) = Heads(text, b, n - 1)
         /\ InSelected(text, b, n) <=> InSelected(text, b, n - 1)
  <1>1. \A h : h \in Heads(text, b, n) <=> h \in Heads(text, b, n - 1)
    BY HeadsStep
  <1>2. Heads(text, b, n) = Heads(text, b, n - 1)
    <2>1. \A h : h \in Heads(text, b, n) => h \in Heads(text, b, n - 1)
      BY <1>1
    <2>2. \A h : h \in Heads(text, b, n - 1) => h \in Heads(text, b, n)
      BY <1>1
    <2> QED
      BY <2>1, <2>2
  <1> QED
    BY <1>2 DEF InSelected

\* The branch that begins at line n is selected if it is the first that may be.
LEMMA HeadsBegin ==
  ASSUME NEW text, NEW b \in Nat, NEW n \in Nat, b < n,
         text[n].kind \in {"elsif", "else"}, Enclosing(text, n) = Enclosing(text, b) \cup {b}
  PROVE  /\ (\E h \in Heads(text, b, n) : Holds(text[h]))
               <=> Holds(text[n]) \/ \E h \in Heads(text, b, n - 1) : Holds(text[h])
         /\ InSelected(text, b, n)
               <=> Holds(text[n]) /\ ~ \E h \in Heads(text, b, n - 1) : Holds(text[h])
  <1>1. \A h : h \in Heads(text, b, n) <=> h \in Heads(text, b, n - 1) \/ h = n
    BY HeadsStep
  <1>2. \A h \in Heads(text, b, n - 1) : h < n /\ ~(n < h) /\ h # n
    <2>1. \A h \in b .. n - 1 : h < n /\ ~(n < h) /\ h # n
      OBVIOUS
    <2>2. Heads(text, b, n - 1) \subseteq b .. n - 1
      BY HeadsStep
    <2> QED
      BY <2>1, <2>2
  <1> QED
    BY <1>1, <1>2 DEF InSelected

\* The line that opens a block begins its first branch.
LEMMA HeadsOpen ==
  ASSUME NEW text, NEW n \in Nat
  PROVE  /\ (\E h \in Heads(text, n, n) : Holds(text[h])) <=> Holds(text[n])
         /\ InSelected(text, n, n) <=> Holds(text[n])
  <1>1. Heads(text, n, n) = {n}
    <2>1. n <= n
      OBVIOUS
    <2> QED
      BY <2>1, HeadsStep
  <1> QED
    BY <1>1 DEF InSelected

\* What makes blocks, counted without the outermost level.
LEMMA BlocksBy ==
  ASSUME NEW text, NEW n \in Nat \ {0}, NEW ls, NEW E \in Nat, Len(ls) = E + 1, NEW o,
         o \in [1 .. E -> 1 .. n],
         \A i, j \in 1 .. E : i < j => o[i] < o[j],
         Enclosing(text, n + 1) = {o[j] : j \in 1 .. E},
         \A j \in 1 .. E : Enclosing(text, o[j]) = {o[i] : i \in 1 .. j - 1},
         \A j \in 1 .. E :
            Count(text, o[j], n, Opening) = Count(text, o[j], n, {"endif"}) + (E + 1 - j),
         ls[1] = Outside,
         \A j \in 1 .. E :
            /\ ls[j + 1].taken <=> ls[j].active /\ \E h \in Heads(text, o[j], n) : Holds(text[h])
            /\ ls[j + 1].active <=> ls[j].active /\ InSelected(text, o[j], n)
  PROVE  Blocks(text, n + 1, ls, o)
  <1> DEFINE k == (n + 1) - 1
             F == Len(ls) - 1
  <1>1. k = n /\ F = E
    OBVIOUS
  <1>2. /\ o \in [1 .. F -> 1 .. k]
        /\ \A i, j \in 1 .. F : i < j => o[i] < o[j]
        /\ Enclosing(text, n + 1) = {o[j] : j \in 1 .. F}
        /\ \A j \in 1 .. F : Enclosing(text, o[j]) = {o[i] : i \in 1 .. j - 1}
    BY <1>1
  <1>3. \A j \in 1 .. F : Count(text, o[j], k, Opening) = Count(text, o[j], k, {"endif"}) + (Len(ls) - j)
    BY <1>1
  <1>4. \A j \in 1 .. F :
            /\ ls[j + 1].taken <=> ls[j].active /\ \E h \in Heads(text, o[j], k) : Holds(text[h])
            /\ ls[j + 1].active <=> ls[j].active /\ InSelected(text, o[j], k)
    <2> HIDE DEF k, F
    <2> QED
      BY <1>1
  <1> QED
    BY <1>2, <1>3, <1>4 DEF Blocks

\* A block that is around a line, and what is open in it after the line.
LEMMA BlockFacts ==
  ASSUME NEW text, NEW n \in Nat \ {0}, NEW ls \in Seq(Level), ls # <<>>, NEW o,
         Blocks(text, n, ls, o), NEW j \in 1 .. Len(ls) - 1
  PROVE  /\ o[j] \in Nat /\ o[j] < n /\ o[j] \in 1 .. n - 1 /\ o[j] \in 1 .. (n + 1) - 1
         /\ o[j] \in Enclosing(text, n) /\ Count(text, o[j], n, {"endif"}) \in Nat
         /\ Count(text, o[j], n, Opening)
               = Count(text, o[j], n, {"endif"}) + (Len(ls) - j)
                    + (IF text[n].kind \in Opening THEN 1 ELSE 0)
                    - (IF text[n].kind = "endif" THEN 1 ELSE 0)
  <1> DEFINE b == o[j]
  <1>1. b \in 1 .. n - 1 /\ b \in Enclosing(text, n)
        /\ Count(text, b, n - 1, Opening) = Count(text, b, n - 1, {"endif"}) + (Len(ls) - j)
    BY DEF Blocks
  <1> HIDE DEF b
  <1>2. b \in Nat /\ b < n /\ b <= n /\ b \in 1 .. (n + 1) - 1
    BY <1>1
  <1>3. /\ Count(text, b, n - 1, Opening) \in Nat /\ Count(text, b, n, Opening) \in Nat
        /\ Count(text, b, n, Opening)
              = Count(text, b, n - 1, Opening) + (IF text[n].kind \in Opening THEN 1 ELSE 0)
    BY <1>2, CountStep
  <1>4. /\ Count(text, b, n - 1, {"endif"}) \in Nat /\ Count(text, b, n, {"endif"}) \in Nat
        /\ Count(text, b, n, {"endif"})
              = Count(text, b, n - 1, {"endif"}) + (IF text[n].kind = "endif" THEN 1 ELSE 0)
    <2> DEFINE K == {"endif"}
    <2>1. text[n].kind \in K <=> text[n].kind = "endif"
      OBVIOUS
    <2> HIDE DEF K
    <2>2. /\ Count(text, b, n - 1, K) \in Nat /\ Count(text, b, n, K) \in Nat
          /\ Count(text, b, n, K) = Count(text, b, n - 1, K) + (IF text[n].kind \in K THEN 1 ELSE 0)
      BY <1>2, CountStep
    <2>3. /\ Count(text, b, n - 1, K) \in Nat /\ Count(text, b, n, K) \in Nat
          /\ Count(text, b, n, K)
                = Count(text, b, n - 1, K) + (IF text[n].kind = "endif" THEN 1 ELSE 0)
      BY <2>1, <2>2
    <2> QED
      BY <2>3 DEF K
  <1>5. Len(ls) \in Nat
    BY LenProperties
  <1>6. Count(text, b, n, Opening)
           = Count(text, b, n, {"endif"}) + (Len(ls) - j)
                + (IF text[n].kind \in Opening THEN 1 ELSE 0)
                - (IF text[n].kind = "endif" THEN 1 ELSE 0)
    <2> DEFINE up == IF text[n].kind \in Opening THEN 1 ELSE 0
               down == IF text[n].kind = "endif" THEN 1 ELSE 0
               before == Count(text, b, n - 1, Opening)
               after == Count(text, b, n, Opening)
               ended == Count(text, b, n - 1, {"endif"})
               endedNow == Count(text, b, n, {"endif"})
               deeper == Len(ls) - j
    <2>1. /\ up \in Int /\ down \in Int /\ deeper \in Int
          /\ before \in Int /\ after \in Int /\ ended \in Int /\ endedNow \in Int
      BY <1>3, <1>4, <1>5
    <2>2. before = ended + deeper /\ after = before + up /\ endedNow = ended + down
      BY <1>1, <1>3, <1>4
    <2> HIDE DEF up, down, before, after, ended, endedNow, deeper
    <2>3. after = endedNow + deeper + up - down
      BY <2>1, <2>2
    <2> QED
      BY <2>3 DEF up, down, after, endedNow, deeper
  <1> QED
    BY <1>1, <1>2, <1>4, <1>6 DEF b

\* A line that opens, parts and closes no block.
LEMMA BlocksStay ==
  ASSUME NEW text, NEW n \in Nat \ {0}, NEW ls \in Seq(Level), ls # <<>>, NEW o,
         Blocks(text, n, ls, o), text[n].kind \notin Opening \cup {"elsif", "else", "endif"}
  PROVE  Blocks(text, n + 1, ls, o)
  <1> DEFINE D == Len(ls)
  <1>1. D \in Nat \ {0}
    BY EmptySeq, LenProperties
  <1>2. \A j \in 1 .. D - 1 :
           /\ o[j] \in Nat /\ o[j] < n /\ o[j] \in 1 .. (n + 1) - 1 /\ o[j] \in Enclosing(text, n)
           /\ Count(text, o[j], n, {"endif"}) \in Nat
           /\ Count(text, o[j], n, Opening) = Count(text, o[j], n, {"endif"}) + (D - j)
    <2> SUFFICES ASSUME NEW j \in 1 .. D - 1
                 PROVE  /\ o[j] \in Nat /\ o[j] < n /\ o[j] \in 1 .. (n + 1) - 1
                        /\ o[j] \in Enclosing(text, n) /\ Count(text, o[j], n, {"endif"}) \in Nat
                        /\ Count(text, o[j], n, Opening) = Count(text, o[j], n, {"endif"}) + (D - j)
      OBVIOUS
    <2>1. text[n].kind \notin Opening /\ text[n].kind # "endif"
      OBVIOUS
    <2> QED
      BY <1>1, <2>1, BlockFacts
  <1>3. Enclosing(text, n + 1) = {o[j] : j \in 1 .. D - 1}
    <2>1. \A b \in Enclosing(text, n) : Count(text, b, n, Opening) > Count(text, b, n, {"endif"})
      <3>1. Enclosing(text, n) = {o[j] : j \in 1 .. D - 1}
        BY DEF Blocks
      <3> SUFFICES ASSUME NEW j \in 1 .. D - 1
                   PROVE  Count(text, o[j], n, Opening) > Count(text, o[j], n, {"endif"})
        BY <3>1
      <3>2. Count(text, o[j], n, Opening) = Count(text, o[j], n, {"endif"}) + (D - j)
            /\ Count(text, o[j], n, {"endif"}) \in Nat
        BY <1>2
      <3> HIDE DEF D
      <3> QED
        BY <1>1, <3>2
    <2>2. \A b : b \in Enclosing(text, n + 1) <=> b \in Enclosing(text, n)
      BY <2>1, EnclosingStep
    <2>3. Enclosing(text, n + 1) = Enclosing(text, n)
      BY <2>2, SetEquality
    <2> QED
      BY <2>3 DEF Blocks
  <1>4. \A j \in 1 .. D - 1 :
           /\ Heads(text, o[j], (n + 1) - 1) = Heads(text, o[j], n - 1)
           /\ InSelected(text, o[j], (n + 1) - 1) <=> InSelected(text, o[j], n - 1)
    <2>1. (n + 1) - 1 = n
      OBVIOUS
    <2>2. \A j \in 1 .. D - 1 :
             /\ Heads(text, o[j], n) = Heads(text, o[j], n - 1)
             /\ InSelected(text, o[j], n) <=> InSelected(text, o[j], n - 1)
      BY <1>2, HeadsStay
    <2> QED
      BY <2>1, <2>2
  <1>5. o \in [1 .. D - 1 -> 1 .. (n + 1) - 1]
    BY <1>2 DEF Blocks
  <1>6. \A j \in 1 .. D - 1 :
           Count(text, o[j], (n + 1) - 1, Opening) = Count(text, o[j], (n + 1) - 1, {"endif"}) + (D - j)
    <2>1. (n + 1) - 1 = n
      OBVIOUS
    <2> QED
      BY <1>2, <2>1
  <1>7. /\ \A i, j \in 1 .. D - 1 : i < j => o[i] < o[j]
        /\ \A j \in 1 .. D - 1 : Enclosing(text, o[j]) = {o[i] : i \in 1 .. j - 1}
        /\ ls[1] = Outside
        /\ \A j \in 1 .. D - 1 :
              /\ ls[j + 1].taken <=>
                    ls[j].active /\ \E h \in Heads(text, o[j], (n + 1) - 1) : Holds(text[h])
              /\ ls[j + 1].active <=> ls[j].active /\ InSelected(text, o[j], (n + 1) - 1)
    BY <1>4 DEF Blocks
  <1> QED
    BY <1>3, <1>5, <1>6, <1>7 DEF Blocks

\* A line that parts the innermost block.
LEMMA BlocksPart ==
  ASSUME NEW text, NEW n \in Nat \ {0}, NEW ls \in Seq(Level), Len(ls) > 1, NEW o,
         Blocks(text, n, ls, o), text[n].kind \in {"elsif", "else"},
         NEW new \in Level,
         new.active <=> ls[Len(ls) - 1].active /\ ~ls[Len(ls)].taken /\ Holds(text[n]),
         new.taken <=> ls[Len(ls)].taken \/ new.active
  PROVE  Blocks(text, n + 1, [ls EXCEPT ![Len(ls)] = new], o)
  <1> DEFINE D == Len(ls)
             m == [ls EXCEPT ![D] = new]
  <1>1. D \in Nat /\ D > 1 /\ D \in 1 .. D /\ D - 1 \in 1 .. D - 1 /\ ls # <<>> /\ D - 1 + 1 = D
        /\ D - 1 # D
    BY EmptySeq, LenProperties
  <1>2. /\ Len(m) = D
        /\ m[D] = new /\ \A j \in 1 .. D : j # D => m[j] = ls[j]
    <2> HIDE DEF D
    <2>1. Len(ls) = D
      BY DEF D
    <2> QED
      BY <1>1, <2>1, ExceptSeq
  <1>3. text[n].kind \notin Opening /\ text[n].kind # "endif"
    BY DEF Opening
  <1>4. \A j \in 1 .. D - 1 :
           /\ o[j] \in Nat /\ o[j] < n /\ o[j] \in 1 .. n /\ o[j] \in Enclosing(text, n)
           /\ Count(text, o[j], n, {"endif"}) \in Nat
           /\ Count(text, o[j], n, Opening) = Count(text, o[j], n, {"endif"}) + (D - j)
    <2> SUFFICES ASSUME NEW j \in 1 .. D - 1
                 PROVE  /\ o[j] \in Nat /\ o[j] < n /\ o[j] \in 1 .. n
                        /\ o[j] \in Enclosing(text, n) /\ Count(text, o[j], n, {"endif"}) \in Nat
                        /\ Count(text, o[j], n, Opening) = Count(text, o[j], n, {"endif"}) + (D - j)
      OBVIOUS
    <2> HIDE DEF m
    <2>0. ls # <<>> /\ j \in 1 .. Len(ls) - 1
      BY <1>1
    <2>1. /\ o[j] \in Nat /\ o[j] < n /\ o[j] \in 1 .. n - 1
          /\ o[j] \in Enclosing(text, n) /\ Count(text, o[j], n, {"endif"}) \in Nat
          /\ Count(text, o[j], n, Opening)
                = Count(text, o[j], n, {"endif"}) + (D - j)
                     + (IF text[n].kind \in Opening THEN 1 ELSE 0)
                     - (IF text[n].kind = "endif" THEN 1 ELSE 0)
      BY <2>0, BlockFacts
    <2> HIDE DEF D
    <2>2. Count(text, o[j], n, Opening) = Count(text, o[j], n, {"endif"}) + (D - j)
      BY <1>1, <1>3, <2>1
    <2> QED
      BY <2>1, <2>2
  <1>5. /\ Enclosing(text, n) = {o[j] : j \in 1 .. D - 1}
        /\ \A i, j \in 1 .. D - 1 : i < j => o[i] < o[j]
        /\ \A j \in 1 .. D - 1 : Enclosing(text, o[j]) = {o[i] : i \in 1 .. j - 1}
        /\ ls[1] = Outside
        /\ \A j \in 1 .. D - 1 :
              /\ ls[j + 1].taken <=>
                    ls[j].active /\ \E h \in Heads(text, o[j], n - 1) : Holds(text[h])
              /\ ls[j + 1].active <=> ls[j].active /\ InSelected(text, o[j], n - 1)
    BY DEF Blocks
  <1> HIDE DEF D, m
  <1>6. Enclosing(text, n + 1) = {o[j] : j \in 1 .. D - 1}
    <2>1. \A b \in Enclosing(text, n) : Count(text, b, n, Opening) > Count(text, b, n, {"endif"})
      <3> SUFFICES ASSUME NEW j \in 1 .. D - 1
                   PROVE  Count(text, o[j], n, Opening) > Count(text, o[j], n, {"endif"})
        BY <1>5
      <3>2. Count(text, o[j], n, Opening) = Count(text, o[j], n, {"endif"}) + (D - j)
            /\ Count(text, o[j], n, {"endif"}) \in Nat
        BY <1>4
      <3> QED
        BY <1>1, <3>2
    <2>2. \A b : b \in Enclosing(text, n + 1) <=> b \in Enclosing(text, n)
      BY <1>3, <2>1, EnclosingStep
    <2> QED
      BY <1>5, <2>2, SetEquality
  <1>7. Enclosing(text, n) = Enclosing(text, o[D - 1]) \cup {o[D - 1]}
    <2>1. \A x : x \in Enclosing(text, n) <=> x \in Enclosing(text, o[D - 1]) \cup {o[D - 1]}
      <3>1. \A j : j \in 1 .. D - 1 <=> j \in 1 .. (D - 1) - 1 \/ j = D - 1
        BY <1>1
      <3>2. Enclosing(text, o[D - 1]) = {o[i] : i \in 1 .. (D - 1) - 1}
        BY <1>1, <1>5
      <3>3. Enclosing(text, n) = {o[j] : j \in 1 .. D - 1}
        BY <1>5
      <3> QED
        BY <3>1, <3>2, <3>3
    <2> QED
      BY <2>1, SetEquality
  <1>8. ASSUME NEW j \in 1 .. D - 1, j # D - 1
        PROVE  Enclosing(text, n) # Enclosing(text, o[j]) \cup {o[j]}
    <2>1. o[D - 1] \in Enclosing(text, n)
      BY <1>1, <1>4
    <2>2. \A i \in 1 .. D - 1 : i # D - 1 => o[i] # o[D - 1]
      <3>1. \A i \in 1 .. D - 1 : i # D - 1 => i < D - 1
        BY <1>1
      <3>2. \A i \in 1 .. D - 1 : i # D - 1 => o[i] < o[D - 1] /\ o[i] \in Nat /\ o[D - 1] \in Nat
        BY <1>1, <1>4, <1>5, <3>1
      <3> QED
        BY <3>2
    <2>3. \A i \in 1 .. j - 1 : i \in 1 .. D - 1 /\ i # D - 1
      BY <1>1, <1>8
    <2>4. o[D - 1] \notin Enclosing(text, o[j]) /\ o[D - 1] # o[j]
      <3>1. Enclosing(text, o[j]) = {o[i] : i \in 1 .. j - 1}
        BY <1>5
      <3> QED
        BY <1>8, <2>2, <2>3, <3>1
    <2> QED
      BY <2>1, <2>4
  <1>9. \A j \in 1 .. D - 1 :
           /\ m[j + 1].taken <=> m[j].active /\ \E h \in Heads(text, o[j], n) : Holds(text[h])
           /\ m[j + 1].active <=> m[j].active /\ InSelected(text, o[j], n)
    <2>1. CASE D - 1 \in 1 .. D - 1
      <3>1. m[D] = new /\ m[D - 1] = ls[D - 1]
        <4>1. D - 1 \in 1 .. D
          BY <1>1
        <4> QED
          BY <1>1, <1>2, <4>1
      <3>2. /\ new.taken <=>
                  ls[D - 1].active /\ \E h \in Heads(text, o[D - 1], n) : Holds(text[h])
            /\ new.active <=> ls[D - 1].active /\ InSelected(text, o[D - 1], n)
        <4>1. /\ (\E h \in Heads(text, o[D - 1], n) : Holds(text[h]))
                    <=> Holds(text[n]) \/ \E h \in Heads(text, o[D - 1], n - 1) : Holds(text[h])
              /\ InSelected(text, o[D - 1], n)
                    <=> Holds(text[n]) /\ ~ \E h \in Heads(text, o[D - 1], n - 1) : Holds(text[h])
          BY <1>4, <1>7, <2>1, HeadsBegin
        <4>2. ls[D].taken <=>
                 ls[D - 1].active /\ \E h \in Heads(text, o[D - 1], n - 1) : Holds(text[h])
          BY <1>1, <1>5, <2>1
        <4>3. /\ new.active <=> ls[D - 1].active /\ ~ls[D].taken /\ Holds(text[n])
              /\ new.taken <=> ls[D].taken \/ new.active
          BY DEF D
        <4> QED
          BY <4>1, <4>2, <4>3
      <3>3. ASSUME NEW j \in 1 .. D - 1, j # D - 1
            PROVE  /\ m[j + 1].taken <=> m[j].active /\ \E h \in Heads(text, o[j], n) : Holds(text[h])
                   /\ m[j + 1].active <=> m[j].active /\ InSelected(text, o[j], n)
        <4>1. j \in 1 .. D /\ j # D /\ j + 1 \in 1 .. D /\ j + 1 # D
          BY <1>1, <3>3
        <4>2. m[j] = ls[j] /\ m[j + 1] = ls[j + 1]
          BY <1>2, <4>1
        <4>3. /\ Heads(text, o[j], n) = Heads(text, o[j], n - 1)
              /\ InSelected(text, o[j], n) <=> InSelected(text, o[j], n - 1)
          BY <1>4, <1>8, <3>3, HeadsStay
        <4> QED
          BY <1>5, <4>2, <4>3
      <3> QED
        BY <1>1, <3>1, <3>2, <3>3
    <2> QED
      BY <1>1, <2>1
  <1>10. (n + 1) - 1 = n /\ m[1] = Outside
    BY <1>1, <1>2, <1>5
  <1>11. o \in [1 .. D - 1 -> 1 .. n]
    BY <1>4 DEF Blocks, D
  <1>12. Blocks(text, n + 1, m, o)
    <2> DEFINE E == D - 1
    <2>1. E \in Nat /\ Len(m) = E + 1
      BY <1>1, <1>2
    <2>2. \A j \in 1 .. E : Count(text, o[j], n, Opening) = Count(text, o[j], n, {"endif"}) + (E + 1 - j)
      <3> TAKE j \in 1 .. E
      <3>1. E + 1 - j = D - j
        BY <1>1
      <3> QED
        BY <1>4, <3>1
    <2>3. /\ o \in [1 .. E -> 1 .. n] /\ Enclosing(text, n + 1) = {o[j] : j \in 1 .. E}
          /\ \A i, j \in 1 .. E : i < j => o[i] < o[j]
          /\ \A j \in 1 .. E : Enclosing(text, o[j]) = {o[i] : i \in 1 .. j - 1}
      BY <1>5, <1>6, <1>11
    <2>4. \A j \in 1 .. E :
            /\ m[j + 1].taken <=> m[j].active /\ \E h \in Heads(text, o[j], n) : Holds(text[h])
            /\ m[j + 1].active <=> m[j].active /\ InSelected(text, o[j], n)
      BY <1>9
    <2> HIDE DEF E
    <2> QED
      BY <1>10, <2>1, <2>2, <2>3, <2>4, BlocksBy
  <1> QED
    BY <1>12 DEF m, D

\* A line that opens a block.
LEMMA BlocksOpened ==
  ASSUME NEW text, NEW n \in Nat \ {0}, NEW ls \in Seq(Level), ls # <<>>, NEW o,
         Blocks(text, n, ls, o), text[n].kind \in Opening,
         NEW new \in Level,
         new.active <=> ls[Len(ls)].active /\ Holds(text[n]),
         new.taken <=> new.active
  PROVE  \E p : Blocks(text, n + 1, Append(ls, new), p)
  <1> DEFINE D == Len(ls)
             m == Append(ls, new)
             p == [j \in 1 .. D |-> IF j = D THEN n ELSE o[j]]
  <1>1. D \in Nat \ {0} /\ D \in 1 .. D /\ \A j \in 1 .. D - 1 : j \in 1 .. D /\ j # D
    BY EmptySeq, LenProperties
  <1>2. Len(m) = D + 1 /\ m[D + 1] = new /\ \A j \in 1 .. D : m[j] = ls[j]
    OBVIOUS
  <1>3. text[n].kind \notin {"elsif", "else"} /\ text[n].kind # "endif"
    BY DEF Opening
  <1>4. ASSUME NEW j \in 1 .. D - 1
        PROVE  /\ o[j] \in Nat /\ o[j] < n /\ o[j] \in 1 .. n - 1
               /\ o[j] \in Enclosing(text, n) /\ Count(text, o[j], n, {"endif"}) \in Nat
               /\ Count(text, o[j], n, Opening) = Count(text, o[j], n, {"endif"}) + (D + 1 - j)
    <2> HIDE DEF m, p
    <2>0. j \in 1 .. Len(ls) - 1
      BY <1>1
    <2>1. /\ o[j] \in Nat /\ o[j] < n /\ o[j] \in 1 .. n - 1
          /\ o[j] \in Enclosing(text, n) /\ Count(text, o[j], n, {"endif"}) \in Nat
          /\ Count(text, o[j], n, Opening)
                = Count(text, o[j], n, {"endif"}) + (D - j)
                     + (IF text[n].kind \in Opening THEN 1 ELSE 0)
                     - (IF text[n].kind = "endif" THEN 1 ELSE 0)
      BY <2>0, BlockFacts
    <2> HIDE DEF D
    <2>2. Count(text, o[j], n, Opening) = Count(text, o[j], n, {"endif"}) + (D + 1 - j)
      BY <1>1, <1>3, <2>1
    <2> QED
      BY <2>1, <2>2
  <1>5. /\ Enclosing(text, n) = {o[j] : j \in 1 .. D - 1}
        /\ \A i, j \in 1 .. D - 1 : i < j => o[i] < o[j]
        /\ \A j \in 1 .. D - 1 : Enclosing(text, o[j]) = {o[i] : i \in 1 .. j - 1}
        /\ ls[1] = Outside
        /\ \A j \in 1 .. D - 1 :
              /\ ls[j + 1].taken <=>
                    ls[j].active /\ \E h \in Heads(text, o[j], n - 1) : Holds(text[h])
              /\ ls[j + 1].active <=> ls[j].active /\ InSelected(text, o[j], n - 1)
    BY DEF Blocks
  <1>6. /\ p[D] = n /\ \A j \in 1 .. D - 1 : p[j] = o[j]
        /\ \A j \in 1 .. D : p[j] = IF j = D THEN n ELSE o[j]
    BY <1>1
  <1>7. /\ new.active <=> ls[D].active /\ Holds(text[n])
        /\ new.taken <=> new.active
    OBVIOUS
  <1>8. \A j \in 1 .. D : j = D \/ j \in 1 .. D - 1
    BY <1>1
  <1>9. /\ Count(text, n, n, Opening) = 1 /\ Count(text, n, n, {"endif"}) = 0
    <2>1. \A kinds : Count(text, n, n, kinds) = IF text[n].kind \in kinds THEN 1 ELSE 0
      BY CountOne
    <2>2. Count(text, n, n, Opening) = IF text[n].kind \in Opening THEN 1 ELSE 0
      BY <2>1
    <2>3. Count(text, n, n, {"endif"}) = IF text[n].kind \in {"endif"} THEN 1 ELSE 0
      BY <2>1
    <2> QED
      BY <1>3, <2>2, <2>3
  <1> HIDE DEF D, m, p
  <1>10. Enclosing(text, n + 1) = {p[j] : j \in 1 .. D}
    <2>1. \A j \in 1 .. D - 1 : Count(text, o[j], n, Opening) > Count(text, o[j], n, {"endif"})
      <3> TAKE j \in 1 .. D - 1
      <3>1. Count(text, o[j], n, Opening) = Count(text, o[j], n, {"endif"}) + (D + 1 - j)
            /\ Count(text, o[j], n, {"endif"}) \in Nat
        BY <1>4
      <3> QED
        BY <1>1, <3>1
    <2>2. \A b \in Enclosing(text, n) : Count(text, b, n, Opening) > Count(text, b, n, {"endif"})
      BY <1>5, <2>1
    <2>3. Count(text, n, n, Opening) > Count(text, n, n, {"endif"})
      BY <1>9
    <2>4. \A b : b \in Enclosing(text, n + 1) <=> b \in Enclosing(text, n) \/ b = n
      BY <2>2, <2>3, EnclosingStep
    <2>5. \A b : b \in {p[j] : j \in 1 .. D} <=> b \in Enclosing(text, n) \/ b = n
      <3>1. \A b : b \in Enclosing(text, n) <=> \E j \in 1 .. D - 1 : b = o[j]
        BY <1>5
      <3>2. \A b : b \in {p[j] : j \in 1 .. D} <=> \E j \in 1 .. D : b = p[j]
        OBVIOUS
      <3> QED
        BY <1>1, <1>6, <1>8, <3>1, <3>2
    <2> QED
      BY <2>4, <2>5, SetEquality
  <1>11. p \in [1 .. D -> 1 .. n]
    <2>1. \A j \in 1 .. D - 1 : o[j] \in 1 .. n
      BY <1>4
    <2>2. n \in 1 .. n
      OBVIOUS
    <2> QED
      BY <2>1, <2>2, <1>8 DEF p
  <1>12. \A i, j \in 1 .. D : i < j => p[i] < p[j]
    <2> SUFFICES ASSUME NEW i \in 1 .. D, NEW j \in 1 .. D, i < j PROVE p[i] < p[j]
      OBVIOUS
    <2>1. i \in 1 .. D - 1
      BY <1>1
    <2>2. p[i] = o[i] /\ o[i] < n
      BY <1>4, <1>6, <2>1
    <2> QED
      BY <1>5, <1>6, <1>8, <2>1, <2>2
  <1>13. \A j \in 1 .. D : Enclosing(text, p[j]) = {p[i] : i \in 1 .. j - 1}
    <2> SUFFICES ASSUME NEW j \in 1 .. D PROVE Enclosing(text, p[j]) = {p[i] : i \in 1 .. j - 1}
      OBVIOUS
    <2>1. {p[i] : i \in 1 .. j - 1} = {o[i] : i \in 1 .. j - 1}
      <3>1. \A i \in 1 .. j - 1 : p[i] = o[i]
        <4>1. \A i \in 1 .. j - 1 : i \in 1 .. D - 1
          BY <1>1
        <4> QED
          BY <1>6, <4>1
      <3> QED
        BY <3>1
    <2>2. CASE j = D
      BY <1>5, <1>6, <2>1, <2>2
    <2>3. CASE j \in 1 .. D - 1
      BY <1>5, <1>6, <2>1, <2>3
    <2> QED
      BY <1>8, <2>2, <2>3
  <1>14. \A j \in 1 .. D :
            Count(text, p[j], n, Opening) = Count(text, p[j], n, {"endif"}) + (D + 1 - j)
    <2>1. D + 1 - D = 1
      BY <1>1
    <2> QED
      BY <1>4, <1>6, <1>8, <1>9, <2>1
  <1>15. \A j \in 1 .. D :
            /\ m[j + 1].taken <=> m[j].active /\ \E h \in Heads(text, p[j], n) : Holds(text[h])
            /\ m[j + 1].active <=> m[j].active /\ InSelected(text, p[j], n)
    <2>1. ASSUME NEW j \in 1 .. D - 1
          PROVE  /\ m[j + 1].taken <=> m[j].active /\ \E h \in Heads(text, p[j], n) : Holds(text[h])
                 /\ m[j + 1].active <=> m[j].active /\ InSelected(text, p[j], n)
      <3>1. j \in 1 .. D /\ j + 1 \in 1 .. D
        BY <1>1
      <3>2. m[j] = ls[j] /\ m[j + 1] = ls[j + 1] /\ p[j] = o[j]
        BY <1>2, <1>6, <3>1
      <3>3. /\ Heads(text, o[j], n) = Heads(text, o[j], n - 1)
            /\ InSelected(text, o[j], n) <=> InSelected(text, o[j], n - 1)
        BY <1>3, <1>4, HeadsStay
      <3> QED
        BY <1>5, <3>2, <3>3
    <2>2. /\ m[D + 1].taken <=> m[D].active /\ \E h \in Heads(text, p[D], n) : Holds(text[h])
          /\ m[D + 1].active <=> m[D].active /\ InSelected(text, p[D], n)
      <3>1. m[D] = ls[D] /\ m[D + 1] = new /\ p[D] = n
        BY <1>1, <1>2, <1>6
      <3> QED
        BY <1>7, <3>1, HeadsOpen
    <2> QED
      BY <1>8, <2>1, <2>2
  <1>16. m[1] = Outside /\ D \in Nat /\ Len(m) = D + 1
    BY <1>1, <1>2, <1>5
  <1>17. Blocks(text, n + 1, m, p)
    BY <1>10, <1>11, <1>12, <1>13, <1>14, <1>15, <1>16, BlocksBy
  <1> QED
    BY <1>17 DEF m

\* A line that closes the innermost block.
LEMMA BlocksClosed ==
  ASSUME NEW text, NEW n \in Nat \ {0}, NEW ls \in Seq(Level), Len(ls) > 1, NEW o,
         Blocks(text, n, ls, o), text[n].kind = "endif"
  PROVE  \E p : Blocks(text, n + 1, SubSeq(ls, 1, Len(ls) - 1), p)
  <1> DEFINE D == Len(ls)
             E == D - 1 - 1
             m == SubSeq(ls, 1, D - 1)
             p == [j \in 1 .. E |-> o[j]]
  <1>1. /\ D \in Nat /\ D > 1 /\ ls # <<>> /\ E \in Nat /\ D - 1 = E + 1
        /\ \A j \in 1 .. E : j \in 1 .. D - 1 /\ j \in 1 .. D /\ j + 1 \in 1 .. D - 1 /\ j \in 1 .. D - 1
        /\ \A j \in 1 .. D - 1 : (j \in 1 .. E <=> D - j - 1 > 0) /\ j \in 1 .. D
    BY EmptySeq, LenProperties
  <1>2. Len(m) = E + 1 /\ \A j \in 1 .. D - 1 : m[j] = ls[j]
    <2>1. \A i \in 1 .. D - 1 : ls[i] \in Level
      BY <1>1, ElementOfSeq
    <2> QED
      BY <1>1, <2>1, SubSeqProperties
  <1>3. text[n].kind \notin {"elsif", "else"} /\ text[n].kind \notin Opening
    BY DEF Opening
  <1>4. ASSUME NEW j \in 1 .. D - 1
        PROVE  /\ o[j] \in Nat /\ o[j] < n /\ o[j] \in 1 .. n
               /\ o[j] \in Enclosing(text, n) /\ Count(text, o[j], n, {"endif"}) \in Nat
               /\ Count(text, o[j], n, Opening) = Count(text, o[j], n, {"endif"}) + (D - j - 1)
    <2> HIDE DEF m, p, E
    <2>1. j \in 1 .. Len(ls) - 1 /\ ls # <<>>
      BY <1>1
    <2>2. /\ o[j] \in Nat /\ o[j] < n /\ o[j] \in 1 .. n - 1
          /\ o[j] \in Enclosing(text, n) /\ Count(text, o[j], n, {"endif"}) \in Nat
          /\ Count(text, o[j], n, Opening)
                = Count(text, o[j], n, {"endif"}) + (D - j)
                     + (IF text[n].kind \in Opening THEN 1 ELSE 0)
                     - (IF text[n].kind = "endif" THEN 1 ELSE 0)
      BY <2>1, BlockFacts
    <2> HIDE DEF D
    <2>3. Count(text, o[j], n, Opening) = Count(text, o[j], n, {"endif"}) + (D - j - 1)
      BY <1>1, <1>3, <2>2
    <2> QED
      BY <2>2, <2>3
  <1>5. /\ Enclosing(text, n) = {o[j] : j \in 1 .. D - 1}
        /\ \A i, j \in 1 .. D - 1 : i < j => o[i] < o[j]
        /\ \A j \in 1 .. D - 1 : Enclosing(text, o[j]) = {o[i] : i \in 1 .. j - 1}
        /\ ls[1] = Outside
        /\ \A j \in 1 .. D - 1 :
              /\ ls[j + 1].taken <=>
                    ls[j].active /\ \E h \in Heads(text, o[j], n - 1) : Holds(text[h])
              /\ ls[j + 1].active <=> ls[j].active /\ InSelected(text, o[j], n - 1)
    BY DEF Blocks
  <1>6. \A j \in 1 .. E : p[j] = o[j]
    OBVIOUS
  <1> HIDE DEF D, E, m
  <1>7. p \in [1 .. E -> 1 .. n]
    BY <1>1, <1>4
  <1> HIDE DEF p
  <1>8. Enclosing(text, n + 1) = {p[j] : j \in 1 .. E}
    <2>1. \A j \in 1 .. D - 1 :
             Count(text, o[j], n, Opening) > Count(text, o[j], n, {"endif"}) <=> j \in 1 .. E
      <3> TAKE j \in 1 .. D - 1
      <3>1. /\ Count(text, o[j], n, Opening) = Count(text, o[j], n, {"endif"}) + (D - j - 1)
            /\ Count(text, o[j], n, {"endif"}) \in Nat
        BY <1>4
      <3>2. D - j - 1 \in Int
        BY <1>1
      <3>3. Count(text, o[j], n, Opening) > Count(text, o[j], n, {"endif"}) <=> D - j - 1 > 0
        BY <3>1, <3>2
      <3> QED
        BY <1>1, <3>3
    <2>2. \A b : b \in Enclosing(text, n + 1) <=>
             b \in Enclosing(text, n) /\ Count(text, b, n, Opening) > Count(text, b, n, {"endif"})
      BY <1>3, EnclosingStep
    <2>3. \A b : b \in Enclosing(text, n + 1) <=> b \in {p[j] : j \in 1 .. E}
      <3>1. \A b : b \in Enclosing(text, n) <=> \E j \in 1 .. D - 1 : b = o[j]
        BY <1>5
      <3>2. \A b : b \in {p[j] : j \in 1 .. E} <=> \E j \in 1 .. E : b = p[j]
        OBVIOUS
      <3> QED
        BY <1>1, <1>6, <2>1, <2>2, <3>1, <3>2
    <2> QED
      BY <2>3, SetEquality
  <1>9. \A i, j \in 1 .. E : i < j => p[i] < p[j]
    BY <1>1, <1>5, <1>6
  <1>10. \A j \in 1 .. E : Enclosing(text, p[j]) = {p[i] : i \in 1 .. j - 1}
    <2> TAKE j \in 1 .. E
    <2>1. {p[i] : i \in 1 .. j - 1} = {o[i] : i \in 1 .. j - 1}
      <3>1. \A i \in 1 .. j - 1 : i \in 1 .. E
        BY <1>1
      <3>2. \A i \in 1 .. j - 1 : p[i] = o[i]
        BY <1>6, <3>1
      <3> QED
        BY <3>2
    <2> QED
      BY <1>1, <1>5, <1>6, <2>1
  <1>11. \A j \in 1 .. E :
            Count(text, p[j], n, Opening) = Count(text, p[j], n, {"endif"}) + (E + 1 - j)
    <2> TAKE j \in 1 .. E
    <2>1. E + 1 - j = D - j - 1
      BY <1>1
    <2> QED
      BY <1>1, <1>4, <1>6, <2>1
  <1>12. \A j \in 1 .. E :
            /\ m[j + 1].taken <=> m[j].active /\ \E h \in Heads(text, p[j], n) : Holds(text[h])
            /\ m[j + 1].active <=> m[j].active /\ InSelected(text, p[j], n)
    <2> TAKE j \in 1 .. E
    <2>1. j \in 1 .. D - 1 /\ m[j] = ls[j] /\ m[j + 1] = ls[j + 1] /\ p[j] = o[j]
      BY <1>1, <1>2, <1>6
    <2>2. /\ Heads(text, o[j], n) = Heads(text, o[j], n - 1)
          /\ InSelected(text, o[j], n) <=> InSelected(text, o[j], n - 1)
      BY <1>3, <1>4, <2>1, HeadsStay
    <2> QED
      BY <1>5, <2>1, <2>2
  <1>13. m[1] = Outside /\ E \in Nat
    BY <1>1, <1>2, <1>5
  <1>14. Blocks(text, n + 1, m, p)
    BY <1>2, <1>7, <1>8, <1>9, <1>10, <1>11, <1>12, <1>13, BlocksBy
  <1> QED
    BY <1>14 DEF m, D

\* Levels and blocks agree on what is selected.
LEMMA LevelsSelect ==
  ASSUME NEW text, NEW n \in Nat \ {0}, NEW ls \in Seq(Level), ls # <<>>, NEW o,
         Blocks(text, n, ls, o), text[n].kind \notin {"elsif", "else"}
  PROVE  ls[Len(ls)].active <=> Selected(text, n)
  <1> DEFINE D == Len(ls)
             T == {j \in 0 .. D - 1 :
                     ls[j + 1].active <=> \A i \in 1 .. j : InSelected(text, o[i], n - 1)}
  <1>1. D \in Nat \ {0} /\ D - 1 \in Nat /\ D - 1 + 1 = D /\ D - 1 \in 0 .. D - 1
    BY EmptySeq, LenProperties
  <1>2. /\ Enclosing(text, n) = {o[j] : j \in 1 .. D - 1}
        /\ ls[1] = Outside
        /\ \A j \in 1 .. D - 1 : o[j] \in 1 .. n - 1
        /\ \A j \in 1 .. D - 1 :
              ls[j + 1].active <=> ls[j].active /\ InSelected(text, o[j], n - 1)
    BY DEF Blocks
  <1> HIDE DEF D
  <1>3. 0 .. D - 1 \subseteq T
    <2>1. 0 \in T
      <3>1. 0 + 1 = 1 /\ 0 \in 0 .. D - 1 /\ 1 .. 0 = {}
        BY <1>1
      <3>2. ls[1].active
        BY <1>2 DEF Outside
      <3> QED
        BY <3>1, <3>2
    <2>2. ASSUME NEW j \in 1 .. D - 1, j - 1 \in T
          PROVE  j \in T
      <3>1. j \in 0 .. D - 1 /\ j - 1 + 1 = j /\ \A i : i \in 1 .. j <=> i \in 1 .. j - 1 \/ i = j
        BY <1>1
      <3>2. ls[j].active <=> \A i \in 1 .. j - 1 : InSelected(text, o[i], n - 1)
        BY <2>2, <3>1
      <3>3. ls[j + 1].active <=> ls[j].active /\ InSelected(text, o[j], n - 1)
        BY <1>2
      <3>4. ls[j + 1].active <=> \A i \in 1 .. j : InSelected(text, o[i], n - 1)
        BY <3>1, <3>2, <3>3
      <3> QED
        BY <3>1, <3>4
    <2> HIDE DEF T
    <2> QED
      BY <1>1, <2>1, <2>2, UpToInduction
  <1>4. ls[D].active <=> \A i \in 1 .. D - 1 : InSelected(text, o[i], n - 1)
    BY <1>1, <1>3
  <1>5. \A i \in 1 .. D - 1 : InSelected(text, o[i], n) <=> InSelected(text, o[i], n - 1)
    <2> TAKE i \in 1 .. D - 1
    <2>1. o[i] \in Nat /\ o[i] < n
      BY <1>2
    <2> QED
      BY <2>1, HeadsStay
  <1>6. Selected(text, n) <=> \A i \in 1 .. D - 1 : InSelected(text, o[i], n)
    BY <1>2 DEF Selected
  <1> QED
    BY <1>4, <1>5, <1>6 DEF D

-----------------------------------------------------------------------------
(* The meanings unfold: the recursive functions exist.                     *)

\* What a filelist means up to a line is what the line adds to what it meant before.
LEMMA UpToUnfolds ==
  ASSUME NEW w, NEW file, NEW base, Len(call.texts[Real(file)]) \in Nat
  PROVE  /\ UpTo(w, file, base)[0] = Nothing
         /\ \A n \in 1 .. Len(call.texts[Real(file)]) :
               UpTo(w, file, base)[n] = LineAdds(w, file, base, n, UpTo(w, file, base)[n - 1])
  <1> DEFINE N == Len(call.texts[Real(file)])
             Adds(n, before) == LineAdds(w, file, base, n, before)
             IsUpTo(f, m) == f = [n \in 0 .. m |-> IF n = 0 THEN Nothing ELSE Adds(n, f[n - 1])]
             T == {m \in 0 .. N : \E f : IsUpTo(f, m)}
  <1>1. UpTo(w, file, base) = CHOOSE f : IsUpTo(f, N)
    BY DEF UpTo
  <1>0. N \in Nat
    OBVIOUS
  <1> HIDE DEF N, Adds
  <1>2. 0 \in T
    <2> DEFINE z == [n \in 0 .. 0 |-> Nothing]
    <2>1. z = [n \in 0 .. 0 |-> IF n = 0 THEN Nothing ELSE Adds(n, z[n - 1])]
      OBVIOUS
    <2> HIDE DEF z
    <2> QED
      BY <1>0, <2>1
  <1>3. ASSUME NEW n \in 1 .. N, n - 1 \in T
        PROVE  n \in T
    <2>1. PICK f : IsUpTo(f, n - 1)
      BY <1>3
    <2> DEFINE g == [k \in 0 .. n |-> IF k = n THEN Adds(n, f[n - 1]) ELSE f[k]]
    <2>2. ASSUME NEW k \in 0 .. n
          PROVE  g[k] = IF k = 0 THEN Nothing ELSE Adds(k, g[k - 1])
      <3>1. CASE k = n
        <4>1. n - 1 \in 0 .. n /\ n - 1 # n /\ k # 0
          BY <1>0, <3>1
        <4>2. g[k - 1] = f[n - 1] /\ g[k] = Adds(n, f[n - 1])
          BY <3>1, <4>1
        <4> QED
          BY <3>1, <4>1, <4>2
      <3>2. CASE k # n
        <4>1. k \in 0 .. n - 1 /\ g[k] = f[k]
          BY <1>0, <3>2
        <4>2. f[k] = IF k = 0 THEN Nothing ELSE Adds(k, f[k - 1])
          BY <2>1, <4>1
        <4>3. k # 0 => k - 1 \in 0 .. n /\ k - 1 # n
          BY <1>0, <4>1
        <4> QED
          BY <4>1, <4>2, <4>3
      <3> QED
        BY <3>1, <3>2
    <2>3. g = [k \in 0 .. n |-> g[k]]
      OBVIOUS
    <2> HIDE DEF g
    <2>4. g = [k \in 0 .. n |-> IF k = 0 THEN Nothing ELSE Adds(k, g[k - 1])]
      BY <2>2, <2>3
    <2> QED
      BY <1>0, <2>4
  <1>4. N \in T
    <2> HIDE DEF T
    <2>1. 0 .. N \subseteq T
      BY <1>0, <1>2, <1>3, UpToInduction
    <2>2. N \in 0 .. N
      BY <1>0
    <2> QED
      BY <2>1, <2>2
  <1> DEFINE u == UpTo(w, file, base)
  <1>5. IsUpTo(u, N)
    BY <1>1, <1>4
  <1> HIDE DEF u
  <1>6. /\ u[0] = Nothing
        /\ \A n \in 1 .. N : u[n] = Adds(n, u[n - 1])
    BY <1>0, <1>5
  <1> QED
    BY <1>6 DEF u, N, Adds

\* What a filelist means is what it means up to its last line, with one filelist
\* fewer to go down to.
LEMMA WithinUnfolds ==
  ASSUME IsCall(call), NEW d \in 1 .. Deep, NEW file \in Path, NEW base \in Path
  PROVE  /\ Deep \in Nat
         /\ Within[d][<<file, base>>] = UpTo(Within[d - 1], file, base)[Len(call.texts[Real(file)])]
  <1> DEFINE All(w) == [f \in Path \X Path |-> UpTo(w, f[1], f[2])[Len(call.texts[Real(f[1])])]]
             None0 == [f \in Path \X Path |-> Nothing]
             IsWithin(h, m) == h = [k \in 0 .. m |-> IF k = 0 THEN None0 ELSE All(h[k - 1])]
             Is(h, m) == h = [k \in 0 .. m |-> [f \in Path \X Path |->
                                IF k = 0 THEN Nothing
                                ELSE UpTo(h[k - 1], f[1], f[2])[Len(call.texts[Real(f[1])])]]]
             T == {m \in 0 .. Deep : \E h : IsWithin(h, m)}
  <1>0. Deep \in Nat
    BY FS_CardinalityType DEF IsCall, Deep
  <1>1. Within = CHOOSE h : Is(h, Deep)
    BY DEF Within
  <1>2. ASSUME NEW h, NEW m
        PROVE  Is(h, m) <=> IsWithin(h, m)
    <2>1. ASSUME NEW k \in 0 .. m
          PROVE  [f \in Path \X Path |-> IF k = 0 THEN Nothing
                     ELSE UpTo(h[k - 1], f[1], f[2])[Len(call.texts[Real(f[1])])]]
                   = IF k = 0 THEN None0 ELSE All(h[k - 1])
      OBVIOUS
    <2> QED
      BY <2>1
  <1> HIDE DEF All, None0, Is
  <1>3. 0 \in T
    <2> DEFINE z == [k \in 0 .. 0 |-> None0]
    <2>1. z = [k \in 0 .. 0 |-> IF k = 0 THEN None0 ELSE All(z[k - 1])]
      OBVIOUS
    <2> HIDE DEF z
    <2> QED
      BY <1>0, <2>1
  <1>4. ASSUME NEW n \in 1 .. Deep, n - 1 \in T
        PROVE  n \in T
    <2>1. PICK h : IsWithin(h, n - 1)
      BY <1>4
    <2> DEFINE g == [k \in 0 .. n |-> IF k = n THEN All(h[n - 1]) ELSE h[k]]
    <2>2. ASSUME NEW k \in 0 .. n
          PROVE  g[k] = IF k = 0 THEN None0 ELSE All(g[k - 1])
      <3>1. CASE k = n
        <4>1. n - 1 \in 0 .. n /\ n - 1 # n /\ k # 0
          BY <1>0, <3>1
        <4>2. g[k - 1] = h[n - 1] /\ g[k] = All(h[n - 1])
          BY <3>1, <4>1
        <4> QED
          BY <3>1, <4>1, <4>2
      <3>2. CASE k # n
        <4>1. k \in 0 .. n - 1 /\ g[k] = h[k]
          BY <1>0, <3>2
        <4>2. h[k] = IF k = 0 THEN None0 ELSE All(h[k - 1])
          BY <2>1, <4>1
        <4>3. k # 0 => k - 1 \in 0 .. n /\ k - 1 # n
          BY <1>0, <4>1
        <4> QED
          BY <4>1, <4>2, <4>3
      <3> QED
        BY <3>1, <3>2
    <2>3. g = [k \in 0 .. n |-> g[k]]
      OBVIOUS
    <2> HIDE DEF g
    <2>4. g = [k \in 0 .. n |-> IF k = 0 THEN None0 ELSE All(g[k - 1])]
      BY <2>2, <2>3
    <2> QED
      BY <1>0, <2>4
  <1>5. Deep \in T
    <2> HIDE DEF T
    <2>1. 0 .. Deep \subseteq T
      BY <1>0, <1>3, <1>4, UpToInduction
    <2>2. Deep \in 0 .. Deep
      BY <1>0
    <2> QED
      BY <2>1, <2>2
  <1>6. Is(Within, Deep)
    BY <1>1, <1>2, <1>5
  <1>7. IsWithin(Within, Deep)
    BY <1>2, <1>6
  <1> DEFINE w == Within
  <1> HIDE DEF w
  <1>8. w[d] = All(w[d - 1])
    <2>1. d \in 0 .. Deep /\ d # 0
      BY <1>0
    <2>2. w = [k \in 0 .. Deep |-> IF k = 0 THEN None0 ELSE All(w[k - 1])]
      BY <1>7 DEF w
    <2> QED
      BY <2>1, <2>2
  <1>9. All(w[d - 1])[<<file, base>>]
          = UpTo(w[d - 1], file, base)[Len(call.texts[Real(file)])]
    BY DEF All
  <1> QED
    BY <1>0, <1>8, <1>9 DEF w

-----------------------------------------------------------------------------
(* The meanings and the frames.                                            *)

\* No more filelists are open than there are.
LEMMA FramesBounded ==
  ASSUME FlattenerTypeOK, ChainIsReal
  PROVE  Deep \in Nat /\ Len(frames) \in Nat /\ Len(frames) <= Deep
  <1>1. IsFiniteSet(DOMAIN call.texts) /\ Len(frames) \in Nat /\ DOMAIN frames = 1 .. Len(frames)
    BY LenProperties DEF FlattenerTypeOK, IsCall
  <1>2. Deep \in Nat
    BY <1>1, FS_CardinalityType DEF Deep
  <1> DEFINE S == 1 .. Len(frames)
             f == [i \in S |-> Real(frames[i].file)]
  <1>3. IsFiniteSet(S) /\ Cardinality(S) = Len(frames)
    <2> DEFINE n == Len(frames)
    <2>1. n \in Nat
      BY <1>1
    <2> HIDE DEF n
    <2>2. IsFiniteSet(1 .. n) /\ Cardinality(1 .. n) = n
      BY <2>1, FS_Interval
    <2> QED
      BY <2>2 DEF n
  <1>4. f \in [S -> DOMAIN call.texts]
    BY <1>1 DEF FlattenerTypeOK
  <1>5. \A i, j \in S : f[i] = f[j] => i = j
    BY <1>1 DEF ChainIsReal
  <1> HIDE DEF f, S
  <1>6. ~(Cardinality(DOMAIN call.texts) < Cardinality(S))
    BY <1>1, <1>3, <1>4, <1>5, FS_PigeonHole
  <1> QED
    BY <1>1, <1>2, <1>3, <1>6 DEF Deep

\* What depends on the call alone stands with it.
LEMMA MeaningStands ==
  ASSUME call' = call
  PROVE  /\ \A text, n : (Selected(text, n))' <=> Selected(text, n)
         /\ \A w, file, base : (UpTo(w, file, base))' = UpTo(w, file, base)
         /\ Within' = Within /\ Deep' = Deep /\ Meaning' = Meaning
         /\ \A f : (Text(f))' = Text(f) /\ (FrameBlocks(f))' = FrameBlocks(f)
         /\ \A p : (Note(p))' = Note(p)
  <1>1. /\ \A p : (Real(p))' = Real(p) /\ (Note(p))' = Note(p)
        /\ \A ref, base : (Resolve(ref, base))' = Resolve(ref, base)
    BY CallStands DEF Note
  <1>2. \A e : (Holds(e))' <=> Holds(e)
    BY DEF Holds
  <1>3. \A text, b, n : (InSelected(text, b, n))' <=> InSelected(text, b, n)
    BY <1>2 DEF InSelected
  <1>4. \A text, n : (Selected(text, n))' <=> Selected(text, n)
    BY <1>3 DEF Selected
  <1>5. \A refs, base : (Directories(refs, base))' = Directories(refs, base)
    BY <1>1 DEF Directories
  <1>6. \A w, file, base, n, before :
           (LineAdds(w, file, base, n, before))' = LineAdds(w, file, base, n, before)
    BY <1>1, <1>4, <1>5 DEF LineAdds
  <1>7. \A w, file, base : (UpTo(w, file, base))' = UpTo(w, file, base)
    BY <1>1, <1>6 DEF UpTo
  <1>8. Deep' = Deep
    BY DEF Deep
  <1>9. Within' = Within
    <2>1. \A w, f : (UpTo(w, f[1], f[2])[Len(call.texts[Real(f[1])])])'
                      = UpTo(w, f[1], f[2])[Len(call.texts[Real(f[1])])]
      BY <1>1, <1>7
    <2> DEFINE Value(w, f) == UpTo(w, f[1], f[2])[Len(call.texts[Real(f[1])])]
               Is(h) == h = [deep \in 0 .. Deep |-> [f \in Path \X Path |->
                                IF deep = 0 THEN Nothing ELSE Value(h[deep - 1], f)]]
    <2>2. \A w, f : (Value(w, f))' = Value(w, f)
      BY <2>1
    <2>3. Within = CHOOSE h : Is(h)
      BY DEF Within
    <2>4. Within' = CHOOSE h : (Is(h))'
      BY DEF Within
    <2> HIDE DEF Value
    <2>5. \A h : (Is(h))' <=> Is(h)
      BY <1>8, <2>2
    <2> HIDE DEF Is
    <2> QED
      BY <2>3, <2>4, <2>5
  <1>10. Meaning' = Meaning
    BY <1>1, <1>8, <1>9 DEF Meaning
  <1>11. \A text, n, ls, o : (Blocks(text, n, ls, o))' <=> Blocks(text, n, ls, o)
    <2> TAKE text, n, ls, o
    <2>1. \A b : (\E h \in Heads(text, b, n - 1) : Holds(text[h]))'
                    <=> \E h \in Heads(text, b, n - 1) : Holds(text[h])
      BY <1>2
    <2> QED
      BY <1>3, <2>1 DEF Blocks
  <1>12. \A f : (Text(f))' = Text(f)
    BY <1>1 DEF Text
  <1>13. \A f : (FrameBlocks(f))' = FrameBlocks(f)
    BY <1>11, <1>12 DEF FrameBlocks
  <1> QED
    BY <1>1, <1>4, <1>7, <1>8, <1>9, <1>10, <1>12, <1>13

\* A frame that waits means what it meant while the frame after it stays.
LEMMA WaitingStays ==
  ASSUME call' = call, NEW i, i # Len(frames), i # Len(frames'), frames'[i] = frames[i],
         frames'[i + 1].file = frames[i + 1].file, frames'[i + 1].base = frames[i + 1].base,
         FrameMeans(i)
  PROVE  FrameMeans(i)'
  <1>1. (MeansUpTo(i))' = MeansUpTo(i)
    BY MeaningStands DEF MeansUpTo
  <1>2. /\ (Text(frames[i]))' = Text(frames[i])
        /\ \A text, n : (Selected(text, n))' <=> Selected(text, n)
        /\ \A p : (Note(p))' = Note(p)
        /\ \A ref, base : (Resolve(ref, base))' = Resolve(ref, base)
    BY MeaningStands, CallStands DEF Text
  <1> QED
    BY <1>1, <1>2 DEF FrameMeans, Remark

\* The frame at work.
LEMMA TopMeans ==
  ASSUME FlattenerTypeOK, StacksMean, Flattening
  PROVE  /\ Len(frames) \in Nat \ {0} /\ Top \in FrameType /\ Top = frames[Len(frames)]
         /\ Len(Text(Top)) \in Nat /\ Text(Top) = call.texts[Real(Top.file)]
         /\ FrameBlocks(Top) /\ Top.sections = MeansUpTo(Len(frames))[Top.line - 1]
         /\ MeansUpTo(Len(frames)) = UpTo(Within[Deep - Len(frames)], Top.file, Top.base)
  <1>1. /\ Len(frames) \in Nat \ {0} /\ Top \in FrameType /\ Text(Top) \in Seq(Entry)
    BY TopFacts DEF Flattening
  <1>2. FrameBlocks(Top) /\ FrameMeans(Len(frames))
    BY <1>1 DEF StacksMean, Top
  <1> QED
    BY <1>1, <1>2, LenProperties DEF FrameMeans, Top, MeansUpTo, Text

\* A step to the next line keeps the meaning if it adds what the line does.
LEMMA GoKeepsMeaning ==
  ASSUME FlattenerTypeOK, StacksMean, Reading, NEW g,
         call' = call, frames' = [frames EXCEPT ![Len(frames)] = g],
         g.file = Top.file, g.base = Top.base, g.line = Top.line + 1,
         \E o : Blocks(Text(Top), Top.line + 1, g.levels, o),
         g.sections = LineAdds(Within[Deep - Len(frames)], Top.file, Top.base, Top.line,
                               Top.sections)
  PROVE  StacksMean'
  <1>0. PICK n : n = Len(frames)
    OBVIOUS
  <1>1. g.file = Top.file /\ g.base = Top.base /\ g.line = Top.line + 1
    OBVIOUS
  <1>2. frames' = [frames EXCEPT ![n] = g] /\ call' = call
    BY <1>0
  <1>3. /\ n \in Nat \ {0} /\ DOMAIN frames = 1 .. n /\ Top = frames[n]
        /\ Len(Text(Top)) \in Nat /\ Top.line \in Nat \ {0} /\ Top.line <= Len(Text(Top))
        /\ Text(Top) = call.texts[Real(Top.file)]
    BY <1>0, TopMeans, TopFacts DEF Reading, Flattening, FrameType
  <1>4. Len(frames') = n
    BY <1>2, <1>3
  <1>5. frames'[n] = g /\ \A i \in 1 .. n : i # n => frames'[i] = frames[i]
    <2>1. n \in 1 .. n
      BY <1>3
    <2> QED
      BY <1>2, <1>3, <2>1, Zenon
  <1>6. \A i \in 1 .. n : frames'[i].file = frames[i].file /\ frames'[i].base = frames[i].base
    BY <1>1, <1>3, <1>5
  <1>7. ASSUME NEW i \in 1 .. n, i # n
        PROVE  (FrameBlocks(frames[i]))' /\ FrameMeans(i)'
    <2>1. i + 1 \in 1 .. n /\ frames'[i] = frames[i]
      BY <1>3, <1>5, <1>7
    <2>2. FrameBlocks(frames[i]) /\ FrameMeans(i)
      BY <1>0 DEF StacksMean
    <2>3. FrameMeans(i)'
      BY <1>0, <1>2, <1>4, <1>6, <1>7, <2>1, <2>2, WaitingStays
    <2> QED
      BY <1>2, <2>1, <2>2, <2>3, MeaningStands
  <1>8. (FrameBlocks(frames[n]))' /\ FrameMeans(n)'
    <2>1. Text(g) = Text(Top)
      BY <1>1 DEF Text
    <2>2. FrameBlocks(g)
      BY <1>1, <1>3, <2>1 DEF FrameBlocks
    <2>3. (FrameBlocks(frames[n]))'
      BY <1>2, <1>4, <1>5, <2>2, MeaningStands
    <2> DEFINE w == Within[Deep - n]
    <2>4. UpTo(w, Top.file, Top.base)[Top.line]
             = LineAdds(w, Top.file, Top.base, Top.line,
                        UpTo(w, Top.file, Top.base)[Top.line - 1])
      BY <1>3, UpToUnfolds
    <2>5. g.sections = UpTo(w, Top.file, Top.base)[Top.line]
      BY <1>0, <1>1, <2>4, TopMeans DEF Reading
    <2>6. (Top.line + 1) - 1 = Top.line
      BY <1>3
    <2>7. g.sections = UpTo(Within[Deep - n], g.file, g.base)[g.line - 1]
      BY <1>1, <2>5, <2>6
    <2>8. FrameMeans(n)'
      <3>1. (MeansUpTo(n))' = UpTo(Within[Deep - n], g.file, g.base)
        BY <1>2, <1>5, MeaningStands DEF MeansUpTo
      <3> QED
        BY <1>4, <1>5, <2>7, <3>1 DEF FrameMeans
    <2> QED
      BY <2>3, <2>8
  <1>9. 1 \in 1 .. n
    BY <1>3
  <1>10. /\ frames'[1].file = call.top /\ frames'[1].base = Parent(call.top)
         /\ frames # <<>>
    BY <1>6, <1>9 DEF StacksMean, Reading, Flattening
  <1>11. \A i \in 1 .. n : (FrameBlocks(frames[i]))' /\ FrameMeans(i)'
    BY <1>7, <1>8
  <1> QED
    BY <1>2, <1>4, <1>10, <1>11 DEF StacksMean

\* A conditional directive adds nothing.
LEMMA LevelsKeepMeaning ==
  ASSUME FlattenerTypeOK, StacksMean, Reading, This.kind \in Conditional,
         NEW ls, Go([Top EXCEPT !.levels = ls]),
         \E o : Blocks(Text(Top), Top.line + 1, ls, o)
  PROVE  StacksMean'
  <1> DEFINE g == [[Top EXCEPT !.levels = ls] EXCEPT !.line = @ + 1]
  <1>1. /\ g.file = Top.file /\ g.base = Top.base /\ g.line = Top.line + 1
        /\ g.levels = ls /\ g.sections = Top.sections
    BY TopMeans DEF Reading, FrameType
  <1>2. frames' = [frames EXCEPT ![Len(frames)] = g] /\ call' = call
    BY DEF Go
  <1> HIDE DEF g
  <1>3. \A w : LineAdds(w, Top.file, Top.base, Top.line, Top.sections) = Top.sections
    BY DEF LineAdds, This, Text
  <1> QED
    BY <1>1, <1>2, <1>3, GoKeepsMeaning

\* What is no directive leaves the blocks as they are, and the innermost level
\* says whether it is selected.
LEMMA OrdinaryLine ==
  ASSUME FlattenerTypeOK, StacksMean, Spaced(call), Ordinary
  PROVE  /\ This.kind \notin Conditional
         /\ \E o : Blocks(Text(Top), Top.line + 1, Top.levels, o)
         /\ Inner.active <=> Selected(Text(Top), Top.line)
  <1>1. /\ Top.line \in Nat \ {0} /\ Top.line \in 1 .. Len(Text(Top))
        /\ Top.levels \in Seq(Level) /\ Top.levels # <<>>
        /\ Text(Top) = call.texts[Real(Top.file)] /\ Real(Top.file) \in DOMAIN call.texts
    BY TopMeans, TopFacts DEF Ordinary, Reading, Flattening, FrameType
  <1>2. This.kind \notin Conditional
    BY <1>1 DEF Spaced, Ordinary, Directive, Reads, This, Conditional
  <1>3. PICK o : Blocks(Text(Top), Top.line, Top.levels, o)
    BY TopMeans DEF Ordinary, Reading, FrameBlocks
  <1>4. Text(Top)[Top.line].kind \notin Opening \cup {"elsif", "else", "endif"}
    BY <1>2 DEF This, Opening, Conditional
  <1> QED
    BY <1>1, <1>2, <1>3, <1>4, BlocksStay, LevelsSelect DEF Inner, Depth

\* What else a line adds goes to one section.
LEMMA AddKeepsMeaning ==
  ASSUME FlattenerTypeOK, StacksMean, Spaced(call), Ordinary, NEW s,
         Go([Top EXCEPT !.sections = s]),
         s = LineAdds(Within[Deep - Len(frames)], Top.file, Top.base, Top.line, Top.sections)
  PROVE  StacksMean'
  <1> DEFINE g == [[Top EXCEPT !.sections = s] EXCEPT !.line = @ + 1]
  <1>1. /\ g.file = Top.file /\ g.base = Top.base /\ g.line = Top.line + 1
        /\ g.levels = Top.levels /\ g.sections = s
    BY TopMeans DEF Ordinary, Reading, FrameType
  <1>2. frames' = [frames EXCEPT ![Len(frames)] = g] /\ call' = call
    BY DEF Go
  <1> HIDE DEF g
  <1> QED
    BY <1>1, <1>2, OrdinaryLine, GoKeepsMeaning DEF Ordinary

\* The conditional directives do to the levels what they do to the blocks.
LEMMA DirectiveKeepsMeaning ==
  ASSUME FlattenerTypeOK, StacksMean, Open \/ Elsif \/ Else \/ Endif
  PROVE  StacksMean'
  <1> DEFINE text == Text(Top)
             n == Top.line
             ls == Top.levels
  <1>1. /\ Reading /\ This = text[n] /\ This.kind \in Conditional
    BY DEF Open, Elsif, Else, Endif, Directive, Reads, This, Conditional
  <1>2. /\ n \in Nat \ {0} /\ ls \in Seq(Level) /\ ls # <<>>
        /\ Depth = Len(ls) /\ Depth \in Nat \ {0}
        /\ Inner = ls[Len(ls)] /\ Entered = ls[Len(ls) - 1]
        /\ Inner \in Level /\ (Depth > 1 => Entered \in Level)
    BY <1>1, TopMeans, TopFacts DEF Reading, Flattening, FrameType, Depth, Inner, Entered
  <1>3. PICK o : Blocks(text, n, ls, o)
    BY <1>1, TopMeans DEF Reading, FrameBlocks
  <1> HIDE DEF text, n, ls
  <1>4. CASE Open
    <2> DEFINE selected == Inner.active /\ (This.macro \in call.macros <=> This.kind = "ifdef")
               new == [active |-> selected, taken |-> selected, elseSeen |-> FALSE]
    <2>1. This.kind \in Opening
      BY <1>4 DEF Open, Directive, Reads, Opening
    <2>2. new \in Level /\ (new.active <=> ls[Len(ls)].active /\ Holds(text[n]))
          /\ (new.taken <=> new.active)
      BY <1>1, <1>2, <2>1 DEF Level, Holds, Opening
    <2>3. Go([Top EXCEPT !.levels = Append(ls, new)])
      BY <1>4 DEF Open, ls
    <2> HIDE DEF new
    <2>4. \E p : Blocks(text, n + 1, Append(ls, new), p)
      BY <1>1, <1>2, <1>3, <2>1, <2>2, BlocksOpened
    <2> QED
      BY <1>1, <2>3, <2>4, LevelsKeepMeaning DEF text, n
  <1>5. ASSUME NEW selected \in BOOLEAN, NEW isElse \in BOOLEAN, Branch(selected, isElse), Depth > 1,
               This.kind \in {"elsif", "else"},
               selected <=> Entered.active /\ ~Inner.taken /\ Holds(This)
        PROVE  StacksMean'
    <2> DEFINE new == [active |-> selected, taken |-> Inner.taken \/ selected, elseSeen |-> isElse]
    <2>1. /\ new \in Level
          /\ new.active <=> ls[Len(ls) - 1].active /\ ~ls[Len(ls)].taken /\ Holds(text[n])
          /\ new.taken <=> ls[Len(ls)].taken \/ new.active
      BY <1>1, <1>2, <1>5 DEF Level
    <2>2. Go([Top EXCEPT !.levels = [ls EXCEPT ![Len(ls)] = new]])
      BY <1>2, <1>5 DEF Branch, ls
    <2> HIDE DEF new
    <2>3. Blocks(text, n + 1, [ls EXCEPT ![Len(ls)] = new], o)
      BY <1>1, <1>2, <1>3, <1>5, <2>1, BlocksPart
    <2> QED
      BY <1>1, <2>2, <2>3, LevelsKeepMeaning DEF text, n
  <1>6. CASE Elsif
    BY <1>2, <1>5, <1>6 DEF Elsif, Directive, Reads, Holds, Level
  <1>7. CASE Else
    BY <1>2, <1>5, <1>7 DEF Else, Directive, Reads, Holds, Level
  <1>8. CASE Endif
    <2>1. Depth > 1 /\ This.kind = "endif" /\ Go([Top EXCEPT !.levels = SubSeq(ls, 1, Len(ls) - 1)])
      BY <1>2, <1>8 DEF Endif, Directive, Reads, ls
    <2>2. \E p : Blocks(text, n + 1, SubSeq(ls, 1, Len(ls) - 1), p)
      BY <1>1, <1>2, <1>3, <2>1, BlocksClosed
    <2> QED
      BY <1>1, <2>1, <2>2, LevelsKeepMeaning DEF text, n
  <1> QED
    BY <1>4, <1>6, <1>7, <1>8

\* The entries add what they mean.
LEMMA EntryKeepsMeaning ==
  ASSUME FlattenerTypeOK, StacksMean, Spaced(call), Ordinary,
         Skip \/ PassText \/ AddPath \/ AddDirectories, ~Fail("error")
  PROVE  StacksMean'
  <1>1. /\ This.kind \notin Conditional /\ (Inner.active <=> Selected(Text(Top), Top.line))
        /\ This = call.texts[Real(Top.file)][Top.line] /\ Top \in FrameType
        /\ Text(Top) = call.texts[Real(Top.file)]
    BY OrdinaryLine, TopMeans DEF Ordinary, Reading, This, Text
  <1> DEFINE Adds(s) == s = LineAdds(Within[Deep - Len(frames)], Top.file, Top.base, Top.line,
                                     Top.sections)
  <1>2. ASSUME NEW section, NEW items, Add(section, items),
               Adds(With(Top.sections, section, items))
        PROVE  StacksMean'
    <2>1. Go([Top EXCEPT !.sections = With(Top.sections, section, items)])
      BY <1>2 DEF Add, With
    <2> DEFINE s == With(Top.sections, section, items)
    <2>2. Go([Top EXCEPT !.sections = s]) /\ Adds(s)
      BY <1>2, <2>1
    <2> HIDE DEF s
    <2> QED
      BY <2>2, AddKeepsMeaning
  <1>3. CASE Skip
    <2>1. Adds(Top.sections)
      BY <1>1, <1>3 DEF Skip, LineAdds
    <2>2. Top = [Top EXCEPT !.sections = Top.sections]
      BY <1>1 DEF FrameType
    <2>3. Go([Top EXCEPT !.sections = Top.sections])
      BY <1>3, <2>2 DEF Skip
    <2> QED
      BY <2>1, <2>3, AddKeepsMeaning
  <1>4. CASE PassText
    <2>1. Adds(With(Top.sections, This.section, << <<"text", Top.file, Top.line>> >>))
      BY <1>1, <1>4 DEF PassText, Selects, LineAdds
    <2> QED
      BY <1>2, <1>4, <2>1 DEF PassText
  <1>5. CASE AddPath
    <2> DEFINE p == Resolve(This.ref, Top.base)
    <2>1. << <<"path", p, Real(p)>> >> = Directories(<<This.ref>>, Top.base)
      BY DEF Directories
    <2>2. Add("others", << <<"path", p, Real(p)>> >>)
      BY <1>5 DEF AddPath
    <2>3. Adds(With(Top.sections, "others", Directories(<<This.ref>>, Top.base)))
      BY <1>1, <1>5 DEF AddPath, Selects, LineAdds
    <2> QED
      BY <1>2, <2>1, <2>2, <2>3
  <1>6. CASE AddDirectories
    <2>1. Remark(This, [file |-> Top.file, line |-> Top.line]) = Remark(This, Top)
      BY DEF Remark
    <2>2. Adds(With(Top.sections, "incdirs", Remark(This, Top) \o Directories(This.refs, Top.base)))
      BY <1>1, <1>6, <2>1 DEF AddDirectories, Selects, LineAdds
    <2>3. Add("incdirs", Remark(This, Top) \o Directories(This.refs, Top.base))
      BY <1>6 DEF AddDirectories
    <2> QED
      BY <1>2, <2>2, <2>3
  <1> QED
    BY <1>3, <1>4, <1>5, <1>6

\* A filelist begins outside every block.
LEMMA BlocksAtStart ==
  ASSUME NEW text
  PROVE  \E o : Blocks(text, 1, <<Outside>>, o)
  <1> DEFINE o == [j \in 1 .. 0 |-> 1]
  <1>1. Enclosing(text, 1) = {}
    BY DEF Enclosing
  <1>2. Blocks(text, 1, <<Outside>>, o)
    BY <1>1 DEF Blocks
  <1> HIDE DEF o
  <1> QED
    BY <1>2

\* An inclusion is announced where the filelist stands; what it means is to come.
LEMMA IncludeKeepsMeaning ==
  ASSUME FlattenerTypeOK, StacksMean, Spaced(call), Include
  PROVE  StacksMean'
  <1>0. PICK n : n = Len(frames)
    OBVIOUS
  <1> DEFINE new == Frame(Child, ContentBase(This.kind, Child))
  <1>1. /\ Flattening /\ Reading /\ Ordinary /\ Inner.active /\ This.kind \in {"f", "F"}
        /\ call' = call
    BY DEF Include, Including, Selects, Ordinary, Reading
  <1>2. /\ n \in Nat \ {0} /\ n + 1 \in Nat /\ n + 1 # n
        /\ frames' \in Seq(FrameType) /\ DOMAIN frames' = 1 .. n + 1
        /\ frames'[n + 1] = new /\ frames'[n] = Announced
        /\ Announced.file = Top.file /\ Announced.levels = Top.levels
        /\ Announced.line = Top.line + 1
        /\ \A i \in 1 .. n : i # n => frames'[i] = frames[i]
        /\ \A i \in 1 .. n : frames'[i].file = frames[i].file
    BY <1>0, IncludeFrames
  <1>3. Len(frames') = n + 1
    BY <1>2, LenProperties
  <1>4. /\ Top \in FrameType /\ Top = frames[n] /\ Top.line \in Nat \ {0}
        /\ Top.line <= Len(Text(Top)) /\ Len(Text(Top)) \in Nat
        /\ FrameBlocks(Top) /\ Top.sections = MeansUpTo(n)[Top.line - 1]
    BY <1>0, <1>1, TopMeans DEF Reading, FrameType
  <1>5. /\ new.file = Child /\ new.base = ContentBase(This.kind, Child) /\ new.line = 1
        /\ new.levels = <<Outside>> /\ new.sections = Nothing
    BY DEF Frame
  <1>6. /\ Announced.base = Top.base
        /\ Announced.sections = With(Top.sections, "others", Remark(This, Top) \o Note(Child))
    <2>1. Remark(This, Top) \in Seq(Output) /\ Note(Child) \in Seq(Output)
          /\ Top.sections["others"] \in Seq(Output)
      BY <1>1, <1>4, IncludeFrames, RealIsPath, RemarkIsOutput, NoteIsOutput
         DEF FlattenerTypeOK, FrameType, Section
    <2>2. (Top.sections["others"] \o Remark(This, Top)) \o Note(Child)
            = Top.sections["others"] \o (Remark(This, Top) \o Note(Child))
      <3>1. \A s, t, u \in Seq(Output) : (s \o t) \o u = s \o (t \o u)
        BY ConcatAssociative
      <3> QED
        BY <2>1, <3>1
    <2>3. Announced.sections = [Top.sections EXCEPT !["others"] =
              (Top.sections["others"] \o Remark(This, Top)) \o Note(Child)]
      BY <1>4 DEF Announced, FrameType
    <2>4. Announced.base = Top.base
      BY <1>4 DEF Announced, FrameType
    <2> QED
      BY <2>2, <2>3, <2>4 DEF With
  <1> HIDE DEF new
  <1>7. (FrameBlocks(frames[n + 1]))' /\ FrameMeans(n + 1)'
    <2>1. Text(new) \in Seq(Entry) /\ Len(Text(new)) \in Nat
      BY <1>5, IncludeFrames, LenProperties DEF Text, FlattenerTypeOK, IsCall
    <2>2. FrameBlocks(new)
      BY <1>5, <2>1, BlocksAtStart DEF FrameBlocks
    <2>3. (FrameBlocks(frames[n + 1]))'
      BY <1>1, <1>2, <2>2, MeaningStands
    <2>4. UpTo(Within[Deep - (n + 1)], new.file, new.base)[new.line - 1] = Nothing
      BY <1>5, <2>1, UpToUnfolds DEF Text
    <2>5. (MeansUpTo(n + 1))' = UpTo(Within[Deep - (n + 1)], new.file, new.base)
      BY <1>1, <1>2, MeaningStands DEF MeansUpTo
    <2>6. FrameMeans(n + 1)'
      BY <1>2, <1>3, <1>5, <2>4, <2>5 DEF FrameMeans
    <2> QED
      BY <2>3, <2>6
  <1>8. (FrameBlocks(frames[n]))' /\ FrameMeans(n)'
    <2>1. Text(Announced) = Text(Top) /\ Announced.line - 1 = Top.line
          /\ Announced.line - 2 = Top.line - 1
          /\ Announced.line > 1
      BY <1>2, <1>4 DEF Text
    <2>2. FrameBlocks(Announced)
      BY <1>2, <1>4, <2>1, <1>1, OrdinaryLine DEF FrameBlocks
    <2>3. (FrameBlocks(frames[n]))'
      BY <1>1, <1>2, <2>2, MeaningStands
    <2>4. (MeansUpTo(n))' = MeansUpTo(n)
      BY <1>1, <1>2, <1>4, <1>6, MeaningStands DEF MeansUpTo
    <2>5. (Text(frames[n])[frames[n].line - 1])' = This
      <3>1. (Text(frames[n]))' = Text(Announced) /\ (frames[n].line - 1)' = Top.line
        BY <1>1, <1>2, <2>1, MeaningStands
      <3> QED
        BY <2>1, <3>1 DEF This
    <2>6. Selected(Text(Announced), Announced.line - 1)
      BY <1>1, <2>1, OrdinaryLine
    <2>7. (Selected(Text(frames[n]), frames[n].line - 1))'
      BY <1>1, <1>2, <2>6, MeaningStands
    <2>8. /\ frames'[n + 1].file = Child
          /\ (Note(frames[n + 1].file))' = Note(Child)
          /\ frames'[n + 1].base = IF This.kind = "f" THEN call.cwd ELSE Parent(Child)
      BY <1>1, <1>2, <1>5, MeaningStands DEF ContentBase
    <2>9. \A ref, base : (Resolve(ref, base))' = Resolve(ref, base)
      BY <1>1, CallStands
    <2>10. Child = Resolve(This.ref, IF This.kind = "f" THEN call.cwd ELSE Parent(Announced.file))
      BY <1>2 DEF Child
    <2>11. Announced.sections = With(MeansUpTo(n)[Announced.line - 2], "others",
              Remark(This, [file |-> Announced.file, line |-> Announced.line - 1]) \o Note(Child))
      BY <1>2, <1>4, <1>6, <2>1 DEF Remark
    <2>12. FrameMeans(n)'
      BY <1>1, <1>2, <1>3, <2>1, <2>4, <2>5, <2>7, <2>8, <2>9, <2>10, <2>11
         DEF FrameMeans, Remark
    <2> QED
      BY <2>3, <2>12
  <1>9. ASSUME NEW i \in 1 .. n, i # n
        PROVE  (FrameBlocks(frames[i]))' /\ FrameMeans(i)'
    <2>1. /\ i + 1 \in 1 .. n /\ frames'[i] = frames[i] /\ i # n + 1
          /\ frames'[i + 1].file = frames[i + 1].file /\ frames'[i + 1].base = frames[i + 1].base
      BY <1>2, <1>4, <1>6, <1>9
    <2>2. FrameBlocks(frames[i]) /\ FrameMeans(i)
      BY <1>0 DEF StacksMean
    <2>3. FrameMeans(i)'
      BY <1>0, <1>1, <1>3, <1>9, <2>1, <2>2, WaitingStays
    <2> QED
      BY <1>1, <2>1, <2>2, <2>3, MeaningStands
  <1>10. /\ frames'[1].file = call.top /\ frames'[1].base = Parent(call.top)
    <2>1. 1 \in 1 .. n /\ frames[1].file = call.top /\ frames[1].base = Parent(call.top)
      BY <1>1, <1>2 DEF StacksMean, Flattening
    <2> QED
      BY <1>2, <1>4, <1>6, <2>1
  <1>11. \A i \in 1 .. n + 1 : (FrameBlocks(frames[i]))' /\ FrameMeans(i)'
    BY <1>2, <1>7, <1>8, <1>9
  <1> QED
    BY <1>1, <1>3, <1>10, <1>11 DEF StacksMean

\* At its end a filelist adds what it means to the line that includes it.
LEMMA ReturnKeepsMeaning ==
  ASSUME FlattenerTypeOK, ChainIsReal, StacksMean, Return
  PROVE  StacksMean'
  <1>0. PICK n : n = Len(frames) - 1
    OBVIOUS
  <1>1. /\ Flattening /\ Top.line > Len(Text(Top)) /\ Len(frames) > 1 /\ call' = call
    BY DEF Return, AtEnd
  <1>2. /\ n \in Nat \ {0} /\ Len(frames) = n + 1 /\ n # n + 1 /\ n \in DOMAIN frames'
        /\ DOMAIN frames' = 1 .. n /\ Len(frames') = n
        /\ frames'[n] = [frames[n] EXCEPT !.sections = Extend(@, Top.sections)]
        /\ \A i \in 1 .. n : i # n => frames'[i] = frames[i]
    <2>1. /\ frames' \in Seq(FrameType) /\ DOMAIN frames' = 1 .. n /\ Len(frames) \in Nat \ {0}
      BY <1>0, ReturnFrames
    <2>2. n \in Nat \ {0} /\ Len(frames) = n + 1
      BY <1>0, <1>1, <2>1
    <2>3. n \in DOMAIN frames'
      BY <2>1, <2>2
    <2>4. Len(frames') = n
      BY <2>1, <2>2, LenProperties
    <2>5. \A i \in DOMAIN frames' :
             /\ i # n => frames'[i] = frames[i]
             /\ i = n => frames'[i] = [frames[i] EXCEPT !.sections = Extend(@, Top.sections)]
      BY <1>0, ReturnFrames
    <2> QED
      BY <2>1, <2>2, <2>3, <2>4, <2>5
  <1>3. /\ Top \in FrameType /\ Top = frames[n + 1] /\ Len(Text(Top)) \in Nat
        /\ Text(Top) = call.texts[Real(Top.file)]
        /\ FrameBlocks(Top) /\ Top.sections = MeansUpTo(n + 1)[Top.line - 1]
    BY <1>1, <1>2, TopMeans
  <1>4. /\ frames[n] \in FrameType /\ Real(frames[n].file) \in DOMAIN call.texts
        /\ Text(frames[n]) = call.texts[Real(frames[n].file)] /\ Len(Text(frames[n])) \in Nat
    <2>1. n \in DOMAIN frames /\ frames[n] \in FrameType
      BY <1>1, <1>2, TopFacts, ElementOfSeq DEF FlattenerTypeOK, Flattening
    <2> QED
      BY <2>1, LenProperties DEF Text, FlattenerTypeOK, IsCall
  <1>5. FrameBlocks(frames[n]) /\ FrameMeans(n)
    BY <1>2 DEF StacksMean
  <1> DEFINE f == frames[n]
             e == Text(f)[f.line - 1]
             before == MeansUpTo(n)[f.line - 2]
             announced == With(before, "others",
                 Remark(e, [file |-> f.file, line |-> f.line - 1]) \o Note(Top.file))
  <1>6. /\ f.line > 1 /\ e.kind \in {"f", "F"} /\ Selected(Text(f), f.line - 1)
        /\ Top.file = Resolve(e.ref, IF e.kind = "f" THEN call.cwd ELSE Parent(f.file))
        /\ Top.base = (IF e.kind = "f" THEN call.cwd ELSE Parent(Top.file))
        /\ f.sections = announced
    BY <1>2, <1>3, <1>5 DEF FrameMeans
  <1>7. f.line - 1 \in 1 .. Len(Text(f)) /\ (f.line - 1) - 1 = f.line - 2
    <2>1. f.line \in Nat
      BY <1>4 DEF FrameType
    <2>2. f.line <= Len(Text(f)) + 1
      BY <1>5 DEF FrameBlocks
    <2>3. Len(Text(f)) \in Nat /\ f.line > 1
      BY <1>4, <1>6
    <2> QED
      BY <2>1, <2>2, <2>3
  <1>8. Top.sections = Within[Deep - n][<<Top.file, Top.base>>]
    <2>1. Top.line - 1 = Len(Text(Top))
      BY <1>1, <1>3 DEF FrameBlocks, FrameType
    <2>2. Deep - n \in 1 .. Deep /\ (Deep - n) - 1 = Deep - (n + 1)
      BY <1>2, FramesBounded
    <2>3. Within[Deep - n][<<Top.file, Top.base>>]
            = UpTo(Within[Deep - (n + 1)], Top.file, Top.base)[Len(Text(Top))]
      BY <1>3, <2>2, WithinUnfolds DEF FlattenerTypeOK, FrameType
    <2> QED
      BY <1>3, <2>1, <2>3 DEF MeansUpTo
  <1>9. LineAdds(Within[Deep - n], f.file, f.base, f.line - 1, before)
          = Extend(announced, Within[Deep - n][<<Top.file, Top.base>>])
    BY <1>4, <1>6 DEF LineAdds, Conditional
  <1>10. MeansUpTo(n)[f.line - 1] = Extend(f.sections, Top.sections)
    <2>1. UpTo(Within[Deep - n], f.file, f.base)[f.line - 1]
            = LineAdds(Within[Deep - n], f.file, f.base, f.line - 1,
                       UpTo(Within[Deep - n], f.file, f.base)[(f.line - 1) - 1])
      BY <1>4, <1>7, UpToUnfolds
    <2> HIDE DEF announced
    <2>2. MeansUpTo(n)[f.line - 1] = LineAdds(Within[Deep - n], f.file, f.base, f.line - 1, before)
      BY <1>7, <2>1 DEF MeansUpTo
    <2> QED
      BY <1>6, <1>8, <1>9, <2>2
  <1> DEFINE g == [frames[n] EXCEPT !.sections = Extend(@, Top.sections)]
  <1>11. /\ g.file = f.file /\ g.base = f.base /\ g.line = f.line /\ g.levels = f.levels
         /\ g.sections = Extend(f.sections, Top.sections) /\ frames'[n] = g
    BY <1>2, <1>4 DEF FrameType
  <1> HIDE DEF g, f, e, before, announced
  <1>12. (FrameBlocks(frames[n]))' /\ FrameMeans(n)'
    <2>1. FrameBlocks(g)
      BY <1>5, <1>11 DEF FrameBlocks, Text, f
    <2>2. (FrameBlocks(frames[n]))'
      BY <1>1, <1>11, <2>1, MeaningStands
    <2>3. (MeansUpTo(n))' = MeansUpTo(n)
      BY <1>1, <1>11, MeaningStands DEF MeansUpTo, f
    <2>4. FrameMeans(n)'
      BY <1>2, <1>10, <1>11, <2>3 DEF FrameMeans
    <2> QED
      BY <2>2, <2>4
  <1>13. ASSUME NEW i \in 1 .. n, i # n
         PROVE  (FrameBlocks(frames[i]))' /\ FrameMeans(i)'
    <2>1. /\ i + 1 \in 1 .. n /\ frames'[i] = frames[i] /\ i # n + 1 /\ i \in 1 .. n + 1
          /\ frames'[i + 1].file = frames[i + 1].file /\ frames'[i + 1].base = frames[i + 1].base
      BY <1>2, <1>11, <1>13 DEF f
    <2>2. FrameBlocks(frames[i]) /\ FrameMeans(i)
      BY <1>2, <2>1 DEF StacksMean
    <2>3. FrameMeans(i)'
      BY <1>1, <1>2, <1>13, <2>1, <2>2, WaitingStays
    <2> QED
      BY <1>1, <2>1, <2>2, <2>3, MeaningStands
  <1>14. /\ frames'[1].file = call.top /\ frames'[1].base = Parent(call.top)
    <2>1. 1 \in 1 .. n /\ frames[1].file = call.top /\ frames[1].base = Parent(call.top)
      BY <1>1, <1>2 DEF StacksMean, Flattening
    <2> QED
      BY <1>2, <1>11, <2>1 DEF f
  <1>15. \A i \in 1 .. n : (FrameBlocks(frames[i]))' /\ FrameMeans(i)'
    BY <1>12, <1>13
  <1> QED
    BY <1>1, <1>2, <1>14, <1>15 DEF StacksMean

\* What is left when no filelist waits is what the top filelist means.
LEMMA FinishMeans ==
  ASSUME FlattenerTypeOK, ChainIsReal, StacksMean, Finish
  PROVE  result' = Meaning
  <1>1. /\ Flattening /\ Top.line > Len(Text(Top)) /\ Len(frames) = 1
        /\ result' = [Top.sections EXCEPT !["others"] = Note(call.top) \o @]
    BY DEF Finish, AtEnd
  <1>2. /\ Top \in FrameType /\ Len(Text(Top)) \in Nat /\ Text(Top) = call.texts[Real(Top.file)]
        /\ Top.file = call.top /\ Top.base = Parent(call.top)
        /\ Top.line <= Len(Text(Top)) + 1
        /\ Top.sections = UpTo(Within[Deep - 1], Top.file, Top.base)[Top.line - 1]
    BY <1>1, TopMeans DEF StacksMean, Flattening, FrameBlocks, MeansUpTo
  <1>3. Top.line - 1 = Len(Text(Top)) /\ Deep \in 1 .. Deep
    BY <1>1, <1>2, FramesBounded DEF FrameType
  <1>4. Within[Deep][<<Top.file, Top.base>>]
          = UpTo(Within[Deep - 1], Top.file, Top.base)[Len(call.texts[Real(Top.file)])]
    BY <1>2, <1>3, WithinUnfolds DEF FlattenerTypeOK, FrameType
  <1>5. Top.sections = Within[Deep][<<call.top, Parent(call.top)>>]
    BY <1>2, <1>3, <1>4
  <1> QED
    BY <1>1, <1>5 DEF Meaning

\* What leaves call and frames alone leaves their meaning.
LEMMA MeaningKept ==
  ASSUME StacksMean, UNCHANGED <<call, frames>>
  PROVE  StacksMean'
  <1>1. call' = call /\ frames' = frames
    OBVIOUS
  <1>2. /\ \A i : (MeansUpTo(i))' = MeansUpTo(i)
        /\ \A f : (Text(f))' = Text(f) /\ (FrameBlocks(f))' = FrameBlocks(f)
        /\ \A text, n : (Selected(text, n))' <=> Selected(text, n)
        /\ \A p : (Note(p))' = Note(p)
        /\ \A ref, base : (Resolve(ref, base))' = Resolve(ref, base)
    BY <1>1, MeaningStands, CallStands DEF MeansUpTo
  <1>3. \A i : FrameMeans(i) => FrameMeans(i)'
    BY <1>1, <1>2 DEF FrameMeans, Remark
  <1> QED
    BY <1>1, <1>2, <1>3 DEF StacksMean

\* Every step of the flattener keeps the meaning, and the last one tells it.
LEMMA FlattenKeepsMeaning ==
  ASSUME FlattenerTypeOK, ChainIsReal, Spaced(call), StacksMean, Flatten
  PROVE  StacksMean' /\ FlattensSelected'
  <1>1. CASE Fail("error")
    <2>1. UNCHANGED <<call, frames>> /\ outcome' = "error"
      BY <1>1 DEF Fail
    <2> QED
      BY <2>1, MeaningKept DEF FlattensSelected
  <1>2. CASE Cycle
    <2>1. UNCHANGED <<call, frames>> /\ outcome' = "cycle"
      BY <1>2 DEF Cycle
    <2> QED
      BY <2>1, MeaningKept DEF FlattensSelected
  <1>3. CASE Finish
    <2>1. UNCHANGED <<call, frames>>
      BY <1>3 DEF Finish
    <2> QED
      BY <1>3, <2>1, FinishMeans, MeaningKept, MeaningStands DEF FlattensSelected
  <1>4. CASE Open \/ Elsif \/ Else \/ Endif
    <2>1. outcome' = "none"
      BY <1>4 DEF Open, Elsif, Else, Endif, Branch, Go, Directive, Reads, Reading, Flattening
    <2> QED
      BY <1>4, <2>1, DirectiveKeepsMeaning DEF FlattensSelected
  <1>5. CASE (Skip \/ PassText \/ AddPath \/ AddDirectories) /\ ~Fail("error")
    <2>1. Ordinary
      BY <1>5 DEF Skip, PassText, AddPath, AddDirectories, Selects
    <2>2. outcome' = "none"
      BY <1>5, <2>1 DEF Skip, PassText, AddPath, AddDirectories, Add, Go, Ordinary, Reading,
                        Flattening
    <2> QED
      BY <1>5, <2>1, <2>2, EntryKeepsMeaning DEF FlattensSelected
  <1>6. CASE Include \/ Return
    <2>1. outcome' = "none"
      BY <1>6 DEF Include, Including, Selects, Ordinary, Reading, Return, AtEnd, Flattening
    <2> QED
      BY <1>6, <2>1, IncludeKeepsMeaning, ReturnKeepsMeaning DEF FlattensSelected
  <1>7. CASE CannotRead \/ Misplaced \/ Reject \/ NoChild \/ Unterminated
    BY <1>1, <1>7 DEF CannotRead, Misplaced, Reject, NoChild, Unterminated
  <1> QED
    BY <1>1, <1>2, <1>3, <1>4, <1>5, <1>6, <1>7 DEF Flatten

\* Flattening begins with nothing read.
LEMMA BeginMeans ==
  ASSUME IInv, Begin
  PROVE  StacksMean' /\ FlattensSelected'
  <1> DEFINE new == Frame(call.top, Parent(call.top))
  <1>1. /\ call' = call /\ outcome' = "none" /\ frames' = <<new>>
        /\ Real(call.top) \in DOMAIN call.texts
    BY DEF Begin, IInv, ReadingFollowsPc, Before
  <1>2. /\ new.file = call.top /\ new.base = Parent(call.top) /\ new.line = 1
        /\ new.levels = <<Outside>> /\ new.sections = Nothing
    BY DEF Frame
  <1> HIDE DEF new
  <1>3. Text(new) = call.texts[Real(new.file)] /\ Len(Text(new)) \in Nat
    BY <1>1, <1>2, LenProperties DEF Text, IInv, FfTypeOK, FlattenerTypeOK, IsCall
  <1>4. FrameBlocks(new)
    BY <1>2, <1>3, BlocksAtStart DEF FrameBlocks
  <1>5. frames'[1] = new /\ Len(frames') = 1
    BY <1>1
  <1>6. (FrameBlocks(frames[1]))'
    BY <1>1, <1>4, <1>5, MeaningStands
  <1>7. FrameMeans(1)'
    <2>1. UpTo(Within[Deep - 1], new.file, new.base)[new.line - 1] = Nothing
      BY <1>2, <1>3, UpToUnfolds
    <2>2. (MeansUpTo(1))' = UpTo(Within[Deep - 1], new.file, new.base)
      BY <1>1, <1>5, MeaningStands DEF MeansUpTo
    <2> QED
      BY <1>2, <1>5, <2>1, <2>2 DEF FrameMeans
  <1>8. \A i \in 1 .. 1 : i = 1
    OBVIOUS
  <1>9. StacksMean'
    BY <1>1, <1>2, <1>5, <1>6, <1>7, <1>8 DEF StacksMean
  <1> QED
    BY <1>1, <1>9 DEF FlattensSelected

\* The calls begin with the invariant.
LEMMA InitMInv == Init => MInv
  <1> SUFFICES ASSUME Init PROVE StacksMean /\ FlattensSelected
    BY InitIInv DEF MInv
  <1>1. frames = <<>> /\ outcome = "none" /\ Len(frames) = 0
    BY DEF Init
  <1> QED
    BY <1>1 DEF StacksMean, FlattensSelected

\* MInv is inductive.
LEMMA NextMInv == MInv /\ [Next]_vars => MInv'
  <1> SUFFICES ASSUME MInv, [Next]_vars PROVE MInv'
    OBVIOUS
  <1>0. IInv /\ IInv' /\ FlattenerTypeOK /\ ChainIsReal
    BY NextIInv DEF MInv, IInv, FfTypeOK
  <1>1. CASE Begin
    BY <1>0, <1>1, BeginMeans DEF MInv
  <1>2. CASE Lines
    <2>1. Flatten
      BY <1>2 DEF Lines
    <2>2. call' = call
      BY <2>1 DEF Flatten, CannotRead, Open, Elsif, Else, Endif, Misplaced, Skip, Reject,
                  PassText, AddPath, AddDirectories, NoChild, Cycle, Include, Unterminated,
                  Return, Finish, Fail, Go, Add, Branch
    <2>3. Spaced(call)' = Spaced(call)
      BY <2>2
    <2> QED
      BY <1>0, <2>1, <2>3, FlattenKeepsMeaning DEF MInv
  <1>3. CASE UNCHANGED flattener
    <2>1. /\ UNCHANGED <<call, frames>> /\ call' = call
          /\ outcome' = outcome /\ result' = result /\ Spaced(call)' = Spaced(call)
      BY <1>3 DEF flattener
    <2> QED
      BY <1>0, <2>1, MeaningKept, MeaningStands DEF MInv, FlattensSelected
  <1>4. [Next]_vars => Begin \/ Lines \/ UNCHANGED flattener
    BY DEF Next, Step, OpenLog, RefuseLog, NoLog, NotBegun, LinesFail, LogConflict,
           OutputConflict, MakeOutput, WriteOutput, ReplaceOutput, PublishLog, Unlogged,
           Unexpected, OutputFails, PublishFails, Kill, Ended, vars
  <1> QED
    BY <1>1, <1>2, <1>3, <1>4

\* Where every directive stands apart from its macro by a space, what ff writes
\* is what the filelists mean: exactly the entries in selected branches, through
\* any nesting of blocks and inclusions, each resolved against its base, in their
\* order and their group.  With a tab it may not be: the directive is then no
\* directive in a selected branch and passed over in another.
THEOREM SelectedIsFlattened == Spec => [](Spaced(call) => FlattensSelected)
  <1>1. MInv => (Spaced(call) => FlattensSelected)
    BY DEF MInv
  <1> QED
    BY <1>1, InitMInv, NextMInv, PTL DEF Spec
=============================================================================
