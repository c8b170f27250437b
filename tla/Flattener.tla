------------------------------ MODULE Flattener ------------------------------
(***************************************************************************)
(* _flatten_lines (src/ff/__init__.py): a filelist is read entry by entry; *)
(* conditional directives select entries, -f and -F open a child filelist, *)
(* and what is selected goes to one of three sections.                     *)
(*                                                                         *)
(* A path is a sequence of components, absolute when it starts with Root.  *)
(* An entry is what the tests on its text make of it.  The five lists of   *)
(* a filelist's conditional blocks, pushed and popped together, are one    *)
(* stack of levels.  The recursion is a stack of frames.                   *)
(***************************************************************************)
EXTENDS Naturals, Sequences, FiniteSets

CONSTANTS
    Calls,          \* the calls: a FlattenRequest and the files it meets
    Component,      \* what paths are made of
    Variable,       \* environment variables
    Macro,          \* names of conditional macros
    Root, None

Path == Seq(Component)
Ref == Seq(Component \cup Variable)
Section == {"defines", "incdirs", "others"}

\* tab: a tab and not a space stands between the directive and its macro.
\* "malformed" is a directive of the wrong shape, "junk" what no rule accepts.
Entry ==
    [kind : {"ifdef", "ifndef", "elsif"}, macro : Macro, tab : BOOLEAN]
        \cup [kind : {"else", "endif", "malformed", "junk"}]
        \cup [kind : {"text"}, section : Section]
        \cup [kind : {"path"}, ref : Ref]
        \cup [kind : {"incdir"}, refs : Seq(Ref), remark : BOOLEAN]
        \cup [kind : {"f", "F"}, ref : Ref, remark : BOOLEAN]

\* texts: the entries of the filelists; broken: those that cannot be decoded or
\* split into entries; files: what else there is; links: symbolic links, and
\* at: names that lead through a linked directory.  No value is an unset one.
IsCall(c) ==
    /\ c.top \in Path \ {<<>>} /\ c.cwd \in Path
    /\ c.output \in Path /\ c.log \in Path \cup {None}
    /\ c.macros \subseteq Macro
    /\ c.environment \in [Variable -> Ref]
    /\ DOMAIN c.texts \subseteq Path /\ IsFiniteSet(DOMAIN c.texts)
    /\ \A p \in DOMAIN c.texts : c.texts[p] \in Seq(Entry)
    /\ c.broken \subseteq Path /\ c.files \subseteq Path
    /\ DOMAIN c.links \subseteq Path /\ \A p \in DOMAIN c.links : c.links[p] \in Path
    /\ DOMAIN c.at \subseteq Path /\ \A p \in DOMAIN c.at : c.at[p] \in Path
    /\ DOMAIN c.links \cap DOMAIN c.texts = {}

\* The lines of the result: entries passed on, remarks, and where a filelist
\* leads to; a path stands for the line and for the note of where it leads.
Output ==
    ({"text", "remark"} \X Path \X Nat) \cup ({"path"} \X Path \X Path) \cup ({"link"} \X Path)

ASSUME CallsAssumption ==
    /\ None \notin Component \cup Variable \cup Path
    /\ Root \in Component /\ Component \cap Variable = {}
    /\ \A c \in Calls : IsCall(c)

VARIABLES
    call,
    frames,         \* the filelists being read, the top filelist first
    inputs,         \* input_filelists: the real files of all that were opened
    outcome,        \* "none", then how flattening ended
    result          \* the sections, when it ended well

flattener == <<call, frames, inputs, outcome, result>>

-----------------------------------------------------------------------------
Place(p) == IF p \in DOMAIN call.at THEN call.at[p] ELSE p

\* Path.resolve: the identity of a file.
Real(p) == IF Place(p) \in DOMAIN call.links THEN call.links[Place(p)] ELSE Place(p)

Exists(p) == Real(p) \in call.files \cup DOMAIN call.texts

Parent(p) == SubSeq(p, 1, Len(p) - 1)

\* _expand_environment_variables.  A variable that is unset, empty or already
\* in the chain leaves None behind, and with it the path does not exist.
Expansion(env, ref) ==
    LET Of[chain \in Seq(Variable), rest \in Ref] ==
            IF rest = <<>> THEN <<>>
            ELSE LET v == Head(rest)
                     value == IF v \notin Variable THEN <<v>>
                              ELSE IF (\E i \in DOMAIN chain : chain[i] = v) \/ env[v] = <<>>
                              THEN <<None>>
                              ELSE Of[Append(chain, v), env[v]]
                 IN  value \o Of[chain, Tail(rest)]
    IN  Of[<<>>, ref]

Expand(ref) == Expansion(call.environment, ref)

\* Mutant: what an -f child contains is looked up beside it.
ContentBaseBeside(kind, child) == Parent(child)

\* The base of what a child filelist contains.
ContentBase(kind, child) == IF kind = "f" THEN call.cwd ELSE Parent(child)

\* _absolute_logical_path of an expanded reference.
Resolve(ref, base) ==
    LET p == Expand(ref) IN IF p # <<>> /\ Head(p) = Root THEN p ELSE base \o p

\* _symlink_target_annotation
Note(p) == IF Real(p) = p THEN <<>> ELSE << <<"link", Real(p)>> >>

-----------------------------------------------------------------------------
Level == [active : BOOLEAN, taken : BOOLEAN, elseSeen : BOOLEAN]
Outside == [active |-> TRUE, taken |-> FALSE, elseSeen |-> FALSE]
Nothing == [s \in Section |-> <<>>]

Frame(file, base) ==
    [file |-> file, base |-> base, line |-> 1, levels |-> <<Outside>>, sections |-> Nothing]

Top == frames[Len(frames)]
Text(f) == call.texts[Real(f.file)]
Depth == Len(Top.levels)
Inner == Top.levels[Depth]
Entered == Top.levels[Depth - 1]

Flattening == outcome = "none" /\ frames # <<>> /\ Real(Top.file) \notin call.broken
Reading == Flattening /\ Top.line <= Len(Text(Top))
This == Text(Top)[Top.line]
Reads(kinds) == Reading /\ This.kind \in kinds

Conditional == {"ifdef", "ifndef", "elsif", "else", "endif"}

\* The directive tests look for "`ifdef " and the like, with a space.
Directive(kinds) ==
    Reads(kinds) /\ (This.kind \in {"ifdef", "ifndef", "elsif"} => ~This.tab)

\* Everything else is looked at in a selected branch only.
Ordinary == Reading /\ This.kind # "malformed" /\ ~Directive(Conditional)
Selects(kinds) == Ordinary /\ Inner.active /\ This.kind \in kinds

Go(frame) ==
    /\ frames' = [frames EXCEPT ![Len(frames)] = [frame EXCEPT !.line = @ + 1]]
    /\ UNCHANGED <<call, inputs, outcome, result>>

Fail(how) ==
    /\ outcome' = how
    /\ UNCHANGED <<call, frames, inputs, result>>

Add(section, items) == Go([Top EXCEPT !.sections[section] = @ \o items])

Branch(selected, isElse) ==
    Go([Top EXCEPT !.levels[Depth] =
            [active   |-> selected,
             taken    |-> Inner.taken \/ selected,
             elseSeen |-> isElse]])

CannotRead ==
    /\ outcome = "none" /\ frames # <<>> /\ Real(Top.file) \in call.broken
    /\ Fail("error")

Open ==
    /\ Directive({"ifdef", "ifndef"})
    /\ LET selected == Inner.active /\ (This.macro \in call.macros <=> This.kind = "ifdef")
       IN  Go([Top EXCEPT !.levels = Append(@,
                  [active |-> selected, taken |-> selected, elseSeen |-> FALSE])])

Elsif ==
    /\ Directive({"elsif"})
    /\ Depth > 1 /\ ~Inner.elseSeen
    /\ Branch(Entered.active /\ ~Inner.taken /\ This.macro \in call.macros, FALSE)

Else ==
    /\ Directive({"else"})
    /\ Depth > 1 /\ ~Inner.elseSeen
    /\ Branch(Entered.active /\ ~Inner.taken, TRUE)

\* Mutant: an `endif closes what no directive has opened.
EndifUnopened ==
    /\ Directive({"endif"})
    /\ Go([Top EXCEPT !.levels = SubSeq(@, 1, Depth - 1)])

Endif ==
    /\ Directive({"endif"})
    /\ Depth > 1
    /\ Go([Top EXCEPT !.levels = SubSeq(@, 1, Depth - 1)])

\* No block to belong to, or a branch behind `else; a directive of the wrong shape.
Misplaced ==
    /\ \/ Directive({"elsif", "else", "endif"}) /\ Depth = 1
       \/ Directive({"elsif", "else"}) /\ Depth > 1 /\ Inner.elseSeen
       \/ Reads({"malformed"})
    /\ Fail("error")

\* Mutant: the line number is not advanced.
SkipInPlace == Ordinary /\ ~Inner.active /\ UNCHANGED flattener

Skip == Ordinary /\ ~Inner.active /\ Go(Top)

\* A directive with a tab is no directive here, and no other rule accepts it.
Reject == Selects(Conditional \cup {"junk"}) /\ Fail("error")

PassText == Selects({"text"}) /\ Add(This.section, << <<"text", Top.file, Top.line>> >>)

\* A source, -v or -y.
AddPath ==
    /\ Selects({"path"})
    /\ LET p == Resolve(This.ref, Top.base)
       IN  IF Exists(p) THEN Add("others", << <<"path", p, Real(p)>> >>) ELSE Fail("error")

\* A remark behind an entry that becomes several lines, or none, goes first.
Remark(entry, frame) ==
    IF entry.remark THEN << <<"remark", frame.file, frame.line>> >> ELSE <<>>

Directories(refs, base) ==
    [i \in DOMAIN refs |-> <<"path", Resolve(refs[i], base), Real(Resolve(refs[i], base))>>]

AddDirectories ==
    /\ Selects({"incdir"})
    /\ IF \A i \in DOMAIN This.refs : Exists(Resolve(This.refs[i], Top.base))
       THEN Add("incdirs", Remark(This, Top) \o Directories(This.refs, Top.base))
       ELSE Fail("error")

Child == Resolve(This.ref, IF This.kind = "f" THEN call.cwd ELSE Parent(Top.file))
Opened == {Real(frames[i].file) : i \in DOMAIN frames}
Including == Selects({"f", "F"}) /\ Real(Child) \in DOMAIN call.texts

NoChild == Selects({"f", "F"}) /\ Real(Child) \notin DOMAIN call.texts /\ Fail("error")

Cycle ==
    /\ Including /\ Real(Child) \in Opened
    /\ inputs' = inputs \cup {Real(Child)}
    /\ outcome' = "cycle"
    /\ UNCHANGED <<call, frames, result>>

Announced ==
    [Top EXCEPT !.line = @ + 1, !.sections["others"] = @ \o Remark(This, Top) \o Note(Child)]

\* Mutant: only the including filelist itself is looked at.
IncludeFarCycle ==
    /\ Including /\ Real(Child) # Real(Top.file)
    /\ frames' = Append([frames EXCEPT ![Len(frames)] = Announced],
                        Frame(Child, ContentBase(This.kind, Child)))
    /\ inputs' = inputs \cup {Real(Child)}
    /\ UNCHANGED <<call, outcome, result>>

Include ==
    /\ Including /\ Real(Child) \notin Opened
    /\ frames' = Append([frames EXCEPT ![Len(frames)] = Announced],
                        Frame(Child, ContentBase(This.kind, Child)))
    /\ inputs' = inputs \cup {Real(Child)}
    /\ UNCHANGED <<call, outcome, result>>

AtEnd == Flattening /\ Top.line > Len(Text(Top))

Unterminated == AtEnd /\ Depth > 1 /\ Fail("error")

Extend(sections, child) == [s \in Section |-> sections[s] \o child[s]]

Return ==
    /\ AtEnd /\ Depth = 1 /\ Len(frames) > 1
    /\ LET n == Len(frames) - 1
       IN  frames' = [SubSeq(frames, 1, n) EXCEPT ![n].sections = Extend(@, Top.sections)]
    /\ UNCHANGED <<call, inputs, outcome, result>>

\* flatten_filelist notes before everything where the top filelist leads to.
Finish ==
    /\ AtEnd /\ Depth = 1 /\ Len(frames) = 1
    /\ outcome' = "flattened"
    /\ result' = [Top.sections EXCEPT !["others"] = Note(call.top) \o @]
    /\ UNCHANGED <<call, frames, inputs>>

Flatten ==
    \/ CannotRead \/ Open \/ Elsif \/ Else \/ Endif \/ Misplaced \/ Skip \/ Reject
    \/ PassText \/ AddPath \/ AddDirectories \/ NoChild \/ Cycle \/ Include
    \/ Unterminated \/ Return \/ Finish

-----------------------------------------------------------------------------
FrameType ==
    [file : Path, base : Path, line : Nat \ {0}, levels : Seq(Level),
     sections : [Section -> Seq(Output)]]

\* The types of the state.
FlattenerTypeOK ==
    /\ IsCall(call)
    /\ frames \in Seq(FrameType)
    /\ \A i \in DOMAIN frames :
          frames[i].levels # <<>> /\ Real(frames[i].file) \in DOMAIN call.texts
    /\ inputs \subseteq DOMAIN call.texts
    /\ outcome \in {"none", "error", "cycle", "flattened"}
    /\ result \in [Section -> Seq(Output)]

-----------------------------------------------------------------------------
(* What a filelist means, without a stack.                                 *)

Opening == {"ifdef", "ifndef"}

Count(text, a, b, kinds) == Cardinality({i \in a .. b : text[i].kind \in kinds})

\* The blocks around line n, named by the line that opens them.
Enclosing(text, n) ==
    {b \in 1 .. n - 1 :
        /\ text[b].kind \in Opening
        /\ \A m \in b .. n - 1 : Count(text, b, m, Opening) > Count(text, b, m, {"endif"})}

\* The branches of block b that begin up to line n.
Heads(text, b, n) ==
    {b} \cup {h \in b + 1 .. n : text[h].kind \in {"elsif", "else"}
                                /\ Enclosing(text, h) = Enclosing(text, b) \cup {b}}

\* What the directive at the head of a branch asks for.
Holds(e) ==
    CASE e.kind \in {"ifdef", "elsif"} -> e.macro \in call.macros
      [] e.kind = "ifndef" -> e.macro \notin call.macros
      [] e.kind = "else"   -> TRUE

\* Of block b the branch is selected that line n is in.
InSelected(text, b, n) ==
    \E h \in Heads(text, b, n) :
        /\ Holds(text[h])
        /\ \A g \in Heads(text, b, n) : g # h => g < h /\ ~Holds(text[g])

Selected(text, n) == \A b \in Enclosing(text, n) : InSelected(text, b, n)

\* What line n of a filelist adds to what the lines before it mean; within is
\* what filelists mean themselves.
With(sections, section, items) == [sections EXCEPT ![section] = @ \o items]

LineAdds(within, file, base, n, before) ==
    LET e     == call.texts[Real(file)][n]
        here  == [file |-> file, line |-> n]
        child == Resolve(e.ref, IF e.kind = "f" THEN call.cwd ELSE Parent(file))
    IN  CASE e.kind \in Conditional \/ ~Selected(call.texts[Real(file)], n) -> before
          [] OTHER ->
               CASE e.kind = "text" -> With(before, e.section, << <<"text", file, n>> >>)
                 [] e.kind = "path" -> With(before, "others", Directories(<<e.ref>>, base))
                 [] e.kind = "incdir" ->
                      With(before, "incdirs", Remark(e, here) \o Directories(e.refs, base))
                 [] OTHER ->
                      Extend(With(before, "others", Remark(e, here) \o Note(child)),
                             within[<<child, IF e.kind = "f" THEN call.cwd ELSE Parent(child)>>])

UpTo(within, file, base) ==
    LET upTo[n \in 0 .. Len(call.texts[Real(file)])] ==
            IF n = 0 THEN Nothing ELSE LineAdds(within, file, base, n, upTo[n - 1])
    IN  upTo

\* What each filelist means, with what it is looked up beside, if at most so
\* many filelists are open at once: there are no more than there are filelists.
Deep == Cardinality(DOMAIN call.texts)

Within ==
    LET of[deep \in 0 .. Deep] ==
            [f \in Path \X Path |->
                IF deep = 0 THEN Nothing
                ELSE UpTo(of[deep - 1], f[1], f[2])[Len(call.texts[Real(f[1])])]]
    IN  of

Meaning ==
    LET whole == Within[Deep][<<call.top, Parent(call.top)>>]
    IN  [whole EXCEPT !["others"] = Note(call.top) \o @]

\* What ff writes is what the filelists mean: exactly the entries in selected
\* branches, resolved against the right base, in their order and their group.
FlattensSelected == outcome = "flattened" => result = Meaning

\* The line before the one a frame is at includes the filelist of another.
Leads(from, to) ==
    LET e == Text(from)[from.line - 1]
    IN  /\ e.kind \in {"f", "F"} /\ from.levels[Len(from.levels)].active
        /\ to.file = Resolve(e.ref, IF e.kind = "f" THEN call.cwd ELSE Parent(from.file))

\* The recursion is real and bounded: every frame was included by a selected
\* line of the frame before it, no file is open twice, and a reported cycle
\* leads back to an open file.
ChainIsReal ==
    /\ \A i, j \in DOMAIN frames :
          Real(frames[i].file) = Real(frames[j].file) => i = j
    /\ \A i \in DOMAIN frames : i > 1 => Leads(frames[i - 1], frames[i])
    /\ outcome = "cycle" =>
          \E i \in DOMAIN frames : Real(frames[i].file) = Real(Child)
=============================================================================
