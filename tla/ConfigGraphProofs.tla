-------------------------- MODULE ConfigGraphProofs --------------------------
(***************************************************************************)
(* Theorems of ConfigGraph, for any files, include graphs and              *)
(* declarations: the walk puts every file behind what it includes, and the *)
(* cycles it reports are cycles; merged files and diagnostics account for  *)
(* every include; and the last file to say something in the merged order   *)
(* decides, which is one that no other of them includes.                   *)
(***************************************************************************)
EXTENDS ConfigGraph, SequenceTheorems, FiniteSetTheorems, WellFoundedInduction, TLAPS

\* The calls an active file has made and those it has still to make are its
\* include list, in order; what has been called is merged, but for the last of
\* them, which is the next active file.
Made(i) == Len(includes[active[i]]) - Len(rest[i + 1])
Follows(i) ==
    /\ Made(i) \in Nat
    /\ \A k \in 1 .. Len(rest[i + 1]) : rest[i + 1][k] = includes[active[i]][Made(i) + k]
    /\ \A k \in 1 .. Made(i) :
          \/ includes[active[i]][k] \in merged
          \/ k = Made(i) /\ i < Len(active)
    /\ i < Len(active) => Made(i) > 0 /\ includes[active[i]][Made(i)] = active[i + 1]
CallsFollowIncludes == \A i \in 1 .. Len(active) : Follows(i)

\* Each walk starts with its entry, and has merged it when it has ended.
Entry == IF graph = "rules" THEN EntryRules ELSE EntryTc
Rooted ==
    /\ graph # "merge" =>
          \/ rest[1] = <<Entry>> /\ active = <<>>
          \/ rest[1] = <<>> /\ active = <<>> /\ Entry \in merged
          \/ rest[1] = <<>> /\ active # <<>> /\ active[1] = Entry
    /\ graph # "rules" => EntryRules \in merged
    /\ graph = "merge" => EntryTc \in merged /\ active = <<>>

\* merged_paths are the files put in order, and none of them is active.
MergedIsOrder ==
    /\ merged = {Order[i] : i \in 1 .. Len(Order)}
    /\ graph = "rules" => nodes["tc"] = <<>>
    /\ \A i \in 1 .. Len(active) : active[i] \notin merged
    /\ \A i, j \in 1 .. Len(active) : active[i] = active[j] => i = j

\* The parts of IncludesFirst that hold while the walk goes on.
OnceEach(order) == \A i, j \in 1 .. Len(order) : order[i] = order[j] => i = j
Behind(order) ==
    \A i \in 1 .. Len(order) : \A k \in 1 .. Len(includes[order[i]]) :
        \E j \in 1 .. i - 1 : order[j] = includes[order[i]][k]

\* TypeOK without the count of the active files, which MergedIsOrder implies.
Typed ==
    /\ includes \in [Files -> Seq(Files)] /\ includes \in Graphs /\ declares \in Declarations
    /\ graph \in {"rules", "tc", "merge"}
    /\ active \in Seq(Files)
    /\ rest \in Seq(Seq(Files)) /\ Len(rest) = Len(active) + 1
    /\ merged \subseteq Files
    /\ nodes \in [Entered -> Seq(Files)]
    /\ diagnostics \in Seq(Seq(Files))
    /\ outcome \in {"none", "cycle", "load", "compiled", "conflict"}
    /\ cycle \in Seq(Files)
    /\ goOn \in [Entered -> BOOLEAN]

OrderKept == MergedIsOrder /\ OnceEach(Order) /\ Behind(Order)
Walked == CallsFollowIncludes /\ Rooted /\ OrderKept

IInv == Typed /\ Walked /\ CyclesAreReal

\* The walk begins with the invariant.
THEOREM InitIInv == Init => IInv
  <1> SUFFICES ASSUME Init PROVE IInv
    OBVIOUS
  <1> USE GraphAssumption DEF Init, Entered
  <1>1. <<>> \in Seq(Files) /\ <<EntryRules>> \in Seq(Files) /\ <<>> \in Seq(Seq(Files))
    OBVIOUS
  <1>2. <<<<EntryRules>>>> \in Seq(Seq(Files)) /\ Len(<<<<EntryRules>>>>) = 1
    BY <1>1
  <1>3. Typed
    <2>1. nodes \in [Entered -> Seq(Files)]
      BY <1>1
    <2>2. goOn \in [Entered -> BOOLEAN]
      OBVIOUS
    <2>3. includes \in [Files -> Seq(Files)]
      OBVIOUS
    <2>4. rest \in Seq(Seq(Files)) /\ Len(rest) = Len(active) + 1
      BY <1>2
    <2> QED
      BY <1>1, <2>1, <2>2, <2>3, <2>4 DEF Typed
  <1>4. Order = <<>> /\ Len(Order) = 0
    BY DEF Order
  <1>5. Walked
    BY <1>2, <1>4 DEF Walked, CallsFollowIncludes, Rooted, Entry, OrderKept, MergedIsOrder, OnceEach, Behind
  <1> QED
    BY <1>3, <1>5 DEF IInv, CyclesAreReal

-----------------------------------------------------------------------------
(* Sequences.                                                              *)

\* A new file at the end, behind all it includes.
LEMMA BehindGrows ==
  ASSUME includes \in [Files -> Seq(Files)], NEW s \in Seq(Files), NEW f \in Files,
         OnceEach(s), Behind(s),
         \A i \in 1 .. Len(s) : s[i] # f,
         \A k \in 1 .. Len(includes[f]) : \E j \in 1 .. Len(s) : s[j] = includes[f][k]
  PROVE  OnceEach(Append(s, f)) /\ Behind(Append(s, f))
  <1> DEFINE t == Append(s, f)
  <1>1. /\ Len(s) \in Nat /\ Len(t) = Len(s) + 1 /\ t[Len(s) + 1] = f
        /\ \A i \in 1 .. Len(s) : t[i] = s[i] /\ s[i] \in Files
    BY AppendProperties, LenProperties
  <1> HIDE DEF t
  <1>2. Len(s) \in Nat /\ Len(t) = Len(s) + 1
    BY <1>1
  <1>3. ASSUME NEW n \in 1 .. Len(t)
        PROVE  n \in 1 .. Len(s) \/ n = Len(s) + 1
    BY <1>2
  <1>4. ASSUME NEW i \in 1 .. Len(t), NEW j \in 1 .. Len(t), t[i] = t[j]
        PROVE  i = j
    <2>1. \A n \in 1 .. Len(t) : n \in 1 .. Len(s) \/ n = Len(s) + 1
      BY <1>3
    <2>2. CASE i \in 1 .. Len(s) /\ j \in 1 .. Len(s)
      BY <1>1, <1>4, <2>2 DEF OnceEach
    <2>3. CASE i = Len(s) + 1
      BY <1>1, <1>4, <2>1, <2>3
    <2>4. CASE j = Len(s) + 1
      BY <1>1, <1>4, <2>1, <2>4
    <2> QED
      BY <2>1, <2>2, <2>3, <2>4
  <1>5. ASSUME NEW i \in 1 .. Len(t), NEW k \in 1 .. Len(includes[t[i]])
        PROVE  \E j \in 1 .. i - 1 : t[j] = includes[t[i]][k]
    <2>1. CASE i = Len(s) + 1
      <3>1. PICK j \in 1 .. Len(s) : s[j] = includes[f][k]
        BY <1>1, <1>5, <2>1
      <3> QED
        BY <1>1, <2>1, <3>1
    <2>2. CASE i \in 1 .. Len(s)
      <3>1. PICK j \in 1 .. i - 1 : s[j] = includes[s[i]][k]
        BY <1>1, <1>5, <2>2 DEF Behind
      <3>2. i \in Int /\ j \in 1 .. Len(s) /\ j \in 1 .. i - 1
        BY <1>1, <2>2, <3>1
      <3>3. t[i] = s[i] /\ t[j] = s[j]
        BY <1>1, <2>2, <3>2
      <3> QED
        BY <3>1, <3>2, <3>3
    <2>3. i \in 1 .. Len(s) \/ i = Len(s) + 1
      BY <1>3
    <2> QED
      BY <2>1, <2>2, <2>3
  <1> QED
    BY <1>4, <1>5 DEF t, OnceEach, Behind

\* The number of elements of a sequence without repetition.
LEMMA OnceCounts ==
  ASSUME NEW S, NEW s \in Seq(S), NEW m \in 1 .. Len(s) + 1,
         \A i, j \in 1 .. Len(s) : s[i] = s[j] => i = j
  PROVE  Cardinality({s[i] : i \in m .. Len(s)}) = Len(s) - m + 1
  <1> DEFINE T == {s[i] : i \in m .. Len(s)}
             f == [i \in m .. Len(s) |-> s[i]]
  <1>1. Len(s) \in Nat /\ Len(s) \in Int /\ m \in Int /\ m <= Len(s) + 1
    OBVIOUS
  <1>2. f \in Bijection(m .. Len(s), T)
    BY <1>1 DEF Bijection, Injection, Surjection, IsInjective
  <1>3. ExistsBijection(m .. Len(s), T)
    BY <1>2 DEF ExistsBijection
  <1>4. IsFiniteSet(m .. Len(s)) /\ Cardinality(m .. Len(s)) = Len(s) - m + 1
    <2>1. /\ IsFiniteSet(m .. Len(s))
          /\ Cardinality(m .. Len(s)) = IF m > Len(s) THEN 0 ELSE Len(s) - m + 1
      BY <1>1, FS_Interval
    <2> QED
      BY <1>1, <2>1
  <1> QED
    BY <1>3, <1>4, FS_Bijection

-----------------------------------------------------------------------------
(* The walk.                                                               *)

\* The call under way is the next include of the innermost active file, or
\* that of the entry.
LEMMA CallFacts ==
  ASSUME IInv, Calling
  PROVE  /\ Top = Len(active) + 1 /\ Path \in Files
         /\ Called \in Seq(Seq(Files)) /\ Len(Called) = Len(rest)
         /\ \A i \in 1 .. Len(active) : Called[i] = rest[i]
         /\ Called[Top] \in Seq(Files) /\ Len(Called[Top]) = Len(rest[Top]) - 1
         /\ Path = rest[Top][1]
         /\ \A k \in 1 .. Len(Called[Top]) : Called[Top][k] = rest[Top][k + 1]
         /\ active = <<>> => Path = Entry /\ Called[Top] = <<>>
         /\ active # <<>> => rest[1] = <<>> /\ active[1] = Entry
  <1> USE DEF IInv, Typed, Calling, Walking
  <1>1. Len(active) \in Nat /\ Len(rest) = Len(active) + 1 /\ Top = Len(active) + 1
    BY DEF Top
  <1>2. Top \in 1 .. Len(rest) /\ rest[Top] \in Seq(Files) /\ rest[Top] # <<>>
    BY <1>1
  <1>3. /\ Path \in Files /\ Tail(rest[Top]) \in Seq(Files) /\ Path = rest[Top][1]
        /\ Len(Tail(rest[Top])) = Len(rest[Top]) - 1
        /\ \A k \in 1 .. Len(Tail(rest[Top])) : Tail(rest[Top])[k] = rest[Top][k + 1]
    BY <1>2, HeadTailProperties DEF Path
  <1>4. /\ Called \in Seq(Seq(Files)) /\ Len(Called) = Len(rest)
        /\ Called[Top] = Tail(rest[Top])
        /\ \A i \in 1 .. Len(active) : Called[i] = rest[i]
    BY <1>1, <1>2, <1>3, ExceptSeq DEF Called
  <1>5. active = <<>> => Path = Entry /\ Tail(rest[Top]) = <<>>
    <2> SUFFICES ASSUME active = <<>> PROVE Path = Entry /\ Tail(rest[Top]) = <<>>
      OBVIOUS
    <2>1. Top = 1 /\ rest[1] = <<Entry>>
      BY <1>1, <1>2 DEF Walked, Rooted
    <2> QED
      BY <2>1 DEF Path
  <1>6. active # <<>> => rest[1] = <<>> /\ active[1] = Entry
    BY DEF Walked, Rooted
  <1> QED
    BY <1>1, <1>3, <1>4, <1>5, <1>6

\* A call is made: what is to be called and what has been remain the list.
LEMMA CallMade ==
  ASSUME IInv, Calling, active # <<>>
  PROVE  LET n == Len(active)
             list == includes[active[n]]
             made == Len(list) - Len(Called[n + 1])
         IN  /\ made \in Nat \ {0} /\ made = Made(n) + 1
             /\ list[made] = Path
             /\ \A k \in 1 .. Len(Called[n + 1]) : Called[n + 1][k] = list[made + k]
             /\ \A k \in 1 .. made - 1 : list[k] \in merged
  <1> DEFINE n == Len(active)
             list == includes[active[n]]
             made == Len(list) - Len(Called[n + 1])
  <1>1. active \in Seq(Files) /\ n \in Nat \ {0} /\ Top = n + 1
    BY CallFacts, EmptySeq DEF IInv, Typed
  <1>2. Made(n) = Len(list) - Len(rest[n + 1]) /\ made = Len(list) - Len(Called[n + 1])
    BY DEF Made
  <1>3. /\ Made(n) \in Nat
        /\ \A k \in 1 .. Len(rest[n + 1]) : rest[n + 1][k] = list[Made(n) + k]
        /\ \A k \in 1 .. Made(n) : list[k] \in merged
    <2>1. n \in 1 .. Len(active) /\ ~(n < n)
      BY <1>1
    <2> QED
      BY <2>1 DEF IInv, Walked, CallsFollowIncludes, Follows
  <1>4. /\ Len(list) \in Nat /\ Len(rest[n + 1]) \in Nat \ {0} /\ Len(Called[n + 1]) \in Nat
        /\ Len(Called[n + 1]) = Len(rest[n + 1]) - 1
        /\ Path = rest[n + 1][1]
        /\ \A k \in 1 .. Len(Called[n + 1]) : Called[n + 1][k] = rest[n + 1][k + 1]
    <2>1. list \in Seq(Files)
      BY <1>1 DEF IInv, Typed
    <2>2. rest[n + 1] \in Seq(Files) /\ rest[n + 1] # <<>>
      BY <1>1 DEF IInv, Typed, Calling
    <2> QED
      BY <1>1, <2>1, <2>2, CallFacts, EmptySeq
  <1> HIDE DEF n, list, made
  <1>5. made \in Nat \ {0} /\ made = Made(n) + 1
    BY <1>2, <1>3, <1>4
  <1>6. list[made] = Path
    BY <1>3, <1>4, <1>5
  <1>7. ASSUME NEW k \in 1 .. Len(Called[n + 1])
        PROVE  Called[n + 1][k] = list[made + k]
    <2>1. /\ Len(rest[n + 1]) \in Nat /\ Len(Called[n + 1]) = Len(rest[n + 1]) - 1
          /\ Made(n) \in Nat /\ made = Made(n) + 1 /\ k \in Int
      BY <1>3, <1>4, <1>5
    <2>2. k + 1 \in 1 .. Len(rest[n + 1]) /\ Made(n) + (k + 1) = made + k
      BY <2>1
    <2> QED
      BY <1>3, <1>4, <2>2
  <1>8. \A k \in 1 .. made - 1 : list[k] \in merged
    BY <1>3, <1>5
  <1> QED
    BY <1>5, <1>6, <1>7, <1>8 DEF n, list, made

\* The order of both graphs, and what it becomes when the walk puts a file in it.
LEMMA OrderTyped == ASSUME Typed PROVE Order \in Seq(Files)
  BY ConcatProperties DEF Typed, Order, Entered

\* A file that is merged goes to the end of the order.
LEMMA OrderGrows ==
  ASSUME Typed, graph # "merge", graph = "rules" => nodes["tc"] = <<>>, NEW f \in Files,
         nodes' = [nodes EXCEPT ![graph] = Append(@, f)]
  PROVE  Order' = Append(Order, f)
  <1>1. nodes["rules"] \in Seq(Files) /\ nodes["tc"] \in Seq(Files) /\ <<f>> \in Seq(Files)
    BY DEF Typed, Entered
  <1>2. CASE graph = "rules"
    <2>1. nodes'["rules"] = Append(nodes["rules"], f) /\ nodes'["tc"] = <<>>
      BY <1>2 DEF Typed, Entered
    <2>2. Append(nodes["rules"], f) \in Seq(Files)
      BY <1>1, AppendProperties
    <2>3. Order = nodes["rules"] \o <<>> /\ Order' = Append(nodes["rules"], f) \o <<>>
      BY <1>2, <2>1 DEF Order
    <2> QED
      BY <1>1, <2>2, <2>3, ConcatEmptySeq
  <1>3. CASE graph = "tc"
    <2>1. nodes'["tc"] = nodes["tc"] \o <<f>> /\ nodes'["rules"] = nodes["rules"]
      BY <1>1, <1>3, AppendIsConcat DEF Typed, Entered
    <2>2. Order' = nodes["rules"] \o (nodes["tc"] \o <<f>>)
      BY <2>1 DEF Order
    <2>3. ASSUME NEW r \in Seq(Files), NEW c \in Seq(Files), NEW l \in Seq(Files)
          PROVE  (r \o c) \o l = r \o (c \o l)
      BY ConcatAssociative
    <2>4. Order' = (nodes["rules"] \o nodes["tc"]) \o <<f>>
      BY <1>1, <2>2, <2>3, Zenon
    <2> QED
      BY <2>4, OrderTyped, AppendIsConcat DEF Order
  <1> QED
    BY <1>2, <1>3 DEF Typed

\* A step that merges nothing and enters nothing.
LEMMA OrderStays ==
  ASSUME OrderKept, UNCHANGED <<includes, graph, active, merged, nodes>>
  PROVE  OrderKept'
  <1>1. Order' = Order
    BY DEF Order
  <1>2. MergedIsOrder'
    BY <1>1 DEF OrderKept, MergedIsOrder
  <1>3. OnceEach(Order)' /\ Behind(Order)'
    BY <1>1 DEF OrderKept, OnceEach, Behind
  <1> QED
    BY <1>2, <1>3 DEF OrderKept

\* A second call of a merged file is reported and skipped.
LEMMA SkipMergedIInv == ASSUME IInv, SkipMerged PROVE IInv'
  <1> USE DEF IInv, SkipMerged, files
  <1> DEFINE n == Len(active)
  <1>1. Calling /\ n \in Nat
    BY DEF Typed
  <1>2. Typed'
    <2>1. Append(active, Path) \in Seq(Files)
      BY <1>1, CallFacts DEF Typed
    <2>2. diagnostics' \in Seq(Seq(Files))
      BY <2>1 DEF Typed
    <2> QED
      BY <1>1, <2>2, CallFacts DEF Typed
  <1>3. CallsFollowIncludes'
    <2> SUFFICES ASSUME NEW i \in 1 .. n PROVE Follows(i)'
      BY DEF CallsFollowIncludes
    <2>1. Follows(i) /\ active # <<>>
      BY <1>1, EmptySeq DEF Walked, CallsFollowIncludes
    <2>2. CASE i = n
      <3> DEFINE list == includes[active[n]]
                 made == Len(list) - Len(Called[n + 1])
      <3>1. /\ made \in Nat \ {0} /\ list[made] = Path
            /\ \A k \in 1 .. Len(Called[n + 1]) : Called[n + 1][k] = list[made + k]
            /\ \A k \in 1 .. made - 1 : list[k] \in merged
        BY <1>1, <2>1, CallMade
      <3>2. Made(n)' = made /\ rest' = Called
        BY DEF Made
      <3> HIDE DEF made
      <3>3. \A k \in 1 .. made : list[k] \in merged
        BY <3>1
      <3>4. ~(n < n)
        BY <1>1
      <3> QED
        BY <2>2, <3>1, <3>2, <3>3, <3>4 DEF Follows
    <2>3. CASE i # n
      <3>1. i + 1 \in 1 .. n
        BY <1>1, <2>3
      <3>2. rest'[i + 1] = rest[i + 1]
        BY <1>1, <3>1, CallFacts
      <3> QED
        BY <2>1, <3>2 DEF Follows, Made
    <2> QED
      BY <2>2, <2>3
  <1>4. Rooted'
    <2>1. CASE active = <<>>
      <3>1. rest'[1] = <<>> /\ Entry \in merged
        BY <1>1, <2>1, CallFacts
      <3> QED
        BY <2>1, <3>1 DEF Walked, Rooted, Entry
    <2>2. CASE active # <<>>
      <3>1. 1 \in 1 .. n
        BY <2>2, EmptySeq DEF Typed
      <3>2. rest'[1] = <<>> /\ active[1] = Entry
        BY <1>1, <2>2, <3>1, CallFacts
      <3> QED
        BY <1>1, <2>2, <3>2 DEF Walked, Rooted, Entry, Calling, Walking
    <2> QED
      BY <2>1, <2>2
  <1>5. OrderKept'
    BY OrderStays DEF Walked, OrderKept
  <1>6. CyclesAreReal'
    BY DEF CyclesAreReal, IncludesNext
  <1> QED
    BY <1>2, <1>3, <1>4, <1>5, <1>6 DEF Walked

\* The file that is entered has made no call yet and is the last one called.
LEMMA EnterIInv == ASSUME IInv, Enter PROVE IInv'
  <1> USE DEF IInv, Enter, files
  <1> DEFINE n == Len(active)
  <1>1. Calling /\ n \in Nat /\ active \in Seq(Files) /\ Path \in Files
    BY CallFacts DEF Typed
  <1>2. includes[Path] \in Seq(Files)
    BY <1>1 DEF Typed
  <1>3. /\ active' \in Seq(Files) /\ Len(active') = n + 1 /\ active'[n + 1] = Path
        /\ \A i \in 1 .. n : active'[i] = active[i]
    BY <1>1, AppendProperties
  <1>4. /\ rest' \in Seq(Seq(Files)) /\ Len(rest') = n + 2 /\ rest'[n + 2] = includes[Path]
        /\ \A i \in 1 .. n : rest'[i] = rest[i]
        /\ rest'[n + 1] = Called[n + 1]
    <2>1. /\ Called \in Seq(Seq(Files)) /\ Len(Called) = n + 1
          /\ \A i \in 1 .. n : Called[i] = rest[i]
      BY <1>1, CallFacts DEF Typed
    <2>2. /\ rest' \in Seq(Seq(Files)) /\ Len(rest') = n + 2 /\ rest'[n + 2] = includes[Path]
          /\ \A i \in 1 .. n + 1 : rest'[i] = Called[i]
      BY <1>1, <1>2, <2>1, AppendProperties
    <2>3. n + 1 \in 1 .. n + 1 /\ \A i \in 1 .. n : i \in 1 .. n + 1
      BY <1>1
    <2> QED
      BY <2>1, <2>2, <2>3
  <1>5. Typed'
    BY <1>1, <1>3, <1>4 DEF Typed, Calling
  <1>6. CallsFollowIncludes'
    <2> SUFFICES ASSUME NEW i \in 1 .. n + 1 PROVE Follows(i)'
      BY <1>3 DEF CallsFollowIncludes
    <2>1. CASE i = n + 1
      <3>1. active'[i] = Path /\ rest'[i + 1] = includes[Path] /\ ~(i < Len(active'))
        BY <1>1, <1>3, <1>4, <2>1
      <3>2. Made(i)' = 0
        BY <1>2, <3>1 DEF Made
      <3> QED
        BY <3>1, <3>2 DEF Follows
    <2>2. CASE i = n
      <3> DEFINE list == includes[active[n]]
                 made == Len(list) - Len(Called[n + 1])
      <3>1. n \in 1 .. n /\ active # <<>>
        BY <1>1, <2>2
      <3>2. /\ made \in Nat \ {0} /\ list[made] = Path
            /\ \A k \in 1 .. Len(Called[n + 1]) : Called[n + 1][k] = list[made + k]
            /\ \A k \in 1 .. made - 1 : list[k] \in merged
        BY <1>1, <3>1, CallMade
      <3>3. active'[n] = active[n] /\ rest'[n + 1] = Called[n + 1] /\ active'[n + 1] = Path
        BY <1>3, <1>4, <3>1
      <3>4. Made(i)' = made
        BY <2>2, <3>3 DEF Made
      <3> HIDE DEF made
      <3>5. \A k \in 1 .. made : list[k] \in merged \/ k = made
        BY <3>2
      <3>6. n < Len(active') /\ made > 0
        BY <1>1, <1>3, <3>2
      <3> QED
        BY <2>2, <3>2, <3>3, <3>4, <3>5, <3>6 DEF Follows
    <2>3. CASE i \notin {n, n + 1}
      <3>1. i \in 1 .. n /\ i + 1 \in 1 .. n /\ i < n /\ i < Len(active')
        BY <1>1, <1>3, <2>3
      <3>2. rest'[i + 1] = rest[i + 1] /\ active'[i] = active[i] /\ active'[i + 1] = active[i + 1]
        BY <1>3, <1>4, <3>1
      <3>3. Follows(i) /\ Made(i)' = Made(i)
        BY <3>1, <3>2 DEF Walked, CallsFollowIncludes, Made
      <3> QED
        BY <3>1, <3>2, <3>3 DEF Follows
    <2> QED
      BY <2>1, <2>2, <2>3
  <1>7. Rooted'
    <2>1. graph # "merge" /\ active' # <<>>
      BY <1>1, <1>3 DEF Calling, Walking
    <2>2. CASE active = <<>>
      <3>1. n = 0 /\ Path = Entry /\ Called[1] = <<>>
        BY <1>1, <2>2, CallFacts
      <3>2. rest'[1] = <<>> /\ active'[1] = Entry
        BY <1>3, <1>4, <3>1
      <3> QED
        BY <2>1, <3>2 DEF Walked, Rooted, Entry
    <2>3. CASE active # <<>>
      <3>1. 1 \in 1 .. n
        BY <1>1, <2>3, EmptySeq
      <3>2. rest'[1] = <<>> /\ active'[1] = Entry
        BY <1>1, <1>3, <1>4, <2>3, <3>1, CallFacts
      <3> QED
        BY <2>1, <3>2 DEF Walked, Rooted, Entry
    <2> QED
      BY <2>2, <2>3
  <1>8. OrderKept'
    <2>1. Order' = Order
      BY DEF Order
    <2>2. \A i \in 1 .. n : active[i] # Path
      BY <1>1 DEF Active
    <2>3. ASSUME NEW i \in 1 .. n + 1, NEW j \in 1 .. n + 1, active'[i] = active'[j]
          PROVE  i = j
      <3>1. \A k \in 1 .. n + 1 : k \in 1 .. n \/ k = n + 1
        BY <1>1
      <3> QED
        BY <1>3, <2>2, <2>3, <3>1 DEF Walked, OrderKept, MergedIsOrder
    <2>4. \A i \in 1 .. n + 1 : active'[i] \notin merged
      <3>1. \A k \in 1 .. n + 1 : k \in 1 .. n \/ k = n + 1
        BY <1>1
      <3> QED
        BY <1>3, <3>1 DEF Walked, OrderKept, MergedIsOrder
    <2>5. MergedIsOrder'
      BY <1>3, <2>1, <2>3, <2>4 DEF Walked, OrderKept, MergedIsOrder
    <2> QED
      BY <2>1, <2>5 DEF Walked, OrderKept, OnceEach, Behind
  <1>9. CyclesAreReal'
    BY DEF CyclesAreReal, IncludesNext
  <1> QED
    BY <1>5, <1>6, <1>7, <1>8, <1>9 DEF Walked

\* The innermost file has called all its includes and they are merged; so it
\* may come behind them.
LEMMA LeaveIInv == ASSUME IInv, Leave PROVE IInv'
  <1> DEFINE n == Len(active)
             path == active[n]
  <1>1. /\ active \in Seq(Files) /\ n \in Nat \ {0} /\ path \in Files
        /\ rest \in Seq(Seq(Files)) /\ Len(rest) = n + 1 /\ rest[n + 1] = <<>>
        /\ graph \in Entered
    <2>1. n \in Nat \ {0} /\ n \in 1 .. n
      BY EmptySeq DEF IInv, Typed, Leave
    <2> QED
      BY <2>1 DEF IInv, Typed, Leave, Walking, Top, Entered
  <1>0. n \in Nat \ {0}
    BY <1>1
  <1>2. /\ active' \in Seq(Files) /\ Len(active') = n - 1
        /\ \A i \in 1 .. n - 1 : active'[i] = active[i]
    <2>1. 1 \in Int /\ n - 1 \in Int /\ \A i \in 1 .. n - 1 : active[i] \in Files
      BY <1>1
    <2>2. /\ SubSeq(active, 1, n - 1) \in Seq(Files)
          /\ Len(SubSeq(active, 1, n - 1)) = IF 1 <= n - 1 THEN (n - 1) - 1 + 1 ELSE 0
          /\ \A i \in 1 .. (n - 1) - 1 + 1 : SubSeq(active, 1, n - 1)[i] = active[1 + i - 1]
      BY <2>1, SubSeqProperties
    <2>3. active' = SubSeq(active, 1, n - 1)
      BY DEF Leave
    <2>4. /\ (IF 1 <= n - 1 THEN (n - 1) - 1 + 1 ELSE 0) = n - 1
          /\ (n - 1) - 1 + 1 = n - 1
          /\ \A i \in 1 .. n - 1 : 1 + i - 1 = i
      BY <1>0
    <2> QED
      BY <2>2, <2>3, <2>4
  <1>3. /\ rest' \in Seq(Seq(Files)) /\ Len(rest') = n
        /\ \A i \in 1 .. n : rest'[i] = rest[i]
    <2>1. 1 \in Int /\ n \in Int /\ \A i \in 1 .. n : rest[i] \in Seq(Files)
      BY <1>1
    <2>2. /\ SubSeq(rest, 1, n) \in Seq(Seq(Files))
          /\ Len(SubSeq(rest, 1, n)) = IF 1 <= n THEN n - 1 + 1 ELSE 0
          /\ \A i \in 1 .. n - 1 + 1 : SubSeq(rest, 1, n)[i] = rest[1 + i - 1]
      BY <2>1, SubSeqProperties
    <2>3. rest' = SubSeq(rest, 1, n)
      <3>1. Top - 1 = n
        BY <1>1 DEF Top
      <3> QED
        BY <3>1 DEF Leave
    <2>4. 1 <= n /\ n - 1 + 1 = n /\ \A i \in 1 .. n : 1 + i - 1 = i
      BY <1>0
    <2> QED
      BY <2>2, <2>3, <2>4
  <1>4. path \notin merged /\ n \in 1 .. n
    BY <1>1 DEF IInv, Walked, OrderKept, MergedIsOrder
  <1>5. merged' = merged \cup {path} /\ nodes' = [nodes EXCEPT ![graph] = Append(@, path)]
    BY <1>4 DEF Leave
  <1>6. nodes' \in [Entered -> Seq(Files)]
    <2>1. Append(nodes[graph], path) \in Seq(Files)
      BY <1>1, AppendProperties DEF IInv, Typed
    <2> QED
      BY <1>5, <2>1 DEF IInv, Typed
  <1>7. /\ UNCHANGED <<includes, declares, graph, diagnostics, outcome, cycle, goOn>>
        /\ Len(rest') = Len(active') + 1
    BY <1>0, <1>2, <1>3 DEF Leave, files
  <1>12. Typed'
    BY <1>1, <1>2, <1>3, <1>5, <1>6, <1>7 DEF IInv, Typed
  <1>8. CallsFollowIncludes'
    <2> SUFFICES ASSUME NEW i \in 1 .. n - 1 PROVE Follows(i)'
      BY <1>2 DEF CallsFollowIncludes
    <2>1. i \in 1 .. n /\ i + 1 \in 1 .. n /\ i < n
      BY <1>1
    <2>2. rest'[i + 1] = rest[i + 1] /\ active'[i] = active[i]
      BY <1>2, <1>3, <2>1
    <2>3. Follows(i) /\ Made(i)' = Made(i)
      BY <2>1, <2>2 DEF IInv, Leave, files, Walked, CallsFollowIncludes, Made
    <2>4. CASE i < n - 1
      <3>1. i + 1 \in 1 .. n - 1 /\ i < Len(active')
        BY <1>1, <1>2, <2>1, <2>4
      <3>2. active'[i + 1] = active[i + 1]
        BY <1>2, <3>1
      <3> QED
        BY <1>5, <2>1, <2>2, <2>3, <3>1, <3>2 DEF Follows, Leave, files
    <2>5. CASE i = n - 1
      <3>1. active[i + 1] = path /\ ~(i < Len(active'))
        BY <1>1, <1>2, <2>5
      <3>2. includes[active[i]][Made(i)] = path
        BY <2>1, <2>3, <3>1 DEF Follows
      <3>3. \A k \in 1 .. Made(i) : includes[active[i]][k] \in merged'
        BY <1>5, <2>1, <2>3, <3>2 DEF Follows, Leave, files
      <3> QED
        BY <2>2, <2>3, <3>1, <3>3 DEF Follows, Leave, files
    <2> QED
      BY <1>0, <2>4, <2>5
  <1>9. Rooted'
    <2>1. active # <<>> /\ graph # "merge" /\ 1 \in 1 .. n
      BY <1>1 DEF Leave, Walking
    <2>2. rest'[1] = <<>> /\ active[1] = Entry
      BY <1>3, <2>1 DEF IInv, Walked, Rooted
    <2>3. CASE n = 1
      <3>1. active' = <<>> /\ Entry \in merged'
        BY <1>2, <1>5, <2>2, <2>3, EmptySeq
      <3> QED
        BY <1>5, <2>1, <2>2, <3>1 DEF IInv, Leave, files, Walked, Rooted, Entry
    <2>4. CASE n > 1
      <3>1. 1 \in 1 .. n - 1
        BY <1>0, <2>4
      <3>2. active' # <<>> /\ active'[1] = Entry
        BY <1>2, <2>2, <3>1
      <3> QED
        BY <1>5, <2>1, <2>2, <3>2 DEF IInv, Leave, files, Walked, Rooted, Entry
    <2> QED
      BY <1>0, <2>3, <2>4
  <1>10. OrderKept'
    <2>1. Order' = Append(Order, path) /\ Order \in Seq(Files)
      BY <1>1, <1>5, OrderGrows, OrderTyped DEF IInv, Leave, Walking, Walked, OrderKept, MergedIsOrder
    <2>2. /\ Len(Order') = Len(Order) + 1 /\ Order'[Len(Order) + 1] = path
          /\ \A i \in 1 .. Len(Order) : Order'[i] = Order[i]
          /\ Len(Order) \in Nat
      BY <1>1, <2>1, AppendProperties
    <2>3. merged = {Order[i] : i \in 1 .. Len(Order)}
      BY DEF IInv, Walked, OrderKept, MergedIsOrder
    <2>4. merged' = {Order'[i] : i \in 1 .. Len(Order')}
      <3>1. \A i : i \in 1 .. Len(Order') <=> i \in 1 .. Len(Order) \/ i = Len(Order) + 1
        BY <2>2
      <3> QED
        BY <1>5, <2>2, <2>3, <3>1
    <2>5. \A i \in 1 .. n - 1 : active'[i] \notin merged'
      <3> SUFFICES ASSUME NEW i \in 1 .. n - 1 PROVE active'[i] \notin merged'
        OBVIOUS
      <3>1. i \in 1 .. n /\ i # n
        BY <1>1
      <3> QED
        BY <1>2, <1>4, <1>5, <3>1 DEF IInv, Walked, OrderKept, MergedIsOrder
    <2>6. \A i, j \in 1 .. n - 1 : active'[i] = active'[j] => i = j
      <3>1. \A i \in 1 .. n - 1 : i \in 1 .. n
        BY <1>1
      <3> QED
        BY <1>2, <3>1 DEF IInv, Walked, OrderKept, MergedIsOrder
    <2>7. (graph = "rules" => nodes["tc"] = <<>>)'
      BY <1>5 DEF IInv, Typed, Entered, Leave, Walked, OrderKept, MergedIsOrder
    <2>8. MergedIsOrder'
      BY <1>2, <2>4, <2>5, <2>6, <2>7 DEF MergedIsOrder
    <2>9. OnceEach(Order) /\ Behind(Order) /\ includes' = includes
      BY DEF IInv, Walked, OrderKept, Leave, files
    <2>10. \A i \in 1 .. Len(Order) : Order[i] # path
      BY <1>4, <2>3
    <2>11. ASSUME NEW k \in 1 .. Len(includes[path])
           PROVE  \E j \in 1 .. Len(Order) : Order[j] = includes[path][k]
      <3>1. Follows(n) /\ ~(n < n)
        BY <1>1, <1>4 DEF IInv, Walked, CallsFollowIncludes
      <3>2. Made(n) = Len(includes[path])
        <4>1. Len(rest[n + 1]) = 0 /\ Len(includes[path]) \in Nat
          BY <1>1 DEF IInv, Typed
        <4> QED
          BY <4>1 DEF Made
      <3>3. includes[path][k] \in merged
        BY <3>1, <3>2 DEF Follows
      <3> QED
        BY <2>3, <3>3
    <2>12. OnceEach(Append(Order, path)) /\ Behind(Append(Order, path))
      BY <1>1, <2>1, <2>9, <2>10, <2>11, BehindGrows DEF IInv, Typed
    <2>13. OnceEach(Order') /\ Behind(Order)'
      <3>1. OnceEach(Order')
        BY <2>1, <2>12
      <3>2. Behind(Order')
        BY <2>1, <2>12
      <3>3. Behind(Order)' <=> Behind(Order')
        BY <2>9 DEF Behind
      <3> QED
        BY <3>1, <3>2, <3>3
    <2> QED
      BY <2>8, <2>13 DEF OrderKept, OnceEach
  <1>11. CyclesAreReal'
    BY DEF IInv, Leave, files, CyclesAreReal, IncludesNext
  <1> QED
    BY <1>8, <1>9, <1>10, <1>11, <1>12 DEF IInv, Walked

\* The other entry's turn, or the merge's: this one has been merged.
LEMMA NextGraphIInv == ASSUME IInv, NextGraph PROVE IInv'
  <1>1. /\ Typed /\ graph \in Entered /\ rest = <<<<>>>>
        /\ UNCHANGED <<includes, declares, active, merged, nodes, diagnostics, outcome, cycle, goOn>>
        /\ graph' = IF graph = "rules" THEN "tc" ELSE "merge"
        /\ rest' = IF graph = "rules" THEN <<<<EntryTc>>>> ELSE rest
    BY DEF IInv, Typed, NextGraph, Walking, Entered, files
  <1>2. Len(active) = 0 /\ active = <<>>
    <2>1. Len(rest) = 1
      BY <1>1
    <2>2. Len(active) = 0
      BY <1>1, <2>1 DEF Typed
    <2> QED
      BY <1>1, <2>2, EmptySeq DEF Typed
  <1>3. rest' \in Seq(Seq(Files)) /\ Len(rest') = 1
    <2>1. <<EntryTc>> \in Seq(Files)
      BY GraphAssumption
    <2>2. <<<<EntryTc>>>> \in Seq(Seq(Files)) /\ Len(<<<<EntryTc>>>>) = 1
      BY <2>1
    <2> QED
      BY <1>1, <2>2 DEF Typed
  <1>4. Typed'
    BY <1>1, <1>2, <1>3 DEF Typed, Entered
  <1>5. CallsFollowIncludes'
    BY <1>1, <1>2 DEF CallsFollowIncludes
  <1>6. Entry \in merged
    <2>1. rest[1] = <<>>
      BY <1>1
    <2> QED
      BY <1>1, <1>2, <2>1 DEF IInv, Walked, Rooted, Entered
  <1>7. Rooted'
    <2>1. CASE graph = "rules"
      BY <1>1, <1>2, <1>6, <2>1 DEF Rooted, Entry
    <2>2. CASE graph = "tc"
      BY <1>1, <1>2, <1>6, <2>2 DEF IInv, Walked, Rooted, Entry
    <2> QED
      BY <1>1, <2>1, <2>2 DEF Entered
  <1>8. OrderKept'
    <2>1. Order' = Order
      BY <1>1 DEF Order
    <2>2. MergedIsOrder'
      BY <1>1, <2>1 DEF IInv, Walked, OrderKept, MergedIsOrder
    <2> QED
      BY <1>1, <2>1, <2>2 DEF IInv, Walked, OrderKept, OnceEach, Behind
  <1>9. CyclesAreReal'
    BY <1>1 DEF IInv, CyclesAreReal, IncludesNext
  <1> QED
    BY <1>4, <1>5, <1>7, <1>8, <1>9 DEF IInv, Walked

\* The walk stands while compile ends.
LEMMA WalkStays ==
  ASSUME IInv, UNCHANGED <<includes, graph, active, rest, merged, nodes>>
  PROVE  Walked'
  <1>1. CallsFollowIncludes'
    BY DEF IInv, Walked, CallsFollowIncludes, Follows, Made
  <1>2. Rooted'
    BY DEF IInv, Walked, Rooted, Entry
  <1> QED
    BY <1>1, <1>2, OrderStays DEF IInv, Walked

\* A file that cannot be loaded ends the walk.
LEMMA LoadFailsIInv == ASSUME IInv, LoadFails PROVE IInv'
  <1>1. UNCHANGED <<includes, declares, graph, active, rest, merged, nodes, diagnostics, cycle, goOn>>
    BY DEF LoadFails, Fail, files
  <1>2. outcome' = "load"
    BY DEF LoadFails, Fail
  <1> QED
    BY <1>1, <1>2, WalkStays DEF IInv, Typed, CyclesAreReal

\* Merging changes nothing of the walk.
LEMMA MergeIInv == ASSUME IInv, Merge PROVE IInv'
  <1>1. UNCHANGED <<includes, declares, graph, active, rest, merged, nodes, diagnostics, cycle>>
    BY DEF Merge, files
  <1>2. outcome' \in {"compiled", "conflict"}
    BY DEF Merge
  <1>3. goOn' \in [Entered -> BOOLEAN]
    <2>1. \A order : GoesOn(order) \in BOOLEAN
      BY DEF GoesOn
    <2> QED
      BY <2>1 DEF Merge, IInv, Typed
  <1> QED
    BY <1>1, <1>2, <1>3, WalkStays DEF IInv, Typed, CyclesAreReal

\* Each active file includes the next one, the innermost the one to be called.
LEMMA CallOfActive ==
  ASSUME IInv, Calling, NEW j \in 1 .. Len(active)
  PROVE  \E k \in DOMAIN includes[active[j]] :
            includes[active[j]][k] = IF j < Len(active) THEN active[j + 1] ELSE Path
  <1> DEFINE n == Len(active)
             list == includes[active[j]]
  <1>1. /\ active \in Seq(Files) /\ n \in Nat \ {0} /\ active # <<>> /\ j \in Int
        /\ includes \in [Files -> Seq(Files)] /\ rest \in Seq(Seq(Files)) /\ Len(rest) = n + 1
    BY EmptySeq DEF IInv, Typed
  <1>2. list \in Seq(Files) /\ DOMAIN list = 1 .. Len(list) /\ Len(list) \in Nat
    BY <1>1, LenProperties
  <1>3. \A a, b \in Nat : a - b <= a
    OBVIOUS
  <1>4. CASE j < n
    <2>1. Made(j) \in Nat /\ Made(j) > 0 /\ list[Made(j)] = active[j + 1]
      BY <1>4 DEF IInv, Walked, CallsFollowIncludes, Follows
    <2>2. rest[j + 1] \in Seq(Files)
      <3>1. j + 1 \in 1 .. Len(rest)
        BY <1>1, <1>4
      <3> QED
        BY <1>1, <3>1
    <2>3. Len(rest[j + 1]) \in Nat /\ Made(j) = Len(list) - Len(rest[j + 1])
      BY <2>2 DEF Made
    <2>4. Made(j) <= Len(list)
      BY <1>2, <1>3, <2>3, Zenon
    <2>5. Made(j) \in DOMAIN list
      BY <1>2, <2>1, <2>4
    <2> QED
      BY <1>4, <2>1, <2>5
  <1>5. CASE j = n
    <2> DEFINE made == Len(list) - Len(Called[n + 1])
    <2>1. made \in Nat \ {0} /\ list[made] = Path
      BY <1>1, <1>5, CallMade
    <2>2. Len(Called[n + 1]) \in Nat
      BY <1>1, CallFacts
    <2>3. made <= Len(list)
      BY <1>2, <1>3, <2>2, Zenon
    <2> HIDE DEF made
    <2>4. made \in DOMAIN list /\ ~(j < n)
      BY <1>1, <1>2, <1>5, <2>1, <2>3
    <2> QED
      BY <2>1, <2>4
  <1> QED
    BY <1>1, <1>4, <1>5

\* The calls from the first active file of this name to the call under way.
LEMMA ReportCycleIInv == ASSUME IInv, ReportCycle PROVE IInv'
  <1> DEFINE n == Len(active)
  <1>1. /\ Calling /\ Path \in Active /\ outcome' = "cycle"
        /\ UNCHANGED <<includes, declares, graph, active, rest, merged, nodes, diagnostics, goOn>>
    BY DEF ReportCycle, Fail, files
  <1>2. active \in Seq(Files) /\ n \in Nat /\ DOMAIN active = 1 .. n /\ Path \in Files
    BY <1>1, CallFacts, LenProperties DEF IInv, Typed
  <1>3. PICK start \in 1 .. n : /\ active[start] = Path
                                /\ cycle' = Append(SubSeq(active, start, n), Path)
    <2> DEFINE first == CHOOSE i \in DOMAIN active : active[i] = Path
    <2>1. \E i \in DOMAIN active : active[i] = Path
      BY <1>1 DEF Active
    <2>2. first \in DOMAIN active /\ active[first] = Path
      BY <2>1
    <2> QED
      BY <1>2, <2>2 DEF ReportCycle
  <1> DEFINE m == n - start + 1
             chain == SubSeq(active, start, n)
  <1>4. m \in Nat \ {0} /\ n \in Nat \ {0}
    BY <1>2
  <1>5. /\ chain \in Seq(Files) /\ Len(chain) = m
        /\ \A i \in 1 .. m : chain[i] = active[start + i - 1]
    <2>1. start \in Int /\ n \in Int /\ \A i \in start .. n : active[i] \in Files
      BY <1>2
    <2>2. /\ chain \in Seq(Files) /\ Len(chain) = IF start <= n THEN n - start + 1 ELSE 0
          /\ \A i \in 1 .. n - start + 1 : chain[i] = active[start + i - 1]
      BY <2>1, SubSeqProperties
    <2> QED
      BY <1>2, <2>2
  <1> HIDE DEF chain
  <1>6. /\ cycle' \in Seq(Files) /\ Len(cycle') = m + 1 /\ cycle'[m + 1] = Path
        /\ \A i \in 1 .. m : cycle'[i] = active[start + i - 1]
    <2>1. cycle' = Append(chain, Path)
      BY <1>3 DEF chain
    <2>2. /\ Append(chain, Path) \in Seq(Files) /\ Len(Append(chain, Path)) = Len(chain) + 1
          /\ Append(chain, Path)[Len(chain) + 1] = Path
          /\ \A i \in 1 .. Len(chain) : Append(chain, Path)[i] = chain[i]
      <3>1. chain \in Seq(Files) /\ Path \in Files
        BY <1>2, <1>5
      <3> QED
        BY <3>1, AppendProperties
    <2> QED
      BY <1>5, <2>1, <2>2
  <1> HIDE DEF m
  <1>7. Typed'
    BY <1>1, <1>6 DEF IInv, Typed
  <1>8. includes \in [Files -> Seq(Files)] /\ \A i \in 1 .. n : Follows(i)
    BY DEF IInv, Typed, Walked, CallsFollowIncludes
  <1>9. ASSUME NEW i \in 1 .. m
        PROVE  \E k \in DOMAIN includes[cycle'[i]] : includes[cycle'[i]][k] = cycle'[i + 1]
    <2> DEFINE j == start + i - 1
    <2>1. j \in 1 .. n /\ i \in Int /\ cycle'[i] = active[j]
      BY <1>2, <1>4, <1>6 DEF m
    <2>2. CASE i < m
      <3>1. j < n /\ i + 1 \in 1 .. m /\ start + (i + 1) - 1 = j + 1
        BY <1>2, <1>4, <2>1, <2>2 DEF m
      <3>2. cycle'[i + 1] = active[j + 1]
        BY <1>6, <3>1
      <3> QED
        BY <1>1, <2>1, <3>1, <3>2, CallOfActive
    <2>3. CASE i = m
      <3>1. j = n /\ ~(j < n) /\ cycle'[i + 1] = Path
        BY <1>2, <1>4, <1>6, <2>3 DEF m
      <3> QED
        BY <1>1, <2>1, <3>1, CallOfActive
    <2> QED
      BY <1>4, <2>1, <2>2, <2>3
  <1>10. CyclesAreReal'
    <2>1. Len(cycle') > 1 /\ cycle'[1] = cycle'[Len(cycle')]
      <3>1. 1 \in 1 .. m /\ start + 1 - 1 = start
        BY <1>2, <1>4
      <3> QED
        BY <1>3, <1>4, <1>6, <3>1
    <2>2. IncludesNext(cycle)'
      <3>1. Len(cycle') - 1 = m /\ includes' = includes
        BY <1>1, <1>4, <1>6
      <3> QED
        BY <1>9, <3>1 DEF IncludesNext
    <2>3. {cycle'[i] : i \in DOMAIN cycle'} = {active[j] : j \in start .. n}
      <3>1. DOMAIN cycle' = 1 .. m + 1
        BY <1>6, LenProperties
      <3>2. ASSUME NEW i \in 1 .. m + 1 PROVE \E j \in start .. n : cycle'[i] = active[j]
        <4>1. CASE i \in 1 .. m
          <5>1. start + i - 1 \in start .. n
            BY <1>2, <4>1 DEF m
          <5> QED
            BY <1>6, <4>1, <5>1
        <4>2. CASE i = m + 1
          <5>1. start \in start .. n
            BY <1>2
          <5> QED
            BY <1>3, <1>6, <4>2, <5>1
        <4> QED
          BY <1>4, <4>1, <4>2
      <3>3. ASSUME NEW j \in start .. n PROVE \E i \in 1 .. m + 1 : cycle'[i] = active[j]
        <4>1. j - start + 1 \in 1 .. m /\ j - start + 1 \in 1 .. m + 1
              /\ start + (j - start + 1) - 1 = j
          BY <1>2 DEF m
        <4> QED
          BY <1>6, <4>1
      <3>4. {cycle'[i] : i \in 1 .. m + 1} = {active[j] : j \in start .. n}
        <4> DEFINE shown == cycle'
        <4>1. /\ \A i \in 1 .. m + 1 : \E j \in start .. n : shown[i] = active[j]
              /\ \A j \in start .. n : \E i \in 1 .. m + 1 : shown[i] = active[j]
          BY <3>2, <3>3
        <4> HIDE DEF shown, m
        <4>2. ASSUME NEW x \in {shown[i] : i \in 1 .. m + 1} PROVE x \in {active[j] : j \in start .. n}
          <5>1. PICK i \in 1 .. m + 1 : x = shown[i]
            BY <4>2
          <5> QED
            BY <4>1, <5>1
        <4>3. ASSUME NEW x \in {active[j] : j \in start .. n} PROVE x \in {shown[i] : i \in 1 .. m + 1}
          <5>1. PICK j \in start .. n : x = active[j]
            BY <4>3
          <5> QED
            BY <4>1, <5>1
        <4> QED
          BY <4>2, <4>3, Zenon DEF shown
      <3> QED
        BY <3>1, <3>4
    <2>4. Cardinality({active[j] : j \in start .. n}) = n - start + 1
      <3>1. \A i, j \in 1 .. n : active[i] = active[j] => i = j
        BY DEF IInv, Walked, OrderKept, MergedIsOrder
      <3>2. start \in 1 .. n + 1
        BY <1>2
      <3> QED
        BY <1>2, <3>1, <3>2, OnceCounts
    <2>5. Cardinality({cycle'[i] : i \in DOMAIN cycle'}) = m
      BY <2>3, <2>4, Zenon DEF m
    <2>6. Len(cycle') - 1 = m
      BY <1>4, <1>6
    <2> QED
      BY <2>1, <2>2, <2>5, <2>6, Zenon DEF CyclesAreReal
  <1> QED
    BY <1>1, <1>7, <1>10, WalkStays DEF IInv

-----------------------------------------------------------------------------
\* The invariant is preserved by every step.
THEOREM NextIInv == IInv /\ [Next]_vars => IInv'
  <1> SUFFICES ASSUME IInv, [Next]_vars PROVE IInv'
    OBVIOUS
  <1>1. CASE UNCHANGED vars
    BY <1>1, WalkStays DEF vars, files, IInv, Typed, CyclesAreReal, IncludesNext
  <1> QED
    BY <1>1, ReportCycleIInv, SkipMergedIInv, LoadFailsIInv, EnterIInv, LeaveIInv,
       NextGraphIInv, MergeIInv
    DEF Next

\* IInv is an invariant.
LEMMA AlwaysIInv == Spec => []IInv
  BY InitIInv, NextIInv, PTL DEF Spec

\* The state of every graph's walk is of its types, and the recursion is no
\* deeper than there are files.
THEOREM TypeCorrect == Spec => []TypeOK
  <1>1. ASSUME IInv PROVE TypeOK
    <2>1. Typed /\ active \in Seq(Files) /\ DOMAIN active = 1 .. Len(active) /\ Len(active) \in Nat
      BY <1>1, LenProperties DEF IInv, Typed
    <2>2. \A i, j \in 1 .. Len(active) : active[i] = active[j] => i = j
      BY <1>1 DEF IInv, Walked, OrderKept, MergedIsOrder
    <2>3. 1 \in 1 .. Len(active) + 1
      BY <2>1
    <2>4. Cardinality({active[i] : i \in 1 .. Len(active)}) = Len(active) - 1 + 1
      BY <2>1, <2>2, <2>3, OnceCounts
    <2>5. Active = {active[i] : i \in 1 .. Len(active)}
      BY <2>1 DEF Active
    <2>6. Len(active) - 1 + 1 = Len(active)
      BY <2>1
    <2>7. Len(active) = Cardinality(Active)
      BY <2>4, <2>5, <2>6, Zenon
    <2> QED
      BY <2>1, <2>7 DEF Typed, TypeOK
  <1> QED
    BY <1>1, AlwaysIInv, PTL

\* A reported cycle is one, in every include graph.
THEOREM CyclesReported == Spec => []CyclesAreReal
  <1>1. IInv => CyclesAreReal
    BY DEF IInv
  <1> QED
    BY <1>1, AlwaysIInv, PTL

\* Whatever includes what, each file is merged once and behind its includes.
THEOREM MergedBehindIncludes == Spec => []IncludesFirst
  <1>1. ASSUME IInv PROVE IncludesFirst
    <2>1. /\ Order \in Seq(Files) /\ DOMAIN Order = 1 .. Len(Order)
          /\ includes \in [Files -> Seq(Files)]
      BY <1>1, OrderTyped, LenProperties DEF IInv, Typed
    <2>2. OnceEach(Order) /\ Behind(Order) /\ merged = {Order[i] : i \in 1 .. Len(Order)}
      BY <1>1 DEF IInv, Walked, OrderKept, MergedIsOrder
    <2>3. \A i \in DOMAIN Order : DOMAIN includes[Order[i]] = 1 .. Len(includes[Order[i]])
      BY <2>1, LenProperties
    <2>4. graph = "merge" => EntryRules \in merged /\ EntryTc \in merged
      BY <1>1 DEF IInv, Walked, Rooted
    <2>5. \A i, j \in DOMAIN Order : Order[i] = Order[j] => i = j
      BY <2>1, <2>2 DEF OnceEach
    <2>6. \A i \in DOMAIN Order : \A k \in DOMAIN includes[Order[i]] :
             \E j \in 1 .. i - 1 : Order[j] = includes[Order[i]][k]
      BY <2>1, <2>2, <2>3 DEF Behind
    <2>7. graph = "merge" => \A entry \in {EntryRules, EntryTc} :
             \E i \in DOMAIN Order : Order[i] = entry
      BY <2>1, <2>2, <2>4
    <2> QED
      BY <2>5, <2>6, <2>7 DEF IncludesFirst
  <1> QED
    BY <1>1, AlwaysIInv, PTL

-----------------------------------------------------------------------------
(* Every include is accounted for.                                         *)

\* The places in the include lists, and those whose call has been made: all of
\* a merged file and the first of an active one.
Slots == Files \X (1 .. MaxIncludes)
SlotCalled(c) ==
    \/ c[1] \in merged /\ c[2] <= Len(includes[c[1]])
    \/ \E j \in 1 .. Len(active) : c[1] = active[j] /\ c[2] <= Made(j)
CalledSlots == {c \in Slots : SlotCalled(c)}

EntriesCalled == IF graph = "merge" THEN 2 ELSE (IF graph = "rules" THEN 1 ELSE 2) - Len(rest[1])

\* Every call of visit has been skipped, is in progress or has put its file in
\* order.
Accounted ==
    Cardinality(CalledSlots) + EntriesCalled = Len(diagnostics) + Len(Order) + Len(active)

Leads(chain) == chain[1] \in {EntryRules, EntryTc} /\ IncludesNext(chain)
DiagnosticsLead == \A d \in 1 .. Len(diagnostics) : Leads(diagnostics[d])

AInv == IInv /\ Accounted /\ DiagnosticsLead

\* There are finitely many places in include lists.
LEMMA SlotsFinite ==
  ASSUME NEW S, S \subseteq Slots
  PROVE  IsFiniteSet(S) /\ Cardinality(S) \in Nat
  <1>1. IsFiniteSet(Files) /\ IsFiniteSet(1 .. MaxIncludes)
    BY GraphAssumption, FS_Interval
  <1>2. IsFiniteSet(Slots)
    BY <1>1, FS_Product DEF Slots
  <1> QED
    BY <1>2, FS_Subset, FS_CardinalityType

\* Nothing has been called at first.
LEMMA InitAInv == Init => AInv
  <1> SUFFICES ASSUME Init PROVE AInv
    OBVIOUS
  <1>1. IInv
    BY InitIInv
  <1>2. CalledSlots = {}
    BY DEF Init, CalledSlots, SlotCalled
  <1>3. EntriesCalled = 0
    BY DEF Init, EntriesCalled
  <1>4. Order = <<>> /\ Len(Order) = 0 /\ Len(diagnostics) = 0 /\ Len(active) = 0
    BY DEF Order, Init, Entered
  <1>5. Accounted
    BY <1>2, <1>3, <1>4, FS_EmptySet DEF Accounted
  <1>6. DiagnosticsLead
    BY <1>4 DEF DiagnosticsLead
  <1> QED
    BY <1>1, <1>5, <1>6 DEF AInv

\* The call under way takes the next place of the innermost active file.
LEMMA NewSlot ==
  ASSUME IInv, Calling, active # <<>>
  PROVE  LET c == <<active[Len(active)], Made(Len(active)) + 1>>
         IN  c \in Slots /\ ~SlotCalled(c)
  <1> DEFINE n == Len(active)
             list == includes[active[n]]
             made == Len(list) - Len(Called[n + 1])
  <1>1. active \in Seq(Files) /\ n \in Nat \ {0} /\ n \in 1 .. n
        /\ includes \in [Files -> Seq(Files)] /\ includes \in Graphs
    BY EmptySeq DEF IInv, Typed
  <1>2. active[n] \in Files /\ list \in Seq(Files) /\ Len(list) \in Nat
    BY <1>1
  <1>3. made \in Nat \ {0} /\ made = Made(n) + 1
    BY CallMade
  <1>4. Len(Called[n + 1]) \in Nat
    BY CallFacts, <1>1
  <1>5. Len(list) <= MaxIncludes /\ MaxIncludes \in Nat
    BY <1>1, <1>2, GraphAssumption
  <1>6. made <= MaxIncludes
    BY <1>2, <1>3, <1>4, <1>5
  <1>7. active[n] \notin merged /\ \A j \in 1 .. n : active[j] = active[n] => j = n
    BY <1>1 DEF IInv, Walked, OrderKept, MergedIsOrder
  <1>8. Made(n) \in Nat
    BY <1>1 DEF IInv, Walked, CallsFollowIncludes, Follows
  <1>9. ~(Made(n) + 1 <= Made(n))
    BY <1>8
  <1> DEFINE c == <<active[n], Made(n) + 1>>
  <1>10. c[1] = active[n] /\ c[2] = Made(n) + 1
    OBVIOUS
  <1>11. c \in Slots
    <2>1. Made(n) + 1 \in 1 .. MaxIncludes
      <3> HIDE DEF made, list
      <3> QED
        BY <1>3, <1>5, <1>6
    <2> HIDE DEF n
    <2> QED
      BY <1>2, <2>1 DEF Slots
  <1>12. ~SlotCalled(c)
    <2> HIDE DEF c, n
    <2> QED
      BY <1>7, <1>9, <1>10 DEF SlotCalled, n
  <1> QED
    BY <1>11, <1>12

\* One call more has been made, and no other.
LEMMA OneSlotMore ==
  ASSUME IInv, Calling, NEW T,
         T = IF active = <<>> THEN CalledSlots
             ELSE CalledSlots \cup {<<active[Len(active)], Made(Len(active)) + 1>>}
  PROVE  Cardinality(T) = Cardinality(CalledSlots) + IF active = <<>> THEN 0 ELSE 1
  <1>1. CalledSlots \subseteq Slots
    BY DEF CalledSlots
  <1>2. IsFiniteSet(CalledSlots) /\ Cardinality(CalledSlots) \in Nat
    BY <1>1, SlotsFinite
  <1>3. CASE active = <<>>
    BY <1>2, <1>3
  <1>4. CASE active # <<>>
    <2> DEFINE c == <<active[Len(active)], Made(Len(active)) + 1>>
    <2>1. c \notin CalledSlots
      BY <1>4, NewSlot DEF CalledSlots
    <2>2. T = CalledSlots \cup {c}
      BY <1>4
    <2> HIDE DEF c
    <2> QED
      BY <1>2, <1>4, <2>1, <2>2, FS_AddElement
  <1> QED
    BY <1>3, <1>4

\* The path of a call is a chain of includes from an entry.
LEMMA ChainLeads ==
  ASSUME IInv, Calling
  PROVE  Append(active, Path) \in Seq(Files) /\ Leads(Append(active, Path))
  <1> DEFINE n == Len(active)
             chain == Append(active, Path)
  <1>1. active \in Seq(Files) /\ n \in Nat /\ Path \in Files
    BY CallFacts DEF IInv, Typed
  <1>2. /\ chain \in Seq(Files) /\ Len(chain) = n + 1 /\ chain[n + 1] = Path
        /\ \A i \in 1 .. n : chain[i] = active[i]
    BY <1>1, AppendProperties
  <1> HIDE DEF chain
  <1>3. Entry \in {EntryRules, EntryTc}
    BY DEF Entry
  <1>4. chain[1] = Entry
    <2>1. CASE active = <<>>
      BY <1>1, <1>2, <2>1, CallFacts
    <2>2. CASE active # <<>>
      <3>1. 1 \in 1 .. n
        BY <1>1, <2>2, EmptySeq
      <3> QED
        BY <1>2, <2>2, <3>1, CallFacts
    <2> QED
      BY <2>1, <2>2
  <1>5. ASSUME NEW i \in 1 .. Len(chain) - 1
        PROVE  \E k \in DOMAIN includes[chain[i]] : includes[chain[i]][k] = chain[i + 1]
    <2>1. i \in 1 .. n /\ chain[i] = active[i]
      BY <1>1, <1>2
    <2>2. chain[i + 1] = IF i < n THEN active[i + 1] ELSE Path
      <3>1. CASE i < n
        <4>1. i + 1 \in 1 .. n
          BY <1>1, <2>1, <3>1
        <4> QED
          BY <1>2, <3>1, <4>1
      <3>2. CASE i = n
        BY <1>1, <1>2, <3>2
      <3> QED
        BY <1>1, <2>1, <3>1, <3>2
    <2> QED
      BY <2>1, <2>2, CallOfActive
  <1> QED
    BY <1>2, <1>3, <1>4, <1>5 DEF Leads, IncludesNext, chain

\* A step that makes the call under way and may enter its file.
LEMMA CallCounted ==
  ASSUME IInv, Calling, UNCHANGED <<includes, merged>>,
         Len(active') \in Nat, Len(active) <= Len(active'),
         \A j \in 1 .. Len(active) :
             /\ active'[j] = active[j]
             /\ Made(j)' = IF j = Len(active) THEN Made(j) + 1 ELSE Made(j),
         \A j \in 1 .. Len(active') : j \in 1 .. Len(active) \/ Made(j)' = 0
  PROVE  Cardinality(CalledSlots') = Cardinality(CalledSlots) + IF active = <<>> THEN 0 ELSE 1
  <1> DEFINE n == Len(active)
             New(c) == active # <<>> /\ c = <<active[n], Made(n) + 1>>
             T == IF active = <<>> THEN CalledSlots
                  ELSE CalledSlots \cup {<<active[n], Made(n) + 1>>}
  <1>1. n \in Nat /\ active \in Seq(Files) /\ (active = <<>> <=> n = 0)
    BY EmptySeq DEF IInv, Typed
  <1>2. \A j \in 1 .. n : Made(j) \in Nat
    BY DEF IInv, Walked, CallsFollowIncludes, Follows
  <1>3. ASSUME NEW c \in Slots
        PROVE  SlotCalled(c)' <=> SlotCalled(c) \/ New(c)
    <2>1. c[1] \in Files /\ c[2] \in Nat \ {0} /\ c = <<c[1], c[2]>>
      BY GraphAssumption DEF Slots
    <2>2. ASSUME NEW j \in 1 .. Len(active'), c[1] = active'[j], c[2] <= Made(j)'
          PROVE  SlotCalled(c) \/ New(c)
      <3>1. j \in 1 .. n
        BY <2>1, <2>2
      <3>2. CASE j = n
        <4>1. c[2] <= Made(n) + 1 /\ Made(n) \in Nat /\ active # <<>>
          BY <1>1, <1>2, <2>2, <3>1, <3>2
        <4>2. c[2] <= Made(n) \/ c[2] = Made(n) + 1
          BY <2>1, <4>1
        <4> QED
          BY <2>1, <2>2, <3>1, <3>2, <4>1, <4>2 DEF SlotCalled
      <3>3. CASE j # n
        BY <2>2, <3>1, <3>3 DEF SlotCalled
      <3> QED
        BY <3>2, <3>3
    <2>3. ASSUME NEW j \in 1 .. n, c[1] = active[j], c[2] <= Made(j)
          PROVE  SlotCalled(c)'
      <3>1. j \in 1 .. Len(active') /\ active'[j] = active[j]
        BY <1>1
      <3>2. c[2] <= Made(j)'
        BY <1>2, <2>1, <2>3
      <3> QED
        BY <2>3, <3>1, <3>2 DEF SlotCalled
    <2>4. ASSUME New(c)
          PROVE  SlotCalled(c)'
      <3>1. PICK j \in 1 .. n : j = n /\ j \in 1 .. Len(active') /\ c[1] = active[j] /\ c[2] = Made(j) + 1
        BY <1>1, <2>4
      <3>2. Made(j)' = Made(j) + 1 /\ active'[j] = active[j] /\ Made(j) \in Nat
        BY <1>2, <3>1
      <3>3. c[1] = active'[j] /\ c[2] <= Made(j)'
        BY <3>1, <3>2
      <3> QED
        BY <3>1, <3>3 DEF SlotCalled
    <2> HIDE DEF New
    <2> QED
      BY <2>2, <2>3, <2>4 DEF SlotCalled
  <1>4. CalledSlots' = T
    <2>1. \A c : c \in CalledSlots' <=> c \in Slots /\ (SlotCalled(c) \/ New(c))
      BY <1>3 DEF CalledSlots
    <2>2. \A c : New(c) => c \in Slots
      BY NewSlot
    <2>3. \A c : c \in T <=> c \in CalledSlots \/ New(c)
      OBVIOUS
    <2>4. \A c : c \in CalledSlots <=> c \in Slots /\ SlotCalled(c)
      BY DEF CalledSlots
    <2> HIDE DEF New, T
    <2>5. \A c : c \in CalledSlots' <=> c \in T
      BY <2>1, <2>2, <2>3, <2>4
    <2> QED
      BY <2>5
  <1> HIDE DEF T
  <1>5. Cardinality(T) = Cardinality(CalledSlots) + IF active = <<>> THEN 0 ELSE 1
    BY OneSlotMore DEF T
  <1> QED
    BY <1>4, <1>5

\* The call for an entry counts itself.
LEMMA EntryCounted ==
  ASSUME IInv, Calling, rest'[1] = Called[1], graph' = graph
  PROVE  EntriesCalled' = EntriesCalled + IF active = <<>> THEN 1 ELSE 0
  <1>1. graph # "merge" /\ Len(active) \in Nat /\ active \in Seq(Files)
    BY DEF Calling, Walking, IInv, Typed
  <1>2. CASE active = <<>>
    <2>1. rest[1] = <<Entry>> /\ Called[1] = <<>>
      BY <1>1, <1>2, CallFacts DEF IInv, Walked, Rooted, Calling
    <2>2. Len(rest[1]) = 1 /\ Len(rest'[1]) = 0
      BY <2>1
    <2> QED
      BY <1>1, <1>2, <2>2 DEF EntriesCalled
  <1>3. CASE active # <<>>
    <2>1. 1 \in 1 .. Len(active)
      BY <1>1, <1>3, EmptySeq
    <2>2. rest'[1] = rest[1] /\ Len(rest[1]) = 0
      BY <1>3, <2>1, CallFacts
    <2> QED
      BY <1>3, <2>2, <1>1 DEF EntriesCalled
  <1> QED
    BY <1>2, <1>3

\* What is counted is a number.
LEMMA CountsTyped ==
  ASSUME IInv
  PROVE  /\ Len(diagnostics) \in Nat /\ Len(active) \in Nat /\ Len(Order) \in Nat
         /\ Cardinality(CalledSlots) \in Nat /\ EntriesCalled \in Int
  <1>1. Len(diagnostics) \in Nat /\ Len(active) \in Nat /\ Len(Order) \in Nat
    BY OrderTyped, LenProperties DEF IInv, Typed
  <1>2. Cardinality(CalledSlots) \in Nat
    BY SlotsFinite DEF CalledSlots
  <1>3. Len(rest[1]) \in Nat
    <2>1. 1 \in 1 .. Len(rest)
      BY <1>1 DEF IInv, Typed
    <2> QED
      BY <2>1 DEF IInv, Typed
  <1> QED
    BY <1>1, <1>2, <1>3 DEF EntriesCalled

\* A call that is skipped adds a diagnostic.
LEMMA SkipMergedAInv == ASSUME AInv, SkipMerged PROVE Accounted' /\ DiagnosticsLead'
  <1> DEFINE n == Len(active)
  <1>1. /\ IInv /\ Calling /\ rest' = Called /\ diagnostics' = Append(diagnostics, Append(active, Path))
        /\ UNCHANGED <<includes, graph, active, merged, nodes>>
    BY DEF AInv, SkipMerged, files
  <1>2. n \in Nat /\ diagnostics \in Seq(Seq(Files)) /\ Len(diagnostics) \in Nat
    BY <1>1 DEF IInv, Typed
  <1>3. Append(active, Path) \in Seq(Files) /\ Leads(Append(active, Path))
    BY <1>1, ChainLeads
  <1>4. /\ Len(diagnostics') = Len(diagnostics) + 1
        /\ diagnostics'[Len(diagnostics) + 1] = Append(active, Path)
        /\ \A d \in 1 .. Len(diagnostics) : diagnostics'[d] = diagnostics[d]
    BY <1>1, <1>2, <1>3, AppendProperties
  <1>5. ASSUME NEW j \in 1 .. n
        PROVE  Made(j)' = IF j = n THEN Made(j) + 1 ELSE Made(j)
    <2>1. CASE j = n
      <3>1. active # <<>>
        BY <1>2, <2>1, EmptySeq
      <3>2. Made(j)' = Len(includes[active[n]]) - Len(Called[n + 1])
        BY <1>1, <2>1 DEF Made
      <3>3. Len(includes[active[n]]) - Len(Called[n + 1]) = Made(n) + 1
        BY <1>1, <3>1, CallMade
      <3> QED
        BY <2>1, <3>2, <3>3
    <2>2. CASE j # n
      <3>1. j + 1 \in 1 .. n
        BY <1>2, <2>2
      <3>2. rest'[j + 1] = rest[j + 1]
        BY <1>1, <3>1, CallFacts
      <3> QED
        BY <1>1, <2>2, <3>2 DEF Made
    <2> QED
      BY <2>1, <2>2
  <1>6. Cardinality(CalledSlots') = Cardinality(CalledSlots) + IF active = <<>> THEN 0 ELSE 1
    <2>1. Len(active') \in Nat /\ Len(active) <= Len(active') /\ active' = active
      BY <1>1, <1>2
    <2> QED
      BY <1>1, <1>5, <2>1, CallCounted
  <1>7. EntriesCalled' = EntriesCalled + IF active = <<>> THEN 1 ELSE 0
    BY <1>1, EntryCounted
  <1>8. Accounted'
    <2>1. Order' = Order
      BY <1>1 DEF Order
    <2>2. Cardinality(CalledSlots) + EntriesCalled = Len(diagnostics) + Len(Order) + Len(active)
      BY DEF AInv, Accounted
    <2>3. Cardinality(CalledSlots') + EntriesCalled' = Len(diagnostics') + Len(Order') + Len(active')
      BY <1>1, <1>4, <1>6, <1>7, <2>1, <2>2, CountsTyped
    <2> QED
      BY <2>3 DEF Accounted
  <1>9. ASSUME NEW d \in 1 .. Len(diagnostics')
        PROVE  Leads(diagnostics[d])'
    <2>1. \A chain : Leads(chain) => Leads(chain)'
      BY <1>1 DEF Leads, IncludesNext
    <2>2. Leads(diagnostics'[d])
      <3>1. d \in 1 .. Len(diagnostics) \/ d = Len(diagnostics) + 1
        BY <1>2, <1>4
      <3> QED
        BY <1>3, <1>4, <3>1 DEF AInv, DiagnosticsLead
    <2> QED
      BY <1>1, <2>2 DEF Leads, IncludesNext
  <1> QED
    BY <1>8, <1>9 DEF DiagnosticsLead

\* A call that is entered adds an active file.
LEMMA EnterAInv == ASSUME AInv, Enter PROVE Accounted' /\ DiagnosticsLead'
  <1> DEFINE n == Len(active)
  <1>1. /\ IInv /\ Calling /\ rest' = Append(Called, includes[Path]) /\ active' = Append(active, Path)
        /\ UNCHANGED <<includes, graph, diagnostics, merged, nodes>>
    BY DEF AInv, Enter, files
  <1>2. /\ n \in Nat /\ active \in Seq(Files) /\ Path \in Files /\ includes[Path] \in Seq(Files)
        /\ Called \in Seq(Seq(Files)) /\ Len(Called) = n + 1
        /\ \A i \in 1 .. n : Called[i] = rest[i]
    BY <1>1, CallFacts DEF IInv, Typed
  <1>3. /\ Len(active') = n + 1 /\ active'[n + 1] = Path
        /\ \A i \in 1 .. n : active'[i] = active[i]
    BY <1>1, <1>2, AppendProperties
  <1>4. /\ Len(rest') = n + 2 /\ rest'[n + 2] = includes[Path]
        /\ \A i \in 1 .. n + 1 : rest'[i] = Called[i]
    BY <1>1, <1>2, AppendProperties
  <1>5. ASSUME NEW j \in 1 .. n
        PROVE  Made(j)' = IF j = n THEN Made(j) + 1 ELSE Made(j)
    <2>1. CASE j = n
      <3>1. active # <<>> /\ n + 1 \in 1 .. n + 1
        BY <1>2, <2>1, EmptySeq
      <3>2. Made(j)' = Len(includes[active[n]]) - Len(Called[n + 1])
        BY <1>1, <1>3, <1>4, <2>1, <3>1 DEF Made
      <3>3. Len(includes[active[n]]) - Len(Called[n + 1]) = Made(n) + 1
        BY <1>1, <3>1, CallMade
      <3> QED
        BY <2>1, <3>2, <3>3
    <2>2. CASE j # n
      <3>1. j + 1 \in 1 .. n /\ j + 1 \in 1 .. n + 1
        BY <1>2, <2>2
      <3>2. rest'[j + 1] = rest[j + 1]
        BY <1>2, <1>4, <3>1
      <3> QED
        BY <1>1, <1>3, <2>2, <3>2 DEF Made
    <2> QED
      BY <2>1, <2>2
  <1>6. Cardinality(CalledSlots') = Cardinality(CalledSlots) + IF active = <<>> THEN 0 ELSE 1
    <2>1. Len(active') \in Nat /\ Len(active) <= Len(active')
      BY <1>2, <1>3
    <2>2. ASSUME NEW j \in 1 .. Len(active')
          PROVE  j \in 1 .. Len(active) \/ Made(j)' = 0
      <3> SUFFICES ASSUME j = n + 1 PROVE Made(j)' = 0
        BY <1>2, <1>3
      <3>1. active'[j] = Path /\ rest'[j + 1] = includes[Path]
        BY <1>2, <1>3, <1>4
      <3>2. Len(includes[Path]) \in Nat
        BY <1>2
      <3> QED
        BY <1>1, <3>1, <3>2 DEF Made
    <2> QED
      BY <1>1, <1>3, <1>5, <2>1, <2>2, CallCounted
  <1>7. EntriesCalled' = EntriesCalled + IF active = <<>> THEN 1 ELSE 0
    <2>1. 1 \in 1 .. n + 1
      BY <1>2
    <2> QED
      BY <1>1, <1>4, <2>1, EntryCounted
  <1>8. Accounted'
    <2>1. Order' = Order
      BY <1>1 DEF Order
    <2>2. Cardinality(CalledSlots) + EntriesCalled = Len(diagnostics) + Len(Order) + Len(active)
      BY DEF AInv, Accounted
    <2>3. Len(active') = Len(active) + 1 /\ Len(diagnostics') = Len(diagnostics)
      BY <1>1, <1>3
    <2>4. /\ Len(diagnostics) \in Nat /\ Len(active) \in Nat /\ Len(Order) \in Nat
          /\ Cardinality(CalledSlots) \in Nat /\ EntriesCalled \in Int
      BY <1>1, CountsTyped
    <2>5. Cardinality(CalledSlots') + EntriesCalled' = Len(diagnostics') + Len(Order') + Len(active')
      BY <1>6, <1>7, <2>1, <2>2, <2>3, <2>4
    <2> QED
      BY <2>5 DEF Accounted
  <1> QED
    BY <1>1, <1>8 DEF AInv, DiagnosticsLead, Leads, IncludesNext

\* The file that is put in order has made all its calls.
LEMMA LeaveAInv == ASSUME AInv, Leave PROVE Accounted' /\ DiagnosticsLead'
  <1> DEFINE n == Len(active)
             path == active[n]
  <1>1. /\ IInv /\ active \in Seq(Files) /\ n \in Nat \ {0} /\ n \in 1 .. n /\ path \in Files
        /\ rest \in Seq(Seq(Files)) /\ Len(rest) = n + 1 /\ rest[n + 1] = <<>>
        /\ graph \in Entered /\ includes \in [Files -> Seq(Files)]
        /\ UNCHANGED <<includes, graph, diagnostics>>
    <2>1. IInv /\ Typed
      BY DEF AInv, IInv
    <2>2. n \in Nat \ {0} /\ n \in 1 .. n
      BY <2>1, EmptySeq DEF Typed, Leave
    <2>3. /\ rest \in Seq(Seq(Files)) /\ Len(rest) = n + 1 /\ rest[Top] = <<>> /\ Top = n + 1
          /\ active \in Seq(Files) /\ includes \in [Files -> Seq(Files)]
      BY <2>1 DEF Typed, Leave, Top
    <2>4. graph \in Entered /\ UNCHANGED <<includes, graph, diagnostics>>
      BY <2>1 DEF Typed, Leave, Walking, Entered, files
    <2>5. path \in Files
      BY <2>2, <2>3
    <2> HIDE DEF n, path
    <2> QED
      BY <2>1, <2>2, <2>3, <2>4, <2>5
  <1>2. /\ Len(active') = n - 1
        /\ \A i \in 1 .. n - 1 : active'[i] = active[i]
    <2>1. 1 \in Int /\ n - 1 \in Int /\ \A i \in 1 .. n - 1 : active[i] \in Files
      BY <1>1
    <2>2. /\ Len(SubSeq(active, 1, n - 1)) = IF 1 <= n - 1 THEN (n - 1) - 1 + 1 ELSE 0
          /\ \A i \in 1 .. (n - 1) - 1 + 1 : SubSeq(active, 1, n - 1)[i] = active[1 + i - 1]
      BY <2>1, SubSeqProperties
    <2>3. active' = SubSeq(active, 1, n - 1)
      BY DEF Leave
    <2>4. n \in Nat \ {0}
      BY <1>1
    <2>5. /\ (IF 1 <= n - 1 THEN (n - 1) - 1 + 1 ELSE 0) = n - 1
          /\ (n - 1) - 1 + 1 = n - 1
          /\ \A i \in 1 .. n - 1 : 1 + i - 1 = i
      BY <2>4
    <2> QED
      BY <2>2, <2>3, <2>5
  <1>3. \A i \in 1 .. n : rest'[i] = rest[i]
    <2>1. 1 \in Int /\ n \in Int /\ \A i \in 1 .. n : rest[i] \in Seq(Files)
      BY <1>1
    <2>2. \A i \in 1 .. n - 1 + 1 : SubSeq(rest, 1, n)[i] = rest[1 + i - 1]
      BY <2>1, SubSeqProperties
    <2>3. rest' = SubSeq(rest, 1, n)
      <3>1. Top - 1 = n
        BY <1>1 DEF Top
      <3> QED
        BY <3>1 DEF Leave
    <2>4. n \in Nat \ {0}
      BY <1>1
    <2>5. n - 1 + 1 = n /\ \A i \in 1 .. n : 1 + i - 1 = i
      BY <2>4
    <2> QED
      BY <2>2, <2>3, <2>5
  <1>4. path \notin merged
    BY <1>1 DEF IInv, Walked, OrderKept, MergedIsOrder
  <1>5. merged' = merged \cup {path} /\ nodes' = [nodes EXCEPT ![graph] = Append(@, path)]
    BY <1>4 DEF Leave
  <1>6. Len(Order') = Len(Order) + 1
    <2>1. Order' = Append(Order, path) /\ Order \in Seq(Files)
      BY <1>1, <1>5, OrderGrows, OrderTyped DEF IInv, Leave, Walking, Walked, OrderKept, MergedIsOrder
    <2> QED
      BY <1>1, <2>1, AppendProperties
  <1>7. Made(n) = Len(includes[path])
    <2>1. Len(rest[n + 1]) = 0 /\ Len(includes[path]) \in Nat
      BY <1>1
    <2> QED
      BY <2>1 DEF Made
  <1>8. \A j \in 1 .. n - 1 : Made(j)' = Made(j)
    <2> SUFFICES ASSUME NEW j \in 1 .. n - 1 PROVE Made(j)' = Made(j)
      OBVIOUS
    <2>1. j + 1 \in 1 .. n
      BY <1>1
    <2> QED
      BY <1>1, <1>2, <1>3, <2>1 DEF Made
  <1>9. ASSUME NEW c \in Slots
        PROVE  SlotCalled(c)' <=> SlotCalled(c)
    <2> DEFINE S(j) == c[1] = active[j] /\ c[2] <= Made(j)
    <2>1. (\E j \in 1 .. n : S(j)) <=> (\E j \in 1 .. n - 1 : S(j)) \/ S(n)
      <3>1. \A j : j \in 1 .. n <=> j \in 1 .. n - 1 \/ j = n
        BY <1>1
      <3> HIDE DEF S, n
      <3> QED
        BY <3>1
    <2>2. (\E j \in 1 .. Len(active') : c[1] = active'[j] /\ c[2] <= Made(j)')
             <=> \E j \in 1 .. n - 1 : S(j)
      <3>1. \A j \in 1 .. n - 1 : c[1] = active'[j] /\ c[2] <= Made(j)' <=> S(j)
        BY <1>2, <1>8
      <3> QED
        BY <1>2, <3>1
    <2>3. S(n) <=> c[1] = path /\ c[2] <= Len(includes[c[1]])
      BY <1>7
    <2>4. SlotCalled(c) <=> \/ c[1] \in merged /\ c[2] <= Len(includes[c[1]])
                            \/ \E j \in 1 .. n : S(j)
      BY DEF SlotCalled
    <2>5. SlotCalled(c)' <=> \/ c[1] \in merged' /\ c[2] <= Len(includes[c[1]])
                             \/ \E j \in 1 .. Len(active') : c[1] = active'[j] /\ c[2] <= Made(j)'
      BY <1>1 DEF SlotCalled
    <2>6. c[1] \in merged' <=> c[1] \in merged \/ c[1] = path
      BY <1>5
    <2> HIDE DEF S
    <2> QED
      BY <2>1, <2>2, <2>3, <2>4, <2>5, <2>6
  <1>10. CalledSlots' = CalledSlots
    BY <1>9 DEF CalledSlots
  <1>11. EntriesCalled' = EntriesCalled
    <2>1. rest'[1] = rest[1]
      <3>1. 1 \in 1 .. n
        BY <1>1
      <3> QED
        BY <1>3, <3>1
    <2> QED
      BY <1>1, <2>1 DEF EntriesCalled
  <1>12. Accounted'
    <2>1. Cardinality(CalledSlots) + EntriesCalled = Len(diagnostics) + Len(Order) + Len(active)
      BY DEF AInv, Accounted
    <2>2. Cardinality(CalledSlots') + EntriesCalled' = Len(diagnostics') + Len(Order') + Len(active')
      BY <1>1, <1>2, <1>6, <1>10, <1>11, <2>1, CountsTyped
    <2> QED
      BY <2>2 DEF Accounted
  <1> QED
    BY <1>1, <1>12 DEF AInv, DiagnosticsLead, Leads, IncludesNext

\* A step that neither calls nor leaves.
LEMMA AccountStays ==
  ASSUME AInv, UNCHANGED <<includes, active, merged, nodes, diagnostics>>,
         rest' = rest \/ active = <<>>, EntriesCalled' = EntriesCalled
  PROVE  Accounted' /\ DiagnosticsLead'
  <1>1. Order' = Order
    BY DEF Order
  <1>2. \A c \in Slots : SlotCalled(c)' <=> SlotCalled(c)
    <2>1. CASE rest' = rest
      BY <2>1 DEF SlotCalled, Made
    <2>2. CASE active = <<>>
      <3>1. 1 .. Len(active) = {} /\ 1 .. Len(active') = {}
        BY <2>2
      <3> QED
        BY <3>1 DEF SlotCalled
    <2> QED
      BY <2>1, <2>2
  <1>3. CalledSlots' = CalledSlots
    BY <1>2 DEF CalledSlots
  <1> QED
    BY <1>1, <1>3 DEF AInv, Accounted, DiagnosticsLead, Leads, IncludesNext

\* AInv is inductive.
LEMMA NextAInv == ASSUME AInv, [Next]_vars PROVE AInv'
  <1>1. IInv /\ IInv'
    BY NextIInv DEF AInv
  <1>2. CASE ReportCycle \/ LoadFails \/ Merge \/ UNCHANGED vars
    <2>1. UNCHANGED <<includes, graph, active, rest, merged, nodes, diagnostics>>
      BY <1>2 DEF ReportCycle, LoadFails, Merge, Fail, vars, files
    <2>2. EntriesCalled' = EntriesCalled
      BY <2>1 DEF EntriesCalled
    <2> QED
      BY <1>1, <2>1, <2>2, AccountStays DEF AInv
  <1>3. CASE NextGraph
    <2>1. /\ UNCHANGED <<includes, active, merged, nodes, diagnostics>>
          /\ graph \in Entered /\ rest = <<<<>>>>
          /\ graph' = IF graph = "rules" THEN "tc" ELSE "merge"
          /\ rest' = IF graph = "rules" THEN <<<<EntryTc>>>> ELSE rest
      BY <1>1, <1>3 DEF NextGraph, IInv, Typed, Walking, Entered, files
    <2>2. rest[1] = <<>> /\ Len(rest[1]) = 0 /\ Len(rest) = 1
      BY <2>1
    <2>3. active = <<>>
      <3>1. Len(active) \in Nat /\ active \in Seq(Files) /\ Len(rest) = Len(active) + 1
        BY <1>1 DEF IInv, Typed
      <3>2. Len(active) = 0
        <4>1. Len(active) + 1 = 1
          BY <2>2, <3>1, Zenon
        <4> QED
          BY <3>1, <4>1
      <3> QED
        BY <3>1, <3>2, EmptySeq
    <2>4. EntriesCalled' = EntriesCalled
      <3>1. CASE graph = "rules"
        <4>1. rest'[1] = <<EntryTc>> /\ Len(rest'[1]) = 1
          BY <2>1, <3>1
        <4> QED
          BY <2>1, <2>2, <3>1, <4>1 DEF EntriesCalled
      <3>2. CASE graph = "tc"
        BY <2>1, <2>2, <3>2 DEF EntriesCalled
      <3> QED
        BY <2>1, <3>1, <3>2 DEF Entered
    <2> QED
      BY <1>1, <2>1, <2>3, <2>4, AccountStays DEF AInv
  <1> QED
    BY <1>1, <1>2, <1>3, SkipMergedAInv, EnterAInv, LeaveAInv DEF Next, AInv

\* AInv is an invariant.
LEMMA AlwaysAInv == Spec => []AInv
  <1>1. AInv /\ [Next]_vars => AInv'
    BY NextAInv
  <1> QED
    BY <1>1, InitAInv, PTL DEF Spec

\* At the end every include of every merged file has merged its file or has a
\* diagnostic, and each diagnostic is a chain of includes from an entry.
THEOREM EveryIncludeAccounted == Spec => []IncludesAccounted
  <1>1. ASSUME AInv PROVE IncludesAccounted
    <2> SUFFICES ASSUME graph = "merge" PROVE IncludesAccounted
      BY DEF IncludesAccounted
    <2> DEFINE T == {c \in merged \X (1 .. MaxIncludes) : c[2] \in DOMAIN includes[c[1]]}
    <2>1. /\ active = <<>> /\ merged \subseteq Files /\ includes \in [Files -> Seq(Files)]
          /\ diagnostics \in Seq(Seq(Files)) /\ DOMAIN diagnostics = 1 .. Len(diagnostics)
      BY <1>1, LenProperties DEF AInv, IInv, Walked, Rooted, Typed
    <2>2. Len(active) = 0
      BY <2>1
    <2>3. \A c : c \in T <=> c \in CalledSlots
      <3>1. \A f \in Files : DOMAIN includes[f] = 1 .. Len(includes[f]) /\ Len(includes[f]) \in Nat
        BY <2>1, LenProperties
      <3>2. \A c \in Slots : c[1] \in Files /\ c[2] \in Nat \ {0} /\ c = <<c[1], c[2]>> /\ c[2] \in 1 .. MaxIncludes
        BY GraphAssumption DEF Slots
      <3>3. \A c \in Slots : c[2] \in DOMAIN includes[c[1]] <=> c[2] <= Len(includes[c[1]])
        BY <3>1, <3>2
      <3>4. \A c \in Slots : SlotCalled(c) <=> c[1] \in merged /\ c[2] <= Len(includes[c[1]])
        <4>1. 1 .. Len(active) = {}
          BY <2>2
        <4> QED
          BY <4>1 DEF SlotCalled
      <3>5. \A c : c \in merged \X (1 .. MaxIncludes) <=> c \in Slots /\ c[1] \in merged
        BY <2>1 DEF Slots
      <3> QED
        BY <3>3, <3>4, <3>5 DEF CalledSlots
    <2>4. T = CalledSlots
      BY <2>3
    <2> HIDE DEF T
    <2>5. Cardinality(T) + 2 = Len(diagnostics) + Len(Order)
      BY <1>1, <2>2, <2>4, CountsTyped DEF AInv, Accounted, EntriesCalled
    <2>6. Len(diagnostics) + Len(Order) = 2 + Cardinality(T)
      BY <1>1, <2>4, <2>5, CountsTyped DEF AInv
    <2>7. \A d \in DOMAIN diagnostics : Leads(diagnostics[d])
      BY <1>1, <2>1 DEF AInv, DiagnosticsLead
    <2> QED
      BY <2>6, <2>7 DEF IncludesAccounted, Leads, T
  <1> QED
    BY <1>1, AlwaysAInv, PTL

-----------------------------------------------------------------------------
(* Induction, over sets of numbers.                                        *)

\* A set of numbers has a least one.
LEMMA LeastNumber ==
  ASSUME NEW S \in SUBSET Nat, S # {}
  PROVE  \E m \in S : \A n \in S : m <= n
  <1> DEFINE R == OpToRel(<, Nat)
  <1>1. IsWellFoundedOn(R, Nat)
    BY NatLessThanWellFounded
  <1>2. \A m, n \in Nat : <<n, m>> \in R <=> n < m
    BY DEF OpToRel
  <1> HIDE DEF R
  <1>3. PICK m \in S : \A n \in S : ~(<<n, m>> \in R)
    BY <1>1, WFMin, Zenon
  <1>4. \A n \in S : ~(n < m)
    BY <1>2, <1>3
  <1>5. \A n \in S : m <= n
    BY <1>4
  <1> QED
    BY <1>5

\* Induction, for sets of numbers.
LEMMA UpToInduction ==
  ASSUME NEW N \in Nat, NEW T, 0 \in T, \A n \in 1 .. N : n - 1 \in T => n \in T
  PROVE  0 .. N \subseteq T
  <1> DEFINE S == {n \in 0 .. N : n \notin T}
  <1> SUFFICES ASSUME S # {} PROVE FALSE
    OBVIOUS
  <1>1. PICK m \in S : \A n \in S : m <= n
    <2>1. S \in SUBSET Nat
      OBVIOUS
    <2> HIDE DEF S
    <2> QED
      BY <2>1, LeastNumber
  <1>2. m \in 1 .. N /\ m \notin T /\ m - 1 \in 0 .. N /\ ~(m <= m - 1)
    OBVIOUS
  <1>3. m - 1 \in T
    BY <1>1, <1>2
  <1> QED
    BY <1>2, <1>3

-----------------------------------------------------------------------------
(* Precedence: whose declaration decides.                                  *)

Speaks(f) == declares.goOn[f] # None

\* The k-th file of the order is the last of the first n that says v.
LastWord(order, n, v, k) ==
    /\ k \in 1 .. n /\ declares.goOn[order[k]] = v
    /\ \A j \in k + 1 .. n : ~Speaks(order[j])

SaidStep(order, f) ==
    [n \in 0 .. Len(order) |-> IF n = 0 THEN None ELSE Override(f[n - 1], declares.goOn[order[n]])]

\* What a declaration may say.
LEMMA DeclaresTyped ==
  ASSUME Typed
  PROVE  /\ declares.filelist \subseteq Files
         /\ \A f \in Files : /\ declares.goOn[f] \in BOOLEAN \cup {None}
                             /\ declares.flow[f] \in Flow \cup {None}
         /\ None \notin BOOLEAN /\ None \notin Flow
  BY GraphAssumption DEF Typed

\* The last word among n files is the n-th's, if it says something, and that
\* among those before it otherwise.
LEMMA LastWordStep ==
  ASSUME NEW order, NEW n \in Nat \ {0}, NEW v \in BOOLEAN, None \notin BOOLEAN
  PROVE  (\E k : LastWord(order, n, v, k))
            <=> IF Speaks(order[n]) THEN declares.goOn[order[n]] = v
                                    ELSE \E k : LastWord(order, n - 1, v, k)
  <1>1. CASE Speaks(order[n])
    <2>1. ASSUME NEW k, LastWord(order, n, v, k) PROVE declares.goOn[order[n]] = v
      <3>1. k \in 1 .. n /\ ~(n \in k + 1 .. n)
        BY <1>1, <2>1 DEF LastWord
      <3>2. k = n
        BY <3>1
      <3> QED
        BY <2>1, <3>2 DEF LastWord
    <2>2. ASSUME declares.goOn[order[n]] = v PROVE LastWord(order, n, v, n)
      <3>1. n \in 1 .. n /\ n + 1 .. n = {}
        OBVIOUS
      <3> QED
        BY <2>2, <3>1 DEF LastWord
    <2> QED
      BY <1>1, <2>1, <2>2
  <1>2. CASE ~Speaks(order[n])
    <2>1. ASSUME NEW k, LastWord(order, n, v, k) PROVE LastWord(order, n - 1, v, k)
      <3>1. k # n /\ k \in 1 .. n
        BY <1>2, <2>1 DEF LastWord, Speaks
      <3>2. k \in 1 .. n - 1 /\ \A j \in k + 1 .. n - 1 : j \in k + 1 .. n
        BY <3>1
      <3> QED
        BY <2>1, <3>2 DEF LastWord
    <2>2. ASSUME NEW k, LastWord(order, n - 1, v, k) PROVE LastWord(order, n, v, k)
      <3>1. k \in 1 .. n - 1
        BY <2>2 DEF LastWord
      <3>2. k \in 1 .. n /\ \A j \in k + 1 .. n : j \in k + 1 .. n - 1 \/ j = n
        BY <3>1
      <3> QED
        BY <1>2, <2>2, <3>2 DEF LastWord
    <2> QED
      BY <1>2, <2>1, <2>2
  <1> QED
    BY <1>1, <1>2

\* Overriding from file to file gives the last word.
LEMMA SaidIsLastWord ==
  ASSUME Typed, NEW order \in Seq(Files)
  PROVE  \A n \in 0 .. Len(order) : \A v \in BOOLEAN :
            Said(order)[n] = v <=> \E k : LastWord(order, n, v, k)
  <1> DEFINE N == Len(order)
             W(n) == IF \E k : LastWord(order, n, TRUE, k) THEN TRUE
                     ELSE IF \E k : LastWord(order, n, FALSE, k) THEN FALSE ELSE None
             w == [n \in 0 .. N |-> W(n)]
  <1>1. N \in Nat /\ None \notin BOOLEAN
        /\ \A n \in 1 .. N : declares.goOn[order[n]] \in BOOLEAN \cup {None}
    BY DeclaresTyped
  <1>2. W(0) = None
    BY DEF LastWord
  <1>3. ASSUME NEW n \in 1 .. N
        PROVE  W(n) = Override(W(n - 1), declares.goOn[order[n]])
    <2>1. n \in Nat \ {0} /\ TRUE \in BOOLEAN /\ FALSE \in BOOLEAN
      OBVIOUS
    <2> DEFINE L(m, v) == \E k : LastWord(order, m, v, k)
    <2>2. /\ L(n, TRUE) <=> IF Speaks(order[n]) THEN declares.goOn[order[n]] = TRUE ELSE L(n - 1, TRUE)
          /\ L(n, FALSE) <=> IF Speaks(order[n]) THEN declares.goOn[order[n]] = FALSE ELSE L(n - 1, FALSE)
      BY <1>1, <2>1, LastWordStep
    <2>3. \A m : W(m) = IF L(m, TRUE) THEN TRUE ELSE IF L(m, FALSE) THEN FALSE ELSE None
      OBVIOUS
    <2> HIDE DEF L, W
    <2>4. CASE Speaks(order[n])
      <3>1. declares.goOn[order[n]] \in BOOLEAN
        BY <1>1, <2>4 DEF Speaks
      <3>2. W(n) = declares.goOn[order[n]]
        BY <2>2, <2>3, <2>4, <3>1
      <3> QED
        BY <2>4, <3>2 DEF Override, Speaks
    <2>5. CASE ~Speaks(order[n])
      <3>1. W(n) = W(n - 1)
        BY <2>2, <2>3, <2>5
      <3> QED
        BY <2>5, <3>1 DEF Override, Speaks
    <2> QED
      BY <2>4, <2>5
  <1> HIDE DEF W
  <1>4. w = SaidStep(order, w)
    <2>1. \A n \in 0 .. N : w[n] = IF n = 0 THEN None ELSE Override(w[n - 1], declares.goOn[order[n]])
      <3> SUFFICES ASSUME NEW n \in 0 .. N, n # 0
                   PROVE  w[n] = Override(w[n - 1], declares.goOn[order[n]])
        BY <1>1, <1>2
      <3>1. n \in 1 .. N /\ n - 1 \in 0 .. N
        BY <1>1
      <3>2. w[n] = W(n) /\ w[n - 1] = W(n - 1)
        BY <3>1
      <3> QED
        BY <1>3, <3>1, <3>2
    <2> QED
      BY <2>1 DEF SaidStep
  <1>5. Said(order) = SaidStep(order, Said(order))
    <2>1. Said(order) = CHOOSE f : f = SaidStep(order, f)
      BY DEF Said, SaidStep
    <2> HIDE DEF w
    <2> QED
      BY <1>4, <2>1
  <1> DEFINE f == Said(order)
             T == {n \in 0 .. N : f[n] = W(n)}
  <1>6. 0 .. N \subseteq T
    <2>1. \A n \in 0 .. N : f[n] = IF n = 0 THEN None ELSE Override(f[n - 1], declares.goOn[order[n]])
      <3> HIDE DEF f
      <3> QED
        BY <1>5 DEF SaidStep, f
    <2> HIDE DEF f
    <2>2. 0 \in T
      BY <1>1, <1>2, <2>1
    <2>3. ASSUME NEW n \in 1 .. N, n - 1 \in T
          PROVE  n \in T
      <3>1. n \in 0 .. N /\ n # 0
        BY <1>1
      <3> QED
        BY <1>3, <2>1, <2>3, <3>1
    <2> HIDE DEF T
    <2> QED
      BY <1>1, <2>2, <2>3, UpToInduction
  <1>7. ASSUME NEW n \in 0 .. N, NEW a, NEW b, LastWord(order, n, TRUE, a), LastWord(order, n, FALSE, b)
        PROVE  FALSE
    <2>1. a \in 1 .. n /\ b \in 1 .. n /\ a # b
      BY <1>7 DEF LastWord
    <2>2. Speaks(order[a]) /\ Speaks(order[b])
      BY <1>1, <1>7 DEF LastWord, Speaks
    <2>3. ~(b \in a + 1 .. n) /\ ~(a \in b + 1 .. n)
      BY <1>7, <2>2 DEF LastWord
    <2> QED
      BY <2>1, <2>3
  <1>8. ASSUME NEW n \in 0 .. N, NEW v \in BOOLEAN
        PROVE  W(n) = v <=> \E k : LastWord(order, n, v, k)
    BY <1>1, <1>7 DEF W
  <1> QED
    BY <1>6, <1>8

\* What overrides to the end: the last of those that say something.
LEMMA LastSpeaker ==
  ASSUME NEW order \in Seq(Files), NEW i \in 1 .. Len(order), Speaks(order[i])
  PROVE  \E k \in 1 .. Len(order) :
            Speaks(order[k]) /\ \A j \in k + 1 .. Len(order) : ~Speaks(order[j])
  <1> DEFINE N == Len(order)
             S == {m \in Nat : N - m \in 1 .. N /\ Speaks(order[N - m])}
  <1>1. N \in Nat /\ N - i \in Nat /\ N - (N - i) = i
    OBVIOUS
  <1>2. N - i \in S
    BY <1>1
  <1>3. PICK m \in S : \A n \in S : m <= n
    <2> HIDE DEF S
    <2>1. S \in SUBSET Nat
      BY DEF S
    <2> QED
      BY <1>2, <2>1, LeastNumber
  <1>4. ASSUME NEW j \in N - m + 1 .. N, Speaks(order[j]) PROVE FALSE
    <2>1. j \in 1 .. N /\ N - j \in Nat /\ N - (N - j) = j /\ ~(m <= N - j)
      BY <1>1, <1>3
    <2>2. N - j \in S
      BY <1>4, <2>1
    <2> QED
      BY <1>3, <2>1, <2>2
  <1> QED
    BY <1>3, <1>4

\* The merged hooks go on if the last word is TRUE.
LEMMA GoesOnTyped ==
  ASSUME Typed, NEW order \in Seq(Files)
  PROVE  GoesOn(order) <=> \E k : LastWord(order, Len(order), TRUE, k)
  <1>1. Len(order) \in 0 .. Len(order)
    OBVIOUS
  <1> QED
    BY <1>1, SaidIsLastWord DEF GoesOn

\* What has been compiled.
Compiled ==
    outcome = "compiled" =>
        /\ Merges(nodes["rules"]) /\ Merges(Order) /\ FlowOf(nodes["rules"]) # None
        /\ goOn["rules"] <=> \E k : LastWord(nodes["rules"], Len(nodes["rules"]), TRUE, k)
        /\ goOn["tc"] <=> \E k : LastWord(Order, Len(Order), TRUE, k)

\* Merging compiles by the last word.
LEMMA MergeCompiled ==
  ASSUME IInv, Merge PROVE Compiled'
  <1> SUFFICES ASSUME outcome' = "compiled" PROVE Compiled'
    BY DEF Compiled
  <1>1. Typed /\ nodes["rules"] \in Seq(Files) /\ Order \in Seq(Files)
    BY OrderTyped DEF IInv, Typed, Entered
  <1>2. /\ Merges(nodes["rules"]) /\ Merges(Order) /\ FlowOf(nodes["rules"]) # None
        /\ goOn' = [g \in Entered |-> GoesOn(IF g = "rules" THEN nodes["rules"] ELSE Order)]
        /\ nodes' = nodes /\ declares' = declares
    BY DEF Merge, files
  <1>3. goOn'["rules"] = GoesOn(nodes["rules"]) /\ goOn'["tc"] = GoesOn(Order)
    BY <1>2 DEF Entered
  <1>4. /\ GoesOn(nodes["rules"]) <=> \E k : LastWord(nodes["rules"], Len(nodes["rules"]), TRUE, k)
        /\ GoesOn(Order) <=> \E k : LastWord(Order, Len(Order), TRUE, k)
    BY <1>1, GoesOnTyped
  <1>5. Order' = Order
    BY <1>2 DEF Order
  <1>6. Merges(nodes["rules"])' /\ Merges(Order)'
    BY <1>2, <1>5 DEF Merges
  <1>7. (FlowOf(nodes["rules"]) # None)'
    BY <1>2 DEF FlowOf
  <1>8. /\ goOn'["rules"] <=> \E k : LastWord(nodes["rules"], Len(nodes["rules"]), TRUE, k)'
        /\ goOn'["tc"] <=> \E k : LastWord(Order, Len(Order), TRUE, k)'
    BY <1>2, <1>3, <1>4, <1>5 DEF LastWord, Speaks
  <1> QED
    BY <1>6, <1>7, <1>8 DEF Compiled

\* What has been compiled stays.
LEMMA NextCompiled ==
  ASSUME IInv, Compiled, [Next]_vars PROVE Compiled'
  <1>1. CASE Merge
    BY <1>1, MergeCompiled
  <1>2. CASE ReportCycle \/ SkipMerged \/ LoadFails \/ Enter \/ Leave \/ NextGraph
    <2>1. outcome' # "compiled"
      BY <1>2 DEF ReportCycle, SkipMerged, LoadFails, Enter, Leave, NextGraph, Fail, Calling, Walking
    <2> QED
      BY <2>1 DEF Compiled
  <1>3. CASE UNCHANGED vars
    <2>1. UNCHANGED <<outcome, nodes, declares, goOn>> /\ Order' = Order
      BY <1>3 DEF vars, files, Order
    <2>2. /\ Merges(nodes["rules"])' <=> Merges(nodes["rules"])
          /\ Merges(Order)' <=> Merges(Order)
      BY <2>1 DEF Merges
    <2>3. (FlowOf(nodes["rules"]))' = FlowOf(nodes["rules"])
      BY <2>1 DEF FlowOf
    <2>4. /\ (\E k : LastWord(nodes["rules"], Len(nodes["rules"]), TRUE, k))'
                <=> \E k : LastWord(nodes["rules"], Len(nodes["rules"]), TRUE, k)
          /\ (\E k : LastWord(Order, Len(Order), TRUE, k))'
                <=> \E k : LastWord(Order, Len(Order), TRUE, k)
      BY <2>1 DEF LastWord, Speaks
    <2> QED
      BY <2>1, <2>2, <2>3, <2>4 DEF Compiled
  <1> QED
    BY <1>1, <1>2, <1>3 DEF Next

\* Flows that do not conflict are one.
LEMMA FlowAgreed ==
  ASSUME Typed, NEW order \in Seq(Files), Merges(order),
         NEW i \in 1 .. Len(order), declares.flow[order[i]] # None
  PROVE  FlowOf(order) = declares.flow[order[i]]
  <1>1. DOMAIN order = 1 .. Len(order) /\ \A j \in 1 .. Len(order) : order[j] \in Files
    BY LenProperties
  <1> DEFINE c == CHOOSE j \in DOMAIN order : declares.flow[order[j]] # None
  <1>2. c \in 1 .. Len(order) /\ declares.flow[order[c]] # None
    BY <1>1
  <1>3. FlowOf(order) = declares.flow[order[c]]
    BY <1>1 DEF FlowOf
  <1> HIDE DEF c
  <1>4. declares.flow[order[c]] \in Flow /\ declares.flow[order[i]] \in Flow
    BY <1>1, <1>2, DeclaresTyped
  <1>5. {declares.flow[order[c]], declares.flow[order[i]]} # Flow
    BY <1>1, <1>2 DEF Merges
  <1> QED
    BY <1>3, <1>4, <1>5 DEF Flow

\* Where the files of the two graphs are in the order of both.
LEMMA ConcatParts ==
  ASSUME NEW a \in Seq(Files), NEW c \in Seq(Files)
  PROVE  /\ Len(a \o c) = Len(a) + Len(c)
         /\ \A i \in 1 .. Len(a) : i \in 1 .. Len(a \o c) /\ (a \o c)[i] = a[i]
         /\ \A i \in 1 .. Len(c) : /\ Len(a) + i \in Len(a) + 1 .. Len(a \o c)
                                  /\ (a \o c)[Len(a) + i] = c[i]
         /\ \A i \in Len(a) + 1 .. Len(a \o c) :
               i - Len(a) \in 1 .. Len(c) /\ (a \o c)[i] = c[i - Len(a)]
  OBVIOUS

\* The order is that of the Rules and then that of the TC.
LEMMA OrderParts ==
  ASSUME Typed
  PROVE  /\ nodes["rules"] \in Seq(Files) /\ nodes["tc"] \in Seq(Files) /\ Order \in Seq(Files)
         /\ Len(Order) = Len(nodes["rules"]) + Len(nodes["tc"])
         /\ \A i \in 1 .. Len(nodes["rules"]) :
               i \in 1 .. Len(Order) /\ Order[i] = nodes["rules"][i]
         /\ \A i \in 1 .. Len(nodes["tc"]) :
               /\ Len(nodes["rules"]) + i \in Len(nodes["rules"]) + 1 .. Len(Order)
               /\ Order[Len(nodes["rules"]) + i] = nodes["tc"][i]
         /\ \A i \in Len(nodes["rules"]) + 1 .. Len(Order) :
               /\ i - Len(nodes["rules"]) \in 1 .. Len(nodes["tc"])
               /\ Order[i] = nodes["tc"][i - Len(nodes["rules"])]
  <1>1. nodes["rules"] \in Seq(Files) /\ nodes["tc"] \in Seq(Files)
    BY DEF Typed, Entered
  <1> QED
    BY <1>1, ConcatParts, OrderTyped DEF Order

\* What a file includes, directly or not, is in front of it.
LEMMA IncludedEarlier ==
  ASSUME Typed, NEW order \in Seq(Files), Behind(order), NEW j \in 1 .. Len(order)
  PROVE  Included(order[j]) \subseteq {order[i] : i \in 1 .. j - 1}
  <1> DEFINE S == {order[i] : i \in 1 .. j - 1}
  <1>1. Len(order) \in Nat /\ \A i \in 1 .. Len(order) : order[i] \in Files
    OBVIOUS
  <1>2. S \in SUBSET Files
    BY <1>1
  <1>3. ASSUME NEW h \in S \cup {order[j]}, NEW k \in DOMAIN includes[h]
        PROVE  includes[h][k] \in S
    <2>1. PICK m \in 1 .. j : h = order[m]
      BY <1>1
    <2>2. m \in 1 .. Len(order) /\ k \in 1 .. Len(includes[order[m]])
      <3>1. m \in 1 .. Len(order)
        BY <1>1, <2>1
      <3>2. includes[order[m]] \in Seq(Files)
        BY <1>1, <3>1 DEF Typed
      <3> QED
        BY <1>3, <2>1, <3>1, <3>2, LenProperties
    <2>3. PICK i \in 1 .. m - 1 : order[i] = includes[order[m]][k]
      BY <2>2 DEF Behind
    <2>4. i \in 1 .. j - 1
      BY <1>1, <2>1, <2>3
    <2> QED
      BY <2>1, <2>3, <2>4
  <1> HIDE DEF S
  <1>4. ASSUME NEW f \in Included(order[j]) PROVE f \in S
    BY <1>2, <1>3 DEF Included
  <1> QED
    BY <1>4 DEF S

\* No file up to the k-th includes the k-th.
LEMMA LastIsNotIncluded ==
  ASSUME Typed, NEW order \in Seq(Files), Behind(order), OnceEach(order),
         NEW k \in 1 .. Len(order), NEW D, D \subseteq {order[i] : i \in 1 .. k}
  PROVE  \A h \in D \ {order[k]} : order[k] \notin Included(h)
  <1> SUFFICES ASSUME NEW i \in 1 .. k, order[k] \in Included(order[i]), order[i] # order[k]
               PROVE  FALSE
    OBVIOUS
  <1>1. Len(order) \in Nat /\ i \in 1 .. Len(order) /\ i # k
    OBVIOUS
  <1>2. PICK m \in 1 .. i - 1 : order[k] = order[m]
    BY <1>1, IncludedEarlier
  <1>3. m \in 1 .. Len(order) /\ m # k
    BY <1>1, <1>2
  <1> QED
    BY <1>2, <1>3 DEF OnceEach

\* The say is with the last that says something: one of D, and D has none that
\* includes it.
LEMMA LastDecides ==
  ASSUME Typed, NEW order \in Seq(Files), Behind(order), OnceEach(order), NEW v \in BOOLEAN,
         v <=> \E k : LastWord(order, Len(order), TRUE, k),
         NEW D, D # {}, D \subseteq {order[i] : i \in 1 .. Len(order)}, \A f \in D : Speaks(f),
         \A k \in 1 .. Len(order) :
            Speaks(order[k]) /\ (\A j \in k + 1 .. Len(order) : ~Speaks(order[j])) => order[k] \in D
  PROVE  \E f \in D : v = declares.goOn[f] /\ \A h \in D \ {f} : f \notin Included(h)
  <1>1. PICK i \in 1 .. Len(order) : Speaks(order[i])
    OBVIOUS
  <1>2. PICK k \in 1 .. Len(order) :
           Speaks(order[k]) /\ \A j \in k + 1 .. Len(order) : ~Speaks(order[j])
    BY <1>1, LastSpeaker
  <1>3. order[k] \in D /\ declares.goOn[order[k]] \in BOOLEAN
    BY <1>2, DeclaresTyped DEF Speaks
  <1>4. D \subseteq {order[m] : m \in 1 .. k}
    <2> SUFFICES ASSUME NEW m \in 1 .. Len(order), Speaks(order[m]) PROVE m \in 1 .. k
      OBVIOUS
    <2>1. ~(m \in k + 1 .. Len(order))
      BY <1>2
    <2> QED
      BY <2>1
  <1>5. \A h \in D \ {order[k]} : order[k] \notin Included(h)
    BY <1>4, LastIsNotIncluded
  <1>6. v = declares.goOn[order[k]]
    <2>1. CASE declares.goOn[order[k]] = TRUE
      <3>1. LastWord(order, Len(order), TRUE, k)
        BY <1>2, <2>1 DEF LastWord
      <3> QED
        BY <2>1, <3>1
    <2>2. CASE declares.goOn[order[k]] = FALSE
      <3>1. ASSUME NEW m, LastWord(order, Len(order), TRUE, m) PROVE FALSE
        <4>1. m \in 1 .. Len(order) /\ m # k /\ Speaks(order[m])
          BY <2>2, <3>1, DeclaresTyped DEF LastWord, Speaks
        <4>2. ~(m \in k + 1 .. Len(order)) /\ ~(k \in m + 1 .. Len(order))
          BY <1>2, <3>1, <4>1 DEF LastWord
        <4> QED
          BY <4>1, <4>2
      <3> QED
        BY <2>2, <3>1
    <2> QED
      BY <1>3, <2>1, <2>2
  <1> QED
    BY <1>3, <1>5, <1>6

\* Where nobody says something there is no last word.
LEMMA NoneDecides ==
  ASSUME Typed, NEW order, \A i \in 1 .. Len(order) : ~Speaks(order[i])
  PROVE  ~ \E k : LastWord(order, Len(order), TRUE, k)
  <1>1. TRUE # None
    BY DeclaresTyped
  <1> QED
    BY <1>1 DEF LastWord, Speaks

\* The order of precedence, of everything that is compiled.
THEOREM PrecedenceKept == Spec => []Precedence
  <1>1. ASSUME IInv, Compiled PROVE Precedence
    <2> SUFFICES ASSUME outcome = "compiled" PROVE Precedence
      BY DEF Precedence
    <2> DEFINE R == nodes["rules"]
               C == nodes["tc"]
               r == Len(R)
               N == Len(Order)
               Says(order) == {f \in ToSet(order) : declares.goOn[f] # None}
    <2>1. /\ R \in Seq(Files) /\ C \in Seq(Files) /\ Order \in Seq(Files) /\ Typed
          /\ \A i \in 1 .. r : i \in 1 .. N /\ Order[i] = R[i]
          /\ \A i \in 1 .. Len(C) : r + i \in r + 1 .. N /\ Order[r + i] = C[i]
          /\ \A i \in r + 1 .. N : i - r \in 1 .. Len(C) /\ Order[i] = C[i - r]
      BY <1>1, OrderParts DEF IInv
    <2>2. /\ r \in Nat /\ Len(C) \in Nat /\ N \in Nat
          /\ DOMAIN R = 1 .. r /\ DOMAIN C = 1 .. Len(C) /\ DOMAIN Order = 1 .. N
      BY <2>1, LenProperties
    <2>3. Behind(Order) /\ OnceEach(Order)
      BY <1>1 DEF IInv, Walked, OrderKept
    <2>4. /\ Merges(R) /\ Merges(Order) /\ FlowOf(R) # None
          /\ goOn["rules"] <=> \E k : LastWord(R, r, TRUE, k)
          /\ goOn["tc"] <=> \E k : LastWord(Order, N, TRUE, k)
          /\ goOn["rules"] \in BOOLEAN /\ goOn["tc"] \in BOOLEAN
      BY <1>1, <2>1 DEF Compiled, Typed, Entered
    <2>5. /\ ToSet(R) = {R[i] : i \in 1 .. r} /\ ToSet(C) = {C[i] : i \in 1 .. Len(C)}
      BY <2>2 DEF ToSet
    <2>6. /\ r = Len(R) /\ N = Len(Order)
          /\ \A i \in 1 .. N : i \in 1 .. r \/ i \in r + 1 .. N
          /\ \A i \in r + 1 .. N : i \in 1 .. N
      BY <2>2
    <2> HIDE DEF R, C, r, N
    <2>7. Behind(R) /\ OnceEach(R)
      <3>1. OnceEach(R)
        BY <2>1, <2>3, <2>6 DEF OnceEach
      <3>2. ASSUME NEW i \in 1 .. r, NEW k \in 1 .. Len(includes[R[i]])
            PROVE  \E j \in 1 .. i - 1 : R[j] = includes[R[i]][k]
        <4>1. i \in 1 .. N /\ Order[i] = R[i]
          BY <2>1
        <4>2. PICK j \in 1 .. i - 1 : Order[j] = includes[Order[i]][k]
          BY <2>3, <2>6, <4>1 DEF Behind
        <4>3. j \in 1 .. r
          BY <2>2, <4>2
        <4> QED
          BY <2>1, <4>1, <4>2, <4>3
      <3> QED
        BY <2>6, <3>1, <3>2 DEF Behind
    <2>8. PICK i \in 1 .. r : declares.flow[R[i]] # None
      BY <2>2, <2>4 DEF FlowOf
    <2>9. FlowOf(Order) = FlowOf(R)
      <3>1. FlowOf(R) = declares.flow[R[i]]
        BY <2>1, <2>4, <2>6, <2>8, FlowAgreed
      <3>2. i \in 1 .. N /\ declares.flow[Order[i]] # None
        BY <2>1, <2>8
      <3>3. FlowOf(Order) = declares.flow[Order[i]]
        BY <2>1, <2>4, <2>6, <3>2, FlowAgreed
      <3> QED
        BY <2>1, <3>1, <3>3
    <2>10. ASSUME NEW m \in DOMAIN C
           PROVE  C[m] \notin declares.filelist /\ declares.flow[C[m]] \in {None, FlowOf(R)}
      <3>1. m \in 1 .. Len(C) /\ r + m \in r + 1 .. N /\ r + m \in 1 .. N /\ Order[r + m] = C[m]
        BY <2>1, <2>2, <2>6, <2>10
      <3>2. C[m] \notin declares.filelist
        <4>1. PICK a \in 1 .. r : R[a] \in declares.filelist
          BY <2>2, <2>4 DEF Merges
        <4>2. a \in 1 .. N /\ Order[a] \in declares.filelist
          BY <2>1, <4>1
        <4>3. a # r + m
          BY <2>2, <3>1, <4>1
        <4> QED
          BY <2>2, <2>4, <3>1, <4>2, <4>3 DEF Merges
      <3>3. ASSUME declares.flow[C[m]] # None PROVE declares.flow[C[m]] = FlowOf(R)
        <4>1. declares.flow[Order[r + m]] # None
          BY <3>1, <3>3
        <4>2. FlowOf(Order) = declares.flow[Order[r + m]]
          BY <2>1, <2>4, <2>6, <3>1, <4>1, FlowAgreed
        <4> QED
          BY <2>9, <3>1, <4>2
      <3> QED
        BY <3>2, <3>3
    <2> DEFINE Decided(v, D) ==
                 IF D = {} THEN ~v
                 ELSE \E f \in D : v = declares.goOn[f] /\ \A h \in D \ {f} : f \notin Included(h)
    <2>11. /\ \A f : f \in Says(R) <=> \E a \in 1 .. r : f = R[a] /\ Speaks(R[a])
           /\ \A f : f \in Says(C) <=> \E a \in r + 1 .. N : f = Order[a] /\ Speaks(Order[a])
      <3>1. \A f : f \in Says(R) <=> \E a \in 1 .. r : f = R[a] /\ Speaks(R[a])
        BY <2>5 DEF Speaks
      <3>2. \A f : f \in Says(C) <=> \E a \in 1 .. Len(C) : f = C[a] /\ Speaks(C[a])
        BY <2>5 DEF Speaks
      <3>3. \A f : (\E a \in 1 .. Len(C) : f = C[a] /\ Speaks(C[a]))
                     <=> \E a \in r + 1 .. N : f = Order[a] /\ Speaks(Order[a])
        BY <2>1, Zenon
      <3> HIDE DEF Says
      <3>4. \A f : f \in Says(C) <=> \E a \in r + 1 .. N : f = Order[a] /\ Speaks(Order[a])
        BY <3>2, <3>3, Zenon
      <3> QED
        BY <3>1, <3>4, Zenon
    <2> HIDE DEF Says
    <2>12. Decided(goOn["rules"], Says(R))
      <3>1. CASE Says(R) = {}
        BY <2>1, <2>4, <2>6, <2>11, <3>1, NoneDecides
      <3>2. CASE Says(R) # {}
        <4>1. /\ Says(R) \subseteq {R[a] : a \in 1 .. Len(R)}
              /\ \A f \in Says(R) : Speaks(f)
              /\ \A a \in 1 .. Len(R) : Speaks(R[a]) => R[a] \in Says(R)
          BY <2>6, <2>11
        <4> QED
          BY <2>1, <2>4, <2>6, <2>7, <3>2, <4>1, LastDecides
      <3> QED
        BY <3>1, <3>2
    <2>13. ASSUME Says(C) # {} PROVE Decided(goOn["tc"], Says(C))
      <3>1. /\ Says(C) \subseteq {Order[a] : a \in 1 .. Len(Order)}
            /\ \A f \in Says(C) : Speaks(f)
        BY <2>6, <2>11
      <3>2. PICK b \in r + 1 .. N : Speaks(Order[b])
        BY <2>11, <2>13
      <3>3. ASSUME NEW k \in 1 .. N, Speaks(Order[k]), \A j \in k + 1 .. N : ~Speaks(Order[j])
            PROVE  Order[k] \in Says(C)
        <4>1. ~(b \in k + 1 .. N)
          BY <3>2, <3>3
        <4>2. k \in r + 1 .. N
          BY <2>2, <3>2, <4>1
        <4> QED
          BY <2>11, <3>3, <4>2
      <3> QED
        BY <2>1, <2>3, <2>4, <2>6, <2>13, <3>1, <3>3, LastDecides
    <2>14. ASSUME Says(C) = {} PROVE Decided(goOn["tc"], Says(R))
      <3>1. \A k \in 1 .. N : Speaks(Order[k]) => k \in 1 .. r
        BY <2>6, <2>11, <2>14
      <3>2. CASE Says(R) = {}
        <4>1. \A a \in 1 .. Len(Order) : ~Speaks(Order[a])
          BY <2>1, <2>6, <2>11, <3>1, <3>2
        <4> QED
          BY <2>1, <2>4, <2>6, <3>2, <4>1, NoneDecides
      <3>3. CASE Says(R) # {}
        <4>1. /\ Says(R) \subseteq {Order[a] : a \in 1 .. Len(Order)}
              /\ \A f \in Says(R) : Speaks(f)
          <5>1. ASSUME NEW f \in Says(R)
                PROVE  Speaks(f) /\ \E a \in 1 .. N : f = Order[a]
            <6>1. PICK a \in 1 .. r : f = R[a] /\ Speaks(R[a])
              BY <2>11, <5>1
            <6>2. a \in 1 .. N /\ Order[a] = R[a]
              BY <2>1, <6>1
            <6> QED
              BY <6>1, <6>2
          <5> QED
            BY <2>6, <5>1
        <4>2. \A k \in 1 .. N : Speaks(Order[k]) => Order[k] \in Says(R)
          BY <2>1, <2>11, <3>1
        <4> QED
          BY <2>1, <2>3, <2>4, <2>6, <3>3, <4>1, <4>2, LastDecides
      <3> QED
        BY <3>2, <3>3
    <2>15. ASSUME NEW g \in Entered
           PROVE  Decided(goOn[g], IF g = "tc" /\ Says(C) # {} THEN Says(C) ELSE Says(R))
      <3> HIDE DEF Decided
      <3> QED
        BY <2>12, <2>13, <2>14 DEF Entered
    <2> QED
      BY <2>9, <2>10, <2>15 DEF Precedence, R, C, Says
  <1>2. Init => Compiled
    BY DEF Init, Compiled
  <1>3. IInv /\ Compiled /\ [Next]_vars => Compiled'
    BY NextCompiled
  <1> QED
    BY <1>1, <1>2, <1>3, AlwaysIInv, PTL DEF Spec
=============================================================================
