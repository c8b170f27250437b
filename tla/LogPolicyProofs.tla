-------------------------- MODULE LogPolicyProofs --------------------------
(***************************************************************************)
(* What LogPolicy promises of a judgement, for every set of patterns and   *)
(* lines, every log and every number of lines in the waiver files.  The    *)
(* loops of the code that skip some elements are Select, so most of the    *)
(* proof rests on what Select keeps, and in which order.                   *)
(***************************************************************************)
EXTENDS LogPolicy, TLAPS, FiniteSetTheorems, SequenceTheorems

-----------------------------------------------------------------------------
\* Select: the rank of a kept position, and the position of a given rank.

Upto(K, n) == {m \in K : m <= n}
RankIn(K, n) == Cardinality(Upto(K, n))

\* The kept positions are finitely many.
LEMMA KeptSet ==
    ASSUME NEW n \in Nat, NEW K \in SUBSET (1..n)
    PROVE  IsFiniteSet(K) /\ Cardinality(K) \in Nat
  <1>1. IsFiniteSet(1..n)
    BY FS_Interval
  <1>2. IsFiniteSet(K)
    BY <1>1, FS_Subset, Zenon
  <1> QED
    BY <1>2, FS_CardinalityType

\* A kept position has a rank among the kept ones.
LEMMA RankOfKept ==
    ASSUME NEW n \in Nat, NEW K \in SUBSET (1..n), NEW k \in K
    PROVE  RankIn(K, k) \in 1..Cardinality(K)
  <1>1. IsFiniteSet(K) /\ Cardinality(K) \in Nat
    BY KeptSet
  <1>2. Upto(K, k) \in SUBSET K /\ k \in Upto(K, k)
    BY DEF Upto
  <1>3. IsFiniteSet(Upto(K, k)) /\ RankIn(K, k) <= Cardinality(K)
    BY <1>1, <1>2, FS_Subset, Zenon DEF RankIn
  <1>4. RankIn(K, k) \in Nat
    BY <1>3, FS_CardinalityType DEF RankIn
  <1>5. RankIn(K, k) # 0
    BY <1>2, <1>3, FS_EmptySet DEF RankIn
  <1> QED
    BY <1>1, <1>3, <1>4, <1>5

\* Ranks follow positions.
LEMMA RankGrows ==
    ASSUME NEW n \in Nat, NEW K \in SUBSET (1..n), NEW a \in K, NEW b \in K, a < b
    PROVE  RankIn(K, a) < RankIn(K, b)
  <1>0. a \in Nat /\ b \in Nat /\ \A k \in K : k \in Nat
    OBVIOUS
  <1>1. Upto(K, a) \in SUBSET Upto(K, b) /\ b \in Upto(K, b) /\ b \notin Upto(K, a)
    <2>1. \A m \in K : m <= a => m <= b
      BY <1>0
    <2>2. b <= b /\ ~(b <= a)
      BY <1>0
    <2> QED
      BY <2>1, <2>2 DEF Upto
  <1>2. IsFiniteSet(Upto(K, b))
    <2>1. IsFiniteSet(K) /\ Upto(K, b) \in SUBSET K
      BY KeptSet DEF Upto
    <2> QED
      BY <2>1, FS_Subset, Zenon
  <1>3. /\ Cardinality(Upto(K, a)) <= Cardinality(Upto(K, b))
        /\ Cardinality(Upto(K, b)) = Cardinality(Upto(K, a)) => Upto(K, b) = Upto(K, a)
    BY <1>1, <1>2, FS_Subset, Zenon
  <1>4. RankIn(K, a) \in Nat /\ RankIn(K, b) \in Nat
    <2>1. RankIn(K, a) \in 1..Cardinality(K) /\ RankIn(K, b) \in 1..Cardinality(K)
      BY RankOfKept, Zenon
    <2>2. Cardinality(K) \in Nat
      BY KeptSet, Zenon
    <2> QED
      BY <2>1, <2>2
  <1> QED
    BY <1>1, <1>3, <1>4 DEF RankIn

\* Two kept positions have two ranks.
LEMMA RankInjective ==
    ASSUME NEW n \in Nat, NEW K \in SUBSET (1..n), NEW a \in K, NEW b \in K,
           RankIn(K, a) = RankIn(K, b)
    PROVE  a = b
  <1>1. a \in Nat /\ b \in Nat
    OBVIOUS
  <1>2. RankIn(K, a) \in Nat
    <2>1. RankIn(K, a) \in 1..Cardinality(K)
      BY RankOfKept, Zenon
    <2>2. Cardinality(K) \in Nat
      BY KeptSet, Zenon
    <2> QED
      BY <2>1, <2>2
  <1>3. ~(a < b)
    <2>1. a < b => RankIn(K, a) < RankIn(K, b)
      BY RankGrows, Zenon
    <2> QED
      BY <1>2, <2>1
  <1>4. ~(b < a)
    <2>1. b < a => RankIn(K, b) < RankIn(K, a)
      BY RankGrows, Zenon
    <2> QED
      BY <1>2, <2>1
  <1> QED
    BY <1>1, <1>3, <1>4

\* Every rank up to the number of kept positions is taken, by one position.
LEMMA NthKept ==
    ASSUME NEW n \in Nat, NEW K \in SUBSET (1..n), NEW i \in 1..Cardinality(K)
    PROVE  Nth(K, i) \in K /\ RankIn(K, Nth(K, i)) = i
  <1> DEFINE f == [k \in K |-> RankIn(K, k)]
             R == 1..Cardinality(K)
  <1>1. IsFiniteSet(K) /\ Cardinality(K) \in Nat
    BY KeptSet
  <1>2. IsFiniteSet(R) /\ Cardinality(R) = Cardinality(K)
    BY <1>1, FS_Interval
  <1>3. f \in Injection(K, R)
    <2>1. f \in [K -> R]
      BY RankOfKept
    <2>2. ASSUME NEW a \in K, NEW b \in K, f[a] = f[b]
          PROVE  a = b
      BY <2>2, RankInjective
    <2> HIDE DEF f, R
    <2> QED
      BY <2>1, <2>2 DEF Injection, IsInjective
  <1> HIDE DEF R
  <1>4. f \in Surjection(K, R)
    <2> HIDE DEF f
    <2> QED
      BY <1>2, <1>3, FS_Injection, Zenon
  <1>5. PICK k \in K : f[k] = i
    BY <1>4 DEF Surjection, R
  <1>6. k \in K /\ Cardinality({m \in K : m <= k}) = i
    BY <1>5 DEF RankIn, Upto
  <1> QED
    BY <1>6, Zenon DEF Nth, RankIn, Upto

\* Nth undoes the rank.
LEMMA NthOfRank ==
    ASSUME NEW n \in Nat, NEW K \in SUBSET (1..n), NEW k \in K
    PROVE  Nth(K, RankIn(K, k)) = k
  <1>1. RankIn(K, k) \in 1..Cardinality(K)
    BY RankOfKept
  <1>2. Nth(K, RankIn(K, k)) \in K /\ RankIn(K, Nth(K, RankIn(K, k))) = RankIn(K, k)
    BY <1>1, NthKept
  <1> QED
    BY <1>2, RankInjective

\* Positions listed in order, without a gap, are the positions by rank.
Lists(g, m, K) ==
    /\ m \in Nat /\ g \in [1..m -> K]
    /\ \A i, j \in 1..m : i < j => g[i] < g[j]
    /\ \A k \in K : \E i \in 1..m : g[i] = k

\* Nth is the only way to number the kept positions in order.
LEMMA NthUnique ==
    ASSUME NEW n \in Nat, NEW K \in SUBSET (1..n), NEW m, NEW g, Lists(g, m, K)
    PROVE  Cardinality(K) = m /\ \A i \in 1..m : Nth(K, i) = g[i]
  <1> USE DEF Lists
  <1>0. \A i \in 1..m : g[i] \in K /\ g[i] \in Nat
    <2>1. \A k \in K : k \in Nat
      OBVIOUS
    <2> QED
      BY <2>1
  <1>1. \A i, j \in 1..m : g[i] = g[j] => i = j
    <2> SUFFICES ASSUME NEW i \in 1..m, NEW j \in 1..m, g[i] = g[j] PROVE i = j
      OBVIOUS
    <2>1. g[i] \in Nat /\ g[j] \in Nat
      BY <1>0
    <2> QED
      BY <2>1
  <1>2. ASSUME NEW p \in 0..m, NEW S, S = {g[i] : i \in 1..p}
        PROVE  Cardinality(S) = p
    <2> DEFINE h == [i \in 1..p |-> g[i]]
    <2>1. h \in [1..p -> S] /\ \A i \in 1..p : h[i] = g[i]
      BY <1>2
    <2>2. \A i, j \in 1..p : h[i] = h[j] => i = j
      BY <1>1
    <2>3. \A s \in S : \E i \in 1..p : h[i] = s
      BY <1>2
    <2> HIDE DEF h
    <2>4. h \in Bijection(1..p, S)
      BY <2>1, <2>2, <2>3 DEF Bijection, Injection, Surjection, IsInjective
    <2>5. ExistsBijection(1..p, S)
      BY <2>4 DEF ExistsBijection
    <2>6. IsFiniteSet(1..p) /\ Cardinality(1..p) = p
      BY FS_Interval
    <2> QED
      BY <2>5, <2>6, FS_Bijection
  <1>3. K = {g[i] : i \in 1..m}
    OBVIOUS
  <1>4. Cardinality(K) = m
    BY <1>2, <1>3
  <1>5. ASSUME NEW i \in 1..m
        PROVE  Nth(K, i) = g[i]
    <2>1. Upto(K, g[i]) = {g[j] : j \in 1..i}
      <3>1. ASSUME NEW k \in Upto(K, g[i])
            PROVE  k \in {g[j] : j \in 1..i}
        <4>1. k \in K /\ k <= g[i]
          BY <3>1 DEF Upto
        <4>2. PICK j \in 1..m : g[j] = k
          BY <4>1
        <4>3. g[i] \in Nat /\ g[j] \in Nat
          BY <1>0
        <4>4. ~(i < j)
          BY <4>1, <4>2, <4>3
        <4> QED
          BY <4>2, <4>4
      <3>2. ASSUME NEW j \in 1..i
            PROVE  g[j] \in Upto(K, g[i])
        <4>1. j \in 1..m /\ g[j] \in K /\ g[j] \in Nat /\ g[i] \in Nat /\ (j = i \/ j < i)
          BY <1>0
        <4>2. g[j] <= g[i]
          BY <4>1
        <4> QED
          BY <4>1, <4>2 DEF Upto
      <3> QED
        BY <3>1, <3>2
    <2>2. RankIn(K, g[i]) = i
      BY <1>2, <2>1 DEF RankIn
    <2> QED
      BY <1>0, <2>2, NthOfRank
  <1> QED
    BY <1>4, <1>5

\* What Select returns: the elements at the kept positions and nothing else.
LEMMA SelectKeeps ==
    ASSUME NEW T, NEW s \in Seq(T), NEW K \in SUBSET DOMAIN s
    PROVE  /\ Select(s, K) \in Seq(T)
           /\ Len(Select(s, K)) = Cardinality(K) /\ Cardinality(K) \in Nat
           /\ \A i \in 1..Cardinality(K) : Nth(K, i) \in K /\ Select(s, K)[i] = s[Nth(K, i)]
           /\ \A k \in K : \E i \in 1..Cardinality(K) : Nth(K, i) = k
           /\ Select(s, K) = <<>> <=> K = {}
  <1> DEFINE u == Select(s, K)
  <1>1. Len(s) \in Nat /\ DOMAIN s = 1..Len(s) /\ \A i \in DOMAIN s : s[i] \in T
    BY LenProperties, ElementOfSeq
  <1>2. IsFiniteSet(K) /\ Cardinality(K) \in Nat
    BY <1>1, KeptSet
  <1>3. \A i \in 1..Cardinality(K) : Nth(K, i) \in K
    BY <1>1, NthKept
  <1>4. u = [i \in 1..Cardinality(K) |-> s[Nth(K, i)]]
    BY DEF Select
  <1>5. \A k \in K : \E i \in 1..Cardinality(K) : Nth(K, i) = k
    BY <1>1, RankOfKept, NthOfRank
  <1> HIDE DEF u
  <1>6. u \in [1..Cardinality(K) -> T]
    BY <1>1, <1>3, <1>4
  <1>7. u \in Seq(T) /\ Len(u) = Cardinality(K)
    BY <1>2, <1>6, IsASeq
  <1>8. u = <<>> <=> K = {}
    BY <1>2, <1>7, FS_EmptySet, EmptySeq
  <1> QED
    BY <1>2, <1>3, <1>4, <1>5, <1>7, <1>8 DEF u

-----------------------------------------------------------------------------
\* What a sequence holds, and what the sequences of this module hold.

Occurs(x, s) == \E k \in DOMAIN s : s[k] = x

\* What occurs in two sequences one after the other.
LEMMA OccursConcat ==
    ASSUME NEW T, NEW s \in Seq(T), NEW t \in Seq(T), NEW x
    PROVE  /\ s \o t \in Seq(T)
           /\ Occurs(x, s \o t) <=> Occurs(x, s) \/ Occurs(x, t)
           /\ s \o t = <<>> <=> s = <<>> /\ t = <<>>
  <1> DEFINE u == s \o t
  <1>1. /\ u \in Seq(T) /\ Len(s) \in Nat /\ Len(t) \in Nat
        /\ DOMAIN s = 1..Len(s) /\ DOMAIN t = 1..Len(t)
        /\ DOMAIN u = 1..(Len(s) + Len(t)) /\ Len(u) = Len(s) + Len(t)
        /\ \A i \in 1..Len(s) : u[i] = s[i]
        /\ \A i \in 1..Len(t) : u[Len(s) + i] = t[i]
    OBVIOUS
  <1> HIDE DEF u
  <1>2. \A i \in DOMAIN u : i \in DOMAIN s \/ (i - Len(s) \in DOMAIN t /\ u[i] = t[i - Len(s)])
    <2> SUFFICES ASSUME NEW i \in DOMAIN u, i \notin 1..Len(s)
                 PROVE  i - Len(s) \in 1..Len(t) /\ u[i] = t[i - Len(s)]
      BY <1>1
    <2>1. i - Len(s) \in 1..Len(t) /\ Len(s) + (i - Len(s)) = i
      BY <1>1
    <2> QED
      BY <1>1, <2>1
  <1>3. Occurs(x, u) => Occurs(x, s) \/ Occurs(x, t)
    BY <1>1, <1>2 DEF Occurs
  <1>4. Occurs(x, s) => Occurs(x, u)
    BY <1>1 DEF Occurs
  <1>5. Occurs(x, t) => Occurs(x, u)
    <2> SUFFICES ASSUME NEW k \in DOMAIN t, t[k] = x PROVE Occurs(x, u)
      BY DEF Occurs
    <2>1. Len(s) + k \in DOMAIN u /\ u[Len(s) + k] = x
      BY <1>1
    <2> QED
      BY <2>1 DEF Occurs
  <1>6. u = <<>> <=> s = <<>> /\ t = <<>>
    BY <1>1, EmptySeq
  <1> QED
    BY <1>1, <1>3, <1>4, <1>5, <1>6 DEF u

\* What occurs in a selection is what stands at a kept position.
LEMMA OccursSelect ==
    ASSUME NEW T, NEW s \in Seq(T), NEW K \in SUBSET DOMAIN s, NEW x
    PROVE  Occurs(x, Select(s, K)) <=> \E k \in K : s[k] = x
  <1> DEFINE u == Select(s, K)
  <1>1. /\ u \in Seq(T) /\ Len(u) = Cardinality(K) /\ Cardinality(K) \in Nat
        /\ \A i \in 1..Cardinality(K) : Nth(K, i) \in K /\ u[i] = s[Nth(K, i)]
        /\ \A k \in K : \E i \in 1..Cardinality(K) : Nth(K, i) = k
    BY SelectKeeps
  <1> HIDE DEF u
  <1>2. DOMAIN u = 1..Cardinality(K)
    BY <1>1
  <1> QED
    BY <1>1, <1>2 DEF Occurs, u

\* Something occurs in a sequence that is not empty.
LEMMA OccursAny ==
    ASSUME NEW T, NEW s \in Seq(T)
    PROVE  s # <<>> <=> \E x : Occurs(x, s)
  <1>1. Len(s) \in Nat /\ DOMAIN s = 1..Len(s) /\ (s = <<>> <=> Len(s) = 0)
    BY EmptySeq, LenProperties
  <1>2. s # <<>> => 1 \in DOMAIN s
    BY <1>1
  <1>3. s = <<>> => DOMAIN s = {}
    BY <1>1
  <1> QED
    BY <1>2, <1>3, Zenon DEF Occurs

Files == [File -> Seq(Pattern \cup Remark)]

RuleOf(kind, origin, lines, n) ==
    [kind |-> kind, origin |-> origin, line |-> n, pattern |-> lines[n]]

\* _read_rules makes a rule of each line that is one, at its own number, in order.
LEMMA ReadRulesHolds ==
    ASSUME NEW kind \in Kind, NEW origin \in Origin, NEW lines \in Seq(Pattern \cup Remark)
    PROVE  /\ ReadRules(kind, origin, lines) \in Seq(Rule)
           /\ \A r : Occurs(r, ReadRules(kind, origin, lines)) <=>
                 \E n \in RuleLines(lines) : r = RuleOf(kind, origin, lines, n)
           /\ RuleLines(lines) \in SUBSET (1..Len(lines)) /\ Len(lines) \in Nat
           /\ Len(ReadRules(kind, origin, lines)) = Cardinality(RuleLines(lines))
           /\ \A i \in 1..Cardinality(RuleLines(lines)) :
                 /\ Nth(RuleLines(lines), i) \in RuleLines(lines)
                 /\ ReadRules(kind, origin, lines)[i]
                       = RuleOf(kind, origin, lines, Nth(RuleLines(lines), i))
  <1> DEFINE K == RuleLines(lines)
             numbered == [i \in DOMAIN lines |-> RuleOf(kind, origin, lines, i)]
             Text == [kind : Kind, origin : Origin, line : Nat \ {0}, pattern : Pattern \cup Remark]
             u == Select(numbered, K)
  <1>1. Len(lines) \in Nat /\ DOMAIN lines = 1..Len(lines)
        /\ \A i \in DOMAIN lines : lines[i] \in Pattern \cup Remark
    BY LenProperties, ElementOfSeq
  <1>2. K \in SUBSET DOMAIN lines /\ \A n \in K : lines[n] \in Pattern
    BY <1>1 DEF RuleLines, IsRule
  <1>3. numbered \in Seq(Text) /\ DOMAIN numbered = DOMAIN lines
    <2>1. \A i \in DOMAIN lines : RuleOf(kind, origin, lines, i) \in Text
      BY <1>1 DEF RuleOf
    <2>2. numbered \in [1..Len(lines) -> Text]
      BY <1>1, <2>1
    <2> QED
      BY <1>1, <2>2, IsASeq
  <1>4. ReadRules(kind, origin, lines) = u
    BY DEF ReadRules, RuleOf
  <1>5. /\ u \in Seq(Text) /\ Len(u) = Cardinality(K) /\ Cardinality(K) \in Nat
        /\ \A i \in 1..Cardinality(K) : Nth(K, i) \in K /\ u[i] = numbered[Nth(K, i)]
    <2> HIDE DEF K, numbered, Text
    <2> QED
      BY <1>2, <1>3, SelectKeeps
  <1>6. \A r : Occurs(r, u) <=> \E n \in K : numbered[n] = r
    <2> HIDE DEF K, numbered, Text
    <2> QED
      BY <1>2, <1>3, OccursSelect
  <1>7. \A n \in K : numbered[n] = RuleOf(kind, origin, lines, n) /\ numbered[n] \in Rule
    <2> SUFFICES ASSUME NEW n \in K
                 PROVE  numbered[n] = RuleOf(kind, origin, lines, n) /\ numbered[n] \in Rule
      OBVIOUS
    <2>1. n \in DOMAIN lines /\ n \in Nat \ {0} /\ lines[n] \in Pattern
      BY <1>1, <1>2
    <2> QED
      BY <2>1 DEF RuleOf, Rule
  <1> HIDE DEF K, numbered, u, Text
  <1>8. u \in Seq(Rule)
    <2>1. DOMAIN u = 1..Cardinality(K)
      BY <1>5
    <2>2. \A i \in 1..Cardinality(K) : u[i] \in Rule
      BY <1>5, <1>7
    <2>3. u = [i \in 1..Cardinality(K) |-> u[i]]
      BY <1>5, <2>1
    <2>4. u \in [1..Cardinality(K) -> Rule]
      BY <2>2, <2>3
    <2> QED
      BY <1>5, <2>4, IsASeq
  <1>9. \A r : Occurs(r, u) <=> \E n \in K : r = RuleOf(kind, origin, lines, n)
    BY <1>6, <1>7
  <1>10. \A i \in 1..Cardinality(K) :
            Nth(K, i) \in K /\ u[i] = RuleOf(kind, origin, lines, Nth(K, i))
    BY <1>5, <1>7
  <1>11. K \in SUBSET (1..Len(lines)) /\ Len(lines) \in Nat
    BY <1>1, <1>2
  <1> QED
    BY <1>4, <1>5, <1>8, <1>9, <1>10, <1>11 DEF K

\* The rule r is that of a line of one file.
From(r, kind, origin, files) ==
    \E n \in RuleLines(files[<<kind, origin>>]) :
        r = RuleOf(kind, origin, files[<<kind, origin>>], n)

\* _blocks keeps the rules of both origins, and adds none.
LEMMA BlocksHold ==
    ASSUME NEW kind \in Kind, NEW files \in Files
    PROVE  /\ Blocks(kind, files) \in Seq(Rule)
           /\ \A r : Occurs(r, Blocks(kind, files)) <=> \E origin \in Origin : From(r, kind, origin, files)
  <1> DEFINE Of(origin) == ReadRules(kind, origin, files[<<kind, origin>>])
  <1>1. ASSUME NEW origin \in Origin
        PROVE  Of(origin) \in Seq(Rule) /\ \A r : Occurs(r, Of(origin)) <=> From(r, kind, origin, files)
    <2>1. files[<<kind, origin>>] \in Seq(Pattern \cup Remark)
      BY DEF Files, File
    <2> QED
      BY <2>1, ReadRulesHolds DEF From
  <1>2. Blocks(kind, files) = Of("common") \o Of("entry")
    BY DEF Blocks
  <1>3. "common" \in Origin /\ "entry" \in Origin /\ \A o \in Origin : o = "common" \/ o = "entry"
    BY DEF Origin
  <1> HIDE DEF Of
  <1>4. Of("common") \in Seq(Rule) /\ Of("entry") \in Seq(Rule)
    BY <1>1, <1>3
  <1>5. /\ Of("common") \o Of("entry") \in Seq(Rule)
        /\ \A r : Occurs(r, Of("common") \o Of("entry")) <=> Occurs(r, Of("common")) \/ Occurs(r, Of("entry"))
    BY <1>4, OccursConcat
  <1> QED
    BY <1>1, <1>2, <1>3, <1>5

\* The errors are the rules whose pattern is invalid.
LEMMA ErrorsHold ==
    ASSUME NEW rules \in Seq(Rule)
    PROVE  /\ Errors(rules) \in Seq(Rule)
           /\ \A r : Occurs(r, Errors(rules)) <=>
                 Occurs(r, rules) /\ <<r.kind, r.pattern>> \in Invalid
  <1>1. BadRules(rules) \in SUBSET DOMAIN rules
    BY DEF BadRules
  <1>2. Errors(rules) \in Seq(Rule)
        /\ \A r : Occurs(r, Errors(rules)) <=> \E k \in BadRules(rules) : rules[k] = r
    BY <1>1, SelectKeeps, OccursSelect DEF Errors
  <1> QED
    BY <1>2 DEF BadRules, Occurs

\* The hits are the rules whose pattern matches.
LEMMA HitsHold ==
    ASSUME NEW rules \in Seq(Rule), NEW text
    PROVE  /\ Hits(rules, text) \in Seq(Rule)
           /\ \A r : Occurs(r, Hits(rules, text)) <=>
                 Occurs(r, rules) /\ <<r.kind, r.pattern, text>> \in Matches
  <1> DEFINE K == {i \in DOMAIN rules : <<rules[i].kind, rules[i].pattern, text>> \in Matches}
  <1>1. K \in SUBSET DOMAIN rules
    OBVIOUS
  <1>2. \A r : (\E k \in K : rules[k] = r) <=> Occurs(r, rules) /\ <<r.kind, r.pattern, text>> \in Matches
    BY DEF Occurs
  <1>3. Hits(rules, text) = Select(rules, K)
    BY DEF Hits
  <1> HIDE DEF K
  <1>4. Select(rules, K) \in Seq(Rule)
        /\ \A r : Occurs(r, Select(rules, K)) <=> \E k \in K : rules[k] = r
    BY <1>1, SelectKeeps, OccursSelect
  <1> QED
    BY <1>2, <1>3, <1>4

HeldBy(r, files) == \E kind \in Kind, origin \in Origin : From(r, kind, origin, files)

\* The rules of the files are those of both kinds.
LEMMA AllBlocksHold ==
    ASSUME NEW files \in Files, NEW r
    PROVE  HeldBy(r, files) <=> Occurs(r, Blocks("glob", files)) \/ Occurs(r, Blocks("regex", files))
  BY BlocksHold DEF HeldBy, Kind

\* _compile_glob_rules and _compile_regex_rules reject the lines, of all four
\* files, whose pattern does not compile, and no other.
LEMMA RejectedHolds ==
    ASSUME NEW files \in Files
    PROVE  /\ Rejected(files) \in Seq(Rule)
           /\ \A r : Occurs(r, Rejected(files)) <=>
                 HeldBy(r, files) /\ <<r.kind, r.pattern>> \in Invalid
  <1>1. Blocks("glob", files) \in Seq(Rule) /\ Blocks("regex", files) \in Seq(Rule)
    BY BlocksHold DEF Kind
  <1>2. Errors(Blocks("glob", files)) \in Seq(Rule) /\ Errors(Blocks("regex", files)) \in Seq(Rule)
    BY <1>1, ErrorsHold
  <1> QED
    BY <1>1, <1>2, ErrorsHold, OccursConcat, AllBlocksHold DEF Rejected

\* _waiver_hits finds the lines, of all four files, whose pattern matches.
LEMMA WaiverHitsHold ==
    ASSUME NEW files \in Files, NEW text
    PROVE  /\ WaiverHits(text, files) \in Seq(Rule)
           /\ \A r : Occurs(r, WaiverHits(text, files)) <=>
                 HeldBy(r, files) /\ <<r.kind, r.pattern, text>> \in Matches
  <1>1. Blocks("glob", files) \in Seq(Rule) /\ Blocks("regex", files) \in Seq(Rule)
    BY BlocksHold DEF Kind
  <1>2. Hits(Blocks("glob", files), text) \in Seq(Rule) /\ Hits(Blocks("regex", files), text) \in Seq(Rule)
    BY <1>1, HitsHold
  <1> QED
    BY <1>1, <1>2, HitsHold, OccursConcat, AllBlocksHold DEF WaiverHits

SuspiciousLines(lines) == {i \in DOMAIN lines : lines[i] \in Suspicious}

\* evaluate finds the suspicious lines, each with the hits of its own text.
LEMMA EvaluateHolds ==
    ASSUME NEW lines \in Seq(Line), NEW files \in Files
    PROVE  LET K == SuspiciousLines(lines) IN
           /\ Evaluate(lines, files) \in Seq([line : Nat \ {0}, hits : Seq(Rule)])
           /\ Len(Evaluate(lines, files)) = Cardinality(K) /\ Cardinality(K) \in Nat
           /\ K \subseteq DOMAIN lines
           /\ \A i \in 1..Cardinality(K) :
                 /\ Nth(K, i) \in K
                 /\ Evaluate(lines, files)[i]
                       = [line |-> Nth(K, i), hits |-> WaiverHits(lines[Nth(K, i)], files)]
           /\ \A k \in K : \E i \in 1..Cardinality(K) : Nth(K, i) = k
  <1> DEFINE K == SuspiciousLines(lines)
             numbered == [i \in DOMAIN lines |->
                 [line |-> i, hits |-> WaiverHits(lines[i], files)]]
             Found == [line : Nat \ {0}, hits : Seq(Rule)]
  <1>1. Len(lines) \in Nat /\ DOMAIN lines = 1..Len(lines)
    OBVIOUS
  <1>2. numbered \in Seq(Found) /\ DOMAIN numbered = DOMAIN lines
    <2>1. \A i \in DOMAIN lines : WaiverHits(lines[i], files) \in Seq(Rule) /\ i \in Nat \ {0}
      BY <1>1, WaiverHitsHold
    <2>2. numbered \in [1..Len(lines) -> Found]
      BY <1>1, <2>1
    <2> QED
      BY <1>1, <2>2, IsASeq
  <1>3. K \in SUBSET DOMAIN numbered
    BY <1>2 DEF SuspiciousLines
  <1>4. Evaluate(lines, files) = Select(numbered, K)
    BY DEF Evaluate, SuspiciousLines
  <1>5. \A k \in K : numbered[k] = [line |-> k, hits |-> WaiverHits(lines[k], files)]
    BY DEF SuspiciousLines
  <1> HIDE DEF K, numbered, Found
  <1>6. /\ Select(numbered, K) \in Seq(Found)
        /\ Len(Select(numbered, K)) = Cardinality(K) /\ Cardinality(K) \in Nat
        /\ \A i \in 1..Cardinality(K) : Nth(K, i) \in K /\ Select(numbered, K)[i] = numbered[Nth(K, i)]
        /\ \A k \in K : \E i \in 1..Cardinality(K) : Nth(K, i) = k
    BY <1>2, <1>3, SelectKeeps
  <1> QED
    BY <1>2, <1>3, <1>4, <1>5, <1>6 DEF K, Found

\* A rendered block is a list of lines.
LEMMA BlockType ==
    ASSUME NEW rules \in Seq(Rule)
    PROVE  Block(rules) \in Seq(Pattern \cup Remark)
  <1> DEFINE patterns == [i \in DOMAIN rules |-> rules[i].pattern]
  <1>1. Len(rules) \in Nat /\ DOMAIN rules = 1..Len(rules) /\ \A i \in DOMAIN rules : rules[i] \in Rule
    BY LenProperties, ElementOfSeq
  <1>2. patterns \in [1..Len(rules) -> Pattern \cup Remark]
    BY <1>1 DEF Rule
  <1>3. patterns \in Seq(Pattern \cup Remark)
    BY <1>1, <1>2, IsASeq
  <1> HIDE DEF patterns
  <1>4. <<"//">> \in Seq(Pattern \cup Remark) /\ <<>> \in Seq(Pattern \cup Remark)
    BY DEF Remark
  <1>5. <<"//">> \o patterns \in Seq(Pattern \cup Remark)
    BY <1>3, <1>4, ConcatProperties
  <1> QED
    BY <1>4, <1>5 DEF Block, patterns

\* So is a rendered snapshot.
LEMMA RenderType ==
    ASSUME NEW kind \in Kind, NEW files \in Files
    PROVE  Render(kind, files) \in Seq(Pattern \cup Remark)
  <1>1. ASSUME NEW origin \in Origin
        PROVE  ReadRules(kind, origin, files[<<kind, origin>>]) \in Seq(Rule)
    <2>1. files[<<kind, origin>>] \in Seq(Pattern \cup Remark)
      BY DEF Files, File
    <2> QED
      BY <2>1, ReadRulesHolds
  <1>2. \A origin \in Origin :
            Block(ReadRules(kind, origin, files[<<kind, origin>>])) \in Seq(Pattern \cup Remark)
    BY <1>1, BlockType
  <1> QED
    BY <1>2, ConcatProperties DEF Render, Origin

-----------------------------------------------------------------------------
\* The last judgement is that of the files it compiled: what it rejected, or
\* what it published and found.  The user may have edited them since.
Judged ==
    /\ outcome = "invalid" => errors = Rejected(compiled)
    /\ outcome = "judged" =>
          /\ Rejected(compiled) = <<>>
          /\ snapshot = [k \in Kind |-> Render(k, compiled)]
          /\ findings = Evaluate(log, compiled)

IInv == TypeOK /\ Judged

\* Nothing has been judged at first.
LEMMA InitHolds == Init => IInv
  <1> SUFFICES ASSUME Init PROVE IInv
    OBVIOUS
  <1>1. \A S : <<>> \in Seq(S)
    BY EmptySeq
  <1>2. source \in [File -> Seq(Pattern \cup Remark)]
    BY <1>1 DEF Init
  <1>3. snapshot \in [Kind -> Seq(Pattern \cup Remark)]
    BY <1>1 DEF Init, Nothing
  <1> QED
    BY <1>1, <1>2, <1>3 DEF Init, IInv, TypeOK, Judged, Outcome

\* A judgement is one of the files as they are.
LEMMA JudgeHolds ==
    ASSUME PolicyAssumption, IInv, Judge
    PROVE  IInv'
  <1>1. source \in Files /\ log \in Seq(Line)
    BY DEF IInv, TypeOK, Files, PolicyAssumption
  <1>2. Rejected(source) \in Seq(Rule)
    BY <1>1, RejectedHolds
  <1>3. errors' \in Seq(Rule)
    BY <1>2, EmptySeq DEF Judge
  <1>4. outcome' \in Outcome
    BY DEF Judge, Outcome
  <1>5. snapshot' \in [Kind -> Seq(Pattern \cup Remark)]
    <2>1. CASE outcome' = "judged"
      BY <1>1, <2>1, RenderType DEF Judge
    <2>2. CASE outcome' # "judged"
      BY <2>2 DEF Judge, IInv, TypeOK
    <2> QED
      BY <2>1, <2>2
  <1>6. findings' \in Seq([line : Nat \ {0}, hits : Seq(Rule)])
    <2>1. CASE outcome' = "judged"
      BY <1>1, <2>1, EvaluateHolds DEF Judge
    <2>2. CASE outcome' # "judged"
      BY <2>2, EmptySeq DEF Judge
    <2> QED
      BY <2>1, <2>2
  <1>7. TypeOK'
    BY <1>3, <1>4, <1>5, <1>6 DEF Judge, IInv, TypeOK
  <1>8. Judged'
    <2>1. compiled' = source /\ log' = log
      BY DEF Judge
    <2>2. outcome' = "invalid" => errors' = Rejected(compiled')
      BY <2>1 DEF Judge
    <2>3. ASSUME outcome' = "judged"
          PROVE  /\ Rejected(compiled') = <<>>
                 /\ snapshot' = [k \in Kind |-> Render(k, compiled')]
                 /\ findings' = Evaluate(log', compiled')
      BY <2>1, <2>3 DEF Judge
    <2> QED
      BY <2>2, <2>3 DEF Judged
  <1> QED
    BY <1>7, <1>8 DEF IInv

\* No edit of a waiver file touches what was judged.
LEMMA EditHolds ==
    ASSUME IInv, AddLine \/ RemoveLine \/ ChangeMode
    PROVE  IInv'
  <1>1. source' \in [File -> Seq(Pattern \cup Remark)]
    <2>1. CASE AddLine
      <3>1. PICK f \in File, text \in Pattern \cup Remark :
                source' = [source EXCEPT ![f] = Append(@, text)]
                    \/ source' = [source EXCEPT ![f] = <<text>> \o @]
        BY <2>1 DEF AddLine
      <3>2. source[f] \in Seq(Pattern \cup Remark) /\ <<text>> \in Seq(Pattern \cup Remark)
        BY DEF IInv, TypeOK
      <3>3. /\ Append(source[f], text) \in Seq(Pattern \cup Remark)
            /\ <<text>> \o source[f] \in Seq(Pattern \cup Remark)
        BY <3>2, AppendProperties, ConcatProperties
      <3> QED
        BY <3>1, <3>3 DEF IInv, TypeOK
    <2>2. CASE RemoveLine
      <3>1. PICK f \in File : source[f] # <<>> /\ source' = [source EXCEPT ![f] = Tail(@)]
        BY <2>2 DEF RemoveLine
      <3>2. Tail(source[f]) \in Seq(Pattern \cup Remark)
        BY <3>1, HeadTailProperties DEF IInv, TypeOK
      <3> QED
        BY <3>1, <3>2 DEF IInv, TypeOK
    <2>3. CASE ChangeMode
      BY <2>3 DEF ChangeMode, IInv, TypeOK
    <2> QED
      BY <2>1, <2>2, <2>3
  <1>2. unreadable' \subseteq File
    BY DEF AddLine, RemoveLine, ChangeMode, IInv, TypeOK
  <1>3. UNCHANGED <<log, compiled, outcome, errors, snapshot, findings>>
    BY DEF AddLine, RemoveLine, ChangeMode
  <1> QED
    BY <1>1, <1>2, <1>3 DEF IInv, TypeOK, Judged

\* IInv is inductive.
LEMMA NextHolds ==
    ASSUME PolicyAssumption, IInv, [Next]_vars
    PROVE  IInv'
  <1>1. CASE Judge
    BY <1>1, JudgeHolds
  <1>2. CASE AddLine \/ RemoveLine \/ ChangeMode
    BY <1>2, EditHolds
  <1>3. CASE UNCHANGED vars
    BY <1>3 DEF vars, IInv, TypeOK, Judged
  <1> QED
    BY <1>1, <1>2, <1>3 DEF Next

\* In every reachable state the last judgement is that of the files it compiled.
THEOREM Invariant == Spec => []IInv
  <1>1. Init => IInv
    BY InitHolds
  <1>2. IInv /\ [Next]_vars => IInv'
    BY PolicyAssumption, NextHolds
  <1> QED
    BY <1>1, <1>2, PTL DEF Spec

\* The state keeps its types: in particular rejected rules and hits are rules
\* with the number of a line, counted from 1, and a pattern that is no remark.
THEOREM TypeCorrect == Spec => []TypeOK
  <1>1. IInv => TypeOK
    BY DEF IInv
  <1> QED
    BY <1>1, Invariant, PTL

-----------------------------------------------------------------------------
\* What HeldBy says of a rule, and every line with a pattern of a pair that
\* Invalid or Matches can hold is such a rule.
LEMMA HeldRule ==
    ASSUME NEW files \in Files, NEW r, HeldBy(r, files)
    PROVE  /\ r.kind \in Kind /\ r.origin \in Origin
           /\ r.line \in DOMAIN files[<<r.kind, r.origin>>]
           /\ r.pattern = files[<<r.kind, r.origin>>][r.line]
  <1>1. PICK kind \in Kind, origin \in Origin : From(r, kind, origin, files)
    BY DEF HeldBy
  <1>2. PICK n \in RuleLines(files[<<kind, origin>>]) :
            r = RuleOf(kind, origin, files[<<kind, origin>>], n)
    BY <1>1 DEF From
  <1>3. r.kind = kind /\ r.origin = origin /\ r.line = n /\ r.pattern = files[<<kind, origin>>][n]
    BY <1>2 DEF RuleOf
  <1>4. n \in DOMAIN files[<<kind, origin>>]
    BY DEF RuleLines
  <1> QED
    BY <1>3, <1>4

\* Every pattern line of a file is held as a rule with its number.
LEMMA HeldLine ==
    ASSUME PolicyAssumption, NEW files \in Files, NEW kind \in Kind, NEW origin \in Origin,
           NEW n \in DOMAIN files[<<kind, origin>>], files[<<kind, origin>>][n] \in Pattern
    PROVE  \E r : /\ HeldBy(r, files)
                  /\ r.kind = kind /\ r.origin = origin /\ r.line = n
                  /\ r.pattern = files[<<kind, origin>>][n]
  <1> DEFINE r == RuleOf(kind, origin, files[<<kind, origin>>], n)
  <1>1. n \in RuleLines(files[<<kind, origin>>])
    BY DEF PolicyAssumption, RuleLines, IsRule
  <1>2. HeldBy(r, files)
    BY <1>1 DEF HeldBy, From
  <1>3. r.kind = kind /\ r.origin = origin /\ r.line = n /\ r.pattern = files[<<kind, origin>>][n]
    BY DEF RuleOf
  <1> HIDE DEF r
  <1> QED
    BY <1>2, <1>3

\* The errors of a rejected judgement are exactly the lines, of all four files,
\* whose pattern does not compile.
LEMMA ErrorsAreComplete ==
    ASSUME PolicyAssumption, IInv
    PROVE  ErrorsComplete
  <1> DEFINE InvalidLines(f) == {n \in DOMAIN compiled[f] : <<f[1], compiled[f][n]>> \in Invalid}
             Named(r) == <<r.kind, r.origin, r.line>>
             L == {Named(errors[i]) : i \in DOMAIN errors}
             R == UNION {{<<f[1], f[2], n>> : n \in InvalidLines(f)} : f \in File}
  <1> SUFFICES ASSUME outcome = "invalid" PROVE L = R
    BY DEF ErrorsComplete
  <1>1. compiled \in Files
    BY DEF IInv, TypeOK, Files
  <1>2. \A r : Occurs(r, errors) <=> HeldBy(r, compiled) /\ <<r.kind, r.pattern>> \in Invalid
    BY <1>1, RejectedHolds DEF IInv, Judged
  <1>3. \A c : c \in L <=> \E r : Occurs(r, errors) /\ c = Named(r)
    BY DEF Occurs
  <1>4. ASSUME NEW c \in L
        PROVE  c \in R
    <2>1. PICK r : Occurs(r, errors) /\ c = Named(r)
      BY <1>3
    <2>2. HeldBy(r, compiled) /\ <<r.kind, r.pattern>> \in Invalid
      BY <1>2, <2>1
    <2>3. /\ r.kind \in Kind /\ r.origin \in Origin
          /\ r.line \in DOMAIN compiled[<<r.kind, r.origin>>]
          /\ r.pattern = compiled[<<r.kind, r.origin>>][r.line]
      BY <1>1, <2>2, HeldRule
    <2> DEFINE f == <<r.kind, r.origin>>
    <2>4. f \in File /\ f[1] = r.kind /\ f[2] = r.origin /\ r.line \in InvalidLines(f)
      BY <2>2, <2>3 DEF File
    <2> QED
      BY <2>1, <2>4
  <1>5. ASSUME NEW c \in R
        PROVE  c \in L
    <2>1. PICK f \in File : c \in {<<f[1], f[2], n>> : n \in InvalidLines(f)}
      OBVIOUS
    <2>2. PICK n \in InvalidLines(f) : c = <<f[1], f[2], n>>
      BY <2>1
    <2>3. f[1] \in Kind /\ f[2] \in Origin /\ f = <<f[1], f[2]>>
      BY DEF File
    <2>4. n \in DOMAIN compiled[f] /\ <<f[1], compiled[f][n]>> \in Invalid
      BY <2>2
    <2>5. compiled[f][n] \in Pattern
      BY <2>4 DEF PolicyAssumption
    <2>6. PICK r : /\ HeldBy(r, compiled)
                   /\ r.kind = f[1] /\ r.origin = f[2] /\ r.line = n
                   /\ r.pattern = compiled[f][n]
      BY <1>1, <2>3, <2>4, <2>5, HeldLine
    <2>7. Occurs(r, errors) /\ c = Named(r)
      BY <1>2, <2>2, <2>4, <2>6
    <2> QED
      BY <1>3, <2>7
  <1> QED
    BY <1>4, <1>5

\* A judgement that rejects names every invalid pattern of both kinds and both
\* origins, at its own line, and nothing else.
THEOREM ErrorsAlwaysComplete == Spec => []ErrorsComplete
  <1>1. IInv => ErrorsComplete
    BY PolicyAssumption, ErrorsAreComplete
  <1> QED
    BY <1>1, Invariant, PTL

\* A hit is a rule of the compiled files.
LEMMA CitationsAreResolved ==
    ASSUME PolicyAssumption, IInv
    PROVE  CitationsResolve
  <1> SUFFICES ASSUME outcome = "judged",
                      NEW i \in DOMAIN findings, NEW j \in DOMAIN findings[i].hits
               PROVE  LET hit  == findings[i].hits[j]
                          file == compiled[<<hit.kind, hit.origin>>]
                      IN  /\ hit.line \in DOMAIN file
                          /\ <<hit.kind, file[hit.line], log[findings[i].line]>> \in Matches
    BY DEF CitationsResolve
  <1> DEFINE hit == findings[i].hits[j]
             K   == SuspiciousLines(log)
  <1>1. compiled \in Files /\ log \in Seq(Line) /\ findings = Evaluate(log, compiled)
    BY DEF IInv, TypeOK, Judged, Files, PolicyAssumption
  <1>2. i \in 1..Cardinality(K)
    <2>1. /\ Evaluate(log, compiled) \in Seq([line : Nat \ {0}, hits : Seq(Rule)])
          /\ Len(Evaluate(log, compiled)) = Cardinality(K)
      BY <1>1, EvaluateHolds
    <2> QED
      BY <1>1, <2>1, LenProperties
  <1>3. findings[i] = [line |-> Nth(K, i), hits |-> WaiverHits(log[Nth(K, i)], compiled)]
    BY <1>1, <1>2, EvaluateHolds
  <1>4. findings[i].line = Nth(K, i) /\ findings[i].hits = WaiverHits(log[Nth(K, i)], compiled)
    BY <1>3
  <1>5. Occurs(hit, WaiverHits(log[findings[i].line], compiled))
    BY <1>4 DEF Occurs
  <1> HIDE DEF hit
  <1>6. HeldBy(hit, compiled) /\ <<hit.kind, hit.pattern, log[findings[i].line]>> \in Matches
    BY <1>1, <1>5, WaiverHitsHold
  <1> QED
    BY <1>1, <1>6, HeldRule DEF hit

\* The source and line a hit cites hold, in the files that were judged, a
\* pattern that matches the line it waives.
THEOREM CitationsAlwaysResolve == Spec => []CitationsResolve
  <1>1. IInv => CitationsResolve
    BY PolicyAssumption, CitationsAreResolved
  <1> QED
    BY <1>1, Invariant, PTL

-----------------------------------------------------------------------------
\* Some line of some waiver file waives the text.
Waived(text, files) ==
    \E f \in File : \E n \in DOMAIN files[f] : <<f[1], files[f][n], text>> \in Matches

\* A line has a hit if a rule of the files matches it.
LEMMA WaivedByHits ==
    ASSUME PolicyAssumption, NEW files \in Files, NEW text
    PROVE  WaiverHits(text, files) # <<>> <=> Waived(text, files)
  <1>1. WaiverHits(text, files) # <<>> <=>
            \E r : HeldBy(r, files) /\ <<r.kind, r.pattern, text>> \in Matches
    BY WaiverHitsHold, OccursAny
  <1>2. ASSUME NEW r, HeldBy(r, files), <<r.kind, r.pattern, text>> \in Matches
        PROVE  Waived(text, files)
    <2>1. /\ r.kind \in Kind /\ r.origin \in Origin
          /\ r.line \in DOMAIN files[<<r.kind, r.origin>>]
          /\ r.pattern = files[<<r.kind, r.origin>>][r.line]
      BY <1>2, HeldRule
    <2> DEFINE f == <<r.kind, r.origin>>
    <2>2. f \in File /\ f[1] = r.kind /\ r.line \in DOMAIN files[f] /\ r.pattern = files[f][r.line]
      BY <2>1 DEF File
    <2> HIDE DEF f
    <2> QED
      BY <1>2, <2>2 DEF Waived
  <1>3. ASSUME NEW f \in File, NEW n \in DOMAIN files[f], <<f[1], files[f][n], text>> \in Matches
        PROVE  \E r : HeldBy(r, files) /\ <<r.kind, r.pattern, text>> \in Matches
    <2>1. f[1] \in Kind /\ f[2] \in Origin /\ f = <<f[1], f[2]>>
      BY DEF File
    <2>2. files[f][n] \in Pattern
      BY <1>3 DEF PolicyAssumption
    <2>3. PICK r : HeldBy(r, files) /\ r.kind = f[1] /\ r.pattern = files[f][n]
      BY <2>1, <2>2, HeldLine
    <2> QED
      BY <1>3, <2>3
  <1> QED
    BY <1>1, <1>2, <1>3 DEF Waived

\* A log passes when each suspicious line in it is waived.
LEMMA PassedWhenWaived ==
    ASSUME PolicyAssumption, NEW lines \in Seq(Line), NEW files \in Files
    PROVE  Passed(Evaluate(lines, files)) <=> \A k \in SuspiciousLines(lines) : Waived(lines[k], files)
  <1> DEFINE K == SuspiciousLines(lines)
             found == Evaluate(lines, files)
  <1>1. /\ found \in Seq([line : Nat \ {0}, hits : Seq(Rule)])
        /\ Len(found) = Cardinality(K)
        /\ \A i \in 1..Cardinality(K) :
              Nth(K, i) \in K /\ found[i] = [line |-> Nth(K, i), hits |-> WaiverHits(lines[Nth(K, i)], files)]
        /\ \A k \in K : \E i \in 1..Cardinality(K) : Nth(K, i) = k
    BY EvaluateHolds
  <1> HIDE DEF found, K
  <1>2. DOMAIN found = 1..Cardinality(K)
    BY <1>1
  <1>3. \A i \in DOMAIN found : Nth(K, i) \in K /\ found[i].hits = WaiverHits(lines[Nth(K, i)], files)
    BY <1>1, <1>2
  <1>4. Passed(found) <=> \A k \in K : WaiverHits(lines[k], files) # <<>>
    BY <1>1, <1>2, <1>3 DEF Passed
  <1> QED
    BY <1>4, WaivedByHits DEF found, K

\* More lines waive more.
LEMMA WaiversAdded ==
    ASSUME PolicyAssumption, IInv, IInv', [Next]_vars, outcome = "judged", outcome' = "judged",
           \A f \in File : \A n \in DOMAIN compiled[f] :
               \E m \in DOMAIN compiled'[f] : compiled'[f][m] = compiled[f][n],
           Passed(findings)
    PROVE  Passed(findings')
  <1>1. log' = log
    BY DEF Next, Judge, AddLine, RemoveLine, ChangeMode, vars
  <1>2. compiled \in Files /\ log \in Seq(Line) /\ findings = Evaluate(log, compiled)
    BY DEF IInv, TypeOK, Judged, Files, PolicyAssumption
  <1>3. compiled' \in Files /\ findings' = Evaluate(log, compiled')
    BY <1>1 DEF IInv, TypeOK, Judged, Files
  <1>4. \A text : Waived(text, compiled) => Waived(text, compiled')
    <2> SUFFICES ASSUME NEW text, NEW f \in File, NEW n \in DOMAIN compiled[f],
                        <<f[1], compiled[f][n], text>> \in Matches
                 PROVE  Waived(text, compiled')
      BY DEF Waived
    <2>1. PICK m \in DOMAIN compiled'[f] : compiled'[f][m] = compiled[f][n]
      OBVIOUS
    <2> QED
      BY <2>1 DEF Waived
  <1>5. Passed(Evaluate(log, compiled)) => Passed(Evaluate(log, compiled'))
    BY <1>2, <1>3, <1>4, PassedWhenWaived
  <1> QED
    BY <1>2, <1>3, <1>5

\* Lines added to the waiver files, of either kind and at any place, never turn
\* a log that passed into one that fails.
THEOREM WaiversAlwaysOnlyWaive == Spec => WaiversOnlyWaive
  <1>1. IInv /\ IInv' /\ [Next]_vars =>
            (( /\ outcome = "judged" /\ outcome' = "judged"
               /\ \A f \in File : \A n \in DOMAIN compiled[f] :
                     \E m \in DOMAIN compiled'[f] : compiled'[f][m] = compiled[f][n] )
              => (Passed(findings) => Passed(findings')))
    BY PolicyAssumption, WaiversAdded
  <1> QED
    BY <1>1, Invariant, PTL DEF Spec, WaiversOnlyWaive

-----------------------------------------------------------------------------
\* The published files, read again: the headers are remarks, so the rules are
\* those that were rendered, in their order.

Header(rules) == IF rules = <<>> THEN 0 ELSE 1

\* A rendered block is its header, if it has one, and then the patterns.
LEMMA BlockHolds ==
    ASSUME NEW rules \in Seq(Rule)
    PROVE  /\ Block(rules) \in Seq(Pattern \cup Remark)
           /\ Len(Block(rules)) = Header(rules) + Len(rules)
           /\ \A i \in 1..Len(rules) : Block(rules)[Header(rules) + i] = rules[i].pattern
           /\ Header(rules) = 1 => Block(rules)[1] = "//"
  <1> DEFINE patterns == [i \in DOMAIN rules |-> rules[i].pattern]
             head == <<"//">>
  <1>1. Len(rules) \in Nat /\ DOMAIN rules = 1..Len(rules) /\ \A i \in DOMAIN rules : rules[i] \in Rule
    BY LenProperties, ElementOfSeq
  <1>2. Block(rules) \in Seq(Pattern \cup Remark)
    BY BlockType
  <1>3. CASE rules = <<>>
    BY <1>1, <1>2, <1>3 DEF Block, Header
  <1>4. CASE rules # <<>>
    <2>1. patterns \in [1..Len(rules) -> Pattern]
      BY <1>1 DEF Rule
    <2>2. patterns \in Seq(Pattern \cup Remark) /\ Len(patterns) = Len(rules)
      BY <1>1, <2>1, IsASeq
    <2>3. \A i \in 1..Len(rules) : patterns[i] = rules[i].pattern
      BY <1>1
    <2>4. head \in Seq(Pattern \cup Remark) /\ Len(head) = 1 /\ head[1] = "//"
      BY DEF Remark
    <2>5. Block(rules) = head \o patterns /\ Header(rules) = 1
      BY <1>4 DEF Block, Header
    <2> HIDE DEF head, patterns
    <2>6. /\ Len(head \o patterns) = Len(head) + Len(patterns)
          /\ \A i \in 1..(Len(head) + Len(patterns)) :
                (head \o patterns)[i] = IF i <= Len(head) THEN head[i] ELSE patterns[i - Len(head)]
      BY <2>2, <2>4, ConcatProperties
    <2>7. ASSUME NEW i \in 1..Len(rules)
          PROVE  Block(rules)[1 + i] = rules[i].pattern
      <3>1. 1 + i \in 1..(1 + Len(rules)) /\ ~(1 + i <= 1) /\ (1 + i) - 1 = i
        BY <1>1
      <3> QED
        BY <2>2, <2>3, <2>4, <2>5, <2>6, <3>1
    <2>8. Block(rules)[1] = "//"
      <3>1. 1 \in 1..(1 + Len(rules)) /\ 1 <= 1
        BY <1>1
      <3> QED
        BY <2>2, <2>4, <2>5, <2>6, <3>1
    <2> QED
      BY <1>2, <2>2, <2>4, <2>5, <2>6, <2>7, <2>8
  <1> QED
    BY <1>3, <1>4

\* A snapshot that is read again gives the same patterns in the same order.
LEMMA RenderedRules ==
    ASSUME PolicyAssumption, NEW kind \in Kind, NEW files \in Files
    PROVE  LET again == ReadRules(kind, "common", Render(kind, files))
               rules == Blocks(kind, files)
           IN  /\ again \in Seq(Rule) /\ rules \in Seq(Rule) /\ Len(again) = Len(rules)
               /\ \A i \in 1..Len(rules) :
                     again[i].kind = rules[i].kind /\ again[i].pattern = rules[i].pattern
  <1> DEFINE Of(origin) == ReadRules(kind, origin, files[<<kind, origin>>])
             c == Of("common")
             e == Of("entry")
             R == Render(kind, files)
             K == RuleLines(R)
             lc == Len(c)
             le == Len(e)
             hc == Header(c)
             he == Header(e)
             g == [i \in 1..(lc + le) |-> IF i <= lc THEN hc + i ELSE hc + he + i]
             rules == Blocks(kind, files)
             again == ReadRules(kind, "common", R)
  <1>1. c \in Seq(Rule) /\ e \in Seq(Rule)
    <2>1. \A origin \in Origin : files[<<kind, origin>>] \in Seq(Pattern \cup Remark)
      BY DEF Files, File
    <2> QED
      BY <2>1, ReadRulesHolds DEF Origin
  <1>2. R \in Seq(Pattern \cup Remark) /\ rules \in Seq(Rule)
    BY RenderType, BlocksHold
  <1>3. R = Block(c) \o Block(e) /\ rules = c \o e
    BY DEF Render, Blocks
  <1>4. /\ again \in Seq(Rule)
        /\ K \in SUBSET (1..Len(R)) /\ Len(R) \in Nat /\ Len(again) = Cardinality(K)
        /\ \A i \in 1..Cardinality(K) : again[i] = RuleOf(kind, "common", R, Nth(K, i))
    BY <1>2, ReadRulesHolds DEF Origin
  <1>5. \A i \in 1..Len(R) : i \in K <=> R[i] \notin Remark
    BY <1>2 DEF RuleLines, IsRule
  <1>6. \A i \in 1..Len(rules) : rules[i].kind = kind
    <2> SUFFICES ASSUME NEW i \in 1..Len(rules) PROVE rules[i].kind = kind
      OBVIOUS
    <2>1. Occurs(rules[i], rules)
      BY <1>2 DEF Occurs
    <2>2. PICK origin \in Origin : From(rules[i], kind, origin, files)
      BY <2>1, BlocksHold
    <2> HIDE DEF rules
    <2> QED
      BY <2>2 DEF From, RuleOf
  <1> HIDE DEF Of, R, K, rules, again
  <1>7. lc \in Nat /\ le \in Nat /\ hc \in {0, 1} /\ he \in {0, 1}
    BY <1>1 DEF Header
  <1>8. /\ Block(c) \in Seq(Pattern \cup Remark) /\ Len(Block(c)) = hc + lc
        /\ \A i \in 1..lc : Block(c)[hc + i] = c[i].pattern
        /\ hc = 1 => Block(c)[1] = "//"
    BY <1>1, BlockHolds
  <1>9. /\ Block(e) \in Seq(Pattern \cup Remark) /\ Len(Block(e)) = he + le
        /\ \A i \in 1..le : Block(e)[he + i] = e[i].pattern
        /\ he = 1 => Block(e)[1] = "//"
    BY <1>1, BlockHolds
  <1>10. /\ Len(R) = (hc + lc) + (he + le)
         /\ \A i \in 1..((hc + lc) + (he + le)) :
               R[i] = IF i <= hc + lc THEN Block(c)[i] ELSE Block(e)[i - (hc + lc)]
    <2> DEFINE p == Block(c)
               q == Block(e)
    <2> HIDE DEF p, q
    <2>0. p \in Seq(Pattern \cup Remark) /\ q \in Seq(Pattern \cup Remark)
      BY <1>8, <1>9 DEF p, q
    <2>1. Len(p) = hc + lc /\ Len(q) = he + le /\ R = p \o q
      BY <1>3, <1>8, <1>9 DEF p, q
    <2>2. /\ Len(p \o q) = Len(p) + Len(q)
          /\ \A i \in 1..(Len(p) + Len(q)) : (p \o q)[i] = IF i <= Len(p) THEN p[i] ELSE q[i - Len(p)]
      BY <2>0, ConcatProperties
    <2>3. /\ Len(R) = (hc + lc) + (he + le)
          /\ \A i \in 1..((hc + lc) + (he + le)) :
                R[i] = IF i <= hc + lc THEN p[i] ELSE q[i - (hc + lc)]
      BY <2>1, <2>2, Zenon
    <2> QED
      BY <2>3 DEF p, q
  <1>11. /\ Len(rules) = lc + le
         /\ \A i \in 1..(lc + le) : rules[i] = IF i <= lc THEN c[i] ELSE e[i - lc]
    BY <1>1, <1>3, ConcatProperties
  <1>12. \A i \in 1..(lc + le) : rules[i].pattern \in Pattern
    <2>1. \A i \in 1..Len(rules) : rules[i] \in Rule
      BY <1>2
    <2> QED
      BY <1>11, <2>1 DEF Rule
  <1> DEFINE Place(i) == IF i <= lc THEN hc + i ELSE hc + he + i
  <1> HIDE DEF lc, le, hc, he, c, e
  <1>13. ASSUME NEW i \in 1..(lc + le)
         PROVE  Place(i) \in 1..Len(R) /\ R[Place(i)] = rules[i].pattern /\ Place(i) \in K
    <2>1. CASE i <= lc
      <3>1. i \in 1..lc /\ hc + i \in 1..Len(R) /\ hc + i <= hc + lc
        BY <1>7, <1>10, <2>1
      <3>2. R[hc + i] = Block(c)[hc + i]
        BY <1>10, <3>1
      <3> QED
        BY <1>5, <1>8, <1>11, <1>12, <2>1, <3>1, <3>2 DEF PolicyAssumption
    <2>2. CASE ~(i <= lc)
      <3>1. /\ i - lc \in 1..le /\ hc + he + i \in 1..Len(R) /\ ~(hc + he + i <= hc + lc)
            /\ (hc + he + i) - (hc + lc) = he + (i - lc)
        BY <1>7, <1>10, <2>2
      <3>2. R[hc + he + i] = Block(e)[he + (i - lc)]
        BY <1>10, <3>1
      <3> QED
        BY <1>5, <1>9, <1>11, <1>12, <2>2, <3>1, <3>2 DEF PolicyAssumption
    <2> QED
      BY <2>1, <2>2
  <1>14. \A i, j \in 1..(lc + le) : i < j => Place(i) < Place(j)
    BY <1>7
  <1>15. ASSUME NEW k \in K
         PROVE  \E i \in 1..(lc + le) : Place(i) = k
    <2>1. k \in 1..((hc + lc) + (he + le)) /\ R[k] \notin Remark
      BY <1>4, <1>5, <1>10
    <2>2. ~(hc = 1 /\ k = 1)
      <3> SUFFICES ASSUME hc = 1, k = 1 PROVE FALSE
        OBVIOUS
      <3>1. R[k] = Block(c)[1]
        BY <1>7, <1>10, <2>1
      <3> QED
        BY <1>8, <2>1, <3>1 DEF Remark
    <2>3. ~(he = 1 /\ k = hc + lc + 1)
      <3> SUFFICES ASSUME he = 1, k = hc + lc + 1 PROVE FALSE
        OBVIOUS
      <3>1. ~(k <= hc + lc) /\ k - (hc + lc) = 1
        BY <1>7
      <3>2. R[k] = Block(e)[1]
        BY <1>10, <2>1, <3>1
      <3> QED
        BY <1>9, <2>1, <3>2 DEF Remark
    <2>4. CASE k <= hc + lc
      <3>1. k - hc \in 1..(lc + le) /\ k - hc <= lc /\ hc + (k - hc) = k
        BY <1>7, <2>1, <2>2, <2>4
      <3> QED
        BY <3>1
    <2>5. CASE ~(k <= hc + lc)
      <3>1. k - (hc + he) \in 1..(lc + le) /\ ~(k - (hc + he) <= lc) /\ hc + he + (k - (hc + he)) = k
        BY <1>7, <2>1, <2>3, <2>5
      <3> QED
        BY <3>1
    <2> QED
      BY <2>4, <2>5
  <1>16. g = [i \in 1..(lc + le) |-> Place(i)]
    OBVIOUS
  <1> HIDE DEF g, Place
  <1>17. Cardinality(K) = lc + le /\ \A i \in 1..(lc + le) : Nth(K, i) = Place(i)
    <2>1. g \in [1..(lc + le) -> K] /\ \A i \in 1..(lc + le) : g[i] = Place(i)
      BY <1>13, <1>16
    <2>2. \A i, j \in 1..(lc + le) : i < j => g[i] < g[j]
      BY <1>14, <2>1
    <2>3. \A k \in K : \E i \in 1..(lc + le) : g[i] = k
      BY <1>15, <2>1
    <2>4. lc + le \in Nat
      BY <1>7
    <2> DEFINE m == lc + le
               n == Len(R)
    <2>5. Cardinality(K) = m /\ \A i \in 1..m : Nth(K, i) = g[i]
      <3>1. n \in Nat /\ K \in SUBSET (1..n)
        BY <1>4
      <3>2. Lists(g, m, K)
        BY <2>1, <2>2, <2>3, <2>4 DEF Lists
      <3> HIDE DEF m, n
      <3> QED
        BY <3>1, <3>2, NthUnique, Zenon
    <2> QED
      BY <2>1, <2>5
  <1>18. \A i \in 1..(lc + le) : again[i].kind = kind /\ again[i].pattern = rules[i].pattern
    BY <1>4, <1>13, <1>17 DEF RuleOf
  <1> QED
    BY <1>2, <1>4, <1>6, <1>11, <1>17, <1>18 DEF rules, again, R

\* What is rejected and how much is hit depends on the kinds and patterns only.
LEMMA SamePatterns ==
    ASSUME NEW a \in Seq(Rule), NEW b \in Seq(Rule), Len(a) = Len(b),
           \A i \in 1..Len(b) : a[i].kind = b[i].kind /\ a[i].pattern = b[i].pattern,
           NEW text
    PROVE  /\ Errors(b) = <<>> => Errors(a) = <<>>
           /\ Hits(a, text) \in Seq(Rule) /\ Hits(b, text) \in Seq(Rule)
           /\ Len(Hits(a, text)) = Len(Hits(b, text))
  <1>1. DOMAIN a = 1..Len(b) /\ DOMAIN b = 1..Len(b)
    BY LenProperties
  <1>2. BadRules(a) = BadRules(b)
    BY <1>1 DEF BadRules
  <1>3. BadRules(a) \in SUBSET DOMAIN a /\ BadRules(b) \in SUBSET DOMAIN b
    BY DEF BadRules
  <1>4. Errors(b) = <<>> => Errors(a) = <<>>
    BY <1>2, <1>3, SelectKeeps DEF Errors
  <1> DEFINE K(s) == {i \in DOMAIN s : <<s[i].kind, s[i].pattern, text>> \in Matches}
  <1>5. K(a) = K(b)
    BY <1>1
  <1>6. K(a) \in SUBSET DOMAIN a /\ K(b) \in SUBSET DOMAIN b
    OBVIOUS
  <1>7. Hits(a, text) = Select(a, K(a)) /\ Hits(b, text) = Select(b, K(b))
    BY DEF Hits
  <1> HIDE DEF K
  <1>8. Len(Select(a, K(a))) = Cardinality(K(a)) /\ Len(Select(b, K(b))) = Cardinality(K(b))
    BY <1>6, SelectKeeps
  <1> QED
    BY <1>4, <1>5, <1>7, <1>8, HitsHold

\* So it gives the same errors, and each line as many hits.
LEMMA SnapshotIsReproduced ==
    ASSUME PolicyAssumption, IInv
    PROVE  SnapshotReproduces
  <1> DEFINE files == [f \in File |-> IF f[2] = "common" THEN snapshot[f[1]] ELSE <<>>]
             again == Evaluate(log, files)
             K == SuspiciousLines(log)
  <1> SUFFICES ASSUME outcome = "judged"
               PROVE  /\ Rejected(files) = <<>>
                      /\ Len(again) = Len(findings)
                      /\ \A i \in DOMAIN again :
                            /\ again[i].line = findings[i].line
                            /\ Len(again[i].hits) = Len(findings[i].hits)
    BY DEF SnapshotReproduces
  <1>1. /\ compiled \in Files /\ log \in Seq(Line) /\ findings = Evaluate(log, compiled)
        /\ Rejected(compiled) = <<>> /\ snapshot = [k \in Kind |-> Render(k, compiled)]
    BY DEF IInv, TypeOK, Judged, Files, PolicyAssumption
  <1>2. \A kind \in Kind : files[<<kind, "common">>] = Render(kind, compiled) /\ files[<<kind, "entry">>] = <<>>
    BY <1>1 DEF File, Origin
  <1>3. files \in Files
    <2>1. \A f \in File : f[1] \in Kind
      BY DEF File
    <2>2. \A f \in File : (IF f[2] = "common" THEN snapshot[f[1]] ELSE <<>>) \in Seq(Pattern \cup Remark)
      BY <1>1, <2>1, RenderType, EmptySeq
    <2> QED
      BY <2>2 DEF Files
  <1> HIDE DEF files
  <1>4. ASSUME NEW kind \in Kind
        PROVE  Blocks(kind, files) = ReadRules(kind, "common", Render(kind, compiled))
    <2> DEFINE c == ReadRules(kind, "common", Render(kind, compiled))
               e == ReadRules(kind, "entry", <<>>)
    <2>1. c \in Seq(Rule)
      BY <1>1, RenderedRules
    <2>2. e \in Seq(Rule) /\ Len(e) = Cardinality(RuleLines(<<>>))
      BY EmptySeq, ReadRulesHolds DEF Origin
    <2>3. RuleLines(<<>>) = {}
      BY DEF RuleLines
    <2>4. e = <<>>
      BY <2>2, <2>3, FS_EmptySet, EmptySeq
    <2>5. Blocks(kind, files) = c \o e
      BY <1>2 DEF Blocks
    <2> HIDE DEF c, e
    <2>6. c \o e = c
      BY <2>1, <2>4, ConcatEmptySeq
    <2> QED
      BY <2>5, <2>6 DEF c
  <1>5. ASSUME NEW kind \in Kind, NEW text
        PROVE  /\ Errors(Blocks(kind, compiled)) = <<>> => Errors(Blocks(kind, files)) = <<>>
               /\ Hits(Blocks(kind, files), text) \in Seq(Rule)
               /\ Hits(Blocks(kind, compiled), text) \in Seq(Rule)
               /\ Len(Hits(Blocks(kind, files), text)) = Len(Hits(Blocks(kind, compiled), text))
    <2> DEFINE a == Blocks(kind, files)
               b == Blocks(kind, compiled)
    <2>1. /\ a \in Seq(Rule) /\ b \in Seq(Rule) /\ Len(a) = Len(b)
          /\ \A i \in 1..Len(b) : a[i].kind = b[i].kind /\ a[i].pattern = b[i].pattern
      BY <1>1, <1>4, RenderedRules
    <2> HIDE DEF a, b
    <2>2. /\ Errors(b) = <<>> => Errors(a) = <<>>
          /\ Hits(a, text) \in Seq(Rule) /\ Hits(b, text) \in Seq(Rule)
          /\ Len(Hits(a, text)) = Len(Hits(b, text))
      BY <2>1, SamePatterns
    <2> QED
      BY <2>2 DEF a, b
  <1>6. Rejected(files) = <<>>
    <2>1. ASSUME NEW fs \in Files
          PROVE  Rejected(fs) = <<>> <=> \A kind \in Kind : Errors(Blocks(kind, fs)) = <<>>
      <3>1. \A kind \in Kind : Errors(Blocks(kind, fs)) \in Seq(Rule)
        BY BlocksHold, ErrorsHold
      <3> QED
        BY <3>1, OccursConcat DEF Rejected, Kind
    <2> QED
      BY <1>1, <1>3, <1>5, <2>1
  <1>7. \A text : Len(WaiverHits(text, files)) = Len(WaiverHits(text, compiled))
    <2> SUFFICES ASSUME NEW text
                 PROVE  Len(WaiverHits(text, files)) = Len(WaiverHits(text, compiled))
      OBVIOUS
    <2>1. "glob" \in Kind /\ "regex" \in Kind
      BY DEF Kind
    <2>2. \A kind \in Kind : Len(Hits(Blocks(kind, files), text)) \in Nat
      BY <1>5, LenProperties
    <2>3. ASSUME NEW fs \in {files, compiled}
          PROVE  Len(WaiverHits(text, fs))
                    = Len(Hits(Blocks("glob", fs), text)) + Len(Hits(Blocks("regex", fs), text))
      <3>1. Hits(Blocks("glob", fs), text) \in Seq(Rule) /\ Hits(Blocks("regex", fs), text) \in Seq(Rule)
        BY <1>5, <2>1
      <3> QED
        BY <3>1, ConcatProperties DEF WaiverHits
    <2> QED
      BY <1>5, <2>1, <2>2, <2>3
  <1>8. /\ Len(again) = Cardinality(K) /\ DOMAIN again = 1..Cardinality(K)
        /\ \A i \in 1..Cardinality(K) :
              again[i] = [line |-> Nth(K, i), hits |-> WaiverHits(log[Nth(K, i)], files)]
    BY <1>1, <1>3, EvaluateHolds, LenProperties
  <1>9. /\ Len(findings) = Cardinality(K)
        /\ \A i \in 1..Cardinality(K) :
              findings[i] = [line |-> Nth(K, i), hits |-> WaiverHits(log[Nth(K, i)], compiled)]
    BY <1>1, EvaluateHolds
  <1> HIDE DEF again
  <1> QED
    BY <1>6, <1>7, <1>8, <1>9

\* What a judgement publishes reproduces it: read as waiver files, waive.txt
\* and exclude.txt compile, and waive each finding with as many hits.
THEOREM SnapshotAlwaysReproduces == Spec => []SnapshotReproduces
  <1>1. IInv => SnapshotReproduces
    BY PolicyAssumption, SnapshotIsReproduced
  <1> QED
    BY <1>1, Invariant, PTL
=============================================================================
