--------------------------- MODULE PipelineProofs ---------------------------
(***************************************************************************)
(* Execution implements Pipeline, and its PASS is earned, for every set of *)
(* prepared runs.  The ranks of ExecutionProofs are tied to the documented *)
(* NodeOrder: a node is in the order of an action and a flow when the      *)
(* engine can meet it there, and its place agrees with its rank.           *)
(***************************************************************************)
EXTENDS ExecutionProofs, FiniteSetTheorems, SequenceTheorems

\* A sequence of nodes without repetition, from lower to higher ranks.
Climbs(s) ==
    /\ s \in Seq(Node)
    /\ \A i, j \in DOMAIN s : i < j => Rank(s[i]) < Rank(s[j])

Occurs(n, s) == \E k \in DOMAIN s : s[k] = n

LEMMA RankOfNode ==
    ASSUME NEW n \in Node
    PROVE  Rank(n) \in Nat
  BY RankIsNat DEF Stops

LEMMA JoinClimbs ==
    ASSUME NEW s, NEW t, Climbs(s), Climbs(t),
           \A i \in DOMAIN s, j \in DOMAIN t : Rank(s[i]) < Rank(t[j])
    PROVE  Climbs(s \o t) /\ \A n : Occurs(n, s \o t) <=> Occurs(n, s) \/ Occurs(n, t)
  <1> DEFINE u == s \o t
  <1>1. /\ u \in Seq(Node) /\ Len(s) \in Nat /\ Len(t) \in Nat
        /\ DOMAIN s = 1 .. Len(s) /\ DOMAIN t = 1 .. Len(t)
        /\ DOMAIN u = 1 .. Len(s) + Len(t)
        /\ \A i \in 1 .. Len(s) : u[i] = s[i]
        /\ \A i \in 1 .. Len(t) : u[Len(s) + i] = t[i]
    BY DEF Climbs
  <1> HIDE DEF u
  <1>2. ASSUME NEW i \in DOMAIN u
        PROVE  \/ i \in DOMAIN s /\ u[i] = s[i]
               \/ i - Len(s) \in DOMAIN t /\ u[i] = t[i - Len(s)] /\ i > Len(s)
    <2>1. i \in 1 .. Len(s) \/ (i - Len(s) \in 1 .. Len(t) /\ Len(s) + (i - Len(s)) = i)
      BY <1>1
    <2> QED
      BY <1>1, <2>1
  <1>3. ASSUME NEW i \in DOMAIN u, NEW j \in DOMAIN u, i < j
        PROVE  Rank(u[i]) < Rank(u[j])
    <2>1. CASE i \in DOMAIN s /\ j \in DOMAIN s
      BY <1>1, <1>3, <2>1 DEF Climbs
    <2>2. CASE i \in DOMAIN s /\ j - Len(s) \in DOMAIN t /\ j > Len(s)
      BY <1>1, <1>2, <2>2
    <2>3. CASE i - Len(s) \in DOMAIN t /\ j - Len(s) \in DOMAIN t /\ i > Len(s) /\ j > Len(s)
      <3>1. i - Len(s) < j - Len(s) /\ u[i] = t[i - Len(s)] /\ u[j] = t[j - Len(s)]
        BY <1>1, <1>2, <1>3, <2>3
      <3> QED
        BY <2>3, <3>1 DEF Climbs
    <2>4. i \in Nat /\ j \in Nat
      BY <1>1
    <2> QED
      BY <1>1, <1>2, <1>3, <2>1, <2>2, <2>3, <2>4
  <1>4. ASSUME NEW n
        PROVE  Occurs(n, u) <=> Occurs(n, s) \/ Occurs(n, t)
    <2>1. Occurs(n, u) => Occurs(n, s) \/ Occurs(n, t)
      BY <1>2 DEF Occurs
    <2>2. Occurs(n, s) => Occurs(n, u)
      BY <1>1 DEF Occurs
    <2>3. Occurs(n, t) => Occurs(n, u)
      <3> SUFFICES ASSUME NEW k \in DOMAIN t, t[k] = n PROVE Occurs(n, u)
        BY DEF Occurs
      <3>1. Len(s) + k \in DOMAIN u /\ u[Len(s) + k] = n
        BY <1>1
      <3> QED
        BY <3>1 DEF Occurs
    <2> QED
      BY <2>1, <2>2, <2>3
  <1> QED
    BY <1>1, <1>3, <1>4 DEF u, Climbs

LEMMA Three ==
    ASSUME NEW a \in Node, NEW b \in Node, NEW c \in Node
    PROVE  LET s == <<a>> \o <<b>> \o <<c>> IN
           s \in Seq(Node) /\ DOMAIN s = 1 .. 3 /\ s[1] = a /\ s[2] = b /\ s[3] = c
  <1> DEFINE s == <<a>> \o <<b>>
             l == <<c>>
             t == s \o l
  <1>1. s \in Seq(Node) /\ Len(s) = 2 /\ s[1] = a /\ s[2] = b
    OBVIOUS
  <1>2. l \in Seq(Node) /\ Len(l) = 1 /\ l[1] = c
    OBVIOUS
  <1> HIDE DEF s, l
  <1>3. /\ t \in Seq(Node) /\ Len(t) = 3
        /\ t[1] = s[1] /\ t[2] = s[2] /\ t[2 + 1] = l[1]
    <2>1. /\ t \in Seq(Node) /\ Len(t) = Len(s) + Len(l)
          /\ \A i \in 1 .. Len(s) + Len(l) : t[i] = IF i <= Len(s) THEN s[i] ELSE l[i - Len(s)]
      BY <1>1, <1>2, ConcatProperties, Zenon
    <2> HIDE DEF t
    <2> QED
      BY <1>1, <1>2, <2>1
  <1> HIDE DEF t
  <1>4. DOMAIN t = 1 .. 3 /\ t[1] = a /\ t[2] = b /\ t[3] = c
    BY <1>1, <1>2, <1>3
  <1> QED
    BY <1>3, <1>4 DEF s, l, t

\* The tool of a phase between its hooks.
LEMMA SurroundedClimbs ==
    ASSUME NEW p \in {"ff", "analyze", "elaborate", "run"}
    PROVE  /\ Climbs(Surrounded(p))
           /\ \A n : Occurs(n, Surrounded(p)) <=>
                 n \in {<<p, "before">>, <<p, "main">>, <<p, "after">>}
  <1> DEFINE s == Surrounded(p)
  <1>2. {<<p, "before">>, <<p, "main">>, <<p, "after">>} \subseteq Node
    BY DEF Node, HookNode, MainNode, Phase
  <1>3. DOMAIN s = 1 .. 3 /\ s[1] = <<p, "before">> /\ s[2] = <<p, "main">> /\ s[3] = <<p, "after">>
        /\ s \in Seq(Node)
    BY <1>2, Three DEF Surrounded, Around
  <1> HIDE DEF s
  <1>4. Rank(s[1]) < Rank(s[2]) /\ Rank(s[2]) < Rank(s[3]) /\ Rank(s[1]) < Rank(s[3])
    BY <1>3 DEF Rank, PartRank
  <1>5. \A i \in DOMAIN s : i = 1 \/ i = 2 \/ i = 3
    BY <1>3
  <1>6. \A i, j \in DOMAIN s : i < j => Rank(s[i]) < Rank(s[j])
    BY <1>4, <1>5
  <1>7. 1 \in DOMAIN s /\ 2 \in DOMAIN s /\ 3 \in DOMAIN s
    BY <1>3
  <1>8. \A n : Occurs(n, s) <=> n \in {<<p, "before">>, <<p, "main">>, <<p, "after">>}
    BY <1>3, <1>5, <1>7 DEF Occurs
  <1> QED
    BY <1>3, <1>6, <1>8 DEF s, Climbs

LEMMA SingleClimbs ==
    ASSUME NEW m \in Node
    PROVE  Climbs(<<m>>) /\ \A n : Occurs(n, <<m>>) <=> n = m
  BY DEF Climbs, Occurs

LEMMA EmptyClimbs == Climbs(<<>>) /\ \A n : ~Occurs(n, <<>>)
  BY DEF Climbs, Occurs

\* Joining by what occurs.
LEMMA JoinByNodes ==
    ASSUME NEW s, NEW t, Climbs(s), Climbs(t),
           \A m, n : Occurs(m, s) /\ Occurs(n, t) => Rank(m) < Rank(n)
    PROVE  Climbs(s \o t) /\ \A n : Occurs(n, s \o t) <=> Occurs(n, s) \/ Occurs(n, t)
  <1>1. \A i \in DOMAIN s, j \in DOMAIN t : Rank(s[i]) < Rank(t[j])
    BY DEF Occurs
  <1> QED
    BY <1>1, JoinClimbs

LEMMA AroundBuildClimbs ==
    ASSUME NEW inner, Climbs(inner), \A n : Occurs(n, inner) => 4 < Rank(n) /\ Rank(n) < 13
    PROVE  /\ Climbs(Around("build", inner))
           /\ \A n : Occurs(n, Around("build", inner)) <=>
                 Occurs(n, inner) \/ n = <<"build", "before">> \/ n = <<"build", "after">>
  <1> DEFINE before == <<"build", "before">>
             after == <<"build", "after">>
             s == <<before>> \o inner
  <1>1. before \in Node /\ after \in Node /\ Rank(before) = 4 /\ Rank(after) = 13
    BY DEF Node, HookNode, Phase, Rank
  <1> HIDE DEF before, after
  <1>2. Climbs(s) /\ \A n : Occurs(n, s) <=> n = before \/ Occurs(n, inner)
    BY <1>1, SingleClimbs, JoinByNodes
  <1> HIDE DEF s
  <1>3. Climbs(s \o <<after>>) /\ \A n : Occurs(n, s \o <<after>>) <=> Occurs(n, s) \/ n = after
    <2>1. \A n : Occurs(n, s) => Rank(n) < Rank(after)
      BY <1>1, <1>2
    <2>2. Climbs(<<after>>) /\ \A n : Occurs(n, <<after>>) <=> n = after
      BY <1>1, SingleClimbs
    <2> QED
      BY <1>2, <2>1, <2>2, JoinByNodes
  <1>4. Around("build", inner) = s \o <<after>>
    BY DEF Around, s, before, after
  <1> QED
    BY <1>2, <1>3, <1>4 DEF before, after

\* The documented order of an action and a flow: the nodes the engine can
\* meet, from lower to higher ranks.
LEMMA NodeOrderClimbs ==
    ASSUME NEW c \in ConfigType
    PROVE  /\ Climbs(NodeOrder(c.action, c.flow))
           /\ \A n : Occurs(n, NodeOrder(c.action, c.flow)) <=> n \in Node /\ InFlow(c, n)
  <1> DEFINE ff == IF c.action = "full" THEN Surrounded("ff") ELSE <<>>
             tools == IF c.flow = "two-step" THEN Surrounded("build")
                      ELSE Around("build", Surrounded("analyze") \o Surrounded("elaborate"))
             build == IF c.action = "run" THEN <<>> ELSE tools
             run == IF c.action = "build" THEN <<>> ELSE Surrounded("run")
             Parts == {"before", "main", "after"}
  <1>0. /\ NodeOrder(c.action, c.flow) = (ff \o build) \o run
        /\ c.action \in Action /\ c.flow \in Flow
    BY DEF NodeOrder, ConfigType
  <1>1. Climbs(ff) /\ \A n : Occurs(n, ff) <=> c.action = "full" /\ n \in {<<"ff", q>> : q \in Parts}
    <2>1. CASE c.action = "full"
      BY <2>1, SurroundedClimbs
    <2>2. CASE c.action # "full"
      BY <2>2, EmptyClimbs
    <2> QED
      BY <2>1, <2>2
  <1>2. Climbs(run) /\ \A n : Occurs(n, run) <=> c.action # "build" /\ n \in {<<"run", q>> : q \in Parts}
    <2>1. CASE c.action # "build"
      BY <2>1, SurroundedClimbs
    <2>2. CASE c.action = "build"
      BY <2>2, EmptyClimbs
    <2> QED
      BY <2>1, <2>2
  <1>3. /\ Climbs(tools)
        /\ \A n : Occurs(n, tools) <=>
              \/ n \in {<<"build", "before">>, <<"build", "after">>}
              \/ c.flow = "two-step" /\ n = <<"build", "main">>
              \/ c.flow = "three-step" /\ n \in {<<"analyze", q>> : q \in Parts}
              \/ c.flow = "three-step" /\ n \in {<<"elaborate", q>> : q \in Parts}
    <2>1. CASE c.flow = "two-step"
      <3> DEFINE main == <<"build", "main">>
      <3>1. main \in Node /\ Rank(main) = 11
        BY DEF Node, MainNode, Phase, Rank
      <3>2. Climbs(<<main>>) /\ \A n : Occurs(n, <<main>>) <=> n = main
        BY <3>1, SingleClimbs
      <3>3. tools = Around("build", <<main>>)
        BY <2>1 DEF Surrounded
      <3> HIDE DEF main, tools
      <3>4. /\ Climbs(Around("build", <<main>>))
            /\ \A n : Occurs(n, Around("build", <<main>>)) <=>
                 Occurs(n, <<main>>) \/ n = <<"build", "before">> \/ n = <<"build", "after">>
        BY <3>1, <3>2, AroundBuildClimbs
      <3> QED
        BY <2>1, <3>2, <3>3, <3>4 DEF main
    <2>2. CASE c.flow = "three-step"
      <3> DEFINE a == Surrounded("analyze")
                 e == Surrounded("elaborate")
      <3>1. /\ Climbs(a) /\ \A n : Occurs(n, a) <=> n \in {<<"analyze", q>> : q \in Parts}
            /\ Climbs(e) /\ \A n : Occurs(n, e) <=> n \in {<<"elaborate", q>> : q \in Parts}
        BY SurroundedClimbs
      <3>2. /\ \A n : n \in {<<"analyze", q>> : q \in Parts} => Rank(n) \in 5 .. 7
            /\ \A n : n \in {<<"elaborate", q>> : q \in Parts} => Rank(n) \in 8 .. 10
        BY DEF Rank, PartRank
      <3>3. tools = Around("build", a \o e)
        BY <2>2
      <3> HIDE DEF a, e, tools
      <3>4. Climbs(a \o e) /\ \A n : Occurs(n, a \o e) <=> Occurs(n, a) \/ Occurs(n, e)
        BY <3>1, <3>2, JoinByNodes
      <3>5. \A n : Occurs(n, a \o e) => 4 < Rank(n) /\ Rank(n) < 13
        BY <3>1, <3>2, <3>4
      <3>6. /\ Climbs(Around("build", a \o e))
            /\ \A n : Occurs(n, Around("build", a \o e)) <=>
                 Occurs(n, a \o e) \/ n = <<"build", "before">> \/ n = <<"build", "after">>
        BY <3>4, <3>5, AroundBuildClimbs
      <3> QED
        BY <2>2, <3>1, <3>3, <3>4, <3>6
    <2> QED
      BY <1>0, <2>1, <2>2 DEF Flow
  <1>4. Climbs(build) /\ \A n : Occurs(n, build) <=> c.action # "run" /\ Occurs(n, tools)
    BY <1>3, EmptyClimbs
  <1>5. /\ \A n : Occurs(n, ff) => Rank(n) \in 1 .. 3
        /\ \A n : Occurs(n, build) => Rank(n) \in 4 .. 13
        /\ \A n : Occurs(n, run) => Rank(n) \in 15 .. 17
    BY <1>1, <1>2, <1>3, <1>4 DEF Rank, PartRank
  <1> HIDE DEF ff, tools, build, run
  <1>6. Climbs(ff \o build) /\ \A n : Occurs(n, ff \o build) <=> Occurs(n, ff) \/ Occurs(n, build)
    BY <1>1, <1>4, <1>5, JoinByNodes
  <1>7. /\ Climbs((ff \o build) \o run)
        /\ \A n : Occurs(n, (ff \o build) \o run) <=> Occurs(n, ff \o build) \/ Occurs(n, run)
    BY <1>2, <1>5, <1>6, JoinByNodes
  <1>8. ASSUME NEW n
        PROVE  Occurs(n, ff) \/ Occurs(n, build) \/ Occurs(n, run) <=> n \in Node /\ InFlow(c, n)
    BY <1>0, <1>1, <1>2, <1>3, <1>4
       DEF Node, HookNode, MainNode, Phase, InFlow, Action, Flow
  <1> QED
    BY <1>0, <1>6, <1>7, <1>8

-----------------------------------------------------------------------------
(* What has been judged is what was due.                                   *)

Judged == {evaluations[e].node : e \in DOMAIN evaluations}

\* Every node with a command that lies behind the engine has been judged.
DueBehind ==
    \A n \in Node :
        InFlow(config, n) /\ HasCommands(config, n) /\ Rank(n) < Rank(at) => n \in Judged

JudgedAreDue == \A n \in Judged : n \in Node /\ InFlow(config, n) /\ HasCommands(config, n)

\* issued counts the commands of this node, and a hook the engine has left ran
\* to its last command.
HooksComplete ==
    /\ IsFiniteSet(CommandsOf(at)) /\ Cardinality(CommandsOf(at)) = issued
    /\ \A n \in HookNode :
          n # at /\ CommandsOf(n) # {} => Cardinality(CommandsOf(n)) = config.size[n]

DInv == IInv /\ DueBehind /\ JudgedAreDue /\ HooksComplete

LEMMA DueNodes ==
    ASSUME NEW c \in ConfigType, NEW n
    PROVE  n \in Planned(c).due <=> n \in Node /\ InFlow(c, n) /\ HasCommands(c, n)
  BY NodeOrderClimbs DEF Planned, Occurs

LEMMA StartIsFirst ==
    ASSUME NEW c \in ConfigType, NEW n \in Node, InFlow(c, n)
    PROVE  ~(Rank(n) < Rank(Start(c)))
  BY DEF Start, ConfigType, Action, Node, HookNode, MainNode, Phase, InFlow, Rank, PartRank

\* Following leaves out no node of the order.
LEMMA NothingBetween ==
    ASSUME config \in ConfigType, NEW m \in Stops \ {Return}, InFlow(config, m),
           NEW n \in Node, InFlow(config, n), Rank(n) < Rank(Following(m))
    PROVE  n = m \/ Rank(n) < Rank(m)
  <1> USE DEF Stops, Node, HookNode, MainNode, Artifacts, Phase, Return, InFlow, Rank, PartRank
  <1>0. config.flow \in {"two-step", "three-step"} /\ config.action \in {"full", "build", "run"}
    BY DEF ConfigType, Flow, Action
  <1>1. CASE m = <<"build", "before">>
    BY <1>0, <1>1, Rounds DEF Following
  <1>2. CASE m = <<"build", "main">>
    BY <1>0, <1>2, Rounds DEF Following
  <1>3. CASE m = <<"analyze", "after">>
    BY <1>0, <1>3, Rounds DEF Following
  <1>4. CASE m = <<"elaborate", "after">>
    BY <1>0, <1>4, Rounds DEF Following
  <1>5. CASE m \in Artifacts
    BY <1>5 DEF Following
  <1>6. CASE m[2] = "before" /\ m[1] # "build" /\ m \in Node
    BY <1>6 DEF Following
  <1>7. CASE m[2] = "main" /\ m[1] # "build" /\ m \in Node
    BY <1>7 DEF Following
  <1>8. CASE m \in {<<"ff", "after">>, <<"build", "after">>, <<"run", "after">>}
    BY <1>0, <1>8 DEF Following
  <1>9. m \in Artifacts \/ (m \in Node /\ m = <<m[1], m[2]>> /\ m[1] \in Phase /\ m[2] \in {"before", "main", "after"})
    OBVIOUS
  <1> QED
    BY <1>1, <1>2, <1>3, <1>4, <1>5, <1>6, <1>7, <1>8, <1>9

THEOREM InitDInv == Init => DInv
  <1> SUFFICES ASSUME Init PROVE DInv
    OBVIOUS
  <1>1. IInv
    BY InitIInv
  <1>2. config \in ConfigType /\ at = Start(config) /\ issued = 0
    BY ConfigsAssumption DEF Init
  <1>3. DueBehind
    BY <1>2, StartIsFirst DEF DueBehind
  <1>4. JudgedAreDue
    BY DEF Init, JudgedAreDue, Judged
  <1>5. \A n : CommandsOf(n) = {}
    BY DEF Init, CommandsOf
  <1>6. HooksComplete
    BY <1>2, <1>5, FS_EmptySet DEF HooksComplete
  <1> QED
    BY <1>1, <1>3, <1>4, <1>6 DEF DInv

\* The next stop has had no command yet.
LEMMA NothingIssued ==
    ASSUME IInv', issued' = 0
    PROVE  CommandsOf(at)' = {}
  BY DEF IInv, NodeAccount

\* A command of this node.
LEMMA RecordAdds ==
    ASSUME IInv, NEW rc \in {0, 1, 127}, NEW dirty \in BOOLEAN, at \in Node, Record(rc, dirty), at' = at
    PROVE  /\ CommandsOf(at)' = CommandsOf(at) \cup {Len(commands) + 1}
           /\ Len(commands) + 1 \notin CommandsOf(at)
           /\ \A n : n # at => CommandsOf(n)' = CommandsOf(n)
           /\ \A i \in DOMAIN commands : commands'[i] = commands[i]
  <1> DEFINE r == [node |-> at, rc |-> rc, dirty |-> dirty]
             m == Len(commands) + 1
  <1>1. /\ commands'[m] = r /\ m \in DOMAIN commands' /\ m \notin DOMAIN commands
        /\ \A i \in DOMAIN commands : commands'[i] = commands[i] /\ i \in DOMAIN commands'
        /\ \A i \in DOMAIN commands' : i \in DOMAIN commands \/ i = m
    BY DEF IInv, TypeOK, Record
  <1>2. r.node = at
    OBVIOUS
  <1> HIDE DEF r, m
  <1>3. CommandsOf(at)' = CommandsOf(at) \cup {m}
    BY <1>1, <1>2 DEF CommandsOf
  <1>4. \A n : n # at => CommandsOf(n)' = CommandsOf(n)
    BY <1>1, <1>2 DEF CommandsOf
  <1>5. m \notin CommandsOf(at)
    BY <1>1 DEF CommandsOf
  <1> QED
    BY <1>1, <1>3, <1>4, <1>5 DEF m

LEMMA RecordKeepsDInv ==
    ASSUME DInv, IInv', NEW rc \in {0, 1, 127}, NEW dirty \in BOOLEAN, at \in Node,
           Record(rc, dirty), UNCHANGED <<config, at, evaluations>>
    PROVE  DInv'
  <1>0. IInv
    BY DEF DInv
  <1>1. DueBehind' /\ JudgedAreDue'
    BY DEF DInv, DueBehind, JudgedAreDue, Judged
  <1>2. /\ CommandsOf(at)' = CommandsOf(at) \cup {Len(commands) + 1}
        /\ Len(commands) + 1 \notin CommandsOf(at)
        /\ \A n : n # at => CommandsOf(n)' = CommandsOf(n)
    BY <1>0, RecordAdds
  <1>3. IsFiniteSet(CommandsOf(at)) /\ Cardinality(CommandsOf(at)) = issued
    BY DEF DInv, HooksComplete
  <1>4. IsFiniteSet(CommandsOf(at)') /\ Cardinality(CommandsOf(at)') = issued + 1
    BY <1>2, <1>3, FS_AddElement
  <1>5. \A n \in HookNode : n # at' /\ CommandsOf(n)' # {} => Cardinality(CommandsOf(n)') = config'.size[n]
    BY <1>2 DEF DInv, HooksComplete
  <1>6. HooksComplete'
    BY <1>4, <1>5 DEF HooksComplete, Record
  <1> QED
    BY <1>1, <1>6 DEF DInv

\* The engine leaves a stop: without commands because it has none, or judged.
LEMMA MoveOnKeepsDInv ==
    ASSUME DInv, IInv', MoveOn, at # Return, UNCHANGED <<config, commands>>,
           \A n \in Stops : n \in Judged' <=> n \in Judged \/ (n = at /\ issued > 0),
           \A n : n \in Judged' => n \in Judged \/ n = at,
           issued > 0 => at \in Node /\ HasCommands(config, at),
           issued = 0 /\ at \in Node => ~HasCommands(config, at),
           at \in HookNode /\ issued > 0 => issued = config.size[at]
    PROVE  DInv'
  <1>0. IInv /\ config \in ConfigType /\ at \in Stops /\ InFlow(config, at)
    BY Typing DEF DInv, IInv, OnPath
  <1>1. DueBehind'
    <2> SUFFICES ASSUME NEW n \in Node, InFlow(config, n), HasCommands(config, n), Rank(n) < Rank(at')
                 PROVE  n \in Judged'
      BY DEF DueBehind
    <2>1. n = at \/ Rank(n) < Rank(at)
      BY <1>0, NothingBetween DEF MoveOn
    <2>2. n \in Stops
      BY DEF Stops
    <2>3. CASE n = at
      <3>1. issued # 0
        BY <2>3
      <3> QED
        BY <1>0, <2>2, <2>3, <3>1, Typing
    <2>4. CASE Rank(n) < Rank(at)
      BY <2>2, <2>4 DEF DInv, DueBehind
    <2> QED
      BY <2>1, <2>3, <2>4
  <1>2. JudgedAreDue'
    <2>1. ASSUME NEW n \in Judged'
          PROVE  n \in Node /\ InFlow(config, n) /\ HasCommands(config, n)
      <3>1. CASE n \in Judged
        BY <3>1 DEF DInv, JudgedAreDue
      <3>2. CASE n = at /\ n \notin Judged
        <4>1. issued > 0
          BY <1>0, <2>1, <3>2
        <4> QED
          BY <1>0, <3>2, <4>1
      <3> QED
        BY <2>1, <3>1, <3>2
    <2> QED
      BY <2>1 DEF JudgedAreDue
  <1>3. HooksComplete'
    <2>1. issued' = 0
      BY DEF MoveOn
    <2>2. CommandsOf(at)' = {}
      BY <2>1, NothingIssued
    <2>4. IsFiniteSet(CommandsOf(at)') /\ Cardinality(CommandsOf(at)') = issued'
      BY <2>1, <2>2, FS_EmptySet
    <2>5. ASSUME NEW n \in HookNode, CommandsOf(n) # {}
          PROVE  Cardinality(CommandsOf(n)) = config.size[n]
      <3>1. CASE n # at
        BY <2>5, <3>1 DEF DInv, HooksComplete
      <3>2. CASE n = at
        <4>1. Cardinality(CommandsOf(at)) = issued
          BY DEF DInv, HooksComplete
        <4>2. issued > 0
          BY <1>0, <2>5, <3>2 DEF IInv, NodeAccount
        <4> QED
          BY <3>2, <4>1, <4>2
      <3> QED
        BY <3>1, <3>2
    <2>6. \A n : CommandsOf(n)' = CommandsOf(n)
      BY DEF CommandsOf
    <2> QED
      BY <2>4, <2>5, <2>6 DEF HooksComplete
  <1> QED
    BY <1>1, <1>2, <1>3 DEF DInv

LEMMA StaysKeepsDInv ==
    ASSUME DInv, IInv', UNCHANGED <<config, at, issued, commands>>,
           \A n : n \in Judged' => n \in Judged \/ (n = at /\ at \in Node /\ issued > 0),
           \A n : n \in Judged => n \in Judged'
    PROVE  DInv'
  <1>0. IInv /\ InFlow(config, at)
    BY DEF DInv, IInv, OnPath
  <1>1. DueBehind'
    BY DEF DInv, DueBehind
  <1>2. at \in Node /\ issued > 0 => HasCommands(config, at)
    BY <1>0, Typing DEF IInv, TypeOK, HasCommands, Node
  <1>3. JudgedAreDue'
    <2>1. \A n \in Judged : n \in Node /\ InFlow(config, n) /\ HasCommands(config, n)
      BY DEF DInv, JudgedAreDue
    <2>2. \A n \in Judged' : n \in Node /\ InFlow(config, n) /\ HasCommands(config, n)
      BY <1>0, <1>2, <2>1
    <2> QED
      BY <2>2 DEF JudgedAreDue
  <1>4. HooksComplete'
    BY DEF DInv, HooksComplete, CommandsOf
  <1> QED
    BY <1>1, <1>3, <1>4 DEF DInv

\* What EvaluateLog adds to the judged nodes.
LEMMA EvaluateJudges ==
    ASSUME IInv, EvaluateLog
    PROVE  /\ at \in Node /\ issued > 0 /\ at # Return
           /\ at \notin Judged
           /\ \A n : n \in Judged' <=> n \in Judged \/ n = at
  <1>1. at \in Node /\ issued > 0 /\ report = "none"
    BY DEF EvaluateLog, Working, IInv, TypeOK, Node
  <1>2. at # Return
    BY <1>1 DEF Node, HookNode, MainNode, Return, Phase
  <1>3. at \notin Judged
    BY <1>1 DEF IInv, PastIsClean, Judged
  <1> DEFINE r == [node |-> at, passed |-> ~log[LogOf(at)]]
  <1>4. /\ \A e \in DOMAIN evaluations : evaluations'[e] = evaluations[e] /\ e \in DOMAIN evaluations'
        /\ Len(evaluations) + 1 \in DOMAIN evaluations' /\ evaluations'[Len(evaluations) + 1] = r
        /\ \A e \in DOMAIN evaluations' : e \in DOMAIN evaluations \/ e = Len(evaluations) + 1
    <2>1. evaluations' = Append(evaluations, r) /\ evaluations \in Seq([node : Node, passed : BOOLEAN])
      BY DEF EvaluateLog, IInv, TypeOK
    <2> HIDE DEF r
    <2> QED
      BY <2>1
  <1>5. r.node = at
    OBVIOUS
  <1> HIDE DEF r
  <1>6. \A n : n \in Judged' <=> n \in Judged \/ n = at
    BY <1>4, <1>5 DEF Judged
  <1> QED
    BY <1>1, <1>2, <1>3, <1>6

THEOREM NextDInv == DInv /\ [Next]_vars => DInv'
  <1> SUFFICES ASSUME DInv, [Next]_vars PROVE DInv'
    OBVIOUS
  <1>0. IInv /\ IInv'
    BY NextIInv DEF DInv
  <1>t. config.size \in [HookNode -> Nat] /\ issued \in Nat /\ at \in Stops
    BY <1>0, Typing
  <1>1. CASE SkipHook
    <2>1. /\ issued = 0 /\ at # Return /\ at \in Node /\ ~HasCommands(config, at)
          /\ MoveOn /\ UNCHANGED <<config, commands, evaluations>>
      BY <1>0, <1>t, <1>1
         DEF SkipHook, IInv, TypeOK, Node, HookNode, MainNode, Return, Phase, HasCommands
    <2>2. Judged' = Judged
      BY <2>1 DEF Judged
    <2> QED
      BY <1>0, <2>1, <2>2, MoveOnKeepsDInv
  <1>2. CASE HookCommand
    <2>1. PICK rc \in {0, 1}, dirty \in BOOLEAN : Record(rc, dirty)
      BY <1>2 DEF HookCommand, Record
    <2>2. at \in Node /\ UNCHANGED <<config, at, evaluations>>
      BY <1>2 DEF HookCommand, Node
    <2> QED
      BY <1>0, <2>1, <2>2, RecordKeepsDInv DEF Record
  <1>3. CASE Flatten
    <2>1. PICK rc \in {0, 1}, dirty \in BOOLEAN : Record(rc, dirty)
      BY <1>3 DEF Flatten, Record
    <2>2. at \in Node /\ UNCHANGED <<config, at, evaluations>>
      BY <1>3 DEF Flatten, Node, MainNode, Phase
    <2> QED
      BY <1>0, <2>1, <2>2, RecordKeepsDInv DEF Record
  <1>4. CASE Tool
    <2>1. PICK rc \in {0, 1, 127}, dirty \in BOOLEAN : Record(rc, dirty)
      BY <1>4 DEF Tool, Record
    <2>2. at \in Node /\ UNCHANGED <<config, at, evaluations>>
      BY <1>4 DEF Tool, Node
    <2> QED
      BY <1>0, <2>1, <2>2, RecordKeepsDInv DEF Record
  <1>5. CASE EvaluateLog
    <2>1. /\ at \in Node /\ issued > 0 /\ at # Return
          /\ \A n : n \in Judged' <=> n \in Judged \/ n = at
      BY <1>0, <1>5, EvaluateJudges
    <2>2. UNCHANGED <<config, commands>>
      BY <1>5 DEF EvaluateLog
    <2>3. HasCommands(config, at)
      BY <1>0, <1>t, <2>1 DEF IInv, TypeOK, HasCommands, Node
    <2>4. CASE UNCHANGED <<at, issued>>
      BY <1>0, <2>1, <2>2, <2>4, StaysKeepsDInv
    <2>5. CASE MoveOn /\ ~failed
      <3>1. at \in HookNode => issued = config.size[at]
        BY <1>0, <1>t, <1>5, <2>5 DEF EvaluateLog, HookGoesOn, IInv, TypeOK
      <3> QED
        BY <1>0, <2>1, <2>2, <2>3, <2>5, <3>1, MoveOnKeepsDInv
    <2> QED
      BY <1>5, <2>4, <2>5 DEF EvaluateLog
  <1>6. CASE CheckArtifacts
    <2>1. /\ issued = 0 /\ at # Return /\ at \notin Node
          /\ UNCHANGED <<config, commands, evaluations>>
      BY <1>0, <1>6
         DEF CheckArtifacts, Artifacts, Node, HookNode, MainNode, IInv, TypeOK, Return, Phase
    <2>2. Judged' = Judged
      BY <2>1 DEF Judged
    <2>3. CASE MoveOn
      <3>1. at \notin HookNode
        BY <2>1 DEF Node
      <3> QED
        BY <1>0, <2>1, <2>2, <2>3, <3>1, MoveOnKeepsDInv
    <2>4. CASE UNCHANGED <<at, issued>>
      BY <1>0, <2>1, <2>2, <2>4, StaysKeepsDInv
    <2> QED
      BY <1>6, <2>3, <2>4 DEF CheckArtifacts
  <1>7. ASSUME UNCHANGED <<config, at, issued, commands, evaluations>>
        PROVE  DInv'
    <2>1. Judged' = Judged
      BY <1>7 DEF Judged
    <2> QED
      BY <1>0, <1>7, <2>1, StaysKeepsDInv
  <1>8. CASE Report \/ Raise \/ UNCHANGED vars
    BY <1>7, <1>8 DEF Report, Raise, vars
  <1> QED
    BY <1>1, <1>2, <1>3, <1>4, <1>5, <1>6, <1>8 DEF Next, Progress

THEOREM DueInvariance == Spec => []DInv
  BY InitDInv, NextDInv, PTL DEF Spec

\* At the return, what is judged is all that was due.
LEMMA ReturnMeansAll ==
    ASSUME DInv, at = Return
    PROVE  Judged = Planned(config).due
  <1>1. config \in ConfigType
    BY Typing DEF DInv
  <1>2. \A n \in Node : Rank(n) < Rank(Return)
    BY DEF Rank, PartRank, Return, Node, HookNode, MainNode, Phase
  <1>3. \A n \in Node : InFlow(config, n) /\ HasCommands(config, n) => n \in Judged
    BY <1>2 DEF DInv, DueBehind
  <1>4. \A n \in Judged : n \in Node /\ InFlow(config, n) /\ HasCommands(config, n)
    BY DEF DInv, JudgedAreDue
  <1> QED
    BY <1>1, <1>3, <1>4, DueNodes

\* Among nodes of the order, a lower rank is an earlier place.
LEMMA RanksAreOrder ==
    ASSUME config \in ConfigType,
           NEW m \in Node, NEW n \in Node, InFlow(config, m), InFlow(config, n), Rank(m) < Rank(n)
    PROVE  Precedes(m, n)
  <1> DEFINE order == NodeOrder(config.action, config.flow)
  <1>1. /\ order \in Seq(Node)
        /\ \A i, j \in DOMAIN order : i < j => Rank(order[i]) < Rank(order[j])
        /\ Occurs(m, order) /\ Occurs(n, order)
    BY NodeOrderClimbs DEF Climbs
  <1>2. Planned(config).order = order
    BY DEF Planned
  <1> HIDE DEF order
  <1>3. PICK i \in DOMAIN order : order[i] = m
    BY <1>1 DEF Occurs
  <1>4. PICK j \in DOMAIN order : order[j] = n
    BY <1>1 DEF Occurs
  <1>5. i \in Nat /\ j \in Nat /\ Rank(m) \in Nat /\ Rank(n) \in Nat
    BY <1>1, RankOfNode
  <1>6. i < j
    BY <1>1, <1>3, <1>4, <1>5
  <1> QED
    BY <1>2, <1>3, <1>4, <1>6 DEF Precedes

-----------------------------------------------------------------------------
(* What it gives.                                                          *)

\* PASS is given only when each planned node ran all its commands, each
\* returned 0, each log was judged clean, in the documented order
\* (PassIsEarned).
THEOREM PassEarned == Spec => []PassIsEarned
  <1>1. ASSUME DInv PROVE PassIsEarned
    <2> SUFFICES ASSUME report = "PASS"
                 PROVE  /\ {evaluations[e].node : e \in DOMAIN evaluations} = Planned(config).due
                        /\ \A e, f \in DOMAIN evaluations :
                              e < f => Precedes(evaluations[e].node, evaluations[f].node)
                        /\ \A e \in DOMAIN evaluations : evaluations[e].passed
                        /\ \A i \in DOMAIN commands : commands[i].rc = 0
                        /\ \A n \in HookNode :
                              CommandsOf(n) # {} => Cardinality(CommandsOf(n)) = config.size[n]
      BY DEF PassIsEarned
    <2> USE <1>1
    <2>0. IInv /\ config \in ConfigType
      BY Typing DEF DInv
    <2>1. at = Return /\ Return \notin Node
      BY <2>0 DEF IInv, PastIsClean, Return, Node, HookNode, MainNode, Phase
    <2>2. Judged = Planned(config).due
      BY <2>1, ReturnMeansAll
    <2>3. ASSUME NEW e \in DOMAIN evaluations, NEW f \in DOMAIN evaluations, e < f
          PROVE  Precedes(evaluations[e].node, evaluations[f].node)
      <3>1. evaluations[e].node \in Judged /\ evaluations[f].node \in Judged
        BY DEF Judged
      <3>2. /\ evaluations[e].node \in Node /\ InFlow(config, evaluations[e].node)
            /\ evaluations[f].node \in Node /\ InFlow(config, evaluations[f].node)
        BY <3>1 DEF DInv, JudgedAreDue
      <3>3. Rank(evaluations[e].node) < Rank(evaluations[f].node)
        BY <2>3 DEF DInv, IInv, EvaluationsClimb
      <3> QED
        BY <2>0, <3>2, <3>3, RanksAreOrder
    <2>4. /\ \A e \in DOMAIN evaluations : evaluations[e].node # at
          /\ \A i \in DOMAIN commands : commands[i].node # at
      BY <2>0, <2>1, Typing
    <2>5. /\ \A e \in DOMAIN evaluations : evaluations[e].passed
          /\ \A i \in DOMAIN commands : commands[i].rc = 0
      BY <2>0, <2>4 DEF IInv, PastIsClean
    <2>6. \A n \in HookNode : CommandsOf(n) # {} => Cardinality(CommandsOf(n)) = config.size[n]
      BY <2>1 DEF DInv, HooksComplete, Node
    <2> QED
      BY <2>2, <2>3, <2>5, <2>6 DEF Judged
  <1> QED
    BY <1>1, DueInvariance, PTL

\* Before there is a verdict, every judged node is clean.
LEMMA CleanIsJudged == IInv /\ report = "none" => Clean = Judged
  <1> SUFFICES ASSUME IInv, report = "none" PROVE Clean = Judged
    OBVIOUS
  <1>1. \A e \in DOMAIN evaluations : evaluations[e].passed /\ evaluations[e].node # at
    BY DEF IInv, PastIsClean
  <1>2. \A e \in DOMAIN evaluations : CleanCommands(evaluations[e].node)
    BY <1>1 DEF IInv, PastIsClean, CleanCommands, CommandsOf
  <1>3. {f \in DOMAIN evaluations : evaluations[f].passed /\ CleanCommands(evaluations[f].node)}
          = DOMAIN evaluations
    BY <1>1, <1>2
  <1> QED
    BY <1>3 DEF Clean, Judged

LEMMA CleanIsJudgedNext == (IInv /\ report = "none" => Clean = Judged)'
  BY CleanIsJudged, PTL

\* Documented's Pass, with the place of the node that was passed.
LEMMA EvaluateIsPass ==
    ASSUME DInv, EvaluateLog, report' = "none", IInv'
    PROVE  Documented!Pass
  <1>0. IInv /\ report = "none" /\ config \in ConfigType /\ config' = config
    BY Typing DEF DInv, EvaluateLog, Working
  <1>1. /\ at \in Node /\ issued > 0 /\ at \notin Judged
        /\ \A n : n \in Judged' <=> n \in Judged \/ n = at
    BY <1>0, EvaluateJudges
  <1>2. Clean = Judged /\ Clean' = Judged'
    BY <1>0, CleanIsJudged, CleanIsJudgedNext
  <1>3. InFlow(config, at) /\ HasCommands(config, at)
    BY <1>0, <1>1, Typing DEF IInv, OnPath, TypeOK, HasCommands, Node
  <1> DEFINE order == NodeOrder(config.action, config.flow)
  <1>4. Planned(config).order = order
    BY DEF Planned
  <1>5. /\ order \in Seq(Node) /\ Occurs(at, order)
        /\ \A i, j \in DOMAIN order : i < j => Rank(order[i]) < Rank(order[j])
    BY <1>0, <1>1, <1>3, NodeOrderClimbs DEF Climbs
  <1> HIDE DEF order
  <1>6. PICK k \in DOMAIN order : order[k] = at
    BY <1>5 DEF Occurs
  <1>7. at \in Planned(config).due \ Clean
    BY <1>0, <1>1, <1>2, <1>3, DueNodes
  <1>8. ASSUME NEW j \in 1 .. k - 1, order[j] \in Planned(config).due
        PROVE  order[j] \in Clean
    <2>1. j \in DOMAIN order /\ j < k
      BY <1>5, <1>6
    <2>2. Rank(order[j]) < Rank(at)
      BY <1>5, <1>6, <2>1
    <2>3. order[j] \in Node /\ InFlow(config, order[j]) /\ HasCommands(config, order[j])
      BY <1>0, <1>8, DueNodes
    <2> QED
      BY <1>2, <2>2, <2>3 DEF DInv, DueBehind
  <1>9. Clean' = Clean \cup {order[k]}
    BY <1>1, <1>2, <1>6
  <1>10. report' = report /\ Planned(config)' = Planned(config)
    BY <1>0
  <1> QED
    BY <1>0, <1>4, <1>6, <1>7, <1>8, <1>9, <1>10 DEF Documented!Pass

\* A verdict that is no success leaves the passed nodes as they are.
LEMMA FailedIsNotClean ==
    ASSUME DInv, EvaluateLog, report' # "none"
    PROVE  Clean' = Clean /\ report' = "FAIL" /\ report = "none" /\ config' = config
  <1>0. IInv /\ report = "none"
    BY DEF DInv, EvaluateLog, Working
  <1>1. /\ UNCHANGED <<config, commands, at>> /\ report' = "FAIL"
        /\ failed \/ log[LogOf(at)]
    BY <1>0 DEF EvaluateLog
  <1> DEFINE r == [node |-> at, passed |-> ~log[LogOf(at)]]
             m == Len(evaluations) + 1
  <1>2. /\ \A e \in DOMAIN evaluations : evaluations'[e] = evaluations[e] /\ e \in DOMAIN evaluations'
        /\ m \in DOMAIN evaluations' /\ evaluations'[m] = r
        /\ \A e \in DOMAIN evaluations' : e \in DOMAIN evaluations \/ e = m
    <2>1. evaluations' = Append(evaluations, r) /\ evaluations \in Seq([node : Node, passed : BOOLEAN])
      BY <1>0 DEF EvaluateLog, IInv, TypeOK, Node
    <2> HIDE DEF r
    <2> QED
      BY <2>1
  <1>3. r.node = at /\ (r.passed <=> ~log[LogOf(at)])
    OBVIOUS
  <1> HIDE DEF r, m
  <1>4. failed => ~CleanCommands(at)
    BY <1>0 DEF IInv, NodeAccount, CleanCommands
  <1>5. \A n : CleanCommands(n)' <=> CleanCommands(n)
    BY <1>1 DEF CleanCommands, CommandsOf
  <1>6. \A n : n \in Clean' <=> n \in Clean
    <2>1. \A n : n \in Clean <=> \E e \in DOMAIN evaluations :
             n = evaluations[e].node /\ evaluations[e].passed /\ CleanCommands(n)
      BY DEF Clean
    <2>2. \A n : n \in Clean' <=> \E e \in DOMAIN evaluations' :
             n = evaluations'[e].node /\ evaluations'[e].passed /\ CleanCommands(n)
      BY <1>1 DEF Clean, CleanCommands, CommandsOf
    <2>3. ~(evaluations'[m].passed /\ CleanCommands(evaluations'[m].node))
      BY <1>1, <1>2, <1>3, <1>4
    <2> QED
      BY <1>2, <2>1, <2>2, <2>3
  <1> QED
    BY <1>0, <1>1, <1>6 DEF Clean

\* Execution implements Pipeline: it passes the nodes that are due one after
\* the other in the documented order, stops at the first that fails, and its
\* verdict is the one Pipeline gives (ImplementsPipeline).
THEOREM Refinement == Spec => ImplementsPipeline
  <1>1. Init => Documented!Init
    <2> SUFFICES ASSUME Init PROVE Documented!Init
      OBVIOUS
    <2>1. Clean = {}
      BY DEF Init, Clean
    <2> QED
      BY <2>1 DEF Init, Documented!Init
  <1>2. DInv /\ DInv' /\ [Next]_vars => [Documented!Next]_(Documented!vars)
    <2> SUFFICES ASSUME DInv, DInv', [Next]_vars
                 PROVE  Documented!Next \/ UNCHANGED Documented!vars
      OBVIOUS
    <2>0. IInv /\ IInv'
      BY DEF DInv
    <2>1. ASSUME UNCHANGED <<config, evaluations, report>>, report = "none"
          PROVE  UNCHANGED Documented!vars
      <3>1. Clean = Judged /\ Clean' = Judged' /\ Judged' = Judged
        BY <2>0, <2>1, CleanIsJudged, CleanIsJudgedNext DEF Judged
      <3> QED
        BY <2>1, <3>1 DEF Documented!vars, Planned
    <2>2. CASE SkipHook \/ HookCommand \/ Flatten \/ Tool
      BY <2>1, <2>2 DEF SkipHook, HookCommand, Flatten, Tool, Working
    <2>3. CASE EvaluateLog
      <3>1. CASE report' = "none"
        BY <2>0, <2>3, <3>1, EvaluateIsPass DEF Documented!Next
      <3>2. CASE report' # "none"
        BY <2>3, <3>2, FailedIsNotClean DEF Documented!Next, Documented!Stop, Planned
      <3> QED
        BY <3>1, <3>2
    <2>4. ASSUME UNCHANGED <<config, commands, evaluations>>
          PROVE  Clean' = Clean /\ Planned(config)' = Planned(config)
      BY <2>4 DEF Clean, CleanCommands, CommandsOf, Planned
    <2>5. CASE CheckArtifacts
      <3>1. CASE report' = report
        BY <2>1, <2>5, <3>1 DEF CheckArtifacts, Working
      <3>2. CASE report' = "FAIL"
        BY <2>4, <2>5, <3>2 DEF CheckArtifacts, Working, Documented!Next, Documented!Stop
      <3> QED
        BY <2>5, <3>1, <3>2 DEF CheckArtifacts
    <2>6. CASE Raise
      BY <2>4, <2>6 DEF Raise, Working, Documented!Next, Documented!Stop
    <2>7. CASE Report
      <3>1. report = "none" /\ at = Return /\ UNCHANGED <<config, commands, evaluations>>
        BY <2>7 DEF Report, Working
      <3>2. Clean = Planned(config).due
        BY <2>0, <3>1, CleanIsJudged, ReturnMeansAll
      <3>3. <<"run", "main">> \in Planned(config).due <=> config.action # "build"
        BY <2>0, Typing, DueNodes
           DEF InFlow, HasCommands, Node, MainNode, Phase
      <3>4. report' = IF <<"run", "main">> \in Planned(config).due THEN "PASS" ELSE "NOT_RUN"
        BY <2>7, <3>3 DEF Report
      <3> QED
        BY <2>4, <3>1, <3>2, <3>4 DEF Documented!Next, Documented!Finish, Documented!Simulates
    <2>8. CASE UNCHANGED vars
      BY <2>4, <2>8 DEF vars, Documented!vars
    <2> QED
      BY <2>2, <2>3, <2>5, <2>6, <2>7, <2>8 DEF Next, Progress
  <1> QED
    BY <1>1, <1>2, DueInvariance, PTL DEF Spec, ImplementsPipeline, Documented!Spec
=============================================================================
