-------------------------- MODULE ExecutionProofs --------------------------
(***************************************************************************)
(* Proofs about Execution, for every set of prepared runs and every litter *)
(* of old logs.  The engine never returns to a node: Rank numbers the      *)
(* nodes and checks, and each step to the next one climbs.  Hence what the *)
(* engine holds about the current node (issued, failed, its log) is about  *)
(* all of that node's commands, and about no other's.                      *)
(***************************************************************************)
EXTENDS Execution, TLAPS

Stops == Node \cup Artifacts \cup {Return}

PartRank(part) ==
    CASE part = "before" -> 1 [] part = "main" -> 2 [] part = "after" -> 3 [] OTHER -> 0

\* The position of a node in the longest order there is.
Rank(n) ==
    CASE n[1] = "ff"        -> PartRank(n[2])
      [] n[1] = "analyze"   -> 4 + PartRank(n[2])
      [] n[1] = "elaborate" -> 7 + PartRank(n[2])
      [] n[1] = "build"     -> IF n[2] = "before" THEN 4 ELSE
                               IF n[2] = "main" THEN 11 ELSE
                               IF n[2] = "artifacts" THEN 12 ELSE 13
      [] n[1] = "run"       -> 14 + PartRank(n[2])
      [] OTHER              -> 18

\* The engine meets a stage only in an action that has it, and a build step
\* only in the flow that has it.
InFlow(c, n) ==
    /\ n = <<"build", "main">> => c.flow = "two-step"
    /\ n[1] \in {"analyze", "elaborate"} => c.flow = "three-step"
    /\ n[1] = "ff" => c.action = "full"
    /\ n[1] \in {"build", "analyze", "elaborate"} => c.action # "run"
    /\ n[1] = "run" => c.action # "build"

OnPath == InFlow(config, at)

\* Commands come in the order of their nodes, none from beyond where the
\* engine is.
CommandsClimb ==
    /\ \A i \in DOMAIN commands :
          commands[i].node = at \/ Rank(commands[i].node) < Rank(at)
    /\ \A i, j \in DOMAIN commands :
          i < j => Rank(commands[i].node) <= Rank(commands[j].node)

EvaluationsClimb ==
    /\ \A e \in DOMAIN evaluations :
          evaluations[e].node = at \/ Rank(evaluations[e].node) < Rank(at)
    /\ \A e, f \in DOMAIN evaluations :
          e < f => Rank(evaluations[e].node) < Rank(evaluations[f].node)

\* issued, failed and the open log account for the commands of this node.
NodeAccount ==
    /\ issued > 0 => /\ Len(commands) > 0
                     /\ commands[Len(commands)].node = at
                     /\ log[LogOf(at)] <=> \E i \in CommandsOf(at) : commands[i].dirty
    /\ CommandsOf(at) # {} => issued > 0
    /\ failed <=> \E i \in CommandsOf(at) : commands[i].rc # 0

\* What lies behind the engine succeeded and was judged.
PastIsClean ==
    /\ \A i \in DOMAIN commands :
          commands[i].node # at => /\ commands[i].rc = 0
                                   /\ \E e \in DOMAIN evaluations :
                                         evaluations[e].node = commands[i].node
    /\ \A e \in DOMAIN evaluations :
          /\ CommandsOf(evaluations[e].node) # {}
          /\ evaluations[e].node = at \/ evaluations[e].passed
          /\ report = "none" => evaluations[e].node # at
    /\ report \in {"PASS", "NOT_RUN"} => at = Return

\* A FAIL is given at a node that was judged, or at a missing artifact.
FailIsJudged ==
    report = "FAIL" =>
        \/ at \in Artifacts /\ ~simv
        \/ /\ issued > 0
           /\ \E e \in DOMAIN evaluations :
                 evaluations[e].node = at /\ (failed \/ ~evaluations[e].passed)

\* A hook that goes on after a failure was told to.
KeptGoing ==
    \A i, j \in DOMAIN commands :
        (i < j /\ commands[i].rc # 0)
          => /\ commands[j].node = commands[i].node
             /\ commands[i].node \in HookNode
             /\ config.keepGoing[commands[i].node[1]]

IInv ==
    /\ TypeOK /\ OnPath /\ CommandsClimb /\ EvaluationsClimb /\ NodeAccount
    /\ PastIsClean /\ FailIsJudged /\ KeptGoing /\ LogCoversTheNode

-----------------------------------------------------------------------------
LEMMA StopShape ==
    ASSUME NEW n \in Stops
    PROVE  \/ n \in {<<p, q>> : p \in Phase, q \in {"before", "main", "after"}}
           \/ n = <<"build", "artifacts">> \/ n = <<"run", "artifacts">> \/ n = <<"execute", "return">>
  BY DEF Stops, Node, HookNode, MainNode, Artifacts, Return

LEMMA RankIsNat ==
    ASSUME NEW n \in Stops
    PROVE  Rank(n) \in Nat
  BY StopShape DEF Rank, PartRank, Phase

LEMMA StartIsAStop ==
    ASSUME NEW c \in ConfigType
    PROVE  Start(c) \in Stops /\ InFlow(c, Start(c))
  BY DEF Start, ConfigType, Action, Stops, Node, HookNode, MainNode, Artifacts, Phase, InFlow

\* Where the loop over the build steps goes, in each flow.
LEMMA Rounds ==
    ASSUME config \in ConfigType
    PROVE  /\ config.flow = "two-step" =>
                 /\ BuildRound(1) = <<"build", "main">>
                 /\ BuildRound(RoundOf("build") + 1) = <<"build", "artifacts">>
           /\ config.flow = "three-step" =>
                 /\ BuildRound(1) = <<"analyze", "before">>
                 /\ BuildRound(RoundOf("analyze") + 1) = <<"elaborate", "before">>
                 /\ BuildRound(RoundOf("elaborate") + 1) = <<"build", "artifacts">>
  <1>1. ASSUME config.flow = "two-step"
        PROVE  /\ BuildRound(1) = <<"build", "main">>
               /\ BuildRound(RoundOf("build") + 1) = <<"build", "artifacts">>
    <2>1. BuildSteps(config.flow) = <<"build">>
      BY <1>1 DEF BuildSteps
    <2>2. RoundOf("build") = 1
      BY <2>1 DEF RoundOf
    <2> QED
      BY <2>1, <2>2 DEF BuildRound
  <1>2. ASSUME config.flow = "three-step"
        PROVE  /\ BuildRound(1) = <<"analyze", "before">>
               /\ BuildRound(RoundOf("analyze") + 1) = <<"elaborate", "before">>
               /\ BuildRound(RoundOf("elaborate") + 1) = <<"build", "artifacts">>
    <2>1. BuildSteps(config.flow) = <<"analyze", "elaborate">>
      BY <1>2 DEF BuildSteps
    <2>2. RoundOf("analyze") = 1 /\ RoundOf("elaborate") = 2
      BY <2>1 DEF RoundOf
    <2> QED
      BY <2>1, <2>2 DEF BuildRound
  <1> QED
    BY <1>1, <1>2

\* The engine goes from stop to stop of its flow, and only forward.
LEMMA FollowingClimbs ==
    ASSUME config \in ConfigType, NEW n \in Stops \ {Return}, InFlow(config, n)
    PROVE  /\ Following(n) \in Stops /\ InFlow(config, Following(n))
           /\ Rank(n) < Rank(Following(n))
  <1> USE DEF Stops, Node, HookNode, MainNode, Artifacts, Phase, Return, InFlow, Rank, PartRank
  <1>0. config.flow \in {"two-step", "three-step"}
    BY DEF ConfigType, Flow
  <1>1. CASE n = <<"build", "before">>
    BY <1>0, <1>1, Rounds DEF Following
  <1>2. CASE n = <<"build", "main">>
    BY <1>0, <1>2, Rounds DEF Following
  <1>3. CASE n = <<"analyze", "after">>
    BY <1>0, <1>3, Rounds DEF Following
  <1>4. CASE n = <<"elaborate", "after">>
    BY <1>0, <1>4, Rounds DEF Following
  <1>5. CASE n \in Artifacts
    BY <1>5 DEF Following
  <1>6. CASE n[2] = "before" /\ n[1] # "build" /\ n \in Node
    BY <1>6 DEF Following
  <1>7. CASE n[2] = "main" /\ n[1] # "build" /\ n \in Node
    BY <1>7 DEF Following
  <1>8. CASE n \in {<<"ff", "after">>, <<"build", "after">>, <<"run", "after">>}
    BY <1>8 DEF Following
  <1>9. n \in Artifacts \/ (n \in Node /\ n = <<n[1], n[2]>> /\ n[1] \in Phase /\ n[2] \in {"before", "main", "after"})
    OBVIOUS
  <1> QED
    BY <1>1, <1>2, <1>3, <1>4, <1>5, <1>6, <1>7, <1>8, <1>9

-----------------------------------------------------------------------------
THEOREM InitIInv == Init => IInv
  <1> SUFFICES ASSUME Init PROVE IInv
    OBVIOUS
  <1> USE DEF Init
  <1>1. config \in ConfigType
    BY ConfigsAssumption
  <1>2. at \in Stops /\ OnPath
    BY <1>1, StartIsAStop DEF OnPath
  <1>3. CommandsOf(at) = {} /\ DOMAIN commands = {} /\ DOMAIN evaluations = {}
    BY DEF CommandsOf
  <1>4. TypeOK
    <2>1. log \in [Node -> BOOLEAN]
      OBVIOUS
    <2>2. config.size \in [HookNode -> Nat]
      BY <1>1 DEF ConfigType
    <2>3. issued <= IF at \in HookNode THEN config.size[at] ELSE IF at \in MainNode THEN 1 ELSE 0
      BY <2>2
    <2>4. /\ commands \in Seq([node : Node, rc : {0, 1, 127}, dirty : BOOLEAN])
          /\ evaluations \in Seq([node : Node, passed : BOOLEAN])
      OBVIOUS
    <2> QED
      BY <1>2, <2>1, <2>3, <2>4 DEF TypeOK, Stops
  <1>5. CommandsClimb /\ EvaluationsClimb /\ NodeAccount /\ PastIsClean
    BY <1>3 DEF CommandsClimb, EvaluationsClimb, NodeAccount, PastIsClean
  <1>6. FailIsJudged /\ KeptGoing /\ LogCoversTheNode
    BY <1>3 DEF FailIsJudged, KeptGoing, LogCoversTheNode
  <1> QED
    BY <1>2, <1>4, <1>5, <1>6 DEF IInv

-----------------------------------------------------------------------------
(* Steps.                                                                  *)

\* Elements of a sequence.
LEMMA SeqElements ==
    ASSUME NEW S, NEW s \in Seq(S)
    PROVE  \A i \in DOMAIN s : s[i] \in S
  OBVIOUS

\* What TypeOK says of the parts the arguments below use.
LEMMA Typing ==
    ASSUME IInv
    PROVE  /\ config \in Configs /\ config \in ConfigType
           /\ config.size \in [HookNode -> Nat]
           /\ at \in Stops /\ issued \in Nat /\ failed \in BOOLEAN
           /\ Len(commands) \in Nat /\ DOMAIN commands = 1 .. Len(commands)
           /\ Len(evaluations) \in Nat /\ DOMAIN evaluations = 1 .. Len(evaluations)
           /\ \A i \in DOMAIN commands : commands[i].node \in Node
           /\ \A e \in DOMAIN evaluations :
                 evaluations[e].node \in Node /\ evaluations[e].passed \in BOOLEAN
  <1> USE DEF IInv, TypeOK
  <1>1. config \in ConfigType /\ config.size \in [HookNode -> Nat]
    BY ConfigsAssumption DEF ConfigType
  <1>2. /\ Len(commands) \in Nat /\ DOMAIN commands = 1 .. Len(commands)
        /\ \A i \in DOMAIN commands : commands[i].node \in Node
    <2>1. commands \in Seq([node : Node, rc : {0, 1, 127}, dirty : BOOLEAN])
      OBVIOUS
    <2>2. \A i \in DOMAIN commands : commands[i] \in [node : Node, rc : {0, 1, 127}, dirty : BOOLEAN]
      BY <2>1, SeqElements
    <2> QED
      BY <2>1, <2>2
  <1>3. /\ Len(evaluations) \in Nat /\ DOMAIN evaluations = 1 .. Len(evaluations)
        /\ \A e \in DOMAIN evaluations :
              evaluations[e].node \in Node /\ evaluations[e].passed \in BOOLEAN
    <2>1. evaluations \in Seq([node : Node, passed : BOOLEAN])
      OBVIOUS
    <2>2. \A e \in DOMAIN evaluations : evaluations[e] \in [node : Node, passed : BOOLEAN]
      BY <2>1, SeqElements
    <2> QED
      BY <2>1, <2>2
  <1> QED
    BY <1>1, <1>2, <1>3 DEF Stops

\* At the stop it moves to, the engine has done nothing yet.
LEMMA MovesOnFresh ==
    ASSUME IInv, MoveOn, at # Return, config' = config
    PROVE  /\ at' \in Stops /\ OnPath'
           /\ Rank(at) \in Nat /\ Rank(at') \in Nat /\ Rank(at) < Rank(at')
           /\ issued' = 0 /\ ~failed'
           /\ \A n \in Stops : Rank(n) <= Rank(at) => n # at'
           /\ \A n \in Stops : n = at \/ Rank(n) < Rank(at) => Rank(n) < Rank(at') /\ n # at'
  <1>1. at \in Stops /\ config \in ConfigType
    BY Typing
  <1>2. /\ at' \in Stops /\ Rank(at) < Rank(at') /\ OnPath'
    BY <1>1, FollowingClimbs DEF MoveOn, IInv, OnPath
  <1>3. \A n \in Stops : Rank(n) \in Nat
    BY RankIsNat
  <1>4. \A n \in Stops : n = at \/ Rank(n) < Rank(at) => Rank(n) < Rank(at') /\ n # at'
    BY <1>1, <1>2, <1>3
  <1>5. \A n \in Stops : Rank(n) <= Rank(at) => n # at'
    BY <1>1, <1>2, <1>3
  <1> QED
    BY <1>1, <1>2, <1>3, <1>4, <1>5 DEF MoveOn

\* The engine moves on from a stop at which no command was due.
LEMMA PassesWithoutCommand ==
    ASSUME IInv, report = "none", MoveOn, at # Return, issued = 0,
           UNCHANGED <<config, commands, evaluations, log, simv, report>>
    PROVE  IInv'
  <1> USE Typing, MovesOnFresh
  <1>1. TypeOK'
    <2>1. issued' <= IF at' \in HookNode THEN config'.size[at'] ELSE IF at' \in MainNode THEN 1 ELSE 0
      BY SMT
    <2>2. at' \in Stops /\ issued' \in Nat /\ failed' \in BOOLEAN
      BY DEF MoveOn
    <2> QED
      BY <2>1, <2>2 DEF IInv, TypeOK, Stops
  <1>2. CommandsOf(at) = {} /\ \A i \in DOMAIN commands : commands[i].node # at
    BY DEF IInv, NodeAccount, CommandsOf
  <1>3. \A i \in DOMAIN commands : commands[i].node \in Stops /\ commands[i].node # at'
                                   /\ Rank(commands[i].node) < Rank(at')
    BY DEF IInv, CommandsClimb, Stops
  <1>4. \A e \in DOMAIN evaluations : evaluations[e].node \in Stops /\ evaluations[e].node # at'
                                   /\ Rank(evaluations[e].node) < Rank(at')
    BY DEF IInv, EvaluationsClimb, Stops
  <1>5. CommandsClimb' /\ EvaluationsClimb'
    BY <1>3, <1>4 DEF IInv, CommandsClimb, EvaluationsClimb
  <1>6. NodeAccount'
    BY <1>3 DEF NodeAccount, CommandsOf
  <1>7. PastIsClean'
    <2>1. \A n : CommandsOf(n)' = CommandsOf(n)
      BY DEF CommandsOf
    <2>2. \A e \in DOMAIN evaluations :
              CommandsOf(evaluations[e].node) # {} /\ evaluations[e].passed
      BY DEF IInv, PastIsClean
    <2>3. \A i \in DOMAIN commands : commands[i].rc = 0 /\ \E e \in DOMAIN evaluations :
              evaluations[e].node = commands[i].node
      BY <1>2 DEF IInv, PastIsClean
    <2> QED
      BY <1>4, <2>1, <2>2, <2>3 DEF PastIsClean
  <1>8. FailIsJudged' /\ KeptGoing' /\ LogCoversTheNode'
    BY DEF IInv, FailIsJudged, KeptGoing, LogCoversTheNode, CommandsOf
  <1> QED
    BY <1>1, <1>5, <1>6, <1>7, <1>8 DEF IInv

\* A sequence that grows by one record.
LEMMA Grows ==
    ASSUME NEW S, NEW s \in Seq(S), NEW r \in S, NEW t, t = Append(s, r)
    PROVE  /\ t \in Seq(S) /\ Len(t) = Len(s) + 1 /\ t[Len(t)] = r
           /\ DOMAIN t = 1 .. Len(s) + 1 /\ DOMAIN s = 1 .. Len(s) /\ Len(s) \in Nat
           /\ \A i \in DOMAIN s : t[i] = s[i] /\ i \in DOMAIN t /\ i < Len(t) /\ i \in Nat
           /\ \A i \in DOMAIN t : i \in DOMAIN s \/ i = Len(t)
           /\ Len(t) \in DOMAIN t /\ Len(t) \in Nat
  OBVIOUS

\* A command at a node with a log: it is recorded, and the log holds what it
\* has written, over or behind what the node's earlier commands have.
LEMMA RecordsCommand ==
    ASSUME IInv, report = "none", at \in Node,
           NEW rc \in {0, 1, 127}, NEW dirty \in BOOLEAN, Record(rc, dirty),
           issued < IF at \in HookNode THEN config.size[at] ELSE 1,
           failed => at \in HookNode /\ config.keepGoing[at[1]],
           NEW found \in BOOLEAN, found <=> dirty \/ (issued > 0 /\ log[LogOf(at)]),
           log' = [log EXCEPT ![LogOf(at)] = found],
           simv' \in BOOLEAN,
           UNCHANGED <<config, at, evaluations, report>>
    PROVE  IInv'
  <1> DEFINE r == [node |-> at, rc |-> rc, dirty |-> dirty]
             m == Len(commands')
  <1>0. /\ LogOf(at) \in Node /\ at # Return /\ at \notin Artifacts
        /\ at \in HookNode \/ at \in MainNode
    BY DEF LogOf, Node, HookNode, MainNode, Phase, Return, Artifacts
  <1>1. /\ commands' \in Seq([node : Node, rc : {0, 1, 127}, dirty : BOOLEAN])
        /\ m = Len(commands) + 1 /\ commands'[m] = r /\ m \in DOMAIN commands'
        /\ m \in Nat /\ m > 0
        /\ \A i \in DOMAIN commands :
              commands'[i] = commands[i] /\ i \in DOMAIN commands' /\ i < m /\ i \in Nat
        /\ \A i \in DOMAIN commands' : i \in DOMAIN commands \/ i = m
    BY Grows DEF IInv, TypeOK, Record
  <1>2. r.node = at /\ r.rc = rc /\ r.dirty = dirty
    OBVIOUS
  <1> HIDE DEF r, m
  <1> USE Typing
  <1>3. CommandsOf(at)' = CommandsOf(at) \cup {m}
    BY <1>1, <1>2 DEF CommandsOf
  <1>4. \A n : n # at => CommandsOf(n)' = CommandsOf(n)
    BY <1>1, <1>2 DEF CommandsOf
  <1>5. TypeOK'
    <2>1. log' \in [Node -> BOOLEAN]
      BY DEF IInv, TypeOK
    <2>2. issued' \in Nat /\ failed' \in BOOLEAN
      BY DEF Record
    <2>3. issued' <= IF at' \in HookNode THEN config'.size[at'] ELSE IF at' \in MainNode THEN 1 ELSE 0
      BY <1>0 DEF Record
    <2> QED
      BY <1>1, <2>1, <2>2, <2>3 DEF IInv, TypeOK
  <1>6. CommandsClimb'
    <2>1. Rank(at) \in Nat
      BY RankIsNat
    <2>2. \A i \in DOMAIN commands : commands'[i].node = at \/ Rank(commands'[i].node) < Rank(at)
      BY <1>1 DEF IInv, CommandsClimb
    <2>3. \A i \in DOMAIN commands' : commands'[i].node = at \/ Rank(commands'[i].node) < Rank(at)
      BY <1>1, <1>2, <2>2
    <2>4. ASSUME NEW i \in DOMAIN commands', NEW j \in DOMAIN commands', i < j
          PROVE  Rank(commands'[i].node) <= Rank(commands'[j].node)
      <3>1. i \in DOMAIN commands /\ commands'[i] = commands[i] /\ commands[i].node \in Stops
        BY <1>1, <2>4 DEF Stops
      <3>2. Rank(commands[i].node) \in Nat
        BY <3>1, RankIsNat
      <3>3. CASE j = m
        BY <1>1, <1>2, <2>1, <2>3, <3>1, <3>2, <3>3
      <3>4. CASE j \in DOMAIN commands
        BY <1>1, <2>4, <3>1, <3>4 DEF IInv, CommandsClimb
      <3> QED
        BY <1>1, <3>3, <3>4
    <2> QED
      BY <2>3, <2>4 DEF CommandsClimb
  <1>7. EvaluationsClimb'
    BY DEF IInv, EvaluationsClimb
  <1>8. NodeAccount'
    <2>1. log'[LogOf(at)] <=> dirty \/ (issued > 0 /\ log[LogOf(at)])
      BY <1>0 DEF IInv, TypeOK
    <2>2. (issued > 0 /\ log[LogOf(at)]) <=> \E i \in CommandsOf(at) : commands[i].dirty
      BY DEF IInv, NodeAccount
    <2>3. \A i \in CommandsOf(at) : commands'[i] = commands[i]
      BY <1>1 DEF CommandsOf
    <2>4. log'[LogOf(at)] <=> \E i \in CommandsOf(at)' : commands'[i].dirty
      BY <1>1, <1>2, <1>3, <2>1, <2>2, <2>3
    <2>5. failed' <=> \E i \in CommandsOf(at)' : commands'[i].rc # 0
      <3>1. failed' <=> failed \/ rc # 0
        BY DEF Record
      <3>2. failed <=> \E i \in CommandsOf(at) : commands[i].rc # 0
        BY DEF IInv, NodeAccount
      <3> QED
        BY <1>1, <1>2, <1>3, <2>3, <3>1, <3>2
    <2>6. issued' > 0 /\ Len(commands') > 0 /\ commands'[Len(commands')].node = at
      BY <1>1, <1>2 DEF Record, m
    <2> QED
      BY <2>4, <2>5, <2>6 DEF NodeAccount
  <1>9. PastIsClean'
    <2>1. \A i \in DOMAIN commands' : commands'[i].node # at =>
              i \in DOMAIN commands /\ commands'[i] = commands[i]
      BY <1>1, <1>2
    <2>2. \A e \in DOMAIN evaluations :
              /\ evaluations[e].node # at /\ evaluations[e].passed
              /\ CommandsOf(evaluations[e].node)' # {}
      BY <1>4 DEF IInv, PastIsClean
    <2> QED
      BY <2>1, <2>2 DEF IInv, PastIsClean
  <1>10. KeptGoing'
    <2> SUFFICES ASSUME NEW i \in DOMAIN commands', NEW j \in DOMAIN commands',
                        i < j, commands'[i].rc # 0
                 PROVE  /\ commands'[j].node = commands'[i].node
                        /\ commands'[i].node \in HookNode
                        /\ config.keepGoing[commands'[i].node[1]]
      BY DEF KeptGoing
    <2>1. i \in DOMAIN commands /\ commands'[i] = commands[i]
      BY <1>1
    <2>2. CASE j \in DOMAIN commands
      BY <1>1, <2>1, <2>2 DEF IInv, KeptGoing
    <2>3. CASE j = m
      <3>1. commands[i].node = at
        BY <2>1 DEF IInv, PastIsClean
      <3>2. failed
        BY <2>1, <3>1 DEF IInv, NodeAccount, CommandsOf
      <3> QED
        BY <1>1, <1>2, <2>1, <2>3, <3>1, <3>2
    <2> QED
      BY <1>1, <2>2, <2>3
  <1>11. LogCoversTheNode'
    <2>1. \A e \in DOMAIN evaluations :
              /\ CommandsOf(evaluations[e].node)' = CommandsOf(evaluations[e].node)
              /\ \A i \in CommandsOf(evaluations[e].node) : commands'[i] = commands[i]
      <3>1. \A e \in DOMAIN evaluations : evaluations[e].node # at
        BY DEF IInv, PastIsClean
      <3>2. \A n : \A i \in CommandsOf(n) : commands'[i] = commands[i]
        BY <1>1 DEF CommandsOf
      <3> QED
        BY <1>4, <3>1, <3>2
    <2> QED
      BY <2>1 DEF IInv, LogCoversTheNode
  <1>12. FailIsJudged' /\ OnPath'
    BY DEF IInv, FailIsJudged, OnPath
  <1> QED
    BY <1>5, <1>6, <1>7, <1>8, <1>9, <1>10, <1>11, <1>12 DEF IInv

\* What an evaluation adds, whatever the engine does after it.
LEMMA Judges ==
    ASSUME IInv, report = "none", at \in Node, issued > 0,
           NEW passed \in BOOLEAN, passed <=> ~log[LogOf(at)],
           evaluations' = Append(evaluations, [node |-> at, passed |-> passed])
    PROVE  LET m == Len(evaluations') IN
           /\ evaluations' \in Seq([node : Node, passed : BOOLEAN])
           /\ m \in DOMAIN evaluations' /\ m \in Nat
           /\ evaluations'[m].node = at /\ evaluations'[m].passed = passed
           /\ \A e \in DOMAIN evaluations :
                 /\ evaluations'[e] = evaluations[e] /\ e \in DOMAIN evaluations' /\ e < m /\ e \in Nat
                 /\ evaluations[e].node # at /\ Rank(evaluations[e].node) < Rank(at)
                 /\ evaluations[e].passed
           /\ \A e \in DOMAIN evaluations' : e \in DOMAIN evaluations \/ e = m
           /\ passed <=> \A i \in CommandsOf(at) : ~commands[i].dirty
           /\ CommandsOf(at) # {}
  <1> DEFINE r == [node |-> at, passed |-> passed]
             m == Len(evaluations')
  <1> USE Typing
  <1>1. /\ evaluations' \in Seq([node : Node, passed : BOOLEAN])
        /\ evaluations'[m] = r /\ m \in DOMAIN evaluations' /\ m \in Nat
        /\ \A e \in DOMAIN evaluations :
              evaluations'[e] = evaluations[e] /\ e \in DOMAIN evaluations' /\ e < m /\ e \in Nat
        /\ \A e \in DOMAIN evaluations' : e \in DOMAIN evaluations \/ e = m
    BY Grows DEF IInv, TypeOK
  <1>2. r.node = at /\ r.passed = passed
    OBVIOUS
  <1> HIDE DEF r, m
  <1>3. \A e \in DOMAIN evaluations :
           /\ evaluations[e].node # at /\ Rank(evaluations[e].node) < Rank(at)
           /\ evaluations[e].passed
    BY DEF IInv, EvaluationsClimb, PastIsClean
  <1>4. log[LogOf(at)] <=> \E i \in CommandsOf(at) : commands[i].dirty
    BY DEF IInv, NodeAccount
  <1>5. CommandsOf(at) # {}
    <2>1. Len(commands) \in DOMAIN commands /\ commands[Len(commands)].node = at
      BY DEF IInv, NodeAccount
    <2> QED
      BY <2>1 DEF CommandsOf
  <1> QED
    BY <1>1, <1>2, <1>3, <1>4, <1>5 DEF m

LEMMA EvaluateLogKeeps ==
    ASSUME IInv, EvaluateLog
    PROVE  IInv'
  <1> DEFINE passed == ~log[LogOf(at)]
             m == Len(evaluations')
  <1> USE Typing
  <1>0. /\ at \in Node /\ report = "none" /\ issued > 0 /\ passed \in BOOLEAN
        /\ evaluations' = Append(evaluations, [node |-> at, passed |-> passed])
        /\ UNCHANGED <<config, commands, log, simv>>
        /\ ~failed /\ passed => MoveOn /\ report' = report
        /\ ~(~failed /\ passed) => report' = "FAIL" /\ UNCHANGED <<at, issued, failed>>
    <2>1. at \in Node
      BY DEF EvaluateLog, IInv, TypeOK, Node
    <2> QED
      BY <2>1 DEF EvaluateLog, Working
  <1> HIDE DEF passed
  <1>1. passed <=> ~log[LogOf(at)]
    BY DEF passed
  <1>2. /\ evaluations' \in Seq([node : Node, passed : BOOLEAN])
        /\ m \in DOMAIN evaluations' /\ m \in Nat
        /\ evaluations'[m].node = at /\ evaluations'[m].passed = passed
        /\ \A e \in DOMAIN evaluations :
              /\ evaluations'[e] = evaluations[e] /\ e \in DOMAIN evaluations' /\ e < m /\ e \in Nat
              /\ evaluations[e].node # at /\ Rank(evaluations[e].node) < Rank(at)
              /\ evaluations[e].passed
        /\ \A e \in DOMAIN evaluations' : e \in DOMAIN evaluations \/ e = m
        /\ passed <=> \A i \in CommandsOf(at) : ~commands[i].dirty
        /\ CommandsOf(at) # {}
    BY <1>0, <1>1, Judges
  <1> HIDE DEF m
  <1>3. \A n : CommandsOf(n)' = CommandsOf(n)
    BY <1>0 DEF CommandsOf
  <1>4. LogCoversTheNode'
    BY <1>0, <1>2, <1>3 DEF IInv, LogCoversTheNode
  <1>5. KeptGoing'
    BY <1>0 DEF IInv, KeptGoing
  <1>6. \A e, f \in DOMAIN evaluations' :
            e < f => Rank(evaluations'[e].node) < Rank(evaluations'[f].node)
    BY <1>2 DEF IInv, EvaluationsClimb
  <1>7. \A e \in DOMAIN evaluations' : \E i \in DOMAIN commands :
            commands[i].node = evaluations'[e].node
    <2>1. \A e \in DOMAIN evaluations : \E i \in DOMAIN commands :
              commands[i].node = evaluations[e].node
      BY DEF IInv, PastIsClean, CommandsOf
    <2>2. \E i \in DOMAIN commands : commands[i].node = at
      BY <1>2 DEF CommandsOf
    <2>3. ASSUME NEW e \in DOMAIN evaluations'
          PROVE  \E i \in DOMAIN commands : commands[i].node = evaluations'[e].node
      <3>1. CASE e = m
        BY <1>2, <2>2, <3>1
      <3>2. CASE e # m
        <4>1. e \in DOMAIN evaluations /\ evaluations'[e] = evaluations[e]
          BY <1>2, <2>3, <3>2
        <4> QED
          BY <2>1, <4>1
      <3> QED
        BY <3>1, <3>2
    <2> QED
      BY <2>3
  <1>11. \A e \in DOMAIN evaluations' :
             {i \in DOMAIN commands' : commands'[i].node = evaluations'[e].node} # {}
    <2> SUFFICES ASSUME NEW e \in DOMAIN evaluations'
                 PROVE  {i \in DOMAIN commands' : commands'[i].node = evaluations'[e].node} # {}
      OBVIOUS
    <2>1. PICK i \in DOMAIN commands : commands[i].node = evaluations'[e].node
      BY <1>7
    <2> QED
      BY <1>0, <2>1
  <1>8. \A i \in DOMAIN commands : commands[i].node \in Stops /\ \E e \in DOMAIN evaluations' :
            evaluations'[e].node = commands[i].node
    BY <1>2 DEF IInv, PastIsClean, Stops
  <1>9. CASE ~failed /\ passed
    <2> USE <1>0, <1>9
    <2>0. at # Return
      BY DEF Node, HookNode, MainNode, Return, Phase
    <2>1. TypeOK'
      <3>1. at' \in Stops /\ issued' = 0 /\ failed' = FALSE
        BY <2>0, MovesOnFresh DEF MoveOn
      <3>2. issued' <= IF at' \in HookNode THEN config'.size[at'] ELSE IF at' \in MainNode THEN 1 ELSE 0
        BY <3>1
      <3> QED
        BY <1>2, <3>1, <3>2 DEF IInv, TypeOK, Stops
    <2>2. \A i \in DOMAIN commands : commands[i].node # at' /\ Rank(commands[i].node) < Rank(at')
      BY <1>8, <2>0, MovesOnFresh DEF IInv, CommandsClimb
    <2>3. \A e \in DOMAIN evaluations' : /\ evaluations'[e].node # at' /\ evaluations'[e].passed
                                         /\ Rank(evaluations'[e].node) < Rank(at')
      <3>1. \A e \in DOMAIN evaluations' : evaluations'[e].node \in Stops
        BY <1>2 DEF Stops
      <3> QED
        BY <1>2, <2>0, <3>1, MovesOnFresh
    <2>4. CommandsClimb' /\ EvaluationsClimb'
      BY <1>6, <2>2, <2>3 DEF IInv, CommandsClimb, EvaluationsClimb
    <2>5. NodeAccount'
      BY <2>0, <2>2, MovesOnFresh DEF NodeAccount, CommandsOf
    <2>6. PastIsClean'
      <3>1. \A i \in DOMAIN commands : commands[i].rc = 0
        BY DEF IInv, PastIsClean, NodeAccount, CommandsOf
      <3>2. report' = "none"
        OBVIOUS
      <3>3. \A i \in DOMAIN commands' : commands'[i].rc = 0 /\ \E e \in DOMAIN evaluations' :
                evaluations'[e].node = commands'[i].node
        BY <1>8, <3>1
      <3> QED
        BY <1>11, <2>3, <3>2, <3>3 DEF PastIsClean, CommandsOf
    <2>7. FailIsJudged' /\ OnPath'
      BY <2>0, MovesOnFresh DEF FailIsJudged
    <2> QED
      BY <1>4, <1>5, <2>1, <2>4, <2>5, <2>6, <2>7 DEF IInv
  <1>10. CASE ~(~failed /\ passed)
    <2> USE <1>0, <1>10
    <2>1. TypeOK'
      BY <1>2 DEF IInv, TypeOK, RunStatus
    <2>2. CommandsClimb'
      BY DEF IInv, CommandsClimb
    <2>3. EvaluationsClimb'
      BY <1>2, <1>6 DEF EvaluationsClimb
    <2>4. NodeAccount'
      BY <1>3 DEF IInv, NodeAccount
    <2>5. PastIsClean'
      <3>1. \A i \in DOMAIN commands' : commands'[i].node # at' => commands'[i].rc = 0
        BY DEF IInv, PastIsClean
      <3>2. \A e \in DOMAIN evaluations' : evaluations'[e].node = at' \/ evaluations'[e].passed
        BY <1>2
      <3>3. \A i \in DOMAIN commands' : \E e \in DOMAIN evaluations' :
                evaluations'[e].node = commands'[i].node
        BY <1>8
      <3> QED
        BY <1>11, <3>1, <3>2, <3>3 DEF PastIsClean, CommandsOf
    <2>6. FailIsJudged' /\ OnPath'
      BY <1>2 DEF IInv, FailIsJudged, OnPath
    <2> QED
      BY <1>4, <1>5, <2>1, <2>2, <2>3, <2>4, <2>5, <2>6 DEF IInv
  <1> QED
    BY <1>9, <1>10

\* The engine stops where it is: with a verdict, or because something raised.
LEMMA Ends ==
    ASSUME IInv, report = "none",
           report' = "raised" \/ (report' = "FAIL" /\ at \in Artifacts /\ ~simv)
             \/ (report' \in {"PASS", "NOT_RUN"} /\ at = Return),
           UNCHANGED <<config, at, issued, failed, commands, evaluations, log, simv>>
    PROVE  IInv'
  <1>1. TypeOK'
    BY DEF IInv, TypeOK, RunStatus
  <1>2. OnPath' /\ CommandsClimb' /\ EvaluationsClimb' /\ KeptGoing'
    BY DEF IInv, OnPath, CommandsClimb, EvaluationsClimb, KeptGoing
  <1>3. NodeAccount' /\ PastIsClean'
    BY DEF IInv, NodeAccount, PastIsClean, CommandsOf
  <1>4. FailIsJudged' /\ LogCoversTheNode'
    BY DEF IInv, FailIsJudged, LogCoversTheNode, CommandsOf
  <1> QED
    BY <1>1, <1>2, <1>3, <1>4 DEF IInv

THEOREM NextIInv == IInv /\ [Next]_vars => IInv'
  <1> SUFFICES ASSUME IInv, [Next]_vars PROVE IInv'
    OBVIOUS
  <1> USE Typing
  <1>1. CASE SkipHook
    <2>1. issued = 0 /\ at # Return
      BY <1>1 DEF SkipHook, IInv, TypeOK, HookNode, Return, Phase
    <2> QED
      BY <1>1, <2>1, PassesWithoutCommand DEF SkipHook, Working
  <1>2. CASE HookCommand
    <2>1. PICK rc \in {0, 1}, dirty \in BOOLEAN :
            Record(rc, dirty) /\ log' = [log EXCEPT ![LogOf(at)] = dirty \/ (issued > 0 /\ @)]
      BY <1>2 DEF HookCommand
    <2>2. /\ at \in Node /\ issued < IF at \in HookNode THEN config.size[at] ELSE 1
          /\ failed => at \in HookNode /\ config.keepGoing[at[1]]
      BY <1>2 DEF HookCommand, HookGoesOn, Node
    <2> DEFINE found == dirty \/ (issued > 0 /\ log[LogOf(at)])
    <2>3. /\ found \in BOOLEAN /\ found <=> dirty \/ (issued > 0 /\ log[LogOf(at)])
          /\ log' = [log EXCEPT ![LogOf(at)] = found]
      BY <2>1
    <2>4. /\ report = "none" /\ simv' \in BOOLEAN /\ rc \in {0, 1, 127}
          /\ UNCHANGED <<config, at, evaluations, report>>
      BY <1>2 DEF HookCommand, Working
    <2> HIDE DEF found
    <2> QED
      BY <2>1, <2>2, <2>3, <2>4, RecordsCommand DEF Record
  <1>3. ASSUME report = "none", at \in MainNode, issued = 0,
               NEW rc \in {0, 1, 127}, NEW dirty \in BOOLEAN,
               Record(rc, dirty), log' = [log EXCEPT ![LogOf(at)] = dirty],
               simv' \in BOOLEAN, UNCHANGED <<config, at, evaluations, report>>
        PROVE  IInv'
    <2>1. at \in Node /\ at \notin HookNode
      BY <1>3 DEF Node, HookNode, MainNode, Phase
    <2>2. ~failed
      BY <1>3 DEF IInv, NodeAccount
    <2>3. dirty <=> dirty \/ (issued > 0 /\ log[LogOf(at)])
      BY <1>3
    <2>4. issued < IF at \in HookNode THEN config.size[at] ELSE 1
      BY <1>3, <2>1
    <2> QED
      BY <1>3, <2>1, <2>2, <2>3, <2>4, RecordsCommand DEF Record
  <1>4. CASE Flatten
    <2>1. at \in MainNode /\ simv' \in BOOLEAN
      BY <1>4 DEF Flatten, MainNode, Phase, IInv, TypeOK
    <2>2. PICK rc \in {0, 1}, dirty \in BOOLEAN :
            Record(rc, dirty) /\ log' = [log EXCEPT ![LogOf(at)] = dirty]
      BY <1>4 DEF Flatten
    <2> QED
      BY <1>3, <1>4, <2>1, <2>2 DEF Flatten, Working
  <1>5. CASE Tool
    <2>1. at \in MainNode /\ simv' \in BOOLEAN
      BY <1>5 DEF Tool, IInv, TypeOK
    <2>2. PICK rc \in {0, 1, 127}, dirty \in BOOLEAN :
            Record(rc, dirty) /\ log' = [log EXCEPT ![LogOf(at)] = dirty]
      BY <1>5 DEF Tool, Record
    <2>3. report = "none" /\ issued = 0 /\ UNCHANGED <<config, at, evaluations, report>>
      BY <1>5 DEF Tool, Working
    <2> QED
      BY <1>3, <2>1, <2>2, <2>3 DEF Record
  <1>6. CASE EvaluateLog
    BY <1>6, EvaluateLogKeeps
  <1>7. CASE CheckArtifacts
    <2>1. issued = 0 /\ at # Return
      BY <1>7 DEF CheckArtifacts, Artifacts, HookNode, MainNode, IInv, TypeOK, Return, Phase
    <2>2. CASE simv
      BY <1>7, <2>1, <2>2, PassesWithoutCommand DEF CheckArtifacts, Working
    <2>3. CASE ~simv
      BY <1>7, <2>3, Ends DEF CheckArtifacts, Working
    <2> QED
      BY <2>2, <2>3
  <1>8. CASE Report
    BY <1>8, Ends DEF Report, Working
  <1>9. CASE Raise
    BY <1>9, Ends DEF Raise, Working
  <1>10. CASE UNCHANGED vars
    <2> USE <1>10 DEF vars
    <2>1. TypeOK' /\ OnPath' /\ CommandsClimb' /\ EvaluationsClimb' /\ KeptGoing'
      BY DEF IInv, TypeOK, OnPath, CommandsClimb, EvaluationsClimb, KeptGoing
    <2>2. NodeAccount' /\ PastIsClean' /\ FailIsJudged' /\ LogCoversTheNode'
      BY DEF IInv, NodeAccount, PastIsClean, FailIsJudged, LogCoversTheNode, CommandsOf
    <2> QED
      BY <2>1, <2>2 DEF IInv
  <1> QED
    BY <1>1, <1>2, <1>4, <1>5, <1>6, <1>7, <1>8, <1>9, <1>10 DEF Next, Progress

THEOREM Invariance == Spec => []IInv
  BY InitIInv, NextIInv, PTL DEF Spec

-----------------------------------------------------------------------------
(* What it gives.                                                          *)

\* The state is what it should be, and a hook issues no more commands than
\* it has (TypeOK).
THEOREM TypeCorrect == Spec => []TypeOK
  <1>1. IInv => TypeOK
    BY DEF IInv
  <1> QED
    BY <1>1, Invariance, PTL

\* No hook, tool or simulation starts after a failed command or a log with a
\* finding, but for the commands of a hook that continues on error.
THEOREM NothingAfterFailure == Spec => []FailureTruncates
  <1>1. ASSUME IInv PROVE FailureTruncates
    <2> USE <1>1
    <2>1. \A i, j \in DOMAIN commands :
             (i < j /\ commands[i].rc # 0)
               => /\ commands[j].node = commands[i].node
                  /\ commands[i].node \in HookNode
                  /\ config.keepGoing[commands[i].node[1]]
      BY DEF IInv, KeptGoing
    <2>2. ASSUME NEW e \in DOMAIN evaluations, ~evaluations[e].passed
          PROVE  report # "none" /\ commands[Len(commands)].node = evaluations[e].node
      <3>1. /\ evaluations[e].node = at /\ report # "none"
            /\ CommandsOf(evaluations[e].node) # {}
        BY <2>2 DEF IInv, PastIsClean
      <3> QED
        BY <3>1 DEF IInv, NodeAccount
    <2> QED
      BY <2>1, <2>2 DEF FailureTruncates
  <1> QED
    BY <1>1, Invariance, PTL

\* A verdict comes when every node that ran has been judged once, behind its
\* last command and before the next node's first (JudgedOnce).
THEOREM EveryNodeJudged == Spec => []JudgedOnce
  <1>1. ASSUME IInv PROVE JudgedOnce
    <2> USE <1>1, Typing
    <2> SUFFICES ASSUME report \in RunStatus
                 PROVE  /\ \A i \in DOMAIN commands : \E e \in DOMAIN evaluations :
                              evaluations[e].node = commands[i].node
                        /\ \A e, f \in DOMAIN evaluations :
                              e < f => \A i \in CommandsOf(evaluations[e].node),
                                          j \in CommandsOf(evaluations[f].node) : i < j
                        /\ \A e \in DOMAIN evaluations : CommandsOf(evaluations[e].node) # {}
      BY DEF JudgedOnce
    <2>1. ASSUME NEW i \in DOMAIN commands
          PROVE  \E e \in DOMAIN evaluations : evaluations[e].node = commands[i].node
      <3>1. CASE commands[i].node # at
        BY <3>1 DEF IInv, PastIsClean
      <3>2. CASE commands[i].node = at
        <4>1. at # Return /\ at \notin Artifacts
          BY <3>2 DEF Node, HookNode, MainNode, Phase, Return, Artifacts
        <4>2. report = "FAIL"
          BY <4>1 DEF RunStatus, IInv, PastIsClean
        <4> QED
          BY <3>2, <4>1, <4>2 DEF IInv, FailIsJudged
      <3> QED
        BY <3>1, <3>2
    <2>2. ASSUME NEW e \in DOMAIN evaluations, NEW f \in DOMAIN evaluations, e < f,
                 NEW i \in CommandsOf(evaluations[e].node),
                 NEW j \in CommandsOf(evaluations[f].node)
          PROVE  i < j
      <3>1. /\ i \in DOMAIN commands /\ commands[i].node = evaluations[e].node
            /\ j \in DOMAIN commands /\ commands[j].node = evaluations[f].node
        BY DEF CommandsOf
      <3>2. Rank(commands[i].node) < Rank(commands[j].node)
        BY <2>2, <3>1 DEF IInv, EvaluationsClimb
      <3>3. Rank(commands[i].node) \in Nat /\ Rank(commands[j].node) \in Nat
        BY <3>1, RankIsNat DEF Stops
      <3>4. j < i => Rank(commands[j].node) <= Rank(commands[i].node)
        BY <3>1 DEF IInv, CommandsClimb
      <3>5. i \in Nat /\ j \in Nat /\ (i = j => Rank(commands[i].node) = Rank(commands[j].node))
        BY <3>1
      <3> QED
        BY <3>2, <3>3, <3>4, <3>5
    <2>3. \A e \in DOMAIN evaluations : CommandsOf(evaluations[e].node) # {}
      BY DEF IInv, PastIsClean
    <2> QED
      BY <2>1, <2>2, <2>3
  <1> QED
    BY <1>1, Invariance, PTL

\* A log is judged for all its node wrote in this execution, and for nothing
\* it held before (LogCoversTheNode).
THEOREM VerdictsCoverTheNode == Spec => []LogCoversTheNode
  <1>1. IInv => LogCoversTheNode
    BY DEF IInv
  <1> QED
    BY <1>1, Invariance, PTL

\* result.yaml shows no failure its records do not account for
\* (FailIsExplained).
THEOREM FailuresExplained == Spec => []FailIsExplained
  <1>1. ASSUME IInv PROVE FailIsExplained
    BY <1>1 DEF IInv, FailIsExplained, FailIsJudged, NodeAccount, CommandsOf
  <1> QED
    BY <1>1, Invariance, PTL
=============================================================================
