----------------------------- MODULE Execution -----------------------------
(***************************************************************************)
(* ExecutionEngine.execute (src/esim/execution.py): one stage action run   *)
(* command by command.  Every hook command and every tool is a step, every *)
(* log evaluation is a step, and between them the engine decides whether   *)
(* to go on.  What a command does is chosen by the environment: its return *)
(* code, whether it leaves a line that is an unwaived finding in its log,  *)
(* and whether a usable simv exists afterwards.                            *)
(***************************************************************************)
EXTENDS Phases, Naturals, FiniteSets

CONSTANTS
    Configs,    \* the prepared runs: action, flow, hook lengths, continue_on_error
    OldLogs     \* the sets of logs an earlier execution may have left with a finding

ConfigType ==
    [action : Action, flow : Flow, size : [HookNode -> Nat], keepGoing : [Phase -> BOOLEAN]]

ASSUME ConfigsAssumption ==
    /\ \A c \in Configs : c \in ConfigType
    /\ \A logs \in OldLogs : logs \subseteq Node

VARIABLES
    config,         \* the PreparedRun of this execution
    at,             \* the node or artifact check the engine is at
    issued,         \* commands issued at this node
    failed,         \* command_failed of this node
    commands,       \* CommandRecords, with what the command wrote to its log
    evaluations,    \* LogEvaluations
    log,            \* log file -> it holds an unwaived finding
    simv,           \* the artifact validator accepts simv
    report          \* status of the ExecutionReport, "none" before it exists

vars == <<config, at, issued, failed, commands, evaluations, log, simv, report>>

-----------------------------------------------------------------------------
Artifacts == {<<"build", "artifacts">>, <<"run", "artifacts">>}
Return == <<"execute", "return">>

\* build and elaborate both log to vcs.log; every other node has its own file.
LogOf(n) == IF n = <<"elaborate", "main">> THEN <<"build", "main">> ELSE n

Start(c) ==
    CASE c.action = "full"  -> <<"ff", "before">>
      [] c.action = "build" -> <<"build", "before">>
      [] c.action = "run"   -> <<"run", "artifacts">>

\* The loop over simulator_plan.build_steps: where its k-th round begins.
BuildRound(k) ==
    LET steps == BuildSteps(config.flow)
    IN  IF k > Len(steps) THEN <<"build", "artifacts">>
        ELSE IF steps[k] = "build" THEN <<"build", "main">>
        ELSE <<steps[k], "before">>


RoundOf(phase) ==
    CHOOSE k \in DOMAIN BuildSteps(config.flow) : BuildSteps(config.flow)[k] = phase

\* Mutant: a build step's tool is not followed by its after hook.
FollowingWithoutStepAfter(n) ==
    LET phase == n[1]
        part  == n[2]
    IN  CASE part = "before"    -> IF phase = "build" THEN BuildRound(1) ELSE <<phase, "main">>
          [] part = "main"      -> IF phase \in {"build", "analyze", "elaborate"}
                                   THEN BuildRound(RoundOf(phase) + 1)
                                   ELSE <<phase, "after">>
          [] part = "artifacts" -> IF phase = "build" THEN <<"build", "after">>
                                   ELSE <<"run", "before">>
          [] part = "after"     ->
               CASE phase = "ff"    -> <<"build", "before">>
                 [] phase = "build" -> IF config.action = "build" THEN Return
                                       ELSE <<"run", "artifacts">>
                 [] phase = "run"   -> Return
                 [] OTHER           -> BuildRound(RoundOf(phase) + 1)

\* Where execute goes when the node or check n has passed.
Following(n) ==
    LET phase == n[1]
        part  == n[2]
    IN  CASE part = "before"    -> IF phase = "build" THEN BuildRound(1) ELSE <<phase, "main">>
          [] part = "main"      -> IF phase = "build" THEN BuildRound(RoundOf("build") + 1)
                                   ELSE <<phase, "after">>
          [] part = "artifacts" -> IF phase = "build" THEN <<"build", "after">>
                                   ELSE <<"run", "before">>
          [] part = "after"     ->
               CASE phase = "ff"    -> <<"build", "before">>
                 [] phase = "build" -> IF config.action = "build" THEN Return
                                       ELSE <<"run", "artifacts">>
                 [] phase = "run"   -> Return
                 [] OTHER           -> BuildRound(RoundOf(phase) + 1)

-----------------------------------------------------------------------------
Init ==
    /\ config \in Configs
    /\ at = Start(config)
    /\ issued = 0
    /\ failed = FALSE
    /\ commands = <<>>
    /\ evaluations = <<>>
    /\ \E dirty \in OldLogs : log = [n \in Node |-> n \in dirty]
    /\ simv \in BOOLEAN
    /\ report = "none"

Working == report = "none"

\* Mutant: only commands that succeeded are recorded.
RecordSuccesses(rc, dirty) ==
    /\ commands' = IF rc = 0 THEN Append(commands, [node |-> at, rc |-> rc, dirty |-> dirty])
                   ELSE commands
    /\ issued' = issued + 1
    /\ failed' = (failed \/ rc # 0)


Record(rc, dirty) ==
    /\ commands' = Append(commands, [node |-> at, rc |-> rc, dirty |-> dirty])
    /\ issued' = issued + 1
    /\ failed' = (failed \/ rc # 0)

MoveOn ==
    /\ at' = Following(at)
    /\ issued' = 0
    /\ failed' = FALSE

\* _hook with no command: no log, no evaluation, the node counts as passed.
SkipHook ==
    /\ Working
    /\ at \in HookNode /\ config.size[at] = 0
    /\ MoveOn
    /\ UNCHANGED <<config, commands, evaluations, log, simv, report>>

\* Mutants: the loop runs once too often; continue_on_error is not looked at.
HookGoesOnOnceMore == issued <= config.size[at] /\ (failed => config.keepGoing[at[1]])
HookAlwaysGoesOn == issued < config.size[at]

\* _hook stops at the first failed command unless continue_on_error is set.
HookGoesOn ==
    /\ issued < config.size[at]
    /\ failed => config.keepGoing[at[1]]

\* Mutant: every command of a hook truncates its log.
HookCommandTruncates ==
    /\ Working
    /\ at \in HookNode /\ HookGoesOn
    /\ \E rc \in {0, 1}, dirty \in BOOLEAN :
         Record(rc, dirty) /\ log' = [log EXCEPT ![LogOf(at)] = dirty]
    /\ simv' \in BOOLEAN
    /\ UNCHANGED <<config, at, evaluations, report>>

\* One command of _hook: the first truncates the hook's log, the next append.
HookCommand ==
    /\ Working
    /\ at \in HookNode /\ HookGoesOn
    /\ \E rc \in {0, 1}, dirty \in BOOLEAN :
         /\ Record(rc, dirty)
         /\ log' = [log EXCEPT ![LogOf(at)] = dirty \/ (issued > 0 /\ @)]
    /\ simv' \in BOOLEAN
    /\ UNCHANGED <<config, at, evaluations, report>>

\* _flatten: ff.log is emptied, and only a FlattenError puts a line into it.
Flatten ==
    /\ Working
    /\ at = <<"ff", "main">> /\ issued = 0
    /\ \E rc \in {0, 1}, dirty \in BOOLEAN :
         /\ rc = 0 => ~dirty
         /\ Record(rc, dirty)
         /\ log' = [log EXCEPT ![LogOf(at)] = dirty]
    /\ UNCHANGED <<config, at, evaluations, simv, report>>

\* _tool: vcs, vlogan or simv.  A simv that is gone cannot be started (127).
Tool ==
    /\ Working
    /\ at \in MainNode \ {<<"ff", "main">>} /\ issued = 0
    /\ \E rc \in {0, 1, 127}, dirty \in BOOLEAN :
         /\ (at[1] = "run" /\ ~simv) => rc = 127
         /\ Record(rc, dirty)
         /\ log' = [log EXCEPT ![LogOf(at)] = dirty]
    /\ IF at[1] \in {"build", "elaborate"} THEN simv' \in BOOLEAN ELSE simv' = simv
    /\ UNCHANGED <<config, at, evaluations, report>>

\* Mutants: a failed command returns before the evaluation; a clean log
\* outweighs a failed command.
EvaluateLogUnlessFailed ==
    /\ Working
    /\ issued > 0
    /\ at \in HookNode => ~HookGoesOn
    /\ LET passed == ~log[LogOf(at)]
       IN  IF failed
           THEN report' = "FAIL" /\ UNCHANGED <<at, issued, failed, evaluations>>
           ELSE /\ evaluations' = Append(evaluations, [node |-> at, passed |-> passed])
                /\ IF passed THEN MoveOn /\ report' = report
                   ELSE report' = "FAIL" /\ UNCHANGED <<at, issued, failed>>
    /\ UNCHANGED <<config, commands, log, simv>>
EvaluateLogOnly ==
    /\ Working
    /\ issued > 0
    /\ at \in HookNode => ~HookGoesOn
    /\ LET passed == ~log[LogOf(at)]
       IN  /\ evaluations' = Append(evaluations, [node |-> at, passed |-> passed])
           /\ IF passed THEN MoveOn /\ report' = report
              ELSE report' = "FAIL" /\ UNCHANGED <<at, issued, failed>>
    /\ UNCHANGED <<config, commands, log, simv>>

\* The evaluation that ends every node with commands, failed or not.
EvaluateLog ==
    /\ Working
    /\ issued > 0
    /\ at \in HookNode => ~HookGoesOn
    /\ LET passed == ~log[LogOf(at)]
       IN  /\ evaluations' = Append(evaluations, [node |-> at, passed |-> passed])
           /\ IF ~failed /\ passed
              THEN MoveOn /\ report' = report
              ELSE report' = "FAIL" /\ UNCHANGED <<at, issued, failed>>
    /\ UNCHANGED <<config, commands, log, simv>>

\* Mutant: the engine waits for the artifact.
CheckArtifactsWaits ==
    /\ Working
    /\ at \in Artifacts
    /\ simv
    /\ MoveOn
    /\ UNCHANGED <<config, commands, evaluations, log, simv, report>>

\* _artifacts_valid, after the build steps and again before the run stage.
CheckArtifacts ==
    /\ Working
    /\ at \in Artifacts
    /\ IF simv THEN MoveOn /\ report' = report
       ELSE report' = "FAIL" /\ UNCHANGED <<at, issued, failed>>
    /\ UNCHANGED <<config, commands, evaluations, log, simv>>

\* The _report at the end of execute.
Report ==
    /\ Working
    /\ at = Return
    /\ report' = IF config.action = "build" THEN "NOT_RUN" ELSE "PASS"
    /\ UNCHANGED <<config, at, issued, failed, commands, evaluations, log, simv>>

\* A log that cannot be opened, read or decoded, an error of the flattener
\* that is not a FlattenError, a simv that vanishes inside the validator:
\* the exception leaves execute and there is no report.
Raise ==
    /\ Working
    /\ at \in MainNode \cup Artifacts \/ (at \in HookNode /\ config.size[at] > 0)
    /\ report' = "raised"
    /\ UNCHANGED <<config, at, issued, failed, commands, evaluations, log, simv>>

Progress ==
    \/ SkipHook \/ HookCommand \/ Flatten \/ Tool \/ EvaluateLog
    \/ CheckArtifacts \/ Report

Next == Progress \/ Raise

\* Every command the engine starts ends (the engine itself sets no timeout),
\* and the engine goes on; that something raises is not to be counted on.
Spec == Init /\ [][Next]_vars /\ WF_vars(Progress)

-----------------------------------------------------------------------------
\* The types of the state, and a hook issues no more commands than it has, a
\* main node one, an artifact check none.
TypeOK ==
    /\ config \in Configs
    /\ at \in Node \cup Artifacts \cup {Return}
    /\ issued \in Nat /\ failed \in BOOLEAN
    /\ issued <= IF at \in HookNode THEN config.size[at] ELSE IF at \in MainNode THEN 1 ELSE 0
    /\ commands \in Seq([node : Node, rc : {0, 1, 127}, dirty : BOOLEAN])
    /\ evaluations \in Seq([node : Node, passed : BOOLEAN])
    /\ log \in [Node -> BOOLEAN]
    /\ simv \in BOOLEAN
    /\ report \in RunStatus \cup {"none", "raised"}

CommandsOf(n) == {i \in DOMAIN commands : commands[i].node = n}
CleanCommands(n) == \A i \in CommandsOf(n) : commands[i].rc = 0

\* What execute is asked for: the documented order, and the nodes in it that
\* have a command.
HasCommands(c, n) == n \in MainNode \/ c.size[n] > 0
Planned(c) ==
    LET order == NodeOrder(c.action, c.flow)
    IN  [order |-> order,
         due   |-> {n \in Node : (\E k \in DOMAIN order : order[k] = n) /\ HasCommands(c, n)}]

\* Nothing starts after a failure.  A nonzero return code is followed only by
\* commands of the same hook, and only under continue_on_error; a log with an
\* unwaived finding is followed by no command at all.
FailureTruncates ==
    /\ \A i, j \in DOMAIN commands :
          (i < j /\ commands[i].rc # 0)
            => /\ commands[j].node = commands[i].node
               /\ commands[i].node \in HookNode
               /\ config.keepGoing[commands[i].node[1]]
    /\ \A e \in DOMAIN evaluations :
          ~evaluations[e].passed
            => report # "none" /\ commands[Len(commands)].node = evaluations[e].node

\* Every node that ran is judged once, after its last command, whether its
\* commands failed or not: with a verdict the evaluations name the nodes of
\* the commands, in the same order and without repetition.
JudgedOnce ==
    report \in RunStatus =>
        /\ \A i \in DOMAIN commands : \E e \in DOMAIN evaluations :
              evaluations[e].node = commands[i].node
        /\ \A e, f \in DOMAIN evaluations :
              e < f => \A i \in CommandsOf(evaluations[e].node),
                          j \in CommandsOf(evaluations[f].node) : i < j
        /\ \A e \in DOMAIN evaluations : CommandsOf(evaluations[e].node) # {}

\* The verdict on a log covers everything the node's commands wrote in this
\* execution, and nothing that was in the file before: a hook's later
\* commands append to the log its first command truncated.
LogCoversTheNode ==
    \A e \in DOMAIN evaluations :
        evaluations[e].passed
          <=> \A i \in CommandsOf(evaluations[e].node) : ~commands[i].dirty

Precedes(m, n) ==
    LET order == Planned(config).order
    IN  \E i, j \in DOMAIN order : i < j /\ order[i] = m /\ order[j] = n

\* PASS means that every planned node ran to its end: each of its commands
\* returned 0, its log was judged clean, the nodes came in documented order.
PassIsEarned ==
    report = "PASS" =>
        /\ {evaluations[e].node : e \in DOMAIN evaluations} = Planned(config).due
        /\ \A e, f \in DOMAIN evaluations :
              e < f => Precedes(evaluations[e].node, evaluations[f].node)
        /\ \A e \in DOMAIN evaluations : evaluations[e].passed
        /\ \A i \in DOMAIN commands : commands[i].rc = 0
        /\ \A n \in HookNode :
              CommandsOf(n) # {} => Cardinality(CommandsOf(n)) = config.size[n]

\* A FAIL can be explained: some command failed, some log has a finding, or
\* the simulator artifact is missing.  Without the last, result.yaml would
\* show a failure none of its records accounts for.
FailIsExplained ==
    report = "FAIL" =>
        \/ \E i \in DOMAIN commands : commands[i].rc # 0
        \/ \E e \in DOMAIN evaluations : ~evaluations[e].passed
        \/ ~simv

\* An execution ends once its commands do.
Terminates == <>(report # "none")

-----------------------------------------------------------------------------
\* The nodes passed so far: judged clean with no failed command.
Clean ==
    {evaluations[e].node : e \in
        {f \in DOMAIN evaluations : evaluations[f].passed /\ CleanCommands(evaluations[f].node)}}

Documented ==
    INSTANCE Pipeline WITH
        Plans   <- {Planned(c) : c \in Configs},
        plan    <- Planned(config),
        clean   <- Clean,
        verdict <- report

\* Command by command, execute passes the planned nodes in their documented
\* order and ends with the verdict Pipeline gives them.
ImplementsPipeline == Documented!Spec
=============================================================================
