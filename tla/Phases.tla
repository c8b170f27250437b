------------------------------- MODULE Phases -------------------------------
(***************************************************************************)
(* The vocabulary of one esim execution: the stage actions of the command  *)
(* line, the two VCS flows, and the nodes an execution is made of.  A node *)
(* is a pair <<phase, part>>: the "before" hook, the tool itself ("main")  *)
(* or the "after" hook of a phase.  Shared by the abstract Pipeline and    *)
(* the detailed Execution.                                                 *)
(***************************************************************************)
EXTENDS Sequences

Action == {"full", "build", "run"}
Flow == {"two-step", "three-step"}
RunStatus == {"PASS", "FAIL", "NOT_RUN"}

Phase == {"ff", "build", "analyze", "elaborate", "run"}
HookNode == Phase \X {"before", "after"}
MainNode == Phase \X {"main"}
Node == HookNode \cup MainNode

\* The tools a flow builds the simulator with, in order.
BuildSteps(flow) ==
    IF flow = "two-step" THEN <<"build">> ELSE <<"analyze", "elaborate">>

(***************************************************************************)
(* The order of the nodes for an action and a flow, which execute keeps    *)
(* and the user guide documents: a phase's hooks surround its tool, and in *)
(* the three-step flow the hooks of "build" surround those of analyze and  *)
(* elaborate.                                                              *)
(***************************************************************************)
Around(phase, inner) == <<<<phase, "before">>>> \o inner \o <<<<phase, "after">>>>
Surrounded(phase) == Around(phase, <<<<phase, "main">>>>)

NodeOrder(action, flow) ==
    LET ff    == IF action = "full" THEN Surrounded("ff") ELSE <<>>
        build == IF action = "run" THEN <<>>
                 ELSE IF flow = "two-step" THEN Surrounded("build")
                 ELSE Around("build", Surrounded("analyze") \o Surrounded("elaborate"))
        run   == IF action = "build" THEN <<>> ELSE Surrounded("run")
    IN  ff \o build \o run
=============================================================================
