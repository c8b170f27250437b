---------------------------- MODULE MCExecution ----------------------------
(***************************************************************************)
(* Execution on a family of prepared runs: every action and flow, with no  *)
(* hooks, with one command in every hook, and with two commands in one     *)
(* hook at a time, with and without continue_on_error; the logs of an      *)
(* earlier execution are all clean or all dirty.                           *)
(***************************************************************************)
EXTENDS Execution

Uniform(k) == [n \in HookNode |-> k]
HookSizes == {Uniform(0), Uniform(1)}
    \cup {[Uniform(0) EXCEPT ![n] = 2] : n \in HookNode}

MCConfigs ==
    {[action |-> a, flow |-> f, size |-> s, keepGoing |-> [p \in Phase |-> k]] :
        a \in Action, f \in Flow, s \in HookSizes, k \in BOOLEAN}

MCOldLogs == {{}, Node}
=============================================================================
