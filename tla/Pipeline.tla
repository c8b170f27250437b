------------------------------ MODULE Pipeline ------------------------------
(***************************************************************************)
(* What one execution promises, without saying how: the planned nodes are  *)
(* passed one after the other in their documented order, the first failure *)
(* ends the execution, and the verdict is PASS only when every planned     *)
(* node has been passed and the plan contains the simulation itself.       *)
(***************************************************************************)
EXTENDS Phases, Naturals

CONSTANT Plans          \* what an execution may be asked for: an order of the
                        \* nodes, and those of them that have commands

VARIABLES plan,         \* the order and the nodes due in this execution
          clean,        \* the nodes passed so far
          verdict       \* "none" until the execution ends

vars == <<plan, clean, verdict>>

Init == plan \in Plans /\ clean = {} /\ verdict = "none"

\* The first node of the order that is due and not yet passed is passed: its
\* commands returned 0, its log is clean.
Pass ==
    /\ verdict = "none"
    /\ \E k \in DOMAIN plan.order :
         /\ plan.order[k] \in plan.due \ clean
         /\ \A j \in 1 .. k - 1 : plan.order[j] \in plan.due => plan.order[j] \in clean
         /\ clean' = clean \cup {plan.order[k]}
    /\ UNCHANGED <<plan, verdict>>

\* A command, a log or a missing artifact fails the execution, or an error
\* that is not a verdict (an unreadable log) ends it without a report.
Stop ==
    /\ verdict = "none"
    /\ verdict' \in {"FAIL", "raised"}
    /\ UNCHANGED <<plan, clean>>

Simulates == <<"run", "main">> \in plan.due

Finish ==
    /\ verdict = "none"
    /\ clean = plan.due
    /\ verdict' = IF Simulates THEN "PASS" ELSE "NOT_RUN"
    /\ UNCHANGED <<plan, clean>>

Next == Pass \/ Stop \/ Finish

Spec == Init /\ [][Next]_vars
=============================================================================
