---------------------------- MODULE SnapshotStore ----------------------------
(***************************************************************************)
(* What a simulation directory promises to everyone who reads its          *)
(* snapshots: they change only under the directory's lock, the lock has    *)
(* one holder at a time, and a snapshot is replaced as a whole or removed, *)
(* never rewritten in place.  Workspace and EsimApplication both implement *)
(* it, one file operation by file operation, the other as it is used.      *)
(***************************************************************************)
CONSTANTS Procs,        \* the invocations of esim
          File,         \* the snapshot files
          Content,      \* what a whole snapshot may hold
          None          \* no holder; no such file

VARIABLES holder,       \* the invocation that holds the lock, or None
          store         \* snapshot file -> its content, or None

vars == <<holder, store>>

Init == holder = None /\ store = [f \in File |-> None]

Take(p) == holder = None /\ holder' = p /\ UNCHANGED store

\* Released at the end of the invocation, or by the kernel when it dies.
Give(p) == holder = p /\ holder' = None /\ UNCHANGED store

Replace(p) ==
    /\ holder = p
    /\ \E f \in File, c \in Content : store' = [store EXCEPT ![f] = c]
    /\ UNCHANGED holder

Discard(p) ==
    /\ holder = p
    /\ \E gone \in SUBSET File :
         store' = [f \in File |-> IF f \in gone THEN None ELSE store[f]]
    /\ holder' \in {p, None}

Next == \E p \in Procs : Take(p) \/ Give(p) \/ Replace(p) \/ Discard(p)

Spec == Init /\ [][Next]_vars
=============================================================================
