------------------------------ MODULE Workspace ------------------------------
(***************************************************************************)
(* WorkspaceManager.open and WorkspaceSession (src/esim/workspace), one    *)
(* file operation at a time: the kernel lock on a file beside the          *)
(* simulation directory, the preparation of the directory by mode, the     *)
(* reading of cached snapshots, and every snapshot written to a temporary  *)
(* file that then replaces the old one.  The lock belongs to the inode     *)
(* that was opened, not to its name.                                       *)
(***************************************************************************)
EXTENDS Naturals, Sequences

CONSTANTS Procs,        \* the invocations of esim
          File,         \* the snapshot files looked at, among Snapshots
          MaxInodes,    \* how many lock files may be created at most
          None          \* no file, no inode

Inode == 1 .. MaxInodes
Mode == {"clean", "keep", "action", "check"}
Snapshots == {"rules", "tc", "waive", "exclude", "result"}

\* A snapshot: the invocation that wrote it, and whether all of it is there.
Content == [by : Procs, whole : BOOLEAN]

ASSUME WorkspaceAssumption ==
    File \subseteq Snapshots /\ MaxInodes \in Nat \ {0} /\ None \notin Procs /\ None \notin Inode
        /\ None \notin Content

VARIABLES
    lockfile,       \* the inode the lock path names, or None
    dir,            \* the simulation directory exists
    store,          \* snapshot file -> its content, or None
    litter,         \* temporary files of dead or failed writers are in the directory
    crashed,        \* history: some invocation died while the directory held its file
    pc, mode,       \* of each invocation
    fd,             \* the inode of its lock file descriptor, or None
    holds,          \* it holds the kernel lock on that inode
    script,         \* the session calls the application still intends
    todo,           \* the files of the session call under way
    temp,           \* its temporary file: [file, whole], or None
    seen            \* file -> what it has read of it and not itself replaced

vars == <<lockfile, dir, store, litter, crashed, pc, mode, fd, holds, script, todo, temp,
          seen>>
shared == <<lockfile, dir, store, litter, crashed>>
session == <<script, todo, temp, seen>>

InSession == {"prepare", "wipe", "mkdir", "session", "write", "read", "close"}
Location == {"idle", "open", "flock"} \cup InSession

Nothing == [f \in File |-> None]

-----------------------------------------------------------------------------
Init ==
    /\ lockfile = None
    /\ dir = FALSE
    /\ store = Nothing
    /\ litter = FALSE
    /\ crashed = FALSE
    /\ pc = [p \in Procs |-> "idle"]
    /\ mode = [p \in Procs |-> "clean"]
    /\ fd = [p \in Procs |-> None]
    /\ holds = [p \in Procs |-> FALSE]
    /\ script = [p \in Procs |-> <<>>]
    /\ todo = [p \in Procs |-> <<>>]
    /\ temp = [p \in Procs |-> None]
    /\ seen = [p \in Procs |-> Nothing]

Goto(p, l) == pc' = [pc EXCEPT ![p] = l]

\* The calls EsimApplication.run and check make on a session.
Script(m) ==
    CASE m \in {"clean", "keep"} -> <<"inputs", "result", "result">>
      [] m = "action"            -> <<"load", "inputs", "result", "result">>
      [] m = "check"             -> <<"load", "waivers", "result">>

\* The files a call goes through, in order.
FilesOf(call) ==
    LET One(f)  == IF f \in File THEN <<f>> ELSE <<>>
        inputs  == One("rules") \o One("tc")
        waivers == One("waive") \o One("exclude")
    IN  CASE call = "load"    -> inputs \o One("result")
          [] call = "inputs"  -> inputs \o waivers
          [] call = "waivers" -> waivers
          [] call = "result"  -> One("result")

-----------------------------------------------------------------------------
(* Opening.                                                                *)

Start(p) ==
    /\ pc[p] = "idle"
    /\ \E m \in Mode :
         /\ mode' = [mode EXCEPT ![p] = m]
         /\ script' = [script EXCEPT ![p] = Script(m)]
    /\ Goto(p, "open")
    /\ UNCHANGED <<shared, fd, holds, todo, temp, seen>>

\* os.open(lock_path, O_RDWR | O_CREAT): a new inode if the name has none.
OpenLockFile(p) ==
    /\ pc[p] = "open"
    /\ lockfile' \in IF lockfile = None THEN Inode \ {fd[q] : q \in Procs} ELSE {lockfile}
    /\ fd' = [fd EXCEPT ![p] = lockfile']
    /\ Goto(p, "flock")
    /\ UNCHANGED <<dir, store, litter, crashed, mode, holds, session>>

Taken(p) == \E q \in Procs : holds[q] /\ fd[q] = fd[p]

\* Mutant: check takes a shared lock.
FlockSharedForCheck(p) ==
    /\ pc[p] = "flock"
    /\ ~Taken(p) \/ mode[p] = "check"
    /\ holds' = [holds EXCEPT ![p] = TRUE]
    /\ Goto(p, "prepare")
    /\ UNCHANGED <<shared, mode, fd, session>>

\* flock(LOCK_EX | LOCK_NB)
Flock(p) ==
    /\ pc[p] = "flock"
    /\ ~Taken(p)
    /\ holds' = [holds EXCEPT ![p] = TRUE]
    /\ Goto(p, "prepare")
    /\ UNCHANGED <<shared, mode, fd, session>>

\* The end of open, on every way out: the descriptor is closed and with it
\* the lock is gone.
Leave(p) ==
    /\ fd' = [fd EXCEPT ![p] = None]
    /\ holds' = [holds EXCEPT ![p] = FALSE]
    /\ script' = [script EXCEPT ![p] = <<>>]
    /\ todo' = [todo EXCEPT ![p] = <<>>]
    /\ temp' = [temp EXCEPT ![p] = None]
    /\ seen' = [seen EXCEPT ![p] = Nothing]
    /\ mode' = [mode EXCEPT ![p] = "clean"]
    /\ Goto(p, "idle")

\* Mutant: LOCK_EX without LOCK_NB waits.
FlockWaits(p) == pc[p] = "flock" /\ Taken(p) /\ UNCHANGED vars

\* WorkspaceBusyError
FlockBusy(p) ==
    /\ pc[p] = "flock"
    /\ Taken(p)
    /\ Leave(p)
    /\ UNCHANGED shared

\* _prepare, where no file is removed: KEEP makes a missing directory, ACTION
\* and CHECK refuse one (InputError).
Prepare(p) ==
    /\ pc[p] = "prepare" /\ mode[p] # "clean"
    /\ dir' = (dir \/ mode[p] = "keep")
    /\ Goto(p, IF dir' THEN "session" ELSE "close")
    /\ UNCHANGED <<lockfile, store, litter, crashed, mode, fd, holds, session>>

\* _prepare, CLEAN: rmtree when there is a directory, then mkdir.
PrepareClean(p) ==
    /\ pc[p] = "prepare" /\ mode[p] = "clean"
    /\ Goto(p, IF dir THEN "wipe" ELSE "mkdir")
    /\ UNCHANGED <<shared, mode, fd, holds, session>>

RemoveEntry(p) ==
    /\ pc[p] = "wipe"
    /\ \/ /\ \E f \in File : store[f] # None /\ store' = [store EXCEPT ![f] = None]
          /\ UNCHANGED litter
       \/ /\ litter /\ litter' = FALSE
          /\ UNCHANGED store
    /\ UNCHANGED <<lockfile, dir, crashed, pc, mode, fd, holds, session>>

\* Mutant: the lock file lies in the directory, and goes with it.
RemoveDirectoryWithLock(p) ==
    /\ pc[p] = "wipe" /\ store = Nothing /\ ~litter
    /\ dir' = FALSE /\ lockfile' = None
    /\ Goto(p, "mkdir")
    /\ UNCHANGED <<store, litter, crashed, mode, fd, holds, session>>

RemoveDirectory(p) ==
    /\ pc[p] = "wipe" /\ store = Nothing /\ ~litter
    /\ dir' = FALSE
    /\ Goto(p, "mkdir")
    /\ UNCHANGED <<lockfile, store, litter, crashed, mode, fd, holds, session>>

MakeDirectory(p) ==
    /\ pc[p] = "mkdir"
    /\ dir' = TRUE
    /\ Goto(p, "session")
    /\ UNCHANGED <<lockfile, store, litter, crashed, mode, fd, holds, session>>

\* rmtree or mkdir raises, with some entries gone already.
PrepareFails(p) ==
    /\ pc[p] \in {"wipe", "mkdir"}
    /\ Goto(p, "close")
    /\ UNCHANGED <<shared, mode, fd, holds, session>>

-----------------------------------------------------------------------------
(* The session.                                                            *)

Call(p) ==
    /\ pc[p] = "session" /\ script[p] # <<>>
    /\ todo' = [todo EXCEPT ![p] = FilesOf(Head(script[p]))]
    /\ script' = [script EXCEPT ![p] = Tail(@)]
    /\ Goto(p, IF Head(script[p]) = "load" THEN "read" ELSE "write")
    /\ UNCHANGED <<shared, mode, fd, holds, temp, seen>>

\* The application returns, or an error of its own ends the session early.
EndSession(p) ==
    /\ pc[p] = "session"
    /\ Goto(p, "close")
    /\ UNCHANGED <<shared, mode, fd, holds, session>>

\* The call has gone through its files.
Return(p) ==
    /\ pc[p] \in {"read", "write"} /\ todo[p] = <<>>
    /\ Goto(p, "session")
    /\ UNCHANGED <<shared, mode, fd, holds, session>>

\* _read_required: a missing snapshot is an InputError.
Read(p) ==
    /\ pc[p] = "read" /\ todo[p] # <<>>
    /\ LET f == Head(todo[p])
       IN  IF store[f] = None
           THEN Goto(p, "close") /\ UNCHANGED <<todo, seen>>
           ELSE /\ seen' = [seen EXCEPT ![p][f] = store[f]]
                /\ todo' = [todo EXCEPT ![p] = Tail(@)]
                /\ UNCHANGED pc
    /\ UNCHANGED <<shared, mode, fd, holds, script, temp>>

\* Mutant: the snapshot itself is opened for writing.
MakeTempInPlace(p) ==
    /\ pc[p] = "write" /\ todo[p] # <<>> /\ temp[p] = None
    /\ temp' = [temp EXCEPT ![p] = [file |-> Head(todo[p]), whole |-> FALSE]]
    /\ store' = [store EXCEPT ![Head(todo[p])] = [by |-> p, whole |-> FALSE]]
    /\ UNCHANGED <<lockfile, dir, litter, crashed, pc, mode, fd, holds, script, todo, seen>>

\* _atomic_write: mkstemp in the directory, ...
MakeTemp(p) ==
    /\ pc[p] = "write" /\ todo[p] # <<>> /\ temp[p] = None
    /\ temp' = [temp EXCEPT ![p] = [file |-> Head(todo[p]), whole |-> FALSE]]
    /\ UNCHANGED <<shared, pc, mode, fd, holds, script, todo, seen>>

\* ... write, flush and fsync, ...
FillTemp(p) ==
    /\ pc[p] = "write" /\ temp[p] # None /\ ~temp[p].whole
    /\ temp' = [temp EXCEPT ![p].whole = TRUE]
    /\ UNCHANGED <<shared, pc, mode, fd, holds, script, todo, seen>>

\* ... os.replace.
ReplaceFile(p) ==
    /\ pc[p] = "write" /\ temp[p] # None /\ temp[p].whole
    /\ store' = [store EXCEPT ![temp[p].file] = [by |-> p, whole |-> temp[p].whole]]
    /\ seen' = [seen EXCEPT ![p][temp[p].file] = None]
    /\ temp' = [temp EXCEPT ![p] = None]
    /\ todo' = [todo EXCEPT ![p] = Tail(@)]
    /\ UNCHANGED <<lockfile, dir, litter, crashed, pc, mode, fd, holds, script>>

\* Mutant: no finally clause.
FailWriteLeavesTemp(p) ==
    /\ pc[p] = "write" /\ temp[p] # None
    /\ temp' = [temp EXCEPT ![p] = None]
    /\ litter' = TRUE
    /\ Goto(p, "close")
    /\ UNCHANGED <<lockfile, dir, store, crashed, mode, fd, holds, script, todo, seen>>

\* The write, the fsync or the replacement fails: the temporary file is
\* unlinked and the error ends the session.
FailWrite(p) ==
    /\ pc[p] = "write" /\ temp[p] # None
    /\ temp' = [temp EXCEPT ![p] = None]
    /\ Goto(p, "close")
    /\ UNCHANGED <<shared, mode, fd, holds, script, todo, seen>>

\* Mutant: an error in the body skips the close.
CloseLeaksDescriptor(p) ==
    /\ pc[p] = "close"
    /\ Goto(p, "idle")
    /\ UNCHANGED <<shared, mode, fd, holds, session>>

Close(p) ==
    /\ pc[p] = "close"
    /\ Leave(p)
    /\ UNCHANGED shared

\* The process dies; its temporary file stays, its lock does not.
Crash(p) ==
    /\ pc[p] # "idle"
    /\ litter' = (litter \/ temp[p] # None)
    /\ crashed' = (crashed \/ temp[p] # None)
    /\ Leave(p)
    /\ UNCHANGED <<lockfile, dir, store>>

Step(p) ==
    \/ OpenLockFile(p) \/ Flock(p) \/ FlockBusy(p)
    \/ Prepare(p) \/ PrepareClean(p) \/ RemoveEntry(p) \/ RemoveDirectory(p)
    \/ MakeDirectory(p) \/ PrepareFails(p) \/ Call(p) \/ EndSession(p) \/ Return(p) \/ Read(p)
    \/ MakeTemp(p) \/ FillTemp(p) \/ ReplaceFile(p) \/ FailWrite(p) \/ Close(p)

Next == \E p \in Procs : Start(p) \/ Step(p) \/ Crash(p)

\* A process that can go on does; whether a session ends early is its choice.
Spec == Init /\ [][Next]_vars /\ \A p \in Procs : WF_vars(Step(p))

-----------------------------------------------------------------------------
\* The types of the state, and the lock descriptor of WorkspaceManager.open is
\* there from os.open to the end of open on every way out.
TypeOK ==
    /\ lockfile \in Inode \cup {None}
    /\ dir \in BOOLEAN /\ litter \in BOOLEAN /\ crashed \in BOOLEAN
    /\ store \in [File -> Content \cup {None}]
    /\ pc \in [Procs -> Location]
    /\ mode \in [Procs -> Mode]
    /\ fd \in [Procs -> Inode \cup {None}]
    /\ holds \in [Procs -> BOOLEAN]
    /\ script \in [Procs -> Seq({"load", "inputs", "waivers", "result"})]
    /\ todo \in [Procs -> Seq(File)]
    /\ temp \in [Procs -> [file : File, whole : BOOLEAN] \cup {None}]
    /\ seen \in [Procs -> [File -> Content \cup {None}]]
    /\ \A p \in Procs : fd[p] = None <=> pc[p] \in {"idle", "open"}

\* Two invocations never work in the directory at once.  The lock protects
\* the inode only, so this rests on nobody ever unlinking the lock file: it
\* lies beside the directory that CLEAN removes, not in it.
MutualExclusion ==
    \A p, q \in Procs : (p # q /\ pc[p] \in InSession) => pc[q] \notin InSession

\* What a session has read of a cached snapshot is what is there until the
\* session itself replaces it: esim compares and rechecks without re-reading.
LoadStands ==
    \A p \in Procs, f \in File : seen[p][f] # None => store[f] = seen[p][f]

\* A temporary file outlives its session only when the process died; failed
\* writes clean up behind them, and CLEAN removes what a death has left.
LitterNeedsCrash == litter => crashed

\* The lock always comes back: an invocation waits for nobody, so each one
\* ends, with the lock refused or given back.
SessionsEnd == \A p \in Procs : pc[p] # "idle" ~> pc[p] = "idle"

-----------------------------------------------------------------------------
Holder == IF \E p \in Procs : holds[p] THEN CHOOSE p \in Procs : holds[p] ELSE None

Store == INSTANCE SnapshotStore WITH
    Content <- [by : Procs, whole : {TRUE}],
    holder  <- Holder

\* The file operations amount to SnapshotStore: mkstemp, fsync and os.replace
\* replace a snapshot as a whole, and only under the lock.
ImplementsSnapshotStore == Store!Spec
=============================================================================
