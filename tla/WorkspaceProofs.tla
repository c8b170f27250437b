--------------------------- MODULE WorkspaceProofs ---------------------------
(***************************************************************************)
(* Theorems of Workspace, for any number of invocations and lock inodes    *)
(* and any of the snapshots: exclusion, reads that stand, litter, and that *)
(* the file operations implement SnapshotStore.                            *)
(***************************************************************************)
EXTENDS Workspace, SequenceTheorems, TLAPS

\* Every open descriptor is of the inode the name has, for nobody unlinks the
\* name; so the kernel lock of that inode is the lock of the directory.
LockFollows ==
    /\ \A p \in Procs : holds[p] <=> pc[p] \in InSession
    /\ \A p \in Procs : fd[p] # None => fd[p] = lockfile
    /\ \A p, q \in Procs : holds[p] /\ holds[q] => p = q

\* What a session remembers, it has got after the directory was prepared.
Fresh == {"idle", "open", "flock", "prepare", "wipe", "mkdir"}
SeenInside == \A p \in Procs : pc[p] \in Fresh => seen[p] = Nothing

\* A temporary file is that of the write at the head of the session call.
TempIsHead ==
    \A p \in Procs : temp[p] # None => pc[p] = "write" /\ todo[p] # <<>>

IInv ==
    /\ TypeOK
    /\ LockFollows
    /\ SeenInside
    /\ TempIsHead
    /\ LoadStands
    /\ LitterNeedsCrash

\* Nobody has started.
THEOREM InitIInv == Init => IInv
  <1> SUFFICES ASSUME Init PROVE IInv
    OBVIOUS
  <1> USE WorkspaceAssumption DEF Init, Nothing
  <1>1. TypeOK
    <2>1. <<>> \in Seq({"load", "inputs", "waivers", "result"}) /\ <<>> \in Seq(File)
      OBVIOUS
    <2>2. /\ script \in [Procs -> Seq({"load", "inputs", "waivers", "result"})]
          /\ todo \in [Procs -> Seq(File)]
      BY <2>1
    <2>3. /\ temp \in [Procs -> [file : File, whole : BOOLEAN] \cup {None}]
          /\ store \in [File -> Content \cup {None}]
          /\ seen \in [Procs -> [File -> Content \cup {None}]]
      OBVIOUS
    <2> QED
      BY <2>2, <2>3 DEF TypeOK, Location, Mode
  <1>2. LockFollows
    BY DEF LockFollows, InSession
  <1>3. SeenInside /\ TempIsHead /\ LoadStands /\ LitterNeedsCrash
    BY DEF SeenInside, TempIsHead, LoadStands, LitterNeedsCrash
  <1> QED
    BY <1>1, <1>2, <1>3 DEF IInv

-----------------------------------------------------------------------------
\* Locations are distinct strings.
USE DEF InSession, Location, Fresh

\* The session calls and their files.
LEMMA ScriptTyped ==
  ASSUME NEW m \in Mode
  PROVE  Script(m) \in Seq({"load", "inputs", "waivers", "result"})
  BY DEF Script, Mode

LEMMA FilesTyped ==
  ASSUME NEW call \in {"load", "inputs", "waivers", "result"}
  PROVE  FilesOf(call) \in Seq(File)
  <1> DEFINE One(f) == IF f \in File THEN <<f>> ELSE <<>>
  <1>1. \A f : One(f) \in Seq(File)
    OBVIOUS
  <1> HIDE DEF One
  <1>2. One("rules") \o One("tc") \in Seq(File) /\ One("waive") \o One("exclude") \in Seq(File)
    BY <1>1, ConcatProperties
  <1>3. /\ (One("rules") \o One("tc")) \o One("result") \in Seq(File)
        /\ (One("rules") \o One("tc")) \o (One("waive") \o One("exclude")) \in Seq(File)
    BY <1>1, <1>2, ConcatProperties
  <1> QED
    BY <1>1, <1>2, <1>3 DEF FilesOf, One

LEMMA Alone ==
  ASSUME IInv, NEW p \in Procs, pc[p] \in InSession, NEW q \in Procs, q # p
  PROVE  pc[q] \notin InSession
  BY DEF IInv, LockFollows

\* The lock's part of a step inside a session that goes on.
LEMMA LockStays ==
  ASSUME IInv, NEW p \in Procs, pc[p] \in InSession,
         NEW l \in InSession, pc' = [pc EXCEPT ![p] = l],
         UNCHANGED <<lockfile, fd, holds>>
  PROVE  LockFollows'
  BY DEF IInv, TypeOK, LockFollows

\* A step inside a session that goes on and reads and writes no snapshot.
LEMMA QuietStep ==
  ASSUME IInv, NEW p \in Procs, pc[p] \in InSession,
         NEW l \in InSession, pc' = [pc EXCEPT ![p] = l],
         l \in Fresh => pc[p] \in Fresh,
         UNCHANGED <<lockfile, store, litter, crashed, mode, fd, holds, seen>>,
         dir' \in BOOLEAN,
         script' \in [Procs -> Seq({"load", "inputs", "waivers", "result"})],
         todo' \in [Procs -> Seq(File)],
         temp' \in [Procs -> [file : File, whole : BOOLEAN] \cup {None}],
         TempIsHead'
  PROVE  IInv'
  <1>1. LockFollows'
    BY LockStays
  <1>2. TypeOK'
    BY DEF IInv, TypeOK
  <1>3. SeenInside'
    BY DEF IInv, TypeOK, SeenInside
  <1>4. LoadStands' /\ LitterNeedsCrash'
    BY DEF IInv, LoadStands, LitterNeedsCrash
  <1> QED
    BY <1>1, <1>2, <1>3, <1>4 DEF IInv

\* The same, when only the location changes.
LEMMA MoveStep ==
  ASSUME IInv, NEW p \in Procs, pc[p] \in InSession, temp[p] = None,
         NEW l \in InSession, Goto(p, l),
         l \in Fresh => pc[p] \in Fresh,
         UNCHANGED <<lockfile, store, litter, crashed, mode, fd, holds, session>>,
         dir' \in BOOLEAN
  PROVE  IInv'
  <1>1. TempIsHead'
    BY DEF IInv, TypeOK, TempIsHead, Goto, session
  <1>2. QED
    BY <1>1, QuietStep DEF IInv, TypeOK, Goto, session

\* The end of open, however it comes about.
LEMMA LeaveStep ==
  ASSUME IInv, NEW p \in Procs, pc[p] # "idle", Leave(p),
         UNCHANGED <<lockfile, dir, store>>,
         litter' \in BOOLEAN, crashed' \in BOOLEAN, litter' => crashed'
  PROVE  IInv'
  <1> USE DEF IInv, Leave, Goto
  <1>1. TypeOK'
    BY DEF TypeOK, Mode, Nothing
  <1>2. LockFollows'
    BY DEF TypeOK, LockFollows
  <1>3. SeenInside' /\ TempIsHead'
    BY DEF TypeOK, SeenInside, TempIsHead
  <1>4. LoadStands'
    BY DEF TypeOK, LoadStands, Nothing
  <1> QED
    BY <1>1, <1>2, <1>3, <1>4 DEF LitterNeedsCrash

-----------------------------------------------------------------------------
(* Opening.                                                                *)

LEMMA StartIInv == ASSUME IInv, NEW p \in Procs, Start(p) PROVE IInv'
  <1> PICK m \in Mode :
        mode' = [mode EXCEPT ![p] = m] /\ script' = [script EXCEPT ![p] = Script(m)]
    BY DEF Start
  <1> USE DEF IInv, Start, Goto, shared
  <1>1. TypeOK'
    BY ScriptTyped DEF TypeOK
  <1>2. LockFollows'
    BY DEF TypeOK, LockFollows
  <1>3. SeenInside' /\ TempIsHead'
    BY DEF TypeOK, SeenInside, TempIsHead
  <1> QED
    BY <1>1, <1>2, <1>3 DEF LoadStands, LitterNeedsCrash

LEMMA OpenLockFileIInv == ASSUME IInv, NEW p \in Procs, OpenLockFile(p) PROVE IInv'
  <1> USE DEF IInv, OpenLockFile, Goto, session
  <1>1. lockfile' \in Inode /\ (lockfile # None => lockfile' = lockfile)
    BY DEF TypeOK
  <1>2. TypeOK'
    BY <1>1, WorkspaceAssumption DEF TypeOK
  <1>3. LockFollows'
    BY <1>1 DEF TypeOK, LockFollows
  <1>4. SeenInside' /\ TempIsHead'
    BY DEF TypeOK, SeenInside, TempIsHead
  <1> QED
    BY <1>2, <1>3, <1>4 DEF LoadStands, LitterNeedsCrash

\* All descriptors are of one inode, so nobody holds the lock.
LEMMA FlockIInv == ASSUME IInv, NEW p \in Procs, Flock(p) PROVE IInv'
  <1> USE DEF IInv, Flock, Goto, session, shared
  <1>1. fd[p] # None
    BY DEF TypeOK
  <1>2. ASSUME NEW q \in Procs PROVE ~holds[q]
    <2>1. holds[q] => fd[q] # None
      BY DEF TypeOK, LockFollows
    <2> QED
      BY <1>1, <2>1 DEF Taken, LockFollows
  <1>3. TypeOK'
    BY DEF TypeOK
  <1>4. LockFollows'
    BY <1>2 DEF TypeOK, LockFollows
  <1>5. SeenInside' /\ TempIsHead'
    BY DEF TypeOK, SeenInside, TempIsHead
  <1> QED
    BY <1>3, <1>4, <1>5 DEF LoadStands, LitterNeedsCrash

\* No file of the directory is touched before the session.
LEMMA PreparationIInv ==
  ASSUME IInv, NEW p \in Procs,
         \/ Prepare(p) \/ PrepareClean(p) \/ RemoveDirectory(p) \/ MakeDirectory(p)
         \/ PrepareFails(p)
  PROVE  IInv'
  <1>1. temp[p] = None
    BY DEF IInv, TempIsHead, Prepare, PrepareClean, RemoveDirectory, MakeDirectory, PrepareFails
  <1>2. dir \in BOOLEAN
    BY DEF IInv, TypeOK
  <1>3. CASE Prepare(p)
    BY <1>1, <1>2, <1>3, MoveStep DEF Prepare
  <1>4. CASE PrepareClean(p)
    BY <1>1, <1>2, <1>4, MoveStep DEF PrepareClean, shared
  <1>5. CASE RemoveDirectory(p)
    BY <1>1, <1>5, MoveStep DEF RemoveDirectory
  <1>6. CASE MakeDirectory(p)
    BY <1>1, <1>6, MoveStep DEF MakeDirectory
  <1>7. CASE PrepareFails(p)
    BY <1>1, <1>2, <1>7, MoveStep DEF PrepareFails, shared
  <1> QED
    BY <1>3, <1>4, <1>5, <1>6, <1>7

\* A snapshot goes before this session has read one, and the others are not there.
LEMMA RemoveEntryIInv == ASSUME IInv, NEW p \in Procs, RemoveEntry(p) PROVE IInv'
  <1> USE DEF IInv, RemoveEntry, session
  <1>1. \A q \in Procs : seen[q] = Nothing
    BY Alone DEF TypeOK, SeenInside
  <1>2. TypeOK'
    BY DEF TypeOK
  <1>3. LockFollows' /\ SeenInside' /\ TempIsHead'
    BY DEF LockFollows, SeenInside, TempIsHead
  <1>4. LoadStands'
    BY <1>1 DEF LoadStands, Nothing
  <1>5. LitterNeedsCrash'
    BY DEF LitterNeedsCrash
  <1> QED
    BY <1>2, <1>3, <1>4, <1>5

-----------------------------------------------------------------------------
(* The session.                                                            *)

LEMMA CallIInv == ASSUME IInv, NEW p \in Procs, Call(p) PROVE IInv'
  <1> DEFINE call == Head(script[p])
             l == IF call = "load" THEN "read" ELSE "write"
  <1> USE DEF Call, Goto, shared
  <1>1. script \in [Procs -> Seq({"load", "inputs", "waivers", "result"})]
    BY DEF IInv, TypeOK
  <1>2. /\ call \in {"load", "inputs", "waivers", "result"}
        /\ Tail(script[p]) \in Seq({"load", "inputs", "waivers", "result"})
    BY <1>1, HeadTailProperties
  <1>3. FilesOf(call) \in Seq(File)
    BY <1>2, FilesTyped
  <1>4. temp[p] = None
    BY DEF IInv, TempIsHead
  <1>5. TempIsHead'
    BY <1>4 DEF IInv, TypeOK, TempIsHead
  <1>6. todo' \in [Procs -> Seq(File)] /\ script' \in [Procs -> Seq({"load", "inputs", "waivers", "result"})]
    BY <1>1, <1>2, <1>3 DEF IInv, TypeOK
  <1>7. temp' \in [Procs -> [file : File, whole : BOOLEAN] \cup {None}] /\ dir' \in BOOLEAN
    BY DEF IInv, TypeOK
  <1>8. pc[p] \in InSession /\ l \in InSession /\ l \notin Fresh /\ pc' = [pc EXCEPT ![p] = l]
    OBVIOUS
  <1> HIDE DEF l, call
  <1> QED
    BY <1>5, <1>6, <1>7, <1>8, QuietStep

LEMMA EndSessionIInv == ASSUME IInv, NEW p \in Procs, EndSession(p) PROVE IInv'
  <1>1. temp[p] = None /\ dir \in BOOLEAN
    BY DEF IInv, TypeOK, TempIsHead, EndSession
  <1> QED
    BY <1>1, MoveStep DEF EndSession, shared

LEMMA ReturnIInv == ASSUME IInv, NEW p \in Procs, Return(p) PROVE IInv'
  <1>1. temp[p] = None /\ dir \in BOOLEAN
    BY DEF IInv, TypeOK, TempIsHead, Return
  <1> QED
    BY <1>1, MoveStep DEF Return, shared

LEMMA ReadIInv == ASSUME IInv, NEW p \in Procs, Read(p) PROVE IInv'
  <1> DEFINE f == Head(todo[p])
  <1>1. temp[p] = None /\ dir \in BOOLEAN
    BY DEF IInv, TypeOK, TempIsHead, Read
  <1>2. CASE store[f] = None
    <2>1. Goto(p, "close") /\ pc[p] \in InSession
          /\ UNCHANGED <<lockfile, store, litter, crashed, mode, fd, holds, session, dir>>
      BY <1>2 DEF Read, shared, session
    <2> QED
      BY <2>1, <1>1, MoveStep
  <1>3. CASE store[f] # None
    <2> USE <1>3 DEF IInv, Read, shared
    <2>1. todo[p] \in Seq(File) /\ todo[p] # <<>>
      BY DEF TypeOK
    <2>2. f \in File /\ Tail(todo[p]) \in Seq(File)
      BY <2>1, HeadTailProperties
    <2>3. /\ seen' = [seen EXCEPT ![p][f] = store[f]]
          /\ todo' = [todo EXCEPT ![p] = Tail(@)]
          /\ UNCHANGED <<pc, shared, mode, fd, holds, script, temp>>
      OBVIOUS
    <2> HIDE DEF f
    <2>4. TypeOK'
      BY <2>2, <2>3 DEF TypeOK
    <2>5. LockFollows'
      BY <2>3 DEF LockFollows, shared
    <2>6. SeenInside' /\ TempIsHead'
      BY <1>1, <2>3 DEF TypeOK, SeenInside, TempIsHead
    <2>7. LoadStands'
      BY <2>2, <2>3 DEF TypeOK, LoadStands
    <2> QED
      BY <2>4, <2>5, <2>6, <2>7 DEF LitterNeedsCrash
  <1> QED
    BY <1>2, <1>3

LEMMA MakeTempIInv == ASSUME IInv, NEW p \in Procs, MakeTemp(p) PROVE IInv'
  <1> USE DEF MakeTemp, shared
  <1>1. todo[p] \in Seq(File) /\ todo[p] # <<>>
    BY DEF IInv, TypeOK
  <1>2. Head(todo[p]) \in File
    BY <1>1, HeadTailProperties
  <1>3. temp' \in [Procs -> [file : File, whole : BOOLEAN] \cup {None}]
    BY <1>2 DEF IInv, TypeOK
  <1>4. TempIsHead'
    BY DEF IInv, TypeOK, TempIsHead
  <1>5. pc' = [pc EXCEPT ![p] = "write"] /\ dir' \in BOOLEAN
    BY DEF IInv, TypeOK
  <1>6. /\ script' \in [Procs -> Seq({"load", "inputs", "waivers", "result"})]
        /\ todo' \in [Procs -> Seq(File)]
    BY DEF IInv, TypeOK
  <1> QED
    BY <1>3, <1>4, <1>5, <1>6, QuietStep

LEMMA FillTempIInv == ASSUME IInv, NEW p \in Procs, FillTemp(p) PROVE IInv'
  <1> USE DEF FillTemp, shared
  <1>1. temp[p] \in [file : File, whole : BOOLEAN]
    BY DEF IInv, TypeOK
  <1>2. [temp[p] EXCEPT !.whole = TRUE] \in [file : File, whole : BOOLEAN]
    BY <1>1
  <1>3. temp' \in [Procs -> [file : File, whole : BOOLEAN] \cup {None}]
    BY <1>2 DEF IInv, TypeOK
  <1>4. TempIsHead'
    BY DEF IInv, TypeOK, TempIsHead
  <1>5. pc' = [pc EXCEPT ![p] = "write"] /\ dir' \in BOOLEAN
    BY DEF IInv, TypeOK
  <1>6. /\ script' \in [Procs -> Seq({"load", "inputs", "waivers", "result"})]
        /\ todo' \in [Procs -> Seq(File)]
    BY DEF IInv, TypeOK
  <1> QED
    BY <1>3, <1>4, <1>5, <1>6, QuietStep

\* What a replacement is: the one write to the directory that a reader sees.
LEMMA ReplaceFileWrites ==
  ASSUME IInv, NEW p \in Procs, ReplaceFile(p)
  PROVE  \E f \in File, c \in [by : {p}, whole : {TRUE}] :
            /\ store' = [store EXCEPT ![f] = c]
            /\ seen' = [seen EXCEPT ![p][f] = None]
  <1>1. temp[p] \in [file : File, whole : BOOLEAN]
    BY DEF IInv, TypeOK, ReplaceFile
  <1>2. temp[p].file \in File /\ [by |-> p, whole |-> temp[p].whole] \in [by : {p}, whole : {TRUE}]
    BY <1>1 DEF ReplaceFile
  <1> QED
    BY <1>2 DEF ReplaceFile

LEMMA ReplaceFileIInv == ASSUME IInv, NEW p \in Procs, ReplaceFile(p) PROVE IInv'
  <1>1. PICK f \in File, c \in [by : {p}, whole : {TRUE}] :
          /\ store' = [store EXCEPT ![f] = c]
          /\ seen' = [seen EXCEPT ![p][f] = None]
    BY ReplaceFileWrites
  <1>2. c \in Content
    BY DEF Content
  <1>3. todo[p] \in Seq(File) /\ todo[p] # <<>>
    BY DEF IInv, TypeOK, TempIsHead, ReplaceFile
  <1>4. Tail(todo[p]) \in Seq(File)
    BY <1>3, HeadTailProperties
  <1>5. /\ temp' = [temp EXCEPT ![p] = None]
        /\ todo' = [todo EXCEPT ![p] = Tail(@)]
        /\ UNCHANGED <<lockfile, dir, litter, crashed, pc, mode, fd, holds, script>>
        /\ pc[p] = "write"
    BY DEF ReplaceFile
  <1>6. TypeOK'
    BY <1>1, <1>2, <1>4, <1>5 DEF IInv, TypeOK
  <1>7. LockFollows' /\ LitterNeedsCrash'
    BY <1>5 DEF IInv, LockFollows, LitterNeedsCrash
  <1>8. SeenInside' /\ TempIsHead'
    BY <1>1, <1>5 DEF IInv, TypeOK, SeenInside, TempIsHead
  <1>9. LoadStands'
    <2> SUFFICES ASSUME NEW q \in Procs, NEW g \in File, seen'[q][g] # None
                 PROVE  store'[g] = seen'[q][g]
      BY DEF LoadStands
    <2>1. CASE q = p
      BY <1>1, <1>5, <2>1 DEF IInv, TypeOK, LoadStands
    <2>2. CASE q # p
      <3>1. seen[q] = Nothing
        BY <1>5, <2>2, Alone DEF IInv, TypeOK, SeenInside
      <3> QED
        BY <1>1, <2>2, <3>1 DEF IInv, TypeOK, Nothing
    <2> QED
      BY <2>1, <2>2
  <1> QED
    BY <1>6, <1>7, <1>8, <1>9 DEF IInv

LEMMA FailWriteIInv == ASSUME IInv, NEW p \in Procs, FailWrite(p) PROVE IInv'
  <1> USE DEF FailWrite, shared, Goto
  <1>1. temp' \in [Procs -> [file : File, whole : BOOLEAN] \cup {None}]
    BY DEF IInv, TypeOK
  <1>2. TempIsHead'
    BY DEF IInv, TypeOK, TempIsHead
  <1>3. dir' \in BOOLEAN
    BY DEF IInv, TypeOK
  <1>4. /\ script' \in [Procs -> Seq({"load", "inputs", "waivers", "result"})]
        /\ todo' \in [Procs -> Seq(File)]
    BY DEF IInv, TypeOK
  <1> QED
    BY <1>1, <1>2, <1>3, <1>4, QuietStep

\* Every way out of open.
LEMMA WayOutIInv ==
  ASSUME IInv, NEW p \in Procs, FlockBusy(p) \/ Close(p) \/ Crash(p)
  PROVE  IInv'
  <1> USE DEF IInv, TypeOK, LitterNeedsCrash
  <1>1. CASE FlockBusy(p)
    BY <1>1, LeaveStep DEF FlockBusy, shared
  <1>2. CASE Close(p)
    BY <1>2, LeaveStep DEF Close, shared
  <1>3. CASE Crash(p)
    BY <1>3, LeaveStep DEF Crash
  <1> QED
    BY <1>1, <1>2, <1>3

\* The invariant is preserved by every step.
THEOREM NextIInv == IInv /\ [Next]_vars => IInv'
  <1> SUFFICES ASSUME IInv, [Next]_vars PROVE IInv'
    OBVIOUS
  <1>1. CASE UNCHANGED vars
    BY <1>1 DEF IInv, TypeOK, LockFollows, SeenInside, TempIsHead, LoadStands,
                LitterNeedsCrash, Nothing, vars
  <1>2. CASE Next
    <2>1. PICK p \in Procs : Start(p) \/ Step(p) \/ Crash(p)
      BY <1>2 DEF Next
    <2> QED
      BY <2>1, StartIInv, OpenLockFileIInv, FlockIInv, PreparationIInv, RemoveEntryIInv,
         CallIInv, EndSessionIInv, ReturnIInv, ReadIInv, MakeTempIInv, FillTempIInv,
         ReplaceFileIInv, FailWriteIInv, WayOutIInv
      DEF Step
  <1> QED
    BY <1>1, <1>2

LEMMA AlwaysIInv == Spec => []IInv
  BY InitIInv, NextIInv, PTL DEF Spec

-----------------------------------------------------------------------------
\* The state of every number of invocations is of its types.
THEOREM TypeCorrect == Spec => []TypeOK
  <1>1. IInv => TypeOK
    BY DEF IInv
  <1> QED
    BY <1>1, AlwaysIInv, PTL

\* The lock file's kernel lock keeps all but one invocation out of the directory.
THEOREM Exclusion == Spec => []MutualExclusion
  <1>1. IInv => MutualExclusion
    BY DEF IInv, LockFollows, MutualExclusion
  <1> QED
    BY <1>1, AlwaysIInv, PTL

\* What a session has read of the cached snapshots stays true while it lasts.
THEOREM ReadsStand == Spec => []LoadStands
  <1>1. IInv => LoadStands
    BY DEF IInv
  <1> QED
    BY <1>1, AlwaysIInv, PTL

\* Temporary files are left behind by deaths only.
THEOREM LitterIsFromCrashes == Spec => []LitterNeedsCrash
  <1>1. IInv => LitterNeedsCrash
    BY DEF IInv
  <1> QED
    BY <1>1, AlwaysIInv, PTL

-----------------------------------------------------------------------------
(* The refinement of SnapshotStore.                                        *)

\* The session that holds the lock is the holder of the abstract directory.
LEMMA HolderKnown ==
  ASSUME IInv
  PROVE  /\ \A p \in Procs : pc[p] \in InSession => Holder = p
         /\ (\A p \in Procs : pc[p] \notin InSession) => Holder = None
  BY DEF IInv, LockFollows, Holder

LEMMA HolderSame ==
  ASSUME UNCHANGED holds
  PROVE  Holder' = Holder
  BY DEF Holder

\* Every file operation replaces or removes a whole snapshot under the lock, takes
\* or gives back the lock, or changes nothing a reader could see.
LEMMA StepRefines ==
  ASSUME IInv, IInv', NEW p \in Procs, Start(p) \/ Step(p) \/ Crash(p)
  PROVE  Store!Next \/ UNCHANGED <<Holder, store>>
  <1>1. CASE UNCHANGED <<holds, store>>
    BY <1>1, HolderSame
  <1>2. CASE Flock(p)
    <2>1. pc[p] \notin InSession /\ pc'[p] \in InSession
      BY <1>2 DEF Flock, Goto, IInv, TypeOK
    <2>2. \A q \in Procs : q # p => pc'[q] \notin InSession /\ pc'[q] = pc[q]
      BY <1>2, <2>1 DEF Flock, Goto, IInv, TypeOK, LockFollows
    <2>3. Holder' = p
      BY <2>1 DEF IInv, LockFollows, Holder
    <2>4. Holder = None
      BY <2>1, <2>2, HolderKnown
    <2>5. UNCHANGED store
      BY <1>2 DEF Flock, shared
    <2>6. Store!Take(p)
      BY <2>3, <2>4, <2>5 DEF Store!Take
    <2> QED
      BY <2>6 DEF Store!Next
  <1>3. CASE Leave(p) /\ UNCHANGED store
    <2>1. CASE pc[p] \in InSession
      <3>1. Holder = p
        BY <2>1, HolderKnown
      <3>2. \A q \in Procs : holds'[q] = FALSE
        BY <1>3, <2>1 DEF Leave, IInv, TypeOK, LockFollows
      <3>3. Holder' = None
        BY <3>2 DEF Holder
      <3>4. Store!Give(p)
        BY <1>3, <3>1, <3>3 DEF Store!Give
      <3> QED
        BY <3>4 DEF Store!Next
    <2>2. CASE pc[p] \notin InSession
      <3>1. UNCHANGED holds
        BY <1>3, <2>2 DEF Leave, IInv, TypeOK, LockFollows
      <3> QED
        BY <1>3, <3>1, HolderSame
    <2> QED
      BY <2>1, <2>2
  <1>4. CASE RemoveEntry(p)
    <2>1. Holder = p /\ Holder' = Holder
      BY <1>4, HolderKnown, HolderSame DEF RemoveEntry
    <2>2. CASE \E f \in File : store' = [store EXCEPT ![f] = None]
      <3>1. PICK f \in File : store' = [store EXCEPT ![f] = None]
        BY <2>2
      <3>2. store' = [g \in File |-> IF g \in {f} THEN None ELSE store[g]]
        BY <3>1 DEF IInv, TypeOK
      <3>3. {f} \in SUBSET File
        OBVIOUS
      <3>4. Store!Discard(p)
        BY <2>1, <3>2, <3>3 DEF Store!Discard
      <3> QED
        BY <3>4 DEF Store!Next
    <2>3. CASE UNCHANGED store
      BY <2>1, <2>3
    <2> QED
      BY <1>4, <2>2, <2>3 DEF RemoveEntry
  <1>5. CASE ReplaceFile(p)
    <2>1. Holder = p /\ Holder' = Holder
      BY <1>5, HolderKnown, HolderSame DEF ReplaceFile
    <2>2. PICK f \in File, c \in [by : {p}, whole : {TRUE}] :
            /\ store' = [store EXCEPT ![f] = c]
            /\ seen' = [seen EXCEPT ![p][f] = None]
      BY <1>5, ReplaceFileWrites
    <2>3. c \in [by : Procs, whole : {TRUE}]
      OBVIOUS
    <2>4. Store!Replace(p)
      BY <2>1, <2>2, <2>3 DEF Store!Replace
    <2> QED
      BY <2>4 DEF Store!Next
  <1>6. Step(p) => \/ UNCHANGED <<holds, store>> \/ Flock(p) \/ RemoveEntry(p) \/ ReplaceFile(p)
                   \/ Leave(p) /\ UNCHANGED store
    BY DEF Step, OpenLockFile, FlockBusy, Prepare, PrepareClean, RemoveDirectory, MakeDirectory,
           PrepareFails, Call, EndSession, Return, Read, MakeTemp, FillTemp, FailWrite, Close,
           shared
  <1>7. /\ Start(p) => UNCHANGED <<holds, store>>
        /\ Crash(p) => Leave(p) /\ UNCHANGED store
    BY DEF Start, Crash, shared
  <1> QED
    BY <1>1, <1>2, <1>3, <1>4, <1>5, <1>6, <1>7

\* File operation by file operation, the directory is what SnapshotStore promises.
THEOREM Refinement == Spec => ImplementsSnapshotStore
  <1>1. Init => Store!Init
    BY DEF Init, Store!Init, Holder, Nothing
  <1>2. IInv /\ IInv' /\ [Next]_vars => [Store!Next]_(Store!vars)
    <2> SUFFICES ASSUME IInv, IInv', [Next]_vars PROVE [Store!Next]_(Store!vars)
      OBVIOUS
    <2>1. CASE UNCHANGED vars
      BY <2>1, HolderSame DEF vars, Store!vars
    <2>2. CASE Next
      BY <2>2, StepRefines DEF Next, Store!vars
    <2> QED
      BY <2>1, <2>2
  <1> QED
    BY <1>1, <1>2, AlwaysIInv, PTL DEF Spec, ImplementsSnapshotStore, Store!Spec
=============================================================================
