------------------------ MODULE EsimApplicationProofs ------------------------
(***************************************************************************)
(* Theorems of EsimApplication, for any number of invocations and any      *)
(* configurations and waivers.  The inductive invariant adds to the type   *)
(* invariant and to the lock's exclusion what an invocation has already    *)
(* done by the time it is at a line (Local): it is a statement about the   *)
(* holder of the lock only, and exclusion keeps everybody else from        *)
(* disturbing it.                                                          *)
(***************************************************************************)
EXTENDS EsimApplication, TLAPS

Compiled == {"waivers"} \cup Publishing \cup Executing
Judging == Publishing \cup Executing \cup {"judge"}

\* Which commands come to which lines, and what is in the locals there.
LocalTyped(p) ==
    /\ pc[p] \in Locked => cmd[p] \in Command
    /\ pc[p] \in {"compile", "rules", "tc", "notrun"} \cup Executing => cmd[p] # "check"
    /\ pc[p] = "judge" => cmd[p] = "check"
    /\ (cmd[p] # "check" /\ pc[p] \in Compiled) => want[p] \in Config
    /\ pc[p] \in Judging => judge[p] \in Waivers
    /\ pc[p] = "publish" => report[p] \in Result
    /\ (cmd[p] = "check" /\ pc[p] \in {"waivers", "waive", "exclude", "judge", "publish"})
          => result \in Result

\* The artifacts a stage reads are there when it comes to read them.
LocalArtifacts(p) ==
    /\ (cmd[p] = "build" /\ pc[p] \in Compiled) => flat \in Filelists
    /\ (cmd[p] \in {"full", "keep"} /\ pc[p] = "build") => flat = want[p].ff
    /\ pc[p] = "build" => cmd[p] \in {"full", "keep", "build"}
    /\ pc[p] = "ff" => cmd[p] \in {"full", "keep"}
    /\ pc[p] = "simulate" => simv \in Config

\* The snapshots published so far are those of the invocation.
LocalSnapshots(p) ==
    /\ pc[p] \in {"tc", "notrun"} \cup Executing => rules = want[p]
    /\ (cmd[p] # "check" /\ pc[p] \in {"waive", "exclude"})
          => rules = want[p] /\ tc = want[p]
    /\ pc[p] \in {"notrun"} \cup Executing => tc = want[p]
    /\ pc[p] \in {"exclude", "notrun"} \cup Executing => waive = judge[p]
    /\ pc[p] \in {"notrun"} \cup Executing => exclude = judge[p]
    /\ pc[p] \in Executing => result = NotRun

\* A result about to be published keeps the rule of RecordedFailureSticks.
LocalVerdict(p) ==
    (pc[p] = "publish" /\ report[p].run = "nonzero") => report[p].status = "FAIL"

\* An invocation that has come to the lock has its command.
Invoked == \A p \in Procs : pc[p] = "open" => cmd[p] \in Command

IInv ==
    /\ TypeOK
    /\ LockHeld
    /\ Invoked
    /\ RecordedFailureSticks
    /\ \A p \in Procs :
         LocalTyped(p) /\ LocalArtifacts(p) /\ LocalSnapshots(p) /\ LocalVerdict(p)

USE DEF Status

-----------------------------------------------------------------------------
\* Nobody is inside a directory that does not exist yet.
THEOREM InitIInv == Init => IInv
  <1> SUFFICES ASSUME Init PROVE IInv
    OBVIOUS
  <1> USE DEF Init, Config, Command, Result, SimvLog, Locked, Location, Publishing, Executing
  <1>1. TypeOK
    BY DEF TypeOK
  <1>2. LockHeld
    BY NoneAssumption DEF LockHeld
  <1>3. RecordedFailureSticks /\ Invoked
    BY DEF RecordedFailureSticks, Invoked
  <1>4. ASSUME NEW p \in Procs
        PROVE  LocalTyped(p) /\ LocalArtifacts(p) /\ LocalSnapshots(p) /\ LocalVerdict(p)
    BY DEF LocalTyped, LocalArtifacts, LocalSnapshots, LocalVerdict, Compiled, Judging
  <1> QED
    BY <1>1, <1>2, <1>3, <1>4 DEF IInv

-----------------------------------------------------------------------------
\* Locations are distinct strings: the facts about the sets of them.
USE DEF Locked, Location, Publishing, Executing, Compiled, Judging

\* The logs of simulations that have ended or are cut are logs.
LEMMA LogsTyped ==
  /\ \A log \in Endings : log \in SimvLog /\ log.exit \in {"zero", "nonzero"}
  /\ {[log EXCEPT !.exit = "cut"] : log \in Endings} \subseteq SimvLog
  BY EndingsAssumption DEF SimvLog

\* What Local says of an invocation that is not in the directory: nothing.
LEMMA Outside ==
  ASSUME NEW q \in Procs, (pc[q] \notin Locked)'
  PROVE  (LocalTyped(q) /\ LocalArtifacts(q) /\ LocalSnapshots(q) /\ LocalVerdict(q))'
  BY DEF LocalTyped, LocalArtifacts, LocalSnapshots, LocalVerdict

\* A step of an invocation that is alone in the directory has to be looked at
\* for that invocation only.
LEMMA AloneStep ==
  ASSUME NEW p \in Procs,
         \A q \in Procs : q # p =>
            pc[q] \notin Locked /\ pc'[q] = pc[q] /\ cmd'[q] = cmd[q],
         \/ pc'[p] \in Locked /\ lock' = p
         \/ pc'[p] = "idle" /\ lock' = None,
         Invoked, TypeOK', RecordedFailureSticks',
         LocalTyped(p)', LocalArtifacts(p)', LocalSnapshots(p)', LocalVerdict(p)'
  PROVE  IInv'
  <1>1. LockHeld' /\ Invoked'
    BY NoneAssumption DEF LockHeld, Invoked
  <1>2. ASSUME NEW q \in Procs, q # p
        PROVE  (LocalTyped(q) /\ LocalArtifacts(q) /\ LocalSnapshots(q) /\ LocalVerdict(q))'
    <2>1. (pc[q] \notin Locked)'
      BY <1>2
    <2> QED
      BY <2>1, Outside
  <1> QED
    BY <1>1, <1>2 DEF IInv

\* The holder of the lock is alone.
LEMMA HolderStep ==
  ASSUME IInv, NEW p \in Procs, pc[p] \in Locked,
         \A q \in Procs : q # p => pc'[q] = pc[q] /\ cmd'[q] = cmd[q],
         \/ pc'[p] \in Locked /\ lock' = lock
         \/ pc'[p] = "idle" /\ lock' = None,
         TypeOK', RecordedFailureSticks',
         LocalTyped(p)', LocalArtifacts(p)', LocalSnapshots(p)', LocalVerdict(p)'
  PROVE  IInv'
  <1>1. Invoked /\ lock = p /\ \A q \in Procs : q # p => pc[q] \notin Locked
    BY DEF IInv, LockHeld
  <1> QED
    BY <1>1, AloneStep

\* A step that leaves the directory to its holder: an invocation may change
\* outside the lock, and an orphan may put another simv in place.
LEMMA BystanderStep ==
  ASSUME IInv, TypeOK',
         UNCHANGED <<lock, rules, tc, waive, exclude, result, flat>>,
         simv' = simv \/ simv' \in Config,
         \A q \in Procs :
            \/ pc'[q] = pc[q] /\ cmd'[q] = cmd[q] /\ want'[q] = want[q]
                  /\ judge'[q] = judge[q] /\ report'[q] = report[q]
            \/ pc[q] \notin Locked /\ pc'[q] \notin Locked
                  /\ (pc'[q] = "open" => cmd'[q] \in Command)
  PROVE  IInv'
  <1>1. LockHeld' /\ Invoked'
    BY DEF IInv, LockHeld, Invoked
  <1>2. RecordedFailureSticks'
    BY DEF IInv, RecordedFailureSticks
  <1>3. ASSUME NEW q \in Procs
        PROVE  (LocalTyped(q) /\ LocalArtifacts(q) /\ LocalSnapshots(q) /\ LocalVerdict(q))'
    <2>1. CASE (pc[q] \notin Locked)'
      BY <2>1, Outside
    <2>2. CASE pc'[q] = pc[q] /\ cmd'[q] = cmd[q] /\ want'[q] = want[q]
                 /\ judge'[q] = judge[q] /\ report'[q] = report[q]
      BY <2>2 DEF IInv, LocalTyped, LocalArtifacts, LocalSnapshots, LocalVerdict
    <2> QED
      BY <2>1, <2>2
  <1> QED
    BY <1>1, <1>2, <1>3 DEF IInv

\* Preparing the directory by mode keeps the invariant: what CLEAN removes is
\* nothing the invocation has relied on yet.
LEMMA PrepareKeeps ==
  ASSUME IInv, NEW p \in Procs, Prepare(p)
  PROVE  IInv'
  <1> USE DEF IInv, Prepare, At, Goto, Remove, env, inputs, artifacts, local, history
  <1>1. pc[p] \in Locked /\ pc'[p] \in Locked /\ lock' = lock
        /\ \A q \in Procs : q # p => pc'[q] = pc[q] /\ cmd'[q] = cmd[q]
    OBVIOUS
  <1>2. TypeOK'
    BY DEF TypeOK
  <1>3. RecordedFailureSticks'
    BY DEF RecordedFailureSticks
  <1>4. LocalTyped(p)'
    BY DEF LocalTyped
  <1>5. LocalArtifacts(p)'
    BY DEF LocalArtifacts
  <1>6. LocalSnapshots(p)'
    BY DEF LocalSnapshots
  <1>7. LocalVerdict(p)'
    BY DEF LocalVerdict
  <1> QED
    BY <1>1, <1>2, <1>3, <1>4, <1>5, <1>6, <1>7, HolderStep

\* Loading the cached snapshots finds a result for check to work with.
LEMMA LoadKeeps ==
  ASSUME IInv, NEW p \in Procs, Load(p)
  PROVE  IInv'
  <1> USE DEF IInv, Load, At, Goto, env, dir, local, history
  <1>1. pc[p] \in Locked /\ pc'[p] \in Locked /\ lock' = lock
        /\ \A q \in Procs : q # p => pc'[q] = pc[q] /\ cmd'[q] = cmd[q]
    OBVIOUS
  <1>2. TypeOK'
    BY DEF TypeOK
  <1>3. RecordedFailureSticks'
    BY DEF RecordedFailureSticks
  <1>4. LocalTyped(p)'
    BY DEF TypeOK, LocalTyped
  <1>5. LocalArtifacts(p)'
    BY DEF LocalArtifacts
  <1>6. LocalSnapshots(p)'
    BY DEF LocalSnapshots
  <1>7. LocalVerdict(p)'
    BY DEF LocalVerdict
  <1> QED
    BY <1>1, <1>2, <1>3, <1>4, <1>5, <1>6, <1>7, HolderStep

\* Compiling leaves a configuration in want, and for a build action flattened.f
\* is there.
LEMMA CompileKeeps ==
  ASSUME IInv, NEW p \in Procs, Compile(p)
  PROVE  IInv'
  <1> USE DEF IInv, Compile, At, Goto, env, dir, history
  <1>1. pc[p] \in Locked /\ pc'[p] \in Locked /\ lock' = lock
        /\ \A q \in Procs : q # p => pc'[q] = pc[q] /\ cmd'[q] = cmd[q]
    OBVIOUS
  <1>2. TypeOK'
    BY DEF TypeOK
  <1>3. RecordedFailureSticks'
    BY DEF RecordedFailureSticks
  <1>4. LocalTyped(p)'
    BY DEF TypeOK, LocalTyped
  <1>5. LocalArtifacts(p)'
    BY DEF TypeOK, LocalArtifacts
  <1>6. LocalSnapshots(p)'
    BY DEF LocalSnapshots
  <1>7. LocalVerdict(p)'
    BY DEF LocalVerdict
  <1> QED
    BY <1>1, <1>2, <1>3, <1>4, <1>5, <1>6, <1>7, HolderStep

\* Compiling the waivers leaves them in judge.
LEMMA CompileWaiversKeeps ==
  ASSUME IInv, NEW p \in Procs, CompileWaivers(p)
  PROVE  IInv'
  <1> USE DEF IInv, CompileWaivers, At, Goto, env, dir, history
  <1>1. pc[p] \in Locked /\ pc'[p] \in Locked /\ lock' = lock
        /\ \A q \in Procs : q # p => pc'[q] = pc[q] /\ cmd'[q] = cmd[q]
    OBVIOUS
  <1>2. TypeOK'
    BY DEF TypeOK
  <1>3. RecordedFailureSticks'
    BY DEF RecordedFailureSticks
  <1>4. LocalTyped(p)'
    BY DEF TypeOK, LocalTyped
  <1>5. LocalArtifacts(p)'
    BY DEF LocalArtifacts
  <1>6. LocalSnapshots(p)'
    BY DEF LocalSnapshots
  <1>7. LocalVerdict(p)'
    BY DEF LocalVerdict
  <1> QED
    BY <1>1, <1>2, <1>3, <1>4, <1>5, <1>6, <1>7, HolderStep

\* Publishing rules.yaml makes it the one of the invocation.
LEMMA PublishRulesKeeps ==
  ASSUME IInv, NEW p \in Procs, PublishRules(p)
  PROVE  IInv'
  <1> USE DEF IInv, PublishRules, At, Goto, env, artifacts, local, history
  <1>1. pc[p] \in Locked /\ pc'[p] \in Locked /\ lock' = lock
        /\ \A q \in Procs : q # p => pc'[q] = pc[q] /\ cmd'[q] = cmd[q]
    OBVIOUS
  <1>2. TypeOK'
    BY DEF TypeOK
  <1>3. RecordedFailureSticks'
    BY DEF RecordedFailureSticks
  <1>4. LocalTyped(p)'
    BY DEF LocalTyped
  <1>5. LocalArtifacts(p)'
    BY DEF LocalArtifacts
  <1>6. LocalSnapshots(p)'
    BY DEF LocalSnapshots
  <1>7. LocalVerdict(p)'
    BY DEF LocalVerdict
  <1> QED
    BY <1>1, <1>2, <1>3, <1>4, <1>5, <1>6, <1>7, HolderStep

\* Publishing tc.yaml makes it the one of the invocation.
LEMMA PublishTcKeeps ==
  ASSUME IInv, NEW p \in Procs, PublishTc(p)
  PROVE  IInv'
  <1> USE DEF IInv, PublishTc, At, Goto, env, artifacts, local
  <1>1. pc[p] \in Locked /\ pc'[p] \in Locked /\ lock' = lock
        /\ \A q \in Procs : q # p => pc'[q] = pc[q] /\ cmd'[q] = cmd[q]
    OBVIOUS
  <1>2. TypeOK'
    BY DEF TypeOK, Stage
  <1>3. RecordedFailureSticks'
    BY DEF RecordedFailureSticks
  <1>4. LocalTyped(p)'
    BY DEF LocalTyped
  <1>5. LocalArtifacts(p)'
    BY DEF LocalArtifacts
  <1>6. LocalSnapshots(p)'
    BY DEF LocalSnapshots
  <1>7. LocalVerdict(p)'
    BY DEF LocalVerdict
  <1> QED
    BY <1>1, <1>2, <1>3, <1>4, <1>5, <1>6, <1>7, HolderStep

\* Publishing waive.txt makes it the one of the invocation.
LEMMA PublishWaiveKeeps ==
  ASSUME IInv, NEW p \in Procs, PublishWaive(p)
  PROVE  IInv'
  <1> USE DEF IInv, PublishWaive, At, Goto, env, artifacts, local, history
  <1>1. pc[p] \in Locked /\ pc'[p] \in Locked /\ lock' = lock
        /\ \A q \in Procs : q # p => pc'[q] = pc[q] /\ cmd'[q] = cmd[q]
    OBVIOUS
  <1>2. TypeOK'
    BY DEF TypeOK
  <1>3. RecordedFailureSticks'
    BY DEF RecordedFailureSticks
  <1>4. LocalTyped(p)'
    BY DEF LocalTyped
  <1>5. LocalArtifacts(p)'
    BY DEF LocalArtifacts
  <1>6. LocalSnapshots(p)'
    BY DEF LocalSnapshots
  <1>7. LocalVerdict(p)'
    BY DEF LocalVerdict
  <1> QED
    BY <1>1, <1>2, <1>3, <1>4, <1>5, <1>6, <1>7, HolderStep

\* Publishing exclude.txt makes it the one of the invocation.
LEMMA PublishExcludeKeeps ==
  ASSUME IInv, NEW p \in Procs, PublishExclude(p)
  PROVE  IInv'
  <1> USE DEF IInv, PublishExclude, At, Goto, env, artifacts, local, history
  <1>1. pc[p] \in Locked /\ pc'[p] \in Locked /\ lock' = lock
        /\ \A q \in Procs : q # p => pc'[q] = pc[q] /\ cmd'[q] = cmd[q]
    OBVIOUS
  <1>2. TypeOK'
    BY DEF TypeOK
  <1>3. RecordedFailureSticks'
    BY DEF RecordedFailureSticks
  <1>4. LocalTyped(p)'
    BY DEF LocalTyped
  <1>5. LocalArtifacts(p)'
    BY DEF LocalArtifacts
  <1>6. LocalSnapshots(p)'
    BY DEF LocalSnapshots
  <1>7. LocalVerdict(p)'
    BY DEF LocalVerdict
  <1> QED
    BY <1>1, <1>2, <1>3, <1>4, <1>5, <1>6, <1>7, HolderStep

\* With the initial result all snapshots are those of the invocation, and the
\* stages may begin.
LEMMA PublishNotRunKeeps ==
  ASSUME IInv, NEW p \in Procs, PublishNotRun(p)
  PROVE  IInv'
  <1> USE DEF IInv, PublishNotRun, At, Goto, env, inputs, artifacts, local
  <1>1. pc[p] \in Locked /\ pc'[p] \in Locked /\ lock' = lock
        /\ \A q \in Procs : q # p => pc'[q] = pc[q] /\ cmd'[q] = cmd[q]
    BY DEF FirstStage
  <1>2. TypeOK'
    <2>1. NotRun \in Result
      BY DEF NotRun, Result
    <2>2. pc' \in [Procs -> Location]
      BY DEF TypeOK, FirstStage
    <2>3. /\ result' \in Result \cup {None} /\ interrupted' \in BOOLEAN
          /\ owed' \subseteq Stage
      BY <2>1 DEF TypeOK
    <2> QED
      BY <2>2, <2>3 DEF TypeOK
  <1>3. RecordedFailureSticks'
    BY DEF RecordedFailureSticks, NotRun
  <1>4. LocalTyped(p)'
    BY DEF LocalTyped, FirstStage
  <1>5. LocalArtifacts(p)'
    BY DEF LocalArtifacts, FirstStage
  <1>6. LocalSnapshots(p)'
    BY DEF LocalSnapshots
  <1>7. LocalVerdict(p)'
    BY DEF LocalVerdict, FirstStage
  <1> QED
    BY <1>1, <1>2, <1>3, <1>4, <1>5, <1>6, <1>7, HolderStep

\* The ff stage leaves a flattened.f of its own configuration, or fails.
LEMMA FfStageKeeps ==
  ASSUME IInv, NEW p \in Procs, FfStage(p)
  PROVE  IInv'
  <1> USE DEF IInv, FfStage, At, Goto, Reports, env, inputs
  <1>1. pc[p] \in Locked /\ pc'[p] \in Locked /\ lock' = lock
        /\ \A q \in Procs : q # p => pc'[q] = pc[q] /\ cmd'[q] = cmd[q]
    BY DEF TypeOK
  <1>2. TypeOK'
    <2>1. want[p] \in Config /\ want[p].ff \in Filelists
      BY DEF LocalTyped, Config
    <2>2. flat' \in Filelists \cup {None}
      BY <2>1 DEF TypeOK
    <2>3. report' \in [Procs -> Result \cup {None}]
      BY DEF TypeOK, Result
    <2> QED
      BY <2>2, <2>3 DEF TypeOK
  <1>3. RecordedFailureSticks'
    BY DEF RecordedFailureSticks
  <1>4. LocalTyped(p)'
    BY DEF TypeOK, LocalTyped, Result
  <1>5. LocalArtifacts(p)'
    BY DEF TypeOK, LocalArtifacts
  <1>6. LocalSnapshots(p)'
    BY DEF LocalSnapshots
  <1>7. LocalVerdict(p)'
    BY DEF TypeOK, LocalVerdict
  <1> QED
    BY <1>1, <1>2, <1>3, <1>4, <1>5, <1>6, <1>7, HolderStep

\* The build stage has a flattened.f to read, and fails or ends in a verdict
\* that records no simulation.
LEMMA BuildStageKeeps ==
  ASSUME IInv, NEW p \in Procs, BuildStage(p)
  PROVE  IInv'
  <1> USE DEF IInv, BuildStage, At, Goto, Reports, env, inputs
  <1>1. pc[p] \in Locked /\ pc'[p] \in Locked /\ lock' = lock
        /\ \A q \in Procs : q # p => pc'[q] = pc[q] /\ cmd'[q] = cmd[q]
    BY DEF TypeOK
  <1>2. TypeOK'
    <2>1. flat \in Filelists /\ want[p] \in Config
      BY DEF LocalTyped, LocalArtifacts, Config
    <2>2. Built(p) \in Config
      BY <2>1 DEF Built, Config
    <2>3. simv' \in Config \cup {None}
      BY <2>2 DEF TypeOK
    <2>4. report' \in [Procs -> Result \cup {None}]
      BY DEF TypeOK, Result
    <2> QED
      BY <2>3, <2>4 DEF TypeOK
  <1>3. RecordedFailureSticks'
    BY DEF RecordedFailureSticks
  <1>4. LocalTyped(p)'
    BY DEF TypeOK, LocalTyped, Result
  <1>5. LocalArtifacts(p)'
    BY DEF TypeOK, LocalArtifacts
  <1>6. LocalSnapshots(p)'
    BY DEF LocalSnapshots
  <1>7. LocalVerdict(p)'
    BY DEF TypeOK, LocalVerdict
  <1> QED
    BY <1>1, <1>2, <1>3, <1>4, <1>5, <1>6, <1>7, HolderStep

\* A simulation starts only with a simv.
LEMMA StartRunKeeps ==
  ASSUME IInv, NEW p \in Procs, StartRun(p)
  PROVE  IInv'
  <1> USE DEF IInv, StartRun, At, Goto, Reports, env, inputs, history
  <1>1. pc[p] \in Locked /\ pc'[p] \in Locked /\ lock' = lock
        /\ \A q \in Procs : q # p => pc'[q] = pc[q] /\ cmd'[q] = cmd[q]
    BY DEF TypeOK
  <1>2. TypeOK'
    BY LogsTyped DEF TypeOK, Result
  <1>3. RecordedFailureSticks'
    BY DEF RecordedFailureSticks
  <1>4. LocalTyped(p)'
    BY DEF TypeOK, LocalTyped, Result
  <1>5. LocalArtifacts(p)'
    BY DEF TypeOK, LocalArtifacts
  <1>6. LocalSnapshots(p)'
    BY DEF LocalSnapshots
  <1>7. LocalVerdict(p)'
    BY DEF TypeOK, LocalVerdict
  <1> QED
    BY <1>1, <1>2, <1>3, <1>4, <1>5, <1>6, <1>7, HolderStep

\* The verdict on a simulation that exits nonzero is FAIL.
LEMMA EndRunKeeps ==
  ASSUME IInv, NEW p \in Procs, EndRun(p)
  PROVE  IInv'
  <1> USE DEF IInv, EndRun, At, Goto, Reports, env, inputs, history
  <1>1. pc[p] \in Locked /\ pc'[p] \in Locked /\ lock' = lock
        /\ \A q \in Procs : q # p => pc'[q] = pc[q] /\ cmd'[q] = cmd[q]
    BY DEF TypeOK
  <1>2. TypeOK'
    <2>1. simvlog' \in SimvLog /\ simvlog'.exit \in {"zero", "nonzero"}
      BY LogsTyped
    <2>2. report' \in [Procs -> Result \cup {None}]
      BY <2>1 DEF TypeOK, Result
    <2> QED
      BY <2>1, <2>2 DEF TypeOK
  <1>3. RecordedFailureSticks'
    BY DEF RecordedFailureSticks
  <1>4. LocalTyped(p)'
    <2>1. simvlog'.exit \in {"zero", "nonzero"}
      BY LogsTyped
    <2> QED
      BY <2>1 DEF TypeOK, LocalTyped, Result
  <1>5. LocalArtifacts(p)'
    BY DEF TypeOK, LocalArtifacts
  <1>6. LocalSnapshots(p)'
    BY DEF LocalSnapshots
  <1>7. LocalVerdict(p)'
    BY DEF TypeOK, LocalVerdict
  <1> QED
    BY <1>1, <1>2, <1>3, <1>4, <1>5, <1>6, <1>7, HolderStep

\* Publishing the final result keeps recorded failures failures.
LEMMA PublishResultKeeps ==
  ASSUME IInv, NEW p \in Procs, PublishResult(p)
  PROVE  IInv'
  <1> USE DEF IInv, PublishResult, At, Goto, env, inputs, artifacts, history
  <1>1. pc[p] \in Locked /\ pc'[p] \in Locked /\ lock' = lock
        /\ \A q \in Procs : q # p => pc'[q] = pc[q] /\ cmd'[q] = cmd[q]
    OBVIOUS
  <1>2. TypeOK'
    <2>1. report[p] \in Result /\ ExitCode(report[p].status) \in {"0", "1"}
      BY DEF LocalTyped, ExitCode
    <2> QED
      BY <2>1 DEF TypeOK
  <1>3. RecordedFailureSticks'
    BY DEF RecordedFailureSticks, LocalVerdict
  <1>4. LocalTyped(p)'
    BY DEF LocalTyped
  <1>5. LocalArtifacts(p)'
    BY DEF LocalArtifacts
  <1>6. LocalSnapshots(p)'
    BY DEF LocalSnapshots
  <1>7. LocalVerdict(p)'
    BY DEF LocalVerdict
  <1> QED
    BY <1>1, <1>2, <1>3, <1>4, <1>5, <1>6, <1>7, HolderStep

\* A check without a primary log leaves the result alone.
LEMMA MissingLogKeeps ==
  ASSUME IInv, NEW p \in Procs, MissingLog(p)
  PROVE  IInv'
  <1> USE DEF IInv, MissingLog, At, Goto, env, dir, history
  <1>1. pc[p] \in Locked /\ pc'[p] \in Locked /\ lock' = lock
        /\ \A q \in Procs : q # p => pc'[q] = pc[q] /\ cmd'[q] = cmd[q]
    OBVIOUS
  <1>2. TypeOK'
    BY DEF TypeOK, ExitCode
  <1>3. RecordedFailureSticks'
    BY DEF RecordedFailureSticks
  <1>4. LocalTyped(p)'
    BY DEF LocalTyped
  <1>5. LocalArtifacts(p)'
    BY DEF LocalArtifacts
  <1>6. LocalSnapshots(p)'
    BY DEF LocalSnapshots
  <1>7. LocalVerdict(p)'
    BY DEF LocalVerdict
  <1> QED
    BY <1>1, <1>2, <1>3, <1>4, <1>5, <1>6, <1>7, HolderStep

\* A recheck keeps the recorded return code, and FAIL with a nonzero one.
LEMMA RecheckKeeps ==
  ASSUME IInv, NEW p \in Procs, Recheck(p)
  PROVE  IInv'
  <1> USE DEF IInv, Recheck, At, Goto, Reports, env, dir, history
  <1>1. pc[p] \in Locked /\ pc'[p] \in Locked /\ lock' = lock
        /\ \A q \in Procs : q # p => pc'[q] = pc[q] /\ cmd'[q] = cmd[q]
    OBVIOUS
  <1>2. TypeOK'
    BY DEF TypeOK, LocalTyped, Result
  <1>3. RecordedFailureSticks'
    BY DEF RecordedFailureSticks
  <1>4. LocalTyped(p)'
    BY DEF TypeOK, LocalTyped, Result
  <1>5. LocalArtifacts(p)'
    BY DEF LocalArtifacts
  <1>6. LocalSnapshots(p)'
    BY DEF LocalSnapshots
  <1>7. LocalVerdict(p)'
    BY DEF TypeOK, LocalVerdict, RecordedRunFailed
  <1> QED
    BY <1>1, <1>2, <1>3, <1>4, <1>5, <1>6, <1>7, HolderStep

\* An input error changes nothing in the directory.
LEMMA RefuseKeeps ==
  ASSUME IInv, NEW p \in Procs, Refuse(p)
  PROVE  IInv'
  <1> USE DEF IInv, Refuse, At, Goto, env, dir, history
  <1>1. pc[p] \in Locked /\ pc'[p] \in Locked /\ lock' = lock
        /\ \A q \in Procs : q # p => pc'[q] = pc[q] /\ cmd'[q] = cmd[q]
    OBVIOUS
  <1>2. TypeOK'
    BY DEF TypeOK
  <1>3. RecordedFailureSticks'
    BY DEF RecordedFailureSticks
  <1>4. LocalTyped(p)'
    BY DEF LocalTyped
  <1>5. LocalArtifacts(p)'
    BY DEF LocalArtifacts
  <1>6. LocalSnapshots(p)'
    BY DEF LocalSnapshots
  <1>7. LocalVerdict(p)'
    BY DEF LocalVerdict
  <1> QED
    BY <1>1, <1>2, <1>3, <1>4, <1>5, <1>6, <1>7, HolderStep

-----------------------------------------------------------------------------
(* Ways into the directory and out of it.                                  *)

\* Whoever gets the lock is alone: nobody holds it, so nobody is inside.
LEMMA OpenKeeps ==
  ASSUME IInv, NEW p \in Procs, Open(p)
  PROVE  IInv'
  <1> USE DEF IInv, Open, Goto, env, dir, inputs, artifacts, local, history
  <1>1. /\ \A q \in Procs : q # p =>
              pc[q] \notin Locked /\ pc'[q] = pc[q] /\ cmd'[q] = cmd[q]
        /\ pc'[p] = "prepare" /\ lock' = p /\ cmd'[p] \in Command
    BY NoneAssumption DEF TypeOK, LockHeld, Invoked
  <1>2. TypeOK'
    BY DEF TypeOK
  <1>3. RecordedFailureSticks'
    BY DEF RecordedFailureSticks
  <1>4. LocalTyped(p)' /\ LocalArtifacts(p)' /\ LocalSnapshots(p)' /\ LocalVerdict(p)'
    BY <1>1 DEF LocalTyped, LocalArtifacts, LocalSnapshots, LocalVerdict
  <1> QED
    BY <1>1, <1>2, <1>3, <1>4, AloneStep

\* A new invocation is outside the directory.
LEMMA InvokeKeeps ==
  ASSUME IInv, NEW p \in Procs, Invoke(p)
  PROVE  IInv'
  <1> USE DEF IInv, Invoke, Goto, env, dir, inputs, artifacts, history
  <1>1. TypeOK'
    BY DEF TypeOK
  <1>2. \A q \in Procs : \/ q # p /\ pc'[q] = pc[q] /\ cmd'[q] = cmd[q]
                         \/ pc[q] \notin Locked /\ pc'[q] \notin Locked /\ cmd'[q] \in Command
    BY DEF TypeOK
  <1> QED
    BY <1>1, <1>2, BystanderStep

\* An invocation that is refused the lock was never inside.
LEMMA BusyKeeps ==
  ASSUME IInv, NEW p \in Procs, Busy(p)
  PROVE  IInv'
  <1> USE DEF IInv, Busy, Gone, Goto, env, dir, inputs, artifacts, history
  <1>1. TypeOK'
    BY DEF TypeOK
  <1>2. \A q \in Procs :
           \/ pc'[q] = pc[q] /\ cmd'[q] = cmd[q] /\ want'[q] = want[q]
                 /\ judge'[q] = judge[q] /\ report'[q] = report[q]
           \/ pc[q] \notin Locked /\ pc'[q] = "idle"
    BY DEF TypeOK
  <1> QED
    BY <1>1, <1>2, BystanderStep

\* Leaving the directory gives the lock back.
LEMMA CloseKeeps ==
  ASSUME IInv, NEW p \in Procs, Close(p)
  PROVE  IInv'
  <1> USE DEF IInv, Close, At, Gone, Goto, env, dir, inputs, artifacts, history
  <1>1. /\ pc[p] \in Locked /\ pc'[p] = "idle" /\ lock' = None
        /\ \A q \in Procs : q # p => pc'[q] = pc[q] /\ cmd'[q] = cmd[q]
    BY DEF TypeOK
  <1>2. TypeOK'
    BY DEF TypeOK
  <1>3. RecordedFailureSticks'
    BY DEF RecordedFailureSticks
  <1> QED
    BY <1>1, <1>2, <1>3, Outside, HolderStep

\* What a stage leaves half done is of the right type.
LEMMA HalfDoneTyped ==
  ASSUME IInv, NEW p \in Procs, HalfDone(p)
  PROVE  /\ flat' \in Filelists \cup {None} /\ simv' \in Config \cup {None}
         /\ simvlog' \in SimvLog \cup {None}
         /\ pc[p] = "build" => Built(p) \in Config
  <1>1. pc[p] = "ff" => want[p].ff \in Filelists
    BY DEF IInv, LocalTyped, Config
  <1>2. pc[p] = "build" => Built(p) \in Config
    <2>1. ASSUME pc[p] = "build" PROVE flat \in Filelists /\ want[p] \in Config
      BY <2>1 DEF IInv, LocalTyped, LocalArtifacts, Config
    <2> QED
      BY <2>1 DEF Built, Config
  <1> QED
    BY <1>1, <1>2, LogsTyped DEF HalfDone, IInv, TypeOK

\* An error on the way leaves the invocation with nothing but its close.
LEMMA AbortKeeps ==
  ASSUME IInv, NEW p \in Procs, Abort(p)
  PROVE  IInv'
  <1> USE DEF IInv, Abort, At, Goto, env, inputs
  <1>1. /\ pc[p] \in Locked /\ pc'[p] = "close" /\ lock' = lock
        /\ \A q \in Procs : q # p => pc'[q] = pc[q] /\ cmd'[q] = cmd[q]
    BY DEF TypeOK
  <1>2. TypeOK'
    BY HalfDoneTyped DEF TypeOK, HalfDone
  <1>3. RecordedFailureSticks'
    BY DEF RecordedFailureSticks, HalfDone
  <1>4. LocalTyped(p)' /\ LocalArtifacts(p)' /\ LocalSnapshots(p)' /\ LocalVerdict(p)'
    <2>1. cmd'[p] \in Command
      BY DEF LocalTyped
    <2> QED
      BY <1>1 DEF LocalTyped, LocalArtifacts, LocalSnapshots, LocalVerdict
  <1> QED
    BY <1>2, <1>3, <1>4, HolderStep

\* A kill takes the invocation out of the directory and the lock from it.
LEMMA CrashKeeps ==
  ASSUME IInv, NEW p \in Procs, Crash(p)
  PROVE  IInv'
  <1> USE DEF IInv, Crash, At, Gone, Goto, env, inputs
  <1>1. /\ pc[p] \in Locked /\ pc'[p] = "idle" /\ lock' = None
        /\ \A q \in Procs : q # p => pc'[q] = pc[q] /\ cmd'[q] = cmd[q]
    BY DEF TypeOK
  <1>2. orphan' \in [tool : {"build", "simulate"}, makes : Config] \cup {None}
    BY HalfDoneTyped DEF TypeOK, LocalArtifacts
  <1>3. TypeOK'
    BY <1>2, HalfDoneTyped DEF TypeOK, HalfDone
  <1>4. RecordedFailureSticks'
    BY DEF RecordedFailureSticks, HalfDone
  <1> QED
    BY <1>1, <1>3, <1>4, Outside, HolderStep

\* A CLEAN that is cut short leaves the directory in pieces and nobody
\* relying on them.
LEMMA CutWipeKeeps ==
  ASSUME IInv, NEW p \in Procs, CutWipe(p)
  PROVE  IInv'
  <1> USE DEF IInv, CutWipe, At, Gone, Goto, Remove, env, local
  <1>1. /\ pc[p] \in Locked
        /\ \/ pc'[p] = "close" /\ lock' = lock
           \/ pc'[p] = "idle" /\ lock' = None
        /\ \A q \in Procs : q # p => pc'[q] = pc[q] /\ cmd'[q] = cmd[q]
    BY DEF TypeOK
  <1>2. TypeOK'
    BY DEF TypeOK
  <1>3. RecordedFailureSticks'
    BY DEF RecordedFailureSticks
  <1>4. CASE pc'[p] = "close" /\ lock' = lock
    <2>1. cmd'[p] \in Command
      BY <1>4 DEF Command, TypeOK
    <2>2. LocalTyped(p)' /\ LocalArtifacts(p)' /\ LocalSnapshots(p)' /\ LocalVerdict(p)'
      BY <1>4, <2>1 DEF LocalTyped, LocalArtifacts, LocalSnapshots, LocalVerdict
    <2> QED
      BY <1>1, <1>2, <1>3, <2>2, HolderStep
  <1>5. CASE pc'[p] = "idle" /\ lock' = None
    BY <1>1, <1>2, <1>3, <1>5, Outside, HolderStep
  <1> QED
    BY <1>1, <1>4, <1>5

\* The user's edits and a left-over tool do not touch what the holder of the
\* lock relies on.
LEMMA EnvironmentKeeps ==
  ASSUME IInv, OrphanEnds \/ EditConf \/ EditWaivers \/ UNCHANGED vars
  PROVE  IInv'
  <1> USE DEF IInv, env, inputs, artifacts, dir, local, history
  <1>1. CASE OrphanEnds
    <2>1. simv' = simv \/ simv' \in Config
      BY <1>1 DEF OrphanEnds, TypeOK
    <2>2. TypeOK'
      BY <1>1, LogsTyped DEF OrphanEnds, TypeOK
    <2> QED
      BY <1>1, <2>1, <2>2, BystanderStep DEF OrphanEnds
  <1>2. CASE EditConf
    BY <1>2, BystanderStep DEF EditConf, TypeOK
  <1>3. CASE EditWaivers
    BY <1>3, BystanderStep DEF EditWaivers, TypeOK
  <1>4. CASE UNCHANGED vars
    BY <1>4, BystanderStep DEF vars, TypeOK
  <1> QED
    BY <1>1, <1>2, <1>3, <1>4

-----------------------------------------------------------------------------
\* Every step of every invocation and of its environment keeps the invariant.
THEOREM StepKeepsIInv == IInv /\ [Next]_vars => IInv'
  <1> SUFFICES ASSUME IInv, [Next]_vars PROVE IInv'
    OBVIOUS
  <1>1. ASSUME NEW p \in Procs, Step(p) PROVE IInv'
    BY <1>1, OpenKeeps, BusyKeeps, PrepareKeeps, LoadKeeps, CompileKeeps,
       CompileWaiversKeeps, PublishRulesKeeps, PublishTcKeeps, PublishWaiveKeeps,
       PublishExcludeKeeps, PublishNotRunKeeps, FfStageKeeps, BuildStageKeeps,
       StartRunKeeps, EndRunKeeps, PublishResultKeeps, MissingLogKeeps, RecheckKeeps,
       RefuseKeeps, CloseKeeps
       DEF Step
  <1>2. ASSUME NEW p \in Procs, Fault(p) PROVE IInv'
    BY <1>2, AbortKeeps, CrashKeeps, CutWipeKeeps DEF Fault
  <1> QED
    BY <1>1, <1>2, InvokeKeeps, EnvironmentKeeps DEF Next

\* The inductive invariant holds in every reachable state.
THEOREM Invariant == Spec => []IInv
  BY InitIInv, StepKeepsIInv, PTL DEF Spec

\* The state stays within its types, with every fault the model has.
THEOREM TypeCorrect == Spec => []TypeOK
  <1>1. IInv => TypeOK
    BY DEF IInv
  <1> QED
    BY <1>1, Invariant, PTL

\* However many invocations there are and whenever they die, exactly the one
\* that holds the lock is in the directory.
THEOREM MutualExclusion == Spec => []LockHeld
  <1>1. IInv => LockHeld
    BY DEF IInv
  <1> QED
    BY <1>1, Invariant, PTL

\* No hook, compiler or simulation ever runs beside the snapshots of another
\* invocation or an earlier verdict.
THEOREM SnapshotsWhileExecuting == Spec => []ExecutingSnapshots
  <1>1. IInv => ExecutingSnapshots
    BY DEF IInv, LocalSnapshots, ExecutingSnapshots
  <1> QED
    BY <1>1, Invariant, PTL

\* No sequence of checks and waiver edits turns a recorded failed simulation
\* into a PASS.
THEOREM RecordedFailureIsFinal == Spec => []RecordedFailureSticks
  <1>1. IInv => RecordedFailureSticks
    BY DEF IInv
  <1> QED
    BY <1>1, Invariant, PTL

-----------------------------------------------------------------------------
(* FullRunIsFresh, which needs the invariant and is then inductive itself.  *)

\* FullRunIsFresh for one invocation.
Fresh(p) ==
    (~interrupted /\ cmd[p] \in {"full", "keep"} /\ pc[p] \in {"startrun", "simulate"})
        => simv = want[p]

\* Again a step of the holder of the lock has to be looked at for it only.
LEMMA FreshHolderStep ==
  ASSUME IInv, NEW p \in Procs, pc[p] \in Locked,
         \A q \in Procs : q # p => pc'[q] = pc[q],
         Fresh(p)'
  PROVE  FullRunIsFresh'
  <1>1. ASSUME NEW q \in Procs, q # p
        PROVE  pc'[q] \notin {"startrun", "simulate"}
    <2>1. lock = p /\ pc[q] \notin Locked
      BY <1>1 DEF IInv, LockHeld
    <2> QED
      BY <1>1, <2>1
  <1> QED
    BY <1>1 DEF FullRunIsFresh, Fresh

\* The steps after which the invocation is not at its simulation.
LEMMA FreshElsewhere ==
  ASSUME IInv, NEW p \in Procs,
         \/ Prepare(p) \/ Load(p) \/ Compile(p) \/ CompileWaivers(p)
         \/ PublishRules(p) \/ PublishTc(p) \/ PublishWaive(p) \/ PublishExclude(p)
         \/ FfStage(p) \/ EndRun(p) \/ PublishResult(p) \/ MissingLog(p) \/ Recheck(p)
         \/ Refuse(p) \/ Close(p) \/ Fault(p)
  PROVE  FullRunIsFresh'
  <1>1. /\ pc[p] \in Locked
        /\ \A q \in Procs : q # p => pc'[q] = pc[q]
        /\ pc'[p] \notin {"startrun", "simulate"}
    <2> USE DEF IInv, TypeOK, At, Goto, Gone, Reports
    <2>1. CASE Prepare(p) \/ Load(p) \/ Compile(p) \/ CompileWaivers(p)
      BY <2>1 DEF Prepare, Load, Compile, CompileWaivers
    <2>2. CASE PublishRules(p) \/ PublishTc(p) \/ PublishWaive(p) \/ PublishExclude(p)
      BY <2>2 DEF PublishRules, PublishTc, PublishWaive, PublishExclude
    <2>3. CASE FfStage(p) \/ EndRun(p) \/ PublishResult(p)
      BY <2>3 DEF FfStage, EndRun, PublishResult
    <2>4. CASE MissingLog(p) \/ Recheck(p) \/ Refuse(p) \/ Close(p)
      BY <2>4 DEF MissingLog, Recheck, Refuse, Close
    <2>5. CASE Fault(p)
      BY <2>5 DEF Fault, Abort, Crash, CutWipe
    <2> QED
      BY <2>1, <2>2, <2>3, <2>4, <2>5
  <1> QED
    BY <1>1, FreshHolderStep DEF Fresh

\* A build that passed has made simv from what the invocation itself has
\* flattened and from its own build options.
LEMMA BuildIsFresh ==
  ASSUME IInv, NEW p \in Procs, BuildStage(p)
  PROVE  FullRunIsFresh'
  <1> USE DEF IInv, BuildStage, At, Goto, Reports
  <1>1. pc[p] \in Locked /\ \A q \in Procs : q # p => pc'[q] = pc[q]
    BY DEF TypeOK
  <1>2. ASSUME cmd'[p] \in {"full", "keep"}, pc'[p] = "startrun"
        PROVE  simv' = want'[p]
    <2>1. want[p] \in Config /\ flat = want[p].ff /\ simv' = Built(p)
      BY <1>2 DEF TypeOK, LocalTyped, LocalArtifacts
    <2>2. want[p] = [ff |-> want[p].ff, build |-> want[p].build]
      BY <2>1 DEF Config
    <2> QED
      BY <2>1, <2>2 DEF Built
  <1>3. pc'[p] \in {"startrun", "publish"}
    BY DEF TypeOK
  <1> QED
    BY <1>1, <1>2, <1>3, FreshHolderStep DEF Fresh

\* Every step keeps FullRunIsFresh.
LEMMA StepKeepsFresh == IInv /\ FullRunIsFresh /\ [Next]_vars => FullRunIsFresh'
  <1> SUFFICES ASSUME IInv, FullRunIsFresh, [Next]_vars PROVE FullRunIsFresh'
    OBVIOUS
  <1>1. ASSUME NEW p \in Procs, PublishNotRun(p) PROVE FullRunIsFresh'
    <2>1. /\ pc[p] \in Locked /\ \A q \in Procs : q # p => pc'[q] = pc[q]
          /\ cmd' = cmd /\ pc'[p] = FirstStage(cmd[p])
      BY <1>1 DEF PublishNotRun, At, Goto, local, IInv, TypeOK
    <2> QED
      BY <2>1, FreshHolderStep DEF Fresh, FirstStage
  <1>2. ASSUME NEW p \in Procs, StartRun(p) PROVE FullRunIsFresh'
    <2>1. /\ pc[p] = "startrun" /\ \A q \in Procs : q # p => pc'[q] = pc[q]
          /\ UNCHANGED <<simv, cmd, want, interrupted>>
      BY <1>2 DEF StartRun, At, Goto, Reports, history, IInv, TypeOK
    <2> QED
      BY <2>1, FreshHolderStep DEF Fresh, FullRunIsFresh
  <1>3. ASSUME NEW p \in Procs, Open(p) \/ Busy(p) \/ Invoke(p) PROVE FullRunIsFresh'
    <2>1. /\ \A q \in Procs : q # p => UNCHANGED <<pc[q], cmd[q], want[q]>>
          /\ pc'[p] \notin {"startrun", "simulate"}
          /\ UNCHANGED <<simv, interrupted>>
      BY <1>3 DEF Open, Busy, Invoke, Goto, Gone, dir, artifacts, local, history, IInv, TypeOK
    <2> QED
      BY <2>1 DEF FullRunIsFresh
  <1>4. CASE OrphanEnds
    BY <1>4 DEF OrphanEnds, FullRunIsFresh
  <1>5. CASE EditConf \/ EditWaivers \/ UNCHANGED vars
    <2>1. UNCHANGED <<simv, pc, cmd, want, interrupted>>
      BY <1>5 DEF EditConf, EditWaivers, vars, dir, artifacts, local, history
    <2> QED
      BY <2>1 DEF FullRunIsFresh
  <1> QED
    BY <1>1, <1>2, <1>3, <1>4, <1>5, FreshElsewhere, BuildIsFresh DEF Next, Step

\* A complete run simulates what it has built itself, in every history in
\* which no left-over compiler has written simv under its lock.
THEOREM CompleteRunsAreFresh == Spec => []FullRunIsFresh
  <1>1. Init => FullRunIsFresh
    BY DEF Init, FullRunIsFresh
  <1> QED
    BY <1>1, StepKeepsFresh, Invariant, PTL DEF Spec
=============================================================================
