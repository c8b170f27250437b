-------------------------- MODULE EsimHistoryProofs --------------------------
(***************************************************************************)
(* Theorems of EsimApplication about histories of a directory: what stage  *)
(* actions may replace, when the artifacts fit the configuration in        *)
(* tc.yaml, when result.yaml fits the log and the snapshots beside it, and *)
(* that a directory is what SnapshotStore promises.  Again an invocation   *)
(* has to be looked at only while it holds the lock: what is said of it    *)
(* (the Local formulas) is about the lines of the session.                 *)
(***************************************************************************)
EXTENDS EsimApplicationProofs

\* A stage action has compared its configuration with the tc.yaml that is there.
LocalUpstream(p) ==
    cmd[p] \in StageAction =>
        /\ pc[p] = "compile" => tc # None
        /\ pc[p] \in {"waivers", "rules", "tc"} => tc # None /\ Compatible(want[p], cmd[p])

\* What is published and not yet made is owed.
LocalOwed(p) ==
    /\ (cmd[p] \in {"full", "keep"} /\ pc[p] \in {"waive", "exclude", "notrun", "ff"})
          => "ff" \in owed
    /\ (cmd[p] \in {"full", "keep", "build"}
          /\ pc[p] \in {"waive", "exclude", "notrun", "ff", "build"}) => "build" \in owed

\* When nothing is owed, or only the build, artifacts and tc.yaml fit.
Settled ==
    /\ ("ff" \notin owed /\ tc # None /\ flat # None) => flat = tc.ff
    /\ SettledArtifacts

\* AuditTrail without a condition.
Sound ==
    result # None =>
        /\ rules = tc /\ waive = exclude
        /\ result.status = "PASS" => simvlog # None /\ LogPasses(simvlog, waive)

\* What is sound already, and what will be when the invocation publishes next.
LocalAudit(p) ==
    ~interrupted =>
        /\ pc[p] \in {"prepare", "load", "compile", "waivers", "rules", "close"} => Sound
        /\ (cmd[p] = "check" /\ pc[p] = "waive") => Sound
        /\ (cmd[p] = "check" /\ pc[p] \in {"exclude", "judge", "publish"})
              => rules = tc /\ (result.status = "PASS" => simvlog # None)
        /\ (cmd[p] = "check" /\ pc[p] \in {"judge", "publish"})
              => waive = judge[p] /\ exclude = judge[p]
        /\ (cmd[p] # "check" /\ pc[p] = "publish")
              => /\ rules = tc /\ waive = judge[p] /\ exclude = judge[p]
                 /\ result.status # "PASS"
        /\ (pc[p] = "publish" /\ report[p].status = "PASS")
              => simvlog # None /\ LogPasses(simvlog, judge[p])

HInv ==
    /\ Settled
    /\ AuditTrail
    /\ \A p \in Procs : LocalUpstream(p) /\ LocalOwed(p) /\ LocalAudit(p)

THEOREM InitHInv == Init => HInv
  BY DEF Init, HInv, Settled, SettledArtifacts, AuditTrail, LocalUpstream, LocalOwed, LocalAudit

-----------------------------------------------------------------------------
USE DEF Locked, Location, Publishing, Executing, StageAction

\* Nothing is said of an invocation outside the directory.
LEMMA OutsideHistory ==
  ASSUME NEW q \in Procs, (pc[q] \notin Locked)'
  PROVE  (LocalUpstream(q) /\ LocalOwed(q) /\ LocalAudit(q))'
  BY DEF LocalUpstream, LocalOwed, LocalAudit

\* A step of an invocation in the directory moves that invocation only.
LEMMA HolderMoves ==
  ASSUME IInv, NEW p \in Procs, Step(p) \/ Fault(p), ~Open(p), ~Busy(p)
  PROVE  /\ pc[p] \in Locked /\ lock = p
         /\ \A q \in Procs : q # p => pc[q] \notin Locked /\ pc'[q] = pc[q]
  <1> USE DEF IInv, TypeOK, At, Goto, Gone, Reports
  <1>1. pc[p] \in Locked
    BY DEF Step, Fault, Prepare, Load, Compile, CompileWaivers, PublishRules, PublishTc,
           PublishWaive, PublishExclude, PublishNotRun, FfStage, BuildStage, StartRun, EndRun,
           PublishResult, MissingLog, Recheck, Refuse, Close, Abort, Crash, CutWipe
  <1>2. lock = p /\ \A q \in Procs : q # p => pc[q] \notin Locked
    BY <1>1 DEF LockHeld
  <1>3. \E l : pc' = [pc EXCEPT ![p] = l]
    BY DEF Step, Fault, Prepare, Load, Compile, CompileWaivers, PublishRules, PublishTc,
           PublishWaive, PublishExclude, PublishNotRun, FfStage, BuildStage, StartRun, EndRun,
           PublishResult, MissingLog, Recheck, Refuse, Close, Abort, Crash, CutWipe
  <1> QED
    BY <1>1, <1>2, <1>3

-----------------------------------------------------------------------------
(* Stage actions keep what is upstream.                                    *)

LEMMA UpstreamStep ==
  ASSUME IInv, NEW p \in Procs, LocalUpstream(p), Step(p) \/ Fault(p), ~Open(p), ~Busy(p)
  PROVE  LocalUpstream(p)'
  <1> USE DEF IInv, TypeOK, At, Goto, Gone, Reports, LocalUpstream, local, dir
  <1>1. CASE Prepare(p)
    BY <1>1 DEF Prepare
  <1>2. CASE Load(p)
    BY <1>2 DEF Load
  <1>3. CASE Compile(p)
    <2>1. /\ tc' = tc /\ cmd' = cmd /\ pc[p] = "compile" /\ pc'[p] = "waivers"
          /\ want'[p] = conf /\ Compatible(conf, cmd[p])
      BY <1>3 DEF Compile
    <2> QED
      BY <2>1 DEF Compatible
  <1>4. CASE CompileWaivers(p) \/ PublishRules(p)
    <2>1. /\ tc' = tc /\ cmd' = cmd /\ want' = want /\ pc[p] \in {"waivers", "rules"}
          /\ pc'[p] \in {"waive", "rules", "tc"}
      BY <1>4 DEF CompileWaivers, PublishRules
    <2> QED
      BY <2>1 DEF Compatible
  <1>5. CASE \/ PublishTc(p) \/ PublishWaive(p) \/ PublishExclude(p) \/ PublishNotRun(p)
             \/ FfStage(p) \/ BuildStage(p) \/ StartRun(p) \/ EndRun(p) \/ PublishResult(p)
             \/ MissingLog(p) \/ Recheck(p) \/ Refuse(p) \/ Close(p) \/ Fault(p)
    <2>1. pc'[p] \notin {"compile", "waivers", "rules", "tc"}
      <3>1. CASE PublishTc(p) \/ PublishWaive(p) \/ PublishExclude(p) \/ PublishNotRun(p)
        BY <3>1 DEF PublishTc, PublishWaive, PublishExclude, PublishNotRun, FirstStage
      <3>2. CASE FfStage(p) \/ BuildStage(p) \/ StartRun(p) \/ EndRun(p) \/ PublishResult(p)
        BY <3>2 DEF FfStage, BuildStage, StartRun, EndRun, PublishResult
      <3>3. CASE MissingLog(p) \/ Recheck(p) \/ Refuse(p) \/ Close(p)
        BY <3>3 DEF MissingLog, Recheck, Refuse, Close
      <3>4. CASE Fault(p)
        BY <3>4 DEF Fault, Abort, Crash, CutWipe
      <3> QED
        BY <1>5, <3>1, <3>2, <3>3, <3>4
    <2> QED
      BY <2>1
  <1> QED
    BY <1>1, <1>2, <1>3, <1>4, <1>5 DEF Step

-----------------------------------------------------------------------------
(* What is owed.                                                           *)

LEMMA OwedStep ==
  ASSUME IInv, NEW p \in Procs, LocalOwed(p), Step(p) \/ Fault(p), ~Open(p), ~Busy(p)
  PROVE  LocalOwed(p)'
  <1> USE DEF IInv, TypeOK, At, Goto, Gone, Reports, LocalOwed, local, history
  <1>1. CASE PublishTc(p)
    BY <1>1 DEF PublishTc
  <1>2. CASE PublishWaive(p)
    BY <1>2 DEF PublishWaive
  <1>3. CASE PublishExclude(p)
    BY <1>3 DEF PublishExclude
  <1>4. CASE PublishNotRun(p)
    BY <1>4 DEF PublishNotRun, FirstStage
  <1>5. CASE FfStage(p)
    BY <1>5 DEF FfStage, LocalArtifacts
  <1>6. CASE CompileWaivers(p)
    BY <1>6 DEF CompileWaivers
  <1>7. CASE \/ Prepare(p) \/ Load(p) \/ Compile(p) \/ PublishRules(p)
             \/ BuildStage(p) \/ StartRun(p) \/ EndRun(p) \/ PublishResult(p)
             \/ MissingLog(p) \/ Recheck(p) \/ Refuse(p) \/ Close(p) \/ Fault(p)
    <2>1. pc'[p] \notin {"waive", "exclude", "notrun", "ff", "build"}
      <3>1. CASE Prepare(p) \/ Load(p) \/ Compile(p) \/ PublishRules(p)
        BY <3>1 DEF Prepare, Load, Compile, PublishRules
      <3>2. CASE BuildStage(p) \/ StartRun(p) \/ EndRun(p) \/ PublishResult(p)
        BY <3>2 DEF BuildStage, StartRun, EndRun, PublishResult
      <3>3. CASE MissingLog(p) \/ Recheck(p) \/ Refuse(p) \/ Close(p)
        BY <3>3 DEF MissingLog, Recheck, Refuse, Close
      <3>4. CASE Fault(p)
        BY <3>4 DEF Fault, Abort, Crash, CutWipe
      <3> QED
        BY <1>7, <3>1, <3>2, <3>3, <3>4
    <2> QED
      BY <2>1
  <1> QED
    BY <1>1, <1>2, <1>3, <1>4, <1>5, <1>6, <1>7 DEF Step

-----------------------------------------------------------------------------
(* Artifacts fit tc.yaml when nothing is owed.                             *)

\* Publishing another tc.yaml: a complete run owes both stages, a build action
\* keeps the filelist, a run action keeps all of it.
LEMMA PublishTcSettles ==
  ASSUME IInv, NEW p \in Procs, Settled, LocalUpstream(p), PublishTc(p)
  PROVE  Settled'
  <1> USE DEF IInv, TypeOK, PublishTc, At, Goto, artifacts, Settled, SettledArtifacts
  <1>1. cmd[p] \in Command \ {"check"}
    BY DEF LocalTyped
  <1>2. CASE cmd[p] \in {"full", "keep"}
    BY <1>2
  <1>3. CASE cmd[p] = "build"
    BY <1>3 DEF LocalUpstream, Compatible
  <1>4. CASE cmd[p] = "run"
    BY <1>4 DEF LocalUpstream, Compatible
  <1> QED
    BY <1>1, <1>2, <1>3, <1>4 DEF Command

\* What the ff stage leaves is of tc.yaml, or still owed.
LEMMA FfSettles ==
  ASSUME IInv, NEW p \in Procs, Settled, LocalOwed(p), FfStage(p)
  PROVE  Settled'
  <1>1. "ff" \in owed /\ "build" \in owed /\ tc = want[p]
    BY DEF IInv, LocalOwed, LocalArtifacts, LocalSnapshots, FfStage, At
  <1>2. "build" \in owed' /\ tc' = tc
    BY <1>1 DEF FfStage, inputs
  <1>3. "ff" \notin owed' => flat' = want[p].ff
    BY <1>1 DEF FfStage
  <1> QED
    BY <1>1, <1>2, <1>3 DEF Settled, SettledArtifacts

\* What the build stage leaves is of tc.yaml when the filelist was, or owed.
LEMMA BuildSettles ==
  ASSUME IInv, NEW p \in Procs, Settled, LocalOwed(p), BuildStage(p)
  PROVE  Settled'
  <1>1. "build" \in owed /\ tc = want[p] /\ want[p] \in Config /\ flat \in Filelists
    <2>1. pc[p] = "build" /\ cmd[p] \in {"full", "keep", "build"}
      BY DEF IInv, LocalArtifacts, BuildStage, At
    <2>2. tc = want[p] /\ want[p] \in Config
      BY <2>1 DEF IInv, LocalTyped, LocalSnapshots, Compiled
    <2>3. flat \in Filelists
      BY <2>1, <2>2 DEF IInv, LocalArtifacts, Compiled, Config
    <2> QED
      BY <2>1, <2>2, <2>3 DEF LocalOwed
  <1>2. tc' = tc /\ flat' = flat /\ owed' \in {owed, owed \ {"build"}}
    BY DEF BuildStage, inputs
  <1>3. "build" \notin owed' => simv' = Built(p)
    BY <1>1 DEF BuildStage
  <1>4. flat # None /\ want[p] = [ff |-> want[p].ff, build |-> want[p].build]
    BY <1>1, NoneAssumption DEF Config
  <1>5. owed' = {} => simv' = tc'
    <2> SUFFICES ASSUME owed' = {} PROVE simv' = tc
      BY <1>2
    <2>1. "ff" \notin owed
      BY <1>2
    <2>2. flat = want[p].ff
      BY <1>1, <1>4, <2>1, NoneAssumption DEF Settled
    <2> QED
      BY <1>1, <1>3, <1>4, <2>2 DEF Built
  <1> QED
    BY <1>1, <1>2, <1>4, <1>5 DEF Settled, SettledArtifacts

\* What a stage leaves half done is owed.
LEMMA HalfDoneSettles ==
  ASSUME IInv, NEW p \in Procs, Settled, LocalOwed(p), HalfDone(p), UNCHANGED owed
  PROVE  Settled'
  <1> USE DEF HalfDone, inputs
  <1>1. CASE pc[p] = "ff"
    <2>1. "ff" \in owed
      BY <1>1 DEF IInv, LocalArtifacts, LocalOwed
    <2> QED
      BY <1>1, <2>1 DEF Settled, SettledArtifacts
  <1>2. CASE pc[p] = "build"
    <2>1. "build" \in owed
      BY <1>2 DEF IInv, LocalArtifacts, LocalOwed
    <2> QED
      BY <1>2, <2>1 DEF Settled, SettledArtifacts
  <1>3. CASE pc[p] \notin {"ff", "build"}
    BY <1>3 DEF Settled, SettledArtifacts
  <1> QED
    BY <1>1, <1>2, <1>3

\* Every step keeps the artifacts settled.
LEMMA SettledStep ==
  ASSUME IInv, HInv, Next
  PROVE  Settled'
  <1> USE DEF HInv
  <1>1. ASSUME UNCHANGED <<tc, flat, simv, owed>> PROVE Settled'
    BY <1>1 DEF Settled, SettledArtifacts
  <1>2. ASSUME NEW p \in Procs, Prepare(p) \/ CutWipe(p) PROVE Settled'
    <2>1. /\ tc' \in {tc, None} /\ flat' \in {flat, None} /\ simv' \in {simv, None}
          /\ tc' = None \/ owed' = owed
      BY <1>2 DEF Prepare, CutWipe, Remove, Entry, inputs, artifacts, history
    <2> QED
      BY <2>1 DEF Settled, SettledArtifacts
  <1>3. ASSUME NEW p \in Procs, Abort(p) \/ Crash(p) PROVE Settled'
    BY <1>3, HalfDoneSettles DEF Abort, Crash
  <1>4. CASE OrphanEnds
    BY <1>4 DEF OrphanEnds, inputs, Stage, Settled, SettledArtifacts, IInv, TypeOK
  <1>5. CASE EditConf \/ EditWaivers
    BY <1>1, <1>5 DEF EditConf, EditWaivers, dir, history
  <1>6. ASSUME NEW p \in Procs, Invoke(p) PROVE Settled'
    BY <1>1, <1>6 DEF Invoke, dir, history
  <1>7. ASSUME NEW p \in Procs,
               \/ Open(p) \/ Busy(p) \/ Load(p) \/ Compile(p) \/ CompileWaivers(p)
               \/ PublishRules(p) \/ PublishWaive(p) \/ PublishExclude(p) \/ PublishNotRun(p)
               \/ StartRun(p) \/ EndRun(p) \/ PublishResult(p) \/ MissingLog(p)
               \/ Recheck(p) \/ Refuse(p) \/ Close(p)
        PROVE  Settled'
    BY <1>1, <1>7 DEF Open, Busy, Load, Compile, CompileWaivers, PublishRules, PublishWaive,
       PublishExclude, PublishNotRun, StartRun, EndRun, PublishResult, MissingLog, Recheck,
       Refuse, Close, dir, inputs, artifacts, history
  <1> QED
    BY <1>2, <1>3, <1>4, <1>5, <1>6, <1>7, PublishTcSettles, FfSettles, BuildSettles
    DEF Next, Step, Fault

-----------------------------------------------------------------------------
(* Result, log and snapshots.                                              *)

LEMMA AuditStep ==
  ASSUME IInv, NEW p \in Procs, LocalAudit(p), Step(p) \/ Fault(p), ~Open(p), ~Busy(p)
  PROVE  LocalAudit(p)' /\ AuditTrail'
  <1> USE DEF IInv, TypeOK, At, Goto, Gone, Reports, local, history, inputs, artifacts, dir
  <1>0. lock = p /\ p # None
    BY HolderMoves, NoneAssumption
  <1>1. ASSUME lock' = lock PROVE AuditTrail'
    BY <1>0, <1>1 DEF AuditTrail
  <1>2. CASE Prepare(p)
    <2>1. CASE cmd[p] = "full"
      BY <1>1, <1>2, <2>1 DEF Prepare, Remove, Entry, LocalAudit, Sound
    <2>2. CASE cmd[p] # "full"
      <3>1. /\ UNCHANGED <<rules, tc, waive, exclude, result, simvlog, interrupted, lock>>
            /\ pc[p] = "prepare" /\ pc'[p] \in {"compile", "load"}
        BY <1>2, <2>2 DEF Prepare
      <3> QED
        BY <1>1, <3>1 DEF LocalAudit, Sound, LogPasses
    <2> QED
      BY <2>1, <2>2
  <1>3. CASE \/ Load(p) \/ Compile(p) \/ CompileWaivers(p) \/ Refuse(p)
    <2>1. /\ UNCHANGED <<rules, tc, waive, exclude, result, simvlog, interrupted, lock>>
          /\ pc[p] \in {"prepare", "load", "compile", "waivers"}
          /\ \/ pc'[p] \in {"compile", "waivers", "rules", "close"}
             \/ pc'[p] = "waive" /\ cmd'[p] = "check"
      BY <1>3 DEF Load, Compile, CompileWaivers, Refuse
    <2> QED
      BY <1>1, <2>1 DEF LocalAudit, Sound, LogPasses
  <1>4. CASE PublishRules(p) \/ PublishTc(p)
    <2>1. /\ lock' = lock /\ pc'[p] \in {"tc", "waive"} /\ cmd'[p] # "check"
      BY <1>4 DEF PublishRules, PublishTc, LocalTyped
    <2> QED
      BY <1>1, <2>1 DEF LocalAudit
  <1>5. CASE PublishWaive(p)
    <2>1. /\ lock' = lock /\ pc[p] = "waive" /\ pc'[p] = "exclude"
          /\ UNCHANGED <<cmd, rules, tc, result, simvlog, interrupted>>
          /\ cmd[p] = "check" => result \in Result
      BY <1>5 DEF PublishWaive, LocalTyped
    <2> QED
      BY <1>1, <2>1, NoneAssumption DEF LocalAudit, Sound
  <1>6. CASE PublishExclude(p)
    <2>1. /\ lock' = lock /\ pc[p] = "exclude" /\ pc'[p] \in {"judge", "notrun"}
          /\ pc'[p] = "judge" => cmd[p] = "check"
          /\ UNCHANGED <<cmd, rules, tc, waive, judge, result, simvlog, interrupted>>
          /\ exclude' = judge[p] /\ waive = judge[p]
      BY <1>6 DEF PublishExclude, LocalSnapshots
    <2> QED
      BY <1>1, <2>1 DEF LocalAudit
  <1>7. CASE PublishNotRun(p) \/ StartRun(p) \/ FfStage(p) \/ BuildStage(p)
    <2>1. /\ pc'[p] \in Executing \cup {"publish"} /\ lock' = lock /\ cmd'[p] # "check"
      BY <1>7 DEF PublishNotRun, StartRun, FfStage, BuildStage, LocalTyped, FirstStage
    <2>2. CASE pc'[p] = "publish"
      <3>1. /\ rules = want[p] /\ tc = want[p] /\ waive = judge[p] /\ exclude = judge[p]
            /\ result = NotRun
        BY <1>7, <2>2 DEF StartRun, FfStage, BuildStage, PublishNotRun, FirstStage, LocalSnapshots
      <3>2. /\ UNCHANGED <<rules, tc, waive, exclude, result, judge>>
            /\ report'[p].status # "PASS"
        BY <1>7, <2>2 DEF StartRun, FfStage, BuildStage, PublishNotRun, FirstStage
      <3> QED
        BY <1>1, <2>1, <2>2, <3>1, <3>2 DEF LocalAudit, NotRun
    <2> QED
      BY <1>1, <2>1, <2>2 DEF LocalAudit
  <1>8. CASE EndRun(p)
    <2>1. /\ rules = want[p] /\ tc = want[p] /\ waive = judge[p] /\ exclude = judge[p]
          /\ result = NotRun /\ cmd[p] # "check"
      BY <1>8 DEF EndRun, LocalSnapshots, LocalTyped
    <2>2. /\ UNCHANGED <<rules, tc, waive, exclude, result, judge, cmd, lock>>
          /\ simvlog' \in SimvLog /\ pc'[p] = "publish"
          /\ report'[p].status = "PASS" => LogPasses(simvlog', judge[p])
      BY <1>8, LogsTyped DEF EndRun
    <2> QED
      BY <1>1, <2>1, <2>2, NoneAssumption DEF LocalAudit, LogPasses, NotRun
  <1>9. CASE PublishResult(p)
    <2>1. /\ UNCHANGED <<rules, tc, waive, exclude, simvlog, interrupted, lock>>
          /\ pc[p] = "publish" /\ pc'[p] = "close" /\ result' = report[p]
      BY <1>9 DEF PublishResult
    <2>2. ~interrupted => rules = tc /\ waive = judge[p] /\ exclude = judge[p]
      BY <2>1 DEF LocalAudit
    <2>3. Sound' \/ interrupted
      BY <2>1, <2>2 DEF LocalAudit, Sound, LogPasses
    <2> QED
      BY <1>1, <2>1, <2>3 DEF LocalAudit
  <1>10. CASE MissingLog(p)
    <2>1. /\ UNCHANGED <<rules, tc, waive, exclude, result, simvlog, interrupted, lock>>
          /\ pc[p] = "judge" /\ cmd[p] = "check" /\ pc'[p] = "close" /\ simvlog = None
      BY <1>10 DEF MissingLog, LocalTyped
    <2>2. Sound \/ interrupted
      BY <2>1 DEF LocalAudit, Sound
    <2> QED
      BY <1>1, <2>1, <2>2 DEF LocalAudit, Sound, LogPasses
  <1>11. CASE Recheck(p)
    <2>1. /\ UNCHANGED <<rules, tc, waive, exclude, result, simvlog, interrupted, lock, judge, cmd>>
          /\ pc[p] = "judge" /\ cmd[p] = "check" /\ pc'[p] = "publish" /\ simvlog # None
          /\ report'[p].status = "PASS" => LogPasses(simvlog, judge[p])
      BY <1>11 DEF Recheck, LocalTyped
    <2> QED
      BY <1>1, <2>1 DEF LocalAudit, LogPasses
  <1>12. CASE Close(p)
    <2>1. /\ UNCHANGED <<rules, tc, waive, exclude, result, simvlog, interrupted>>
          /\ pc[p] = "close" /\ pc'[p] = "idle"
      BY <1>12 DEF Close
    <2> QED
      BY <2>1 DEF LocalAudit, Sound, AuditTrail, LogPasses
  <1>13. CASE Abort(p) \/ Crash(p)
    <2>1. /\ UNCHANGED <<rules, tc, waive, exclude, result>>
          /\ interrupted' = (interrupted \/ Torn(p)) /\ pc'[p] \in {"close", "idle"}
          /\ pc[p] = "simulate" \/ simvlog' = simvlog
      BY <1>13 DEF Abort, Crash, HalfDone
    <2>2. CASE Torn(p)
      BY <2>1, <2>2 DEF LocalAudit, AuditTrail
    <2>3. CASE pc[p] \in Executing
      <3>1. rules = tc /\ waive = exclude /\ result.status = "NOT_RUN"
        BY <2>3 DEF LocalSnapshots, NotRun
      <3>2. Sound'
        BY <2>1, <3>1 DEF Sound
      <3> QED
        BY <2>1, <3>2 DEF LocalAudit, AuditTrail, Sound, LogPasses
    <2>4. CASE ~Torn(p) /\ pc[p] \notin Executing
      <3>1. simvlog' = simvlog
        BY <2>1, <2>4
      <3>2. \/ pc[p] \in {"prepare", "load", "compile", "waivers", "rules", "close"}
            \/ cmd[p] = "check" /\ pc[p] = "waive"
            \/ cmd[p] # "check" /\ pc[p] = "publish"
        BY <1>13, <2>4, HolderMoves DEF Torn, LocalTyped
      <3>3. Sound \/ interrupted
        BY <3>2 DEF LocalAudit, Sound
      <3> QED
        BY <2>1, <3>1, <3>3 DEF LocalAudit, AuditTrail, Sound, LogPasses
    <2> QED
      BY <2>2, <2>3, <2>4
  <1>14. CASE CutWipe(p)
    BY <1>14 DEF CutWipe, LocalAudit, AuditTrail
  <1> QED
    BY <1>2, <1>3, <1>4, <1>5, <1>6, <1>7, <1>8, <1>9, <1>10, <1>11, <1>12, <1>13, <1>14
    DEF Step, Fault

-----------------------------------------------------------------------------
(* All of it.                                                              *)

\* The holder's step leaves the others outside.
LEMMA HolderHistory ==
  ASSUME IInv, HInv, NEW p \in Procs, Step(p) \/ Fault(p), ~Open(p), ~Busy(p)
  PROVE  HInv'
  <1>1. Settled'
    BY SettledStep DEF Next
  <1>2. LocalUpstream(p)' /\ LocalOwed(p)' /\ LocalAudit(p)' /\ AuditTrail'
    BY UpstreamStep, OwedStep, AuditStep DEF HInv
  <1>3. ASSUME NEW q \in Procs, q # p
        PROVE  (LocalUpstream(q) /\ LocalOwed(q) /\ LocalAudit(q))'
    <2>1. (pc[q] \notin Locked)'
      BY <1>3, HolderMoves
    <2> QED
      BY <2>1, OutsideHistory
  <1> QED
    BY <1>1, <1>2, <1>3 DEF HInv

\* Whoever comes to the lock finds what AuditTrail says.
LEMMA OpenHistory ==
  ASSUME IInv, HInv, NEW p \in Procs, Open(p)
  PROVE  HInv'
  <1> USE DEF Open, Goto, dir, local, history
  <1>1. Settled'
    BY SettledStep DEF Next, Step
  <1>2. /\ pc'[p] = "prepare" /\ lock = None /\ lock' = p
        /\ \A q \in Procs : q # p => pc[q] \notin Locked /\ pc'[q] = pc[q]
    BY NoneAssumption DEF IInv, TypeOK, LockHeld
  <1>3. Sound' \/ interrupted'
    BY <1>2 DEF HInv, AuditTrail, Sound, LogPasses
  <1>4. AuditTrail'
    BY <1>2, NoneAssumption DEF AuditTrail
  <1>5. LocalUpstream(p)' /\ LocalOwed(p)' /\ LocalAudit(p)'
    BY <1>2, <1>3 DEF LocalUpstream, LocalOwed, LocalAudit
  <1>6. ASSUME NEW q \in Procs, q # p
        PROVE  (LocalUpstream(q) /\ LocalOwed(q) /\ LocalAudit(q))'
    BY <1>2, <1>6, OutsideHistory
  <1> QED
    BY <1>1, <1>4, <1>5, <1>6 DEF HInv

\* Nothing happens to the directory.
LEMMA OutsideStep ==
  ASSUME IInv, HInv, NEW p \in Procs, Invoke(p) \/ Busy(p)
  PROVE  HInv'
  <1> USE DEF Invoke, Busy, Gone, Goto, dir, history
  <1>1. Settled'
    BY SettledStep DEF Next, Step
  <1>2. /\ UNCHANGED <<rules, tc, waive, exclude, result, simvlog, owed, interrupted, lock>>
        /\ pc[p] \notin Locked /\ pc'[p] \notin Locked
        /\ \A q \in Procs : q # p =>
              /\ pc'[q] = pc[q] /\ cmd'[q] = cmd[q] /\ want'[q] = want[q]
              /\ judge'[q] = judge[q] /\ report'[q] = report[q]
    BY DEF IInv, TypeOK
  <1>3. AuditTrail'
    BY <1>2 DEF HInv, AuditTrail, LogPasses
  <1>4. ASSUME NEW q \in Procs
        PROVE  (LocalUpstream(q) /\ LocalOwed(q) /\ LocalAudit(q))'
    <2>1. CASE q = p
      BY <1>2, <2>1, OutsideHistory
    <2>2. CASE q # p
      BY <1>2, <2>2 DEF HInv, LocalUpstream, LocalOwed, LocalAudit, Sound, LogPasses, Compatible
    <2> QED
      BY <2>1, <2>2
  <1> QED
    BY <1>1, <1>3, <1>4 DEF HInv

\* A left-over tool makes the history an interrupted one; edits are not seen.
LEMMA EnvironmentHistory ==
  ASSUME IInv, HInv, OrphanEnds \/ EditConf \/ EditWaivers
  PROVE  HInv'
  <1> USE DEF OrphanEnds, EditConf, EditWaivers, dir, inputs, local, history
  <1>1. Settled'
    BY SettledStep DEF Next
  <1>2. /\ UNCHANGED <<rules, tc, waive, exclude, result, lock, pc, cmd, want, judge, report>>
        /\ interrupted' \/ UNCHANGED <<simvlog, interrupted>>
        /\ owed \subseteq owed'
    OBVIOUS
  <1>3. AuditTrail'
    BY <1>2 DEF HInv, AuditTrail, LogPasses
  <1>4. ASSUME NEW q \in Procs
        PROVE  (LocalUpstream(q) /\ LocalOwed(q) /\ LocalAudit(q))'
    <2>1. LocalUpstream(q)' /\ LocalOwed(q)'
      BY <1>2 DEF HInv, LocalUpstream, LocalOwed, Compatible
    <2>2. LocalAudit(q)'
      BY <1>2 DEF HInv, LocalAudit, Sound, LogPasses
    <2> QED
      BY <2>1, <2>2
  <1> QED
    BY <1>1, <1>3, <1>4 DEF HInv

\* Every step of every invocation and of its environment keeps the invariant.
THEOREM StepKeepsHInv == IInv /\ HInv /\ [Next]_vars => HInv'
  <1> SUFFICES ASSUME IInv, HInv, [Next]_vars PROVE HInv'
    OBVIOUS
  <1>1. CASE UNCHANGED vars
    BY <1>1 DEF vars, HInv, Settled, SettledArtifacts, AuditTrail, LocalUpstream, LocalOwed,
                LocalAudit, Sound, LogPasses, Compatible
  <1>2. CASE Next
    BY <1>2, HolderHistory, OpenHistory, OutsideStep, EnvironmentHistory DEF Next, Step
  <1> QED
    BY <1>1, <1>2

THEOREM HistoryInvariant == Spec => [](IInv /\ HInv)
  BY InitHInv, InitIInv, StepKeepsHInv, StepKeepsIInv, PTL DEF Spec

\* When every published configuration has been flattened and built, the artifacts
\* in the directory are those of tc.yaml, in every history and with every fault.
THEOREM ArtifactsSettle == Spec => []SettledArtifacts
  <1>1. HInv => SettledArtifacts
    BY DEF HInv, Settled
  <1> QED
    BY <1>1, HistoryInvariant, PTL

\* Between invocations result.yaml, the log and the snapshots fit each other,
\* unless one was cut short while publishing or its tool wrote later.
THEOREM AuditHolds == Spec => []AuditTrail
  <1>1. HInv => AuditTrail
    BY DEF HInv
  <1> QED
    BY <1>1, HistoryInvariant, PTL

\* No stage action replaces tc.yaml by an incompatible configuration.
THEOREM UpstreamKept == Spec => StageActionsKeepUpstream
  <1> DEFINE Kept == \A p \in Procs : (cmd[p] \in StageAction /\ pc[p] = "tc" /\ tc' # tc)
                        => tc # None /\ Compatible(tc', cmd[p])
  <1>1. IInv /\ HInv /\ [Next]_vars => [Kept]_vars
    <2> SUFFICES ASSUME IInv, HInv, Next, NEW p \in Procs,
                        cmd[p] \in StageAction, pc[p] = "tc", tc' # tc
                 PROVE  tc # None /\ Compatible(tc', cmd[p])
      OBVIOUS
    <2>1. lock = p /\ \A q \in Procs : q # p => pc[q] \notin Locked
      BY DEF IInv, LockHeld
    <2>2. PICK q \in Procs : Step(q) \/ Fault(q)
      BY DEF Next, Invoke, OrphanEnds, EditConf, EditWaivers, dir, inputs
    <2>3. ~Open(q) /\ ~Busy(q)
      BY DEF Open, Busy, dir
    <2>4. q = p
      BY <2>1, <2>2, <2>3, HolderMoves
    <2>5. PublishTc(p)
      BY <2>2, <2>4 DEF Step, Fault, At, Prepare, Load, Compile, CompileWaivers, PublishRules,
         PublishWaive, PublishExclude, PublishNotRun, FfStage, BuildStage, StartRun, EndRun,
         PublishResult, MissingLog, Recheck, Refuse, Close, Abort, Crash, CutWipe, HalfDone,
         Open, Busy, dir, inputs
    <2> QED
      BY <2>5 DEF PublishTc, HInv, LocalUpstream
  <1> QED
    BY <1>1, HistoryInvariant, PTL DEF Spec, StageActionsKeepUpstream

-----------------------------------------------------------------------------
(* The refinement of SnapshotStore.                                        *)

Shelf(r, t, w, x, s) ==
    [f \in Snapshot |-> CASE f = "rules"   -> r
                          [] f = "tc"      -> t
                          [] f = "waive"   -> w
                          [] f = "exclude" -> x
                          [] f = "result"  -> s]

\* Publishing, as SnapshotStore says it.
Replaced ==
    \E f \in Snapshot, c \in Config \cup Waivers \cup Result :
        Shelved' = [Shelved EXCEPT ![f] = c]

LEMMA ShelfReplaced ==
  ASSUME NEW c \in Config \cup Waivers \cup Result,
         \/ Shelved' = Shelf(c, tc, waive, exclude, result)
         \/ Shelved' = Shelf(rules, c, waive, exclude, result)
         \/ Shelved' = Shelf(rules, tc, c, exclude, result)
         \/ Shelved' = Shelf(rules, tc, waive, c, result)
         \/ Shelved' = Shelf(rules, tc, waive, exclude, c)
  PROVE  Replaced
  <1> USE DEF Shelved, Shelf, Snapshot
  <1>1. CASE Shelved' = Shelf(c, tc, waive, exclude, result)
    <2>1. Shelved' = [Shelved EXCEPT !["rules"] = c]
      BY <1>1
    <2> QED
      BY <2>1 DEF Replaced
  <1>2. CASE Shelved' = Shelf(rules, c, waive, exclude, result)
    <2>1. Shelved' = [Shelved EXCEPT !["tc"] = c]
      BY <1>2
    <2> QED
      BY <2>1 DEF Replaced
  <1>3. CASE Shelved' = Shelf(rules, tc, c, exclude, result)
    <2>1. Shelved' = [Shelved EXCEPT !["waive"] = c]
      BY <1>3
    <2> QED
      BY <2>1 DEF Replaced
  <1>4. CASE Shelved' = Shelf(rules, tc, waive, c, result)
    <2>1. Shelved' = [Shelved EXCEPT !["exclude"] = c]
      BY <1>4
    <2> QED
      BY <2>1 DEF Replaced
  <1>5. CASE Shelved' = Shelf(rules, tc, waive, exclude, c)
    <2>1. Shelved' = [Shelved EXCEPT !["result"] = c]
      BY <1>5
    <2> QED
      BY <2>1 DEF Replaced
  <1> QED
    BY <1>1, <1>2, <1>3, <1>4, <1>5

LEMMA PublishReplaces ==
  ASSUME IInv, NEW p \in Procs,
         \/ PublishRules(p) \/ PublishTc(p) \/ PublishWaive(p) \/ PublishExclude(p)
         \/ PublishNotRun(p) \/ PublishResult(p)
  PROVE  Replaced
  <1> USE DEF At
  <1>1. pc[p] \in {"rules", "tc"} => want[p] \in Config
    BY DEF IInv, LocalTyped, Compiled
  <1>2. pc[p] \in {"waive", "exclude"} => judge[p] \in Waivers
    BY DEF IInv, LocalTyped, Judging
  <1>3. NotRun \in Result /\ (pc[p] = "publish" => report[p] \in Result)
    BY DEF IInv, LocalTyped, NotRun, Result, Status
  <1>4. CASE PublishRules(p)
    <2>1. Shelved' = Shelf(want[p], tc, waive, exclude, result)
      BY <1>4 DEF PublishRules, Shelved, Shelf, inputs
    <2>2. want[p] \in Config \cup Waivers \cup Result
      BY <1>1, <1>4 DEF PublishRules
    <2> QED
      BY <2>1, <2>2, ShelfReplaced
  <1>5. CASE PublishTc(p)
    <2>1. Shelved' = Shelf(rules, want[p], waive, exclude, result)
      BY <1>5 DEF PublishTc, Shelved, Shelf, inputs
    <2>2. want[p] \in Config \cup Waivers \cup Result
      BY <1>1, <1>5 DEF PublishTc
    <2> QED
      BY <2>1, <2>2, ShelfReplaced
  <1>6. CASE PublishWaive(p)
    <2>1. Shelved' = Shelf(rules, tc, judge[p], exclude, result)
      BY <1>6 DEF PublishWaive, Shelved, Shelf, inputs
    <2>2. judge[p] \in Config \cup Waivers \cup Result
      BY <1>2, <1>6 DEF PublishWaive
    <2> QED
      BY <2>1, <2>2, ShelfReplaced
  <1>7. CASE PublishExclude(p)
    <2>1. Shelved' = Shelf(rules, tc, waive, judge[p], result)
      BY <1>7 DEF PublishExclude, Shelved, Shelf, inputs
    <2>2. judge[p] \in Config \cup Waivers \cup Result
      BY <1>2, <1>7 DEF PublishExclude
    <2> QED
      BY <2>1, <2>2, ShelfReplaced
  <1>8. CASE PublishNotRun(p)
    <2>1. Shelved' = Shelf(rules, tc, waive, exclude, NotRun)
      BY <1>8 DEF PublishNotRun, Shelved, Shelf, inputs
    <2>2. NotRun \in Config \cup Waivers \cup Result
      BY <1>3, <1>8 DEF PublishNotRun
    <2> QED
      BY <2>1, <2>2, ShelfReplaced
  <1>9. CASE PublishResult(p)
    <2>1. Shelved' = Shelf(rules, tc, waive, exclude, report[p])
      BY <1>9 DEF PublishResult, Shelved, Shelf, inputs
    <2>2. report[p] \in Config \cup Waivers \cup Result
      BY <1>3, <1>9 DEF PublishResult
    <2> QED
      BY <2>1, <2>2, ShelfReplaced
  <1> QED
    BY <1>4, <1>5, <1>6, <1>7, <1>8, <1>9

\* Discarding, as SnapshotStore says it.
LEMMA RemoveDiscards ==
  ASSUME NEW gone, Remove(gone)
  PROVE  Shelved' = [f \in Snapshot |-> IF f \in gone \cap Snapshot THEN None ELSE Shelved[f]]
  <1>1. ASSUME NEW f \in Snapshot
        PROVE  Shelved'[f] = IF f \in gone \cap Snapshot THEN None ELSE Shelved[f]
    <2>1. CASE f = "rules"
      BY <2>1 DEF Remove, Shelved, Snapshot
    <2>2. CASE f = "tc"
      BY <2>2 DEF Remove, Shelved, Snapshot
    <2>3. CASE f = "waive"
      BY <2>3 DEF Remove, Shelved, Snapshot
    <2>4. CASE f = "exclude"
      BY <2>4 DEF Remove, Shelved, Snapshot
    <2>5. CASE f = "result"
      BY <2>5 DEF Remove, Shelved, Snapshot
    <2> QED
      BY <2>1, <2>2, <2>3, <2>4, <2>5 DEF Snapshot
  <1>2. Shelved' = [f \in Snapshot |-> Shelved'[f]]
    BY DEF Shelved, Snapshot
  <1> QED
    BY <1>1, <1>2

\* A step of an invocation is a step of SnapshotStore, or not one on its state.
LEMMA StepRefines ==
  ASSUME IInv, NEW p \in Procs, Step(p) \/ Fault(p)
  PROVE  \/ lock = None /\ lock' = p /\ Shelved' = Shelved
         \/ lock = p /\ lock' = None /\ Shelved' = Shelved
         \/ lock = p /\ lock' = lock /\ Replaced
         \/ /\ lock = p /\ lock' \in {p, None}
            /\ \E gone \in SUBSET Snapshot :
                  Shelved' = [f \in Snapshot |-> IF f \in gone THEN None ELSE Shelved[f]]
         \/ lock' = lock /\ Shelved' = Shelved
  <1>1. CASE Open(p)
    BY <1>1 DEF Open, dir, Shelved
  <1>2. CASE Busy(p)
    BY <1>2 DEF Busy, dir, Shelved
  <1>3. CASE ~Open(p) /\ ~Busy(p)
    <2>1. lock = p
      BY <1>3, HolderMoves
    <2>2. CASE \/ PublishRules(p) \/ PublishTc(p) \/ PublishWaive(p) \/ PublishExclude(p)
               \/ PublishNotRun(p) \/ PublishResult(p)
      <3>1. lock' = lock
        BY <2>2 DEF PublishRules, PublishTc, PublishWaive, PublishExclude, PublishNotRun,
                    PublishResult
      <3> QED
        BY <2>1, <2>2, <3>1, PublishReplaces
    <2>3. CASE CutWipe(p) \/ (Prepare(p) /\ cmd[p] = "full")
      <3>1. lock' \in {p, None} /\ \E gone : Remove(gone)
        BY <2>1, <2>3 DEF CutWipe, Prepare
      <3>2. PICK gone : Remove(gone)
        BY <3>1
      <3>3. gone \cap Snapshot \in SUBSET Snapshot
        OBVIOUS
      <3> QED
        BY <2>1, <3>1, <3>2, <3>3, RemoveDiscards
    <2>4. CASE \/ Prepare(p) /\ cmd[p] # "full"
               \/ Load(p) \/ Compile(p) \/ CompileWaivers(p) \/ FfStage(p) \/ BuildStage(p)
               \/ StartRun(p) \/ EndRun(p) \/ MissingLog(p) \/ Recheck(p) \/ Refuse(p)
               \/ Close(p) \/ Abort(p) \/ Crash(p)
      <3>1. /\ lock' \in {lock, None}
            /\ UNCHANGED <<rules, tc, waive, exclude, result>>
        BY <2>4 DEF Prepare, Load, Compile, CompileWaivers, FfStage, BuildStage, StartRun, EndRun,
           MissingLog, Recheck, Refuse, Close, Abort, Crash, HalfDone, dir, inputs
      <3> QED
        BY <2>1, <3>1 DEF Shelved
    <2> QED
      BY <1>3, <2>2, <2>3, <2>4 DEF Step, Fault
  <1> QED
    BY <1>1, <1>2, <1>3

\* However invocations fail, to its readers the directory is a SnapshotStore.
THEOREM Refinement == Spec => ImplementsSnapshotStore
  <1>1. Init => Store!Init
    BY DEF Init, Store!Init, Shelved, Snapshot
  <1>2. IInv /\ [Next]_vars => [Store!Next]_(Store!vars)
    <2> SUFFICES ASSUME IInv, [Next]_vars PROVE [Store!Next]_(Store!vars)
      OBVIOUS
    <2>1. ASSUME UNCHANGED <<lock, rules, tc, waive, exclude, result>>
          PROVE  [Store!Next]_(Store!vars)
      BY <2>1 DEF Store!vars, Shelved
    <2>2. ASSUME NEW p \in Procs, Step(p) \/ Fault(p)
          PROVE  [Store!Next]_(Store!vars)
      BY <2>2, StepRefines DEF Store!Next, Store!vars, Store!Take, Store!Give, Store!Replace,
                               Store!Discard, Replaced
    <2> QED
      BY <2>1, <2>2 DEF Next, Invoke, OrphanEnds, EditConf, EditWaivers, vars, dir, inputs
  <1> QED
    BY <1>1, <1>2, Invariant, PTL DEF Spec, ImplementsSnapshotStore, Store!Spec
=============================================================================
