--------------------------- MODULE EsimApplication ---------------------------
(***************************************************************************)
(* The invocations of esim on one simulation directory: EsimApplication    *)
(* run and check (src/esim/application.py) with the lock of                *)
(* WorkspaceManager.open, the compatibility rules of                       *)
(* ConfigurationCompiler and the exit codes of the CLI.  Each invocation   *)
(* goes through the lines of run or check in their order; what lies        *)
(* between two of its effects on the directory is one step.  Around them   *)
(* the user edits configuration and waivers, and invocations die.          *)
(*                                                                         *)
(* A configuration is what the stage actions compare: `ff' stands for the  *)
(* filelist and the ff options, `build' for simulator, flow and build      *)
(* options (-b and -e included).  A simv is named by the configuration it  *)
(* was built from, whose ff part is the flattened.f the build read.        *)
(***************************************************************************)
EXTENDS Naturals

CONSTANTS
    Procs,      \* the invocations that may be under way at once
    Filelists,  \* the values of the ff part of a configuration
    Builds,     \* the values of its build part
    Waivers,    \* the states of the waiver files
    Covering,   \* those of them that waive the finding a log may hold
    Endings,    \* the logs that the simulations of the run end with
    Faults,     \* which of {"crash", "orphan", "abort", "wipe"} the run explores
    None        \* nothing: no file, no holder, no verdict

Config == [ff : Filelists, build : Builds]
Command == {"full", "keep", "build", "run", "check"}
Status == {"PASS", "FAIL", "NOT_RUN"}

\* result.yaml: the status and the recorded return code of the run command.
Result == [status : Status, run : {"none", "zero", "nonzero"}]

\* simv.log: whether it holds a finding, and how the simulation that wrote it
\* ended ("cut": it has not ended, or was killed).
SimvLog == [finding : BOOLEAN, exit : {"zero", "nonzero", "cut"}]

ASSUME FaultsAssumption == Faults \subseteq {"crash", "orphan", "abort", "wipe"}
ASSUME CoveringAssumption == Covering \subseteq Waivers
ASSUME EndingsAssumption ==
    Endings # {} /\ \A log \in Endings : log \in SimvLog /\ log.exit # "cut"
ASSUME NoneAssumption ==
    /\ None \notin Procs /\ None \notin Config /\ None \notin Filelists
    /\ None \notin Waivers /\ None \notin Result /\ None \notin SimvLog

VARIABLES
    conf, waiver,                   \* the user's files, as they are now
    lock,                           \* the holder of the directory's lock
    present,                        \* the directory exists
    rules, tc, waive, exclude,      \* its snapshots
    result,
    flat, simv, simvlog,            \* what the tools left in it
    orphan,                         \* a tool whose esim was killed: its kind
    pc, cmd, want, judge, report, exit, \* of each invocation
    owed, interrupted               \* history: see below

env == <<conf, waiver>>
inputs == <<rules, tc, waive, exclude>>
artifacts == <<flat, simv, simvlog>>
dir == <<present, rules, tc, waive, exclude, result, flat, simv, simvlog>>
local == <<cmd, want, judge, report, exit>>
history == <<owed, interrupted>>
vars == <<conf, waiver, lock, present, rules, tc, waive, exclude, result, flat, simv,
          simvlog, orphan, pc, cmd, want, judge, report, exit, owed, interrupted>>

\* The stages that the configuration in tc.yaml still owes the directory.  It
\* is not state of the program: nothing in the directory records it.
Stage == {"ff", "build"}

Publishing == {"rules", "tc", "waive", "exclude", "notrun"}
Executing == {"ff", "build", "startrun", "simulate"}
Locked == {"prepare", "load", "compile", "waivers", "judge", "publish", "close"}
            \cup Publishing \cup Executing
Location == {"idle", "open"} \cup Locked

StageAction == {"build", "run"}
NotRun == [status |-> "NOT_RUN", run |-> "none"]

-----------------------------------------------------------------------------
Init ==
    /\ conf \in Config /\ waiver \in Waivers
    /\ lock = None
    /\ present = FALSE
    /\ rules = None /\ tc = None /\ waive = None /\ exclude = None /\ result = None
    /\ flat = None /\ simv = None /\ simvlog = None
    /\ orphan = None
    /\ pc = [p \in Procs |-> "idle"]
    /\ cmd = [p \in Procs |-> None]
    /\ want = [p \in Procs |-> None]
    /\ judge = [p \in Procs |-> None]
    /\ report = [p \in Procs |-> None]
    /\ exit = [p \in Procs |-> "none"]
    /\ owed = {}
    /\ interrupted = FALSE

Goto(p, l) == pc' = [pc EXCEPT ![p] = l]

\* The process of an invocation is gone, and what it knew with it.
Gone(p) ==
    /\ Goto(p, "idle")
    /\ cmd' = [cmd EXCEPT ![p] = None]
    /\ want' = [want EXCEPT ![p] = None]
    /\ judge' = [judge EXCEPT ![p] = None]
    /\ report' = [report EXCEPT ![p] = None]
    /\ exit' = [exit EXCEPT ![p] = "none"]

At(p, l) == pc[p] = l

-----------------------------------------------------------------------------
(* Starting: the lock, the directory and the cached snapshots.             *)

Invoke(p) ==
    /\ pc[p] = "idle"
    /\ \E c \in Command : cmd' = [cmd EXCEPT ![p] = c]
    /\ Goto(p, "open")
    /\ UNCHANGED <<env, lock, dir, orphan, want, judge, report, exit, history>>

\* Mutant: check takes the lock over from whoever holds it.
OpenCheckTakesOver(p) ==
    /\ pc[p] = "open" /\ (lock = None \/ cmd[p] = "check")
    /\ lock' = p
    /\ Goto(p, "prepare")
    /\ UNCHANGED <<env, dir, orphan, local, history>>


Open(p) ==
    /\ pc[p] = "open" /\ lock = None
    /\ lock' = p
    /\ Goto(p, "prepare")
    /\ UNCHANGED <<env, dir, orphan, local, history>>

\* Mutants: an invocation that goes on without the lock; one that waits for it.
BusyGoesOn(p) ==
    /\ pc[p] = "open" /\ lock # None
    /\ Goto(p, "prepare")
    /\ UNCHANGED <<env, lock, dir, orphan, local, history>>
BusyWaits(p) == pc[p] = "open" /\ lock # None /\ UNCHANGED vars

\* The lock is not waited for (exit code 2).
Busy(p) ==
    /\ pc[p] = "open" /\ lock # None
    /\ Gone(p)
    /\ UNCHANGED <<env, lock, dir, orphan, history>>

\* What is left of the directory when the entries in gone are removed.
Remove(gone) ==
    /\ rules'   = IF "rules" \in gone THEN None ELSE rules
    /\ tc'      = IF "tc" \in gone THEN None ELSE tc
    /\ waive'   = IF "waive" \in gone THEN None ELSE waive
    /\ exclude' = IF "exclude" \in gone THEN None ELSE exclude
    /\ result'  = IF "result" \in gone THEN None ELSE result
    /\ flat'    = IF "flat" \in gone THEN None ELSE flat
    /\ simv'    = IF "simv" \in gone THEN None ELSE simv
    /\ simvlog' = IF "simvlog" \in gone THEN None ELSE simvlog

Entry == {"rules", "tc", "waive", "exclude", "result", "flat", "simv", "simvlog"}

\* _prepare: CLEAN removes the directory and makes a new one, KEEP makes one
\* if there is none, ACTION and CHECK need one that exists.
Prepare(p) ==
    /\ At(p, "prepare")
    /\ cmd[p] \in {"full", "keep"} \/ present
    /\ IF cmd[p] = "full"
       THEN Remove(Entry) /\ owed' = {} /\ interrupted' = FALSE
       ELSE UNCHANGED <<inputs, result, artifacts, history>>
    /\ present' = TRUE
    /\ Goto(p, IF cmd[p] \in {"full", "keep"} THEN "compile" ELSE "load")
    /\ UNCHANGED <<env, lock, orphan, local>>

\* load_cached_state: all three snapshots, or an InputError (see Abort).  What
\* was read is not copied: it stands until the lock is given back (Workspace).
Load(p) ==
    /\ At(p, "load")
    /\ rules # None /\ tc # None /\ result # None
    /\ Goto(p, IF cmd[p] = "check" THEN "waivers" ELSE "compile")
    /\ UNCHANGED <<env, lock, dir, orphan, local, history>>

\* Mutant: the build action does not compare the filelist.
CompatibleAnyFilelist(c, command) == command = "run" => c = tc


Compatible(c, command) ==
    CASE command = "build" -> c.ff = tc.ff
      [] command = "run"   -> c = tc
      [] OTHER             -> TRUE

\* compile with _validate_action_compatibility, and _validate_stage_cache.
Compile(p) ==
    /\ At(p, "compile")
    /\ Compatible(conf, cmd[p])
    /\ cmd[p] = "build" => flat # None
    /\ cmd[p] = "run" => simv # None
    /\ want' = [want EXCEPT ![p] = conf]
    /\ Goto(p, "waivers")
    /\ UNCHANGED <<env, lock, dir, orphan, cmd, judge, report, exit, history>>

CompileWaivers(p) ==
    /\ At(p, "waivers")
    /\ judge' = [judge EXCEPT ![p] = waiver]
    /\ Goto(p, IF cmd[p] = "check" THEN "waive" ELSE "rules")
    /\ UNCHANGED <<env, lock, dir, orphan, cmd, want, report, exit, history>>

-----------------------------------------------------------------------------
(* publish_inputs, publish_waivers and the initial result, file by file.   *)

PublishRules(p) ==
    /\ At(p, "rules")
    /\ rules' = want[p]
    /\ Goto(p, "tc")
    /\ UNCHANGED <<env, lock, present, tc, waive, exclude, result, artifacts, orphan,
                   local, history>>

\* Mutant: the configuration is read again when it is published.
PublishTcReread(p) ==
    /\ At(p, "tc")
    /\ tc' = conf
    /\ owed' = IF cmd[p] = "run" THEN owed ELSE owed \cup {"build"}
    /\ Goto(p, "waive")
    /\ UNCHANGED <<env, lock, present, rules, waive, exclude, result, artifacts, orphan,
                   local, interrupted>>


PublishTc(p) ==
    /\ At(p, "tc")
    /\ tc' = want[p]
    /\ owed' = CASE cmd[p] \in {"full", "keep"} -> {"ff", "build"}
                 [] cmd[p] = "build"            -> owed \cup {"build"}
                 [] OTHER                       -> owed
    /\ Goto(p, "waive")
    /\ UNCHANGED <<env, lock, present, rules, waive, exclude, result, artifacts, orphan,
                   local, interrupted>>

PublishWaive(p) ==
    /\ At(p, "waive")
    /\ waive' = judge[p]
    /\ Goto(p, "exclude")
    /\ UNCHANGED <<env, lock, present, rules, tc, exclude, result, artifacts, orphan,
                   local, history>>

\* Mutant: exclude.txt is written only if there is none.
PublishExcludeOnce(p) ==
    /\ At(p, "exclude")
    /\ exclude' = IF exclude = None THEN judge[p] ELSE exclude
    /\ Goto(p, IF cmd[p] = "check" THEN "judge" ELSE "notrun")
    /\ UNCHANGED <<env, lock, present, rules, tc, waive, result, artifacts, orphan,
                   local, history>>


PublishExclude(p) ==
    /\ At(p, "exclude")
    /\ exclude' = judge[p]
    /\ Goto(p, IF cmd[p] = "check" THEN "judge" ELSE "notrun")
    /\ UNCHANGED <<env, lock, present, rules, tc, waive, result, artifacts, orphan,
                   local, history>>

FirstStage(command) ==
    CASE command \in {"full", "keep"} -> "ff"
      [] command = "build"            -> "build"
      [] OTHER                        -> "startrun"

\* Mutant: the stage actions keep the result they loaded until they end.
PublishNotRunFullOnly(p) ==
    /\ At(p, "notrun")
    /\ result' = IF cmd[p] \in StageAction THEN result ELSE NotRun
    /\ interrupted' = FALSE
    /\ Goto(p, FirstStage(cmd[p]))
    /\ UNCHANGED <<env, lock, present, inputs, artifacts, orphan, local, owed>>


PublishNotRun(p) ==
    /\ At(p, "notrun")
    /\ result' = NotRun
    /\ interrupted' = FALSE
    /\ Goto(p, FirstStage(cmd[p]))
    /\ UNCHANGED <<env, lock, present, inputs, artifacts, orphan, local, owed>>

-----------------------------------------------------------------------------
(* execute, stage by stage (Execution has its nodes); publishing the end.  *)

Reports(p, status, run) ==
    /\ report' = [report EXCEPT ![p] = [status |-> status, run |-> run]]
    /\ Goto(p, "publish")

FfStage(p) ==
    /\ At(p, "ff")
    /\ flat' \in {flat, want[p].ff}
    /\ \/ /\ flat' = want[p].ff
          /\ owed' = owed \ {"ff"}
          /\ Goto(p, "build")
          /\ UNCHANGED report
       \/ Reports(p, "FAIL", "none") /\ UNCHANGED owed
    /\ UNCHANGED <<env, lock, present, inputs, result, simv, simvlog, orphan, cmd, want,
                   judge, exit, interrupted>>

Built(p) == [ff |-> flat, build |-> want[p].build]

\* Mutant: a simv that is already there is not built again.
BuildStageCached(p) ==
    /\ At(p, "build")
    /\ simv' = IF simv = None THEN Built(p) ELSE simv
    /\ owed' = owed \ {"build"}
    /\ IF cmd[p] = "build" THEN Reports(p, "NOT_RUN", "none")
       ELSE Goto(p, "startrun") /\ UNCHANGED report
    /\ UNCHANGED <<env, lock, present, inputs, result, flat, simvlog, orphan, cmd, want,
                   judge, exit, interrupted>>

\* A failed build may leave the old simv, none, or a new one (its log or an
\* after hook failed); a build that passed has written simv.
BuildStage(p) ==
    /\ At(p, "build")
    /\ \/ /\ simv' = Built(p)
          /\ owed' = owed \ {"build"}
          /\ IF cmd[p] = "build" THEN Reports(p, "NOT_RUN", "none")
             ELSE Goto(p, "startrun") /\ UNCHANGED report
       \/ /\ simv' \in {simv, None, Built(p)}
          /\ Reports(p, "FAIL", "none")
          /\ UNCHANGED owed
    /\ UNCHANGED <<env, lock, present, inputs, result, flat, simvlog, orphan, cmd, want,
                   judge, exit, interrupted>>

\* The artifact check and run.before, then simv starts on a truncated log.
StartRun(p) ==
    /\ At(p, "startrun")
    /\ \/ /\ simv # None
          /\ simvlog' \in {[log EXCEPT !.exit = "cut"] : log \in Endings}
          /\ Goto(p, "simulate")
          /\ UNCHANGED report
       \/ Reports(p, "FAIL", "none") /\ UNCHANGED simvlog
    /\ UNCHANGED <<env, lock, present, inputs, result, flat, simv, orphan, cmd, want,
                   judge, exit, history>>

\* A finding fails the log unless the waivers cover it.
LogPasses(file, waivers) == file.finding => waivers \in Covering

\* simv has ended, its log is judged, and run.after may still fail.
EndRun(p) ==
    /\ At(p, "simulate")
    /\ simvlog' \in Endings
    /\ \/ /\ simvlog'.exit = "zero" /\ LogPasses(simvlog', judge[p])
          /\ Reports(p, "PASS", "zero")
       \/ Reports(p, "FAIL", simvlog'.exit)
    /\ UNCHANGED <<env, lock, present, inputs, result, flat, simv, orphan, cmd, want,
                   judge, exit, history>>

ExitCode(status) == IF status = "FAIL" THEN "1" ELSE "0"

PublishResult(p) ==
    /\ At(p, "publish")
    /\ result' = report[p]
    /\ exit' = [exit EXCEPT ![p] = ExitCode(report[p].status)]
    /\ Goto(p, "close")
    /\ UNCHANGED <<env, lock, present, inputs, artifacts, orphan, cmd, want, judge,
                   report, history>>

-----------------------------------------------------------------------------
(* check: the primary log alone is judged again.                           *)

MissingLog(p) ==
    /\ At(p, "judge")
    /\ simvlog = None
    /\ exit' = [exit EXCEPT ![p] = ExitCode(result.status)]
    /\ Goto(p, "close")
    /\ UNCHANGED <<env, lock, dir, orphan, cmd, want, judge, report, history>>

\* Mutant: check looks at the log alone.
RecordedRunIgnored == FALSE


RecordedRunFailed == result.run = "nonzero"

\* Mutant: check records how the simulation of the log ended.
RecheckFromLog(p) ==
    /\ At(p, "judge")
    /\ simvlog # None
    /\ Reports(p, IF LogPasses(simvlog, judge[p]) THEN "PASS" ELSE "FAIL", simvlog.exit)
    /\ UNCHANGED <<env, lock, dir, orphan, cmd, want, judge, exit, history>>


Recheck(p) ==
    /\ At(p, "judge")
    /\ simvlog # None
    /\ Reports(p, IF LogPasses(simvlog, judge[p]) /\ ~RecordedRunFailed
                  THEN "PASS" ELSE "FAIL", result.run)
    /\ UNCHANGED <<env, lock, dir, orphan, cmd, want, judge, exit, history>>

-----------------------------------------------------------------------------
(* Ending: the lock is given back on every way out.                        *)

Close(p) ==
    /\ At(p, "close")
    /\ lock' = None
    /\ Gone(p)
    /\ UNCHANGED <<env, dir, orphan, history>>

\* An input error before anything is published: no directory or snapshot,
\* bad configuration or waivers, an incompatible or missing cache.
Refuse(p) ==
    /\ \E l \in {"prepare", "load", "compile", "waivers"} : At(p, l)
    /\ exit' = [exit EXCEPT ![p] = "2"]
    /\ Goto(p, "close")
    /\ UNCHANGED <<env, lock, dir, orphan, cmd, want, judge, report, history>>

\* What a stage that does not come to its end may leave behind.
HalfDone(p) ==
    /\ flat' \in IF pc[p] = "ff" THEN {flat, want[p].ff} ELSE {flat}
    /\ simv' \in IF pc[p] = "build" THEN {simv, None, Built(p)} ELSE {simv}
    /\ simvlog' \in IF pc[p] = "simulate"
                   THEN Endings \cup {[log EXCEPT !.exit = "cut"] : log \in Endings}
                   ELSE {simvlog}
    /\ UNCHANGED <<present, inputs, result>>

\* The steps at which the snapshots no longer, or not yet, fit the result.
Torn(p) ==
    \/ pc[p] \in {"tc", "exclude", "notrun"}
    \/ pc[p] = "waive" /\ cmd[p] # "check"
    \/ pc[p] \in {"judge", "publish"} /\ cmd[p] = "check"

\* An error on the way: a write that fails, a log that cannot be read.
Abort(p) ==
    /\ "abort" \in Faults
    /\ \E l \in Publishing \cup Executing \cup {"judge", "publish"} : At(p, l)
    /\ HalfDone(p)
    /\ exit' = [exit EXCEPT ![p] = "3"]
    /\ interrupted' = (interrupted \/ Torn(p))
    /\ Goto(p, "close")
    /\ UNCHANGED <<env, lock, orphan, cmd, want, judge, report, owed>>

\* esim is killed: the kernel releases the lock, a tool may go on without it.
Crash(p) ==
    /\ "crash" \in Faults
    /\ \E l \in Locked : At(p, l)
    /\ HalfDone(p)
    /\ interrupted' = (interrupted \/ Torn(p))
    /\ lock' = None
    /\ Gone(p)
    /\ \/ orphan' = orphan
       \/ /\ "orphan" \in Faults /\ orphan = None
          /\ \/ pc[p] = "build" /\ orphan' = [tool |-> "build", makes |-> Built(p)]
             \/ pc[p] = "simulate" /\ orphan' = [tool |-> "simulate", makes |-> simv]
    /\ UNCHANGED <<env, owed>>

\* CLEAN cut short in the middle of rmtree, by an error or a kill.
CutWipe(p) ==
    /\ "wipe" \in Faults
    /\ At(p, "prepare") /\ cmd[p] = "full" /\ present
    /\ \E gone \in SUBSET Entry :
         Remove(gone) /\ present' \in IF gone = Entry THEN BOOLEAN ELSE {TRUE}
    /\ interrupted' = TRUE
    /\ \/ /\ Goto(p, "close")
          /\ exit' = [exit EXCEPT ![p] = "3"]
          /\ UNCHANGED <<lock, cmd, want, judge, report>>
       \/ Gone(p) /\ lock' = None
    /\ UNCHANGED <<env, orphan, owed>>

-----------------------------------------------------------------------------
(* The environment.                                                        *)

\* The tool of a killed esim ends, and has written what it was to write.
OrphanEnds ==
    /\ orphan # None
    /\ \/ orphan.tool = "build" /\ simv' = orphan.makes /\ UNCHANGED simvlog
       \/ /\ orphan.tool = "simulate"
          /\ simvlog' \in Endings
          /\ UNCHANGED simv
    /\ orphan' = None
    /\ interrupted' = TRUE
    /\ owed' = owed \cup ({orphan.tool} \cap Stage)
    /\ UNCHANGED <<env, lock, present, inputs, result, flat, pc, local>>

EditConf ==
    /\ conf' \in Config \ {conf}
    /\ UNCHANGED <<waiver, lock, dir, orphan, pc, local, history>>

EditWaivers ==
    /\ waiver' \in Waivers \ {waiver}
    /\ UNCHANGED <<conf, lock, dir, orphan, pc, local, history>>

Step(p) ==
    \/ Open(p) \/ Busy(p) \/ Prepare(p) \/ Load(p) \/ Compile(p) \/ CompileWaivers(p)
    \/ PublishRules(p) \/ PublishTc(p) \/ PublishWaive(p) \/ PublishExclude(p)
    \/ PublishNotRun(p) \/ FfStage(p) \/ BuildStage(p) \/ StartRun(p) \/ EndRun(p)
    \/ PublishResult(p) \/ MissingLog(p) \/ Recheck(p) \/ Refuse(p) \/ Close(p)

Fault(p) == Abort(p) \/ Crash(p) \/ CutWipe(p)

Next ==
    \/ \E p \in Procs : Invoke(p) \/ Step(p) \/ Fault(p)
    \/ OrphanEnds \/ EditConf \/ EditWaivers

\* The tools end, and esim is given the processor: nothing else is fair.
Spec == Init /\ [][Next]_vars /\ \A p \in Procs : WF_vars(Step(p))

-----------------------------------------------------------------------------
\* The types of the state: snapshots are whole, and the return code a result
\* records is one run can have recorded.
TypeOK ==
    /\ conf \in Config /\ waiver \in Waivers
    /\ lock \in Procs \cup {None}
    /\ present \in BOOLEAN
    /\ rules \in Config \cup {None} /\ tc \in Config \cup {None}
    /\ waive \in Waivers \cup {None} /\ exclude \in Waivers \cup {None}
    /\ result \in Result \cup {None}
    /\ flat \in Filelists \cup {None} /\ simv \in Config \cup {None}
    /\ simvlog \in SimvLog \cup {None}
    /\ orphan \in [tool : {"build", "simulate"}, makes : Config] \cup {None}
    /\ pc \in [Procs -> Location]
    /\ cmd \in [Procs -> Command \cup {None}]
    /\ want \in [Procs -> Config \cup {None}]
    /\ judge \in [Procs -> Waivers \cup {None}]
    /\ report \in [Procs -> Result \cup {None}]
    /\ exit \in [Procs -> {"none", "0", "1", "2", "3"}]
    /\ owed \subseteq Stage
    /\ interrupted \in BOOLEAN

\* An invocation is between Open and Close exactly while it holds the lock, so
\* two of them never work in the directory at once.
LockHeld == \A p \in Procs : pc[p] \in Locked <=> lock = p

\* From the first hook to the last, the snapshots are those of the running
\* invocation and result.yaml says NOT_RUN: an invocation that dies leaves no
\* verdict of an earlier run, and no other invocation has published meanwhile.
ExecutingSnapshots ==
    \A p \in Procs : pc[p] \in Executing =>
        /\ rules = want[p] /\ tc = want[p]
        /\ waive = judge[p] /\ exclude = judge[p]
        /\ result = NotRun

\* A recorded nonzero simulation stays FAIL through any number of checks,
\* whatever the waivers and the log have become.
RecordedFailureSticks ==
    (result # None /\ result.run = "nonzero") => result.status = "FAIL"

\* A complete run (with or without --keep) simulates what it has itself
\* flattened and built from its own configuration, never a leftover - unless
\* the compiler of a killed invocation overwrites simv under its lock.
FullRunIsFresh ==
    \A p \in Procs :
        (~interrupted /\ cmd[p] \in {"full", "keep"} /\ pc[p] \in {"startrun", "simulate"})
            => simv = want[p]

\* When every configuration published in tc.yaml has also been flattened and
\* built to the end, the artifacts in the directory are those of tc.yaml: the
\* comparison with tc.yaml is then a sound test for reuse.
SettledArtifacts ==
    (owed = {} /\ tc # None) =>
        /\ flat # None => flat = tc.ff
        /\ simv # None => simv = tc

\* Between invocations, unless one was cut short while publishing or left a
\* tool behind that wrote later, the snapshots fit each other, and a PASS is
\* the verdict on the log that is there under the waivers written beside it.
\* One complete run repairs what a cut one has left.
AuditTrail ==
    (lock = None /\ ~interrupted /\ result # None) =>
        /\ rules = tc /\ waive = exclude
        /\ result.status = "PASS" => simvlog # None /\ LogPasses(simvlog, waive)

\* A stage action replaces tc.yaml only by a configuration compatible with
\* the one it replaces, whatever the user edits while the action starts.
StageActionsKeepUpstream ==
    [][\A p \in Procs : (cmd[p] \in StageAction /\ pc[p] = "tc" /\ tc' # tc)
          => tc # None /\ Compatible(tc', cmd[p])]_vars

\* The user guide: a run action needs a build made from a compatible upstream
\* configuration; so what it simulates was built from the configuration it
\* was asked to run.
ReusedBuildMatches ==
    \A p \in Procs : (cmd[p] = "run" /\ pc[p] = "simulate") => simv = want[p]

\* The user guide: a simulation that exited nonzero is FAIL however its log
\* is judged again.
FailedSimulationNeverPasses ==
    (result # None /\ result.status = "PASS") => simvlog.exit # "nonzero"

\* Every invocation comes to an end, whether it gets the lock or not.
InvocationsEnd == \A p \in Procs : pc[p] # "idle" ~> pc[p] = "idle"

-----------------------------------------------------------------------------
Snapshot == {"rules", "tc", "waive", "exclude", "result"}

Shelved ==
    [f \in Snapshot |-> CASE f = "rules"   -> rules
                          [] f = "tc"      -> tc
                          [] f = "waive"   -> waive
                          [] f = "exclude" -> exclude
                          [] f = "result"  -> result]

Store == INSTANCE SnapshotStore WITH
    File    <- Snapshot,
    Content <- Config \cup Waivers \cup Result,
    holder  <- lock,
    store   <- Shelved

\* Whatever the invocations run into, they treat the directory as
\* SnapshotStore promises: snapshots change under the lock and as a whole.
ImplementsSnapshotStore == Store!Spec
=============================================================================
