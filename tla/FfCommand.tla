------------------------------ MODULE FfCommand ------------------------------
(***************************************************************************)
(* One call of ff: main (src/ff/cli.py) around flatten_filelist, which is  *)
(* what esim calls as well.  The log is written beside its place from the  *)
(* start and put there at the end, the output is put there when flattening *)
(* has succeeded; both by os.replace, which puts a file where the name is, *)
(* not where a link there leads.                                           *)
(***************************************************************************)
EXTENDS Flattener

ASSUME ExitAssumption == None \notin {0, 1, 3, 137}

VARIABLES
    pc,         \* where main is: "start", "check", "lines", "write", "replace";
                \* "failed" and "internal" after an exception; "done", "exit"
    disk,       \* place -> what this call has made of the file there
    temps,      \* the temporary files that exist
    exit        \* the exit code; 137 is that of a kill

command == <<pc, disk, temps, exit>>
vars == <<flattener, command>>

Logs == call.log # None

\* Where this call may put a file, and where it must not.
Places ==
    DOMAIN call.texts \cup {Place(call.output)} \cup (IF Logs THEN {Place(call.log)} ELSE {})

Init ==
    /\ call \in Calls
    /\ frames = <<>> /\ inputs = {} /\ outcome = "none" /\ result = Nothing
    /\ pc = "start"
    /\ disk = [p \in Places |-> "kept"]
    /\ temps = {}
    /\ exit = None

Exit(code) == pc' = "exit" /\ exit' = code

\* _paths_share_identity
Same(p, q) == p = q \/ (Exists(p) /\ Exists(q) /\ Real(p) = Real(q))

\* main's checks of the log, which are made only when there is one.
OpenLog ==
    /\ pc = "start" /\ Logs /\ ~Same(call.log, call.output) /\ ~Same(call.log, call.top)
    /\ temps' = {"log"}
    /\ pc' = "check"
    /\ UNCHANGED <<flattener, disk, exit>>

\* The same file as the output or the input; or a place where no temporary file
\* can be made.
RefuseLog ==
    /\ pc = "start" /\ Logs
    /\ Exit(1)
    /\ UNCHANGED <<flattener, disk, temps>>

NoLog ==
    /\ pc = "start" /\ ~Logs
    /\ pc' = "check"
    /\ UNCHANGED <<flattener, disk, temps, exit>>

\* flatten_filelist opens the top filelist.
Begin ==
    /\ pc = "check" /\ Real(call.top) \in DOMAIN call.texts
    /\ frames' = <<Frame(call.top, Parent(call.top))>>
    /\ inputs' = {Real(call.top)}
    /\ pc' = "lines"
    /\ UNCHANGED <<call, outcome, result, disk, temps, exit>>

\* Or does not: a macro, the top filelist or the place of the output is wrong.
NotBegun ==
    /\ pc = "check"
    /\ pc' = "failed"
    /\ UNCHANGED <<flattener, disk, temps, exit>>

Lines == pc = "lines" /\ Flatten /\ UNCHANGED command

LinesFail ==
    /\ pc = "lines" /\ outcome \in {"error", "cycle"}
    /\ pc' = "failed"
    /\ UNCHANGED <<flattener, disk, temps, exit>>

LogIsInput == Logs /\ Exists(call.log) /\ Real(call.log) \in inputs
OutputIsInput == Exists(call.output) /\ Real(call.output) \in inputs

\* An exception other than FlattenError: a filelist that is gone, no temporary file.
Unexpected ==
    /\ pc = "lines"
    /\ outcome = "none" \/ (outcome = "flattened" /\ ~LogIsInput /\ ~OutputIsInput)
    /\ pc' = "internal"
    /\ UNCHANGED <<flattener, disk, temps, exit>>

\* The one FlattenError after which the log is not published.
LogConflict ==
    /\ pc = "lines" /\ outcome = "flattened" /\ LogIsInput
    /\ temps' = temps \ {"log"}
    /\ Exit(1)
    /\ UNCHANGED <<flattener, disk>>

OutputConflict ==
    /\ pc = "lines" /\ outcome = "flattened" /\ ~LogIsInput /\ OutputIsInput
    /\ pc' = "failed"
    /\ UNCHANGED <<flattener, disk, temps, exit>>

\* Mutant: the log is not looked at again.
MakeOutputUnlessConflict ==
    /\ pc = "lines" /\ outcome = "flattened" /\ ~OutputIsInput
    /\ temps' = temps \cup {"output"}
    /\ pc' = "write"
    /\ UNCHANGED <<flattener, disk, exit>>

MakeOutput ==
    /\ pc = "lines" /\ outcome = "flattened" /\ ~LogIsInput /\ ~OutputIsInput
    /\ temps' = temps \cup {"output"}
    /\ pc' = "write"
    /\ UNCHANGED <<flattener, disk, exit>>

\* Mutant: the output is written in its place.
WriteOutputInPlace ==
    /\ pc = "write"
    /\ disk' = [disk EXCEPT ![Place(call.output)] = "partial"]
    /\ pc' = "replace"
    /\ UNCHANGED <<flattener, temps, exit>>

WriteOutput ==
    /\ pc = "write"
    /\ pc' = "replace"
    /\ UNCHANGED <<flattener, disk, temps, exit>>

ReplaceOutput ==
    /\ pc = "replace"
    /\ disk' = [disk EXCEPT ![Place(call.output)] = "flattened"]
    /\ temps' = temps \ {"output"}
    /\ pc' = "done"
    /\ UNCHANGED <<flattener, exit>>

\* write_text, chmod or os.replace fails.
OutputFails ==
    /\ pc \in {"write", "replace"}
    /\ temps' = temps \ {"output"}
    /\ pc' = "internal"
    /\ UNCHANGED <<flattener, disk, exit>>

Code == CASE pc = "done" -> 0 [] pc = "failed" -> 1 [] pc = "internal" -> 3

\* _publish_log
PublishLog ==
    /\ pc \in {"done", "failed", "internal"} /\ Logs
    /\ disk' = [disk EXCEPT ![Place(call.log)] = "log"]
    /\ temps' = temps \ {"log"}
    /\ Exit(Code)
    /\ UNCHANGED flattener

\* A failure to publish is caught after a success only; the interpreter makes
\* exit code 1 of the other ones and the temporary log remains.
PublishFails ==
    /\ pc \in {"done", "failed", "internal"} /\ Logs
    /\ IF pc = "done" THEN temps' = temps \ {"log"} /\ Exit(3)
       ELSE UNCHANGED temps /\ Exit(1)
    /\ UNCHANGED <<flattener, disk>>

Unlogged ==
    /\ pc \in {"done", "failed", "internal"} /\ ~Logs
    /\ Exit(Code)
    /\ UNCHANGED <<flattener, disk, temps>>

Step ==
    \/ OpenLog \/ RefuseLog \/ NoLog \/ Begin \/ NotBegun \/ Lines \/ LinesFail
    \/ LogConflict \/ OutputConflict \/ MakeOutput \/ WriteOutput \/ ReplaceOutput
    \/ PublishLog \/ Unlogged

Kill ==
    /\ pc # "exit"
    /\ Exit(137)
    /\ UNCHANGED <<flattener, disk, temps>>

Ended == pc = "exit" /\ UNCHANGED vars

Next == Step \/ Unexpected \/ OutputFails \/ PublishFails \/ Kill \/ Ended

Spec == Init /\ [][Next]_vars /\ WF_vars(Step)

-----------------------------------------------------------------------------
\* The types of the state.
FfTypeOK ==
    /\ FlattenerTypeOK
    /\ pc \in {"start", "check", "lines", "write", "replace", "failed", "internal", "done", "exit"}
    /\ disk \in [Places -> {"kept", "partial", "flattened", "log"}]
    /\ temps \subseteq {"log", "output"}
    /\ exit \in {None, 0, 1, 3, 137}

\* No call loses the top filelist, and one that has flattened loses none of its
\* inputs, however log, output and inputs are linked; what a call that failed
\* early may lose, it loses to its log.
InputsSurvive ==
    /\ Real(call.top) \in DOMAIN call.texts => disk[Real(call.top)] = "kept"
    /\ \A p \in inputs : disk[p] = "kept" \/ (disk[p] = "log" /\ outcome # "flattened")

\* What the exit code says of the files: with 0 output and log are in place (one
\* of them, when both names come to mean one new file), with 1 and 3 the output
\* is untouched, but for a 3 that reports that the log alone was not published;
\* a kill leaves a whole file or none.
ExitTells ==
    LET out  == disk[Place(call.output)]
        apart == Logs => Place(call.log) # Place(call.output)
    IN  /\ exit = 0 =>
              /\ apart => out = "flattened"
              /\ Logs => disk[Place(call.log)] = "log"
        /\ exit = 1 => out \in {"kept", "log"}
        /\ exit = 3 => out \in {"kept", "log"} \/ (out = "flattened" /\ Logs)
        /\ out # "partial"
        /\ exit \in {0, 3} => temps = {}

\* A controlled failure does not put its log in the place of an input filelist.
LogStandsApart == exit = 1 => \A p \in inputs : disk[p] # "log"

\* Every call ends: the recursion through the filelists does.
FfEnds == <>(exit # None)
=============================================================================
