------------------------------ MODULE LogPolicy ------------------------------
(***************************************************************************)
(* LogPolicy (src/esim/log_policy.py): the waiver files of the common and  *)
(* of the entry directory are compiled into rules, rendered into the       *)
(* snapshots waive.txt and exclude.txt, and applied to a log.  A judgement *)
(* is one compile and one evaluate, as in a recheck of the primary log;    *)
(* between judgements the user edits the waiver files.                     *)
(*                                                                         *)
(* A pattern is a name: what fnmatch and re make of it is given by the     *)
(* constants, separately for the two kinds, because a glob must match the  *)
(* whole line and a regex is searched for.                                 *)
(***************************************************************************)
EXTENDS Naturals, Sequences, FiniteSets

CONSTANTS
    Pattern,        \* the patterns a waiver file may hold
    Line,           \* the lines a log may hold
    Suspicious,     \* those _reasons has a reason for: fail, error, a tool's code
    Invalid,        \* {<<kind, pattern>>}: does not compile
    Matches,        \* {<<kind, pattern, line>>}: the matcher accepts the line
    Logs,           \* the logs to be judged
    MaxLines        \* bound on the lines of all waiver files together

Kind == {"glob", "regex"}
Origin == {"common", "entry"}
File == Kind \X Origin

\* A blank line counts as a "#" remark; "//" is also what _render heads a
\* source block with.
Remark == {"#", "//"}

ASSUME PolicyAssumption ==
    /\ Pattern \cap Remark = {}
    /\ Suspicious \subseteq Line
    /\ Invalid \subseteq Kind \X Pattern
    /\ Matches \subseteq Kind \X Pattern \X Line
    /\ Logs \subseteq Seq(Line)
    /\ MaxLines \in Nat

\* Lines are counted from 1.
Rule == [kind : Kind, origin : Origin, line : Nat \ {0}, pattern : Pattern]
Outcome == {"none", "unreadable", "invalid", "judged"}

VARIABLES
    source,         \* the lines of the waiver files; no file is no lines
    unreadable,     \* the files that exist but cannot be read
    log,            \* the log under judgement
    compiled,       \* the files the last judgement compiled
    outcome,        \* how it ended
    errors,         \* the rules it rejected
    snapshot,       \* kind -> the lines of the published file
    findings        \* its findings: the number of a line and its waiver hits

vars == <<source, unreadable, log, compiled, outcome, errors, snapshot, findings>>

-----------------------------------------------------------------------------
IsRule(text) == text \notin Remark

\* The i-th smallest number of K.
Nth(K, i) == CHOOSE n \in K : Cardinality({m \in K : m <= n}) = i

\* What a loop over s keeps when it skips all but the positions K.
Select(s, K) == [i \in 1..Cardinality(K) |-> s[Nth(K, i)]]

\* The positions of lines that hold a rule, and of rules that do not compile.
RuleLines(lines) == {i \in DOMAIN lines : IsRule(lines[i])}
BadRules(rules) == {i \in DOMAIN rules : <<rules[i].kind, rules[i].pattern>> \in Invalid}

\* Mutants: the lines are counted from 0; the rules are numbered after the
\* remarks have been dropped.
ReadRulesFromZero(kind, origin, lines) ==
    LET numbered == [i \in DOMAIN lines |->
            [kind |-> kind, origin |-> origin, line |-> i - 1, pattern |-> lines[i]]]
    IN  Select(numbered, RuleLines(lines))
ReadRulesRenumbered(kind, origin, lines) ==
    LET kept == Select(lines, RuleLines(lines))
    IN  [i \in DOMAIN kept |->
            [kind |-> kind, origin |-> origin, line |-> i, pattern |-> kept[i]]]

\* _read_rules: each rule keeps the number of its line in the file.
ReadRules(kind, origin, lines) ==
    LET numbered == [i \in DOMAIN lines |->
            [kind |-> kind, origin |-> origin, line |-> i, pattern |-> lines[i]]]
    IN  Select(numbered, RuleLines(lines))

\* Mutant: the entry file replaces the common one.
BlocksEntryFirst(kind, files) ==
    IF files[<<kind, "entry">>] # <<>>
    THEN ReadRules(kind, "entry", files[<<kind, "entry">>])
    ELSE ReadRules(kind, "common", files[<<kind, "common">>])

\* _blocks: the common rules before those of the entry (none is built in).
Blocks(kind, files) ==
    ReadRules(kind, "common", files[<<kind, "common">>])
        \o ReadRules(kind, "entry", files[<<kind, "entry">>])

\* The errors of one kind, in the order of its rules.
Errors(rules) == Select(rules, BadRules(rules))

\* Mutant: the glob errors are raised before the regex rules are looked at.
RejectedGlobFirst(files) ==
    LET glob == Errors(Blocks("glob", files))
    IN  IF glob # <<>> THEN glob ELSE Errors(Blocks("regex", files))

\* The errors of _compile_glob_rules and then of _compile_regex_rules.
Rejected(files) == Errors(Blocks("glob", files)) \o Errors(Blocks("regex", files))

\* The block of one source, if it has rules, under a header that is a remark.
Block(rules) ==
    IF rules = <<>> THEN <<>> ELSE <<"//">> \o [i \in DOMAIN rules |-> rules[i].pattern]

\* Mutant: the block of the entry is written over the common one.
RenderLastBlock(kind, files) ==
    LET Of(origin) == Block(ReadRules(kind, origin, files[<<kind, origin>>]))
    IN  IF Of("entry") # <<>> THEN Of("entry") ELSE Of("common")

\* _render: the block of the common file, then that of the entry.
Render(kind, files) ==
    Block(ReadRules(kind, "common", files[<<kind, "common">>]))
        \o Block(ReadRules(kind, "entry", files[<<kind, "entry">>]))

\* The rules that match a line of a log.
Hits(rules, text) ==
    Select(rules, {i \in DOMAIN rules : <<rules[i].kind, rules[i].pattern, text>> \in Matches})

\* _waiver_hits: every glob rule that matches, then every regex rule.
WaiverHits(text, files) ==
    Hits(Blocks("glob", files), text) \o Hits(Blocks("regex", files), text)

\* evaluate: one finding for every suspicious line, however many its reasons.
Evaluate(lines, files) ==
    LET numbered == [i \in DOMAIN lines |->
            [line |-> i, hits |-> WaiverHits(lines[i], files)]]
    IN  Select(numbered, {i \in DOMAIN lines : lines[i] \in Suspicious})

Passed(found) == \A i \in DOMAIN found : found[i].hits # <<>>

-----------------------------------------------------------------------------
Nothing == [k \in Kind |-> <<>>]

Init ==
    /\ source = [f \in File |-> <<>>]
    /\ unreadable = {}
    /\ log \in Logs
    /\ compiled = source
    /\ outcome = "none"
    /\ errors = <<>>
    /\ snapshot = Nothing
    /\ findings = <<>>

\* A judgement by a run or a check.  An unreadable file, the first one met,
\* or an invalid pattern ends it before anything is published.
Judge ==
    /\ compiled' = source
    /\ errors' = IF unreadable = {} THEN Rejected(source) ELSE <<>>
    /\ outcome' = IF unreadable # {} THEN "unreadable"
                  ELSE IF Rejected(source) # <<>> THEN "invalid" ELSE "judged"
    /\ IF outcome' = "judged"
       THEN /\ snapshot' = [k \in Kind |-> Render(k, source)]
            /\ findings' = Evaluate(log, source)
       ELSE UNCHANGED snapshot /\ findings' = <<>>
    /\ UNCHANGED <<source, unreadable, log>>

\* Bound: one edit between two judgements.
Settled == compiled = source /\ (outcome = "unreadable" <=> unreadable # {})

Size == Len(source[<<"glob", "common">>]) + Len(source[<<"glob", "entry">>])
        + Len(source[<<"regex", "common">>]) + Len(source[<<"regex", "entry">>])

AddLine ==
    /\ Settled /\ Size < MaxLines
    /\ \E f \in File, text \in Pattern \cup Remark :
         \/ source' = [source EXCEPT ![f] = Append(@, text)]
         \/ source' = [source EXCEPT ![f] = <<text>> \o @]
    /\ UNCHANGED <<unreadable, log, compiled, outcome, errors, snapshot, findings>>

RemoveLine ==
    /\ Settled
    /\ \E f \in File :
         /\ source[f] # <<>>
         /\ source' = [source EXCEPT ![f] = Tail(@)]
    /\ UNCHANGED <<unreadable, log, compiled, outcome, errors, snapshot, findings>>

ChangeMode ==
    /\ Settled
    /\ \E f \in File :
         unreadable' = IF f \in unreadable THEN unreadable \ {f} ELSE {f}
    /\ UNCHANGED <<source, log, compiled, outcome, errors, snapshot, findings>>

Next == Judge \/ AddLine \/ RemoveLine \/ ChangeMode

Spec == Init /\ [][Next]_vars

-----------------------------------------------------------------------------
\* The types of the state: rejected rules and hits are rules of the files,
\* their lines and those of the findings are counted from 1, as an editor does.
TypeOK ==
    /\ source \in [File -> Seq(Pattern \cup Remark)]
    /\ unreadable \subseteq File
    /\ log \in Logs
    /\ compiled \in [File -> Seq(Pattern \cup Remark)]
    /\ outcome \in Outcome
    /\ errors \in Seq(Rule)
    /\ snapshot \in [Kind -> Seq(Pattern \cup Remark)]
    /\ findings \in Seq([line : Nat \ {0}, hits : Seq(Rule)])

\* One judgement names every invalid pattern of both kinds and both sources at
\* its own line, so that one round of edits can repair the files.
ErrorsComplete ==
    LET InvalidLines(f) == {n \in DOMAIN compiled[f] : <<f[1], compiled[f][n]>> \in Invalid}
    IN  outcome = "invalid" =>
            {<<errors[i].kind, errors[i].origin, errors[i].line>> : i \in DOMAIN errors}
                = UNION {{<<f[1], f[2], n>> : n \in InvalidLines(f)} : f \in File}

\* The source and line a waiver hit cites hold a pattern that waives the line.
CitationsResolve ==
    outcome = "judged" =>
        \A i \in DOMAIN findings : \A j \in DOMAIN findings[i].hits :
            LET hit  == findings[i].hits[j]
                file == compiled[<<hit.kind, hit.origin>>]
            IN  /\ hit.line \in DOMAIN file
                /\ <<hit.kind, file[hit.line], log[findings[i].line]>> \in Matches

\* What was published beside the result reproduces it: waive.txt and
\* exclude.txt, read again as waiver files, waive exactly the lines that were
\* waived, with as many hits each.
SnapshotReproduces ==
    outcome = "judged" =>
        LET files == [f \in File |-> IF f[2] = "common" THEN snapshot[f[1]] ELSE <<>>]
            again == Evaluate(log, files)
        IN  /\ Rejected(files) = <<>>
            /\ Len(again) = Len(findings)
            /\ \A i \in DOMAIN again :
                  /\ again[i].line = findings[i].line
                  /\ Len(again[i].hits) = Len(findings[i].hits)

\* A waiver only ever waives: a log that passed passes again when rules have
\* been added, in any file and at any place in it.
WaiversOnlyWaive ==
    [][( /\ outcome = "judged" /\ outcome' = "judged"
         /\ \A f \in File : \A n \in DOMAIN compiled[f] :
               \E m \in DOMAIN compiled'[f] : compiled'[f][m] = compiled[f][n] )
        => (Passed(findings) => Passed(findings'))]_vars
=============================================================================
