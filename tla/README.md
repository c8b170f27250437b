# esim in TLA+

TLA+ models of `esim`, the front end that prepares, builds, runs and judges one
HDL simulation in one simulation directory, with the TLC configurations that
check them and the theorems TLAPS proves about them; and of `ff`, the flattener
of filelists that esim calls and that is a command of its own.  Everything is
translated from the Python under `src/src`; `PROJECT.json` maps each definition to
the lines it stands for, each property to a mutation of the code that breaks
it, and lists the hazards the properties are there for.

## 1. The system

A user (or an editor plug-in, or a scheduler) starts one short-lived process:
`esim <tc>` for a complete run, `--keep` to keep the directory, `-a build` or
`-a run` for one stage, `esim check <dir>` to judge an existing log again.
Everything that lasts is in the simulation directory; processes meet only there.

| component | source | state | operations |
|---|---|---|---|
| `EsimApplication` | `application.py` | none of its own; the order of calls | `run`, `check` |
| `WorkspaceManager`, `WorkspaceSession` | `workspace/__init__.py` | lock file, directory, five snapshots | `open`, `publish_inputs`, `publish_waivers`, `publish_result`, `load_cached_state` |
| `ExecutionEngine` | `execution.py` | command records, evaluations | `execute`: hooks, flattener, tools, artifact checks |
| `SubprocessRunner` | `process.py` | a log file per node | `run` |
| `VcsAdapter`, registry | `simulators/` | none | `create_plan`, artifact validator, detector |
| `LogPolicy` | `log_policy.py` | compiled waivers | `compile`, `evaluate` |
| `ConfigurationCompiler` | `configuration/__init__.py` | include graph walk | `locate`, `compile` |
| command line | `cli.py` | none | parsing, exit codes |
| `yaml_codec` | `yaml_codec.py` | none | encode, decode |
| `ff` flattener | `ff/__init__.py` | conditional blocks, include chain, sections | `flatten_filelist` |
| `ff` command line | `ff/cli.py` | temporary log and output | `main` |
| documentation, packaging, editor tools | `tools/` | none at run time | |

How they interact.  `run` locates the entry files, opens the workspace (lock,
then CLEAN, KEEP or ACTION preparation), loads the cached snapshots for a stage
action, compiles configuration and waivers, publishes `rules.yaml`, `tc.yaml`,
`waive.txt`, `exclude.txt` and a NOT_RUN `result.yaml`, executes, and publishes
the final result.  `check` opens, loads, compiles waivers, publishes them,
judges `simv.log` and publishes the result.  `execute` calls the process runner
and the log policy for every node.  The lock is released on every way out.

`ff` reads a filelist entry by entry, selects entries by conditional directives,
follows `-f` and `-F` into other filelists and replaces one output by the
result.  esim calls `flatten_filelist` in its own process; the command puts a
log around it, written beside its place and published at the end.  `ff` takes
no lock: the guide leaves the output to the last of two calls.

What is hard here:

- **concurrency**: two invocations on one directory; the user edits
  configuration and waivers at any moment; a compiler or simulator outlives a
  killed esim and writes without the lock;
- **failure**: a kill between any two file operations, a write or `rmtree` that
  fails half way, a log that cannot be read in the middle of `execute`;
- **ordering**: hooks around tools by action and flow, NOT_RUN before the first
  hook, snapshots before execution, a file after everything it includes;
- **aliasing**: output, log and filelists of `ff` may be one file under several
  names, through links, linked directories and variables;
- **staleness**: what a stage action reuses was left by earlier invocations;
  `check` combines a log, a recorded return code and new waivers, which may be
  of different ages.

What makes each component correct, in one line each:

- workspace: one session at a time, snapshots replaced whole, reads stand, no
  litter without a crash, nobody waits;
- application: snapshots of the executing invocation, fresh complete runs,
  reuse only of artifacts that fit, verdicts that belong to the log beside them;
- engine: the first failure ends it, every node is judged over exactly its own
  output, PASS is earned and FAIL explained;
- log policy: complete errors, true citations, reproducible snapshots, monotone
  waivers;
- configuration: real cycles, includes first, no include lost, Rules decide;
- flattener: the selected entries, all of them, in their order and resolved
  against the right base; a recursion that ends and reports real cycles;
- `ff` command: no input lost, an output that is whole, an exit code that tells
  what became of the files.

## 2. The modules

| module | models | variables and actions |
|---|---|---|
| `Phases` | actions, flows, nodes | shared vocabulary; `NodeOrder` |
| `Pipeline` | what an execution promises (abstract) | `plan`, `clean`, `verdict` |
| `Execution` | `ExecutionEngine.execute`, `SubprocessRunner` | `at` is the point in `execute`; one action per hook command, tool, evaluation, artifact check |
| `SnapshotStore` | what a directory promises to its readers (abstract) | `holder`, `store` |
| `Workspace` | `WorkspaceManager.open` and the session | `lockfile` and `fd` are inodes; one action per system call of `open`, `_prepare`, `_read_required`, `_atomic_write` |
| `EsimApplication` | `run` and `check` of any number of invocations | `pc` is the point in `run` or `check`; one action per effect on the directory; `EditConf`, `EditWaivers`, `OrphanEnds` around them |
| `LogPolicy` | waiver compilation, rendering, judgement | `Judge` is one `compile` and `evaluate`; the user edits the files |
| `ConfigGraph` | `_load_graph`, `_merge_sources`, `_merge_hooks` | `active` and `rest` are the recursion stack of `visit` |
| `Flattener` | `flatten_filelist` up to its result | `frames` is the recursion of `_flatten_lines`, `levels` in a frame its conditional blocks; one action per kind of entry |
| `FfCommand` | `main` of `ff` and the writing of the output | `pc` is the point in `main`; `disk`, `temps`, `exit`; its `Lines` steps are those of `Flattener` |
| `WorkspaceProofs`, `EsimApplicationProofs`, `ExecutionProofs`, `LogPolicyProofs`, `ConfigGraphProofs`, `FfCommandProofs` | theorems of the modules they are named after | |
| `PipelineProofs` | the verdict PASS of `Execution`, and its refinement of `Pipeline` | |
| `EsimHistoryProofs` | theorems of `EsimApplication` that need whole histories, and its refinement | |
| `MC...` | instances for TLC | |

`Execution` implements `Pipeline`; `Workspace` and `EsimApplication` both
implement `SnapshotStore`, one at the level of file operations, the other at
the level of its use.  `EsimApplication` takes the stages of `Execution` as
single steps whose outcomes are those `Execution` allows: a failed build may
leave the old, no or a new `simv`, a passed one has written it.

Choices a reader of the code should know:

- A configuration is a pair: `ff` (the `filelist` and `ff` fields that a build
  action compares) and `build` (`simulator`, `flow`, `build`, which a run action
  compares as well; `-b` and `-e` are in it).  `-r` and the `run` field are
  compared by nobody and are left out.
- A `simv` is named by what it was built from: the `flattened.f` the tool read
  and the build options of the invocation.
- A log is what the properties tell apart: whether it holds a finding and how
  the simulation that wrote it ended.
- An invocation that reads a cached snapshot does not copy it in
  `EsimApplication`; that this is sound is `LoadStands`, checked in `Workspace`.
- A path of `Flattener` is a sequence of components, absolute when it starts
  with the root; `links` and `at` are what the file system says of names, for
  symbolic links and for names that lead through a linked directory.  An entry
  is what the code's tests on its text make of it: its kind, and the directive's
  macro, the reference or the section.  A reference that cannot be expanded
  contains `None`, and nothing of that name exists.
- The lines of macro values and the header that `render` puts before the
  sections depend on the request alone and are left out of `result`.
- `disk` in `FfCommand` says of each place what this call has put there; the
  identities by which the code compares paths are those before the call.
- `owed` and `interrupted` in `EsimApplication`, `crashed` in `Workspace`, are
  history variables: no code has them, no guard reads them.

## 3. What is checked

All runs finish with TLC; the numbers are distinct states.

| run | states | question |
|---|---|---|
| `execution` | 34 000 | does `execute` stop at failures, judge each node once and over its own output, and implement `Pipeline`? |
| `workspace` | 110 000 | do the file operations give exclusion, stable reads, whole snapshots, and an end to every session? |
| `app_history` | 1 800 000 | of which configuration are snapshots and artifacts after any history? |
| `app_audit` | 1 420 000 | does `result.yaml` fit the log and the waivers beside it? |
| `app_shared` | 126 000 | does the lock protect all of `run` and `check`? |
| `log_policy` | 1 280 000 | do errors, citations, snapshots and verdicts agree? |
| `config_graph` | 288 000 | are graphs walked, ordered and merged right? |
| `ff` | 723 000 | does `ff` write what the filelists mean, keep its inputs and tell the truth in its exit code? |
| `ff_log_over_input`, `ff_tabbed_elsif`, `stale_build`, `lost_exit` | | violations, see section 6 |

Properties, by what they say:

- `execution`: `FailureTruncates` (after a nonzero return code only the same
  hook goes on, and only under `continue_on_error`; after a finding nothing
  does), `JudgedOnce`, `LogCoversTheNode` (the verdict on a log covers what the
  node wrote in this execution and nothing older), `PassIsEarned`,
  `FailIsExplained`, `ImplementsPipeline`, `Terminates`.
- `workspace`: `MutualExclusion` (the lock is on an inode: it fails as soon as
  the lock file goes with the directory), `LoadStands`, `LitterNeedsCrash`,
  `ImplementsSnapshotStore`, `SessionsEnd`.
- `app_history`: `ExecutingSnapshots`, `FullRunIsFresh`, `SettledArtifacts`
  (when each configuration ever published has been flattened and built to the
  end, the comparison with `tc.yaml` is a sound test for reuse; section 6 shows
  what happens when it has not), `StageActionsKeepUpstream`.
- `app_audit`: `RecordedFailureSticks`, `AuditTrail`.
- `app_shared`: `LockHeld`, `ImplementsSnapshotStore`, `InvocationsEnd`.
- `log_policy`: `ErrorsComplete`, `CitationsResolve`, `SnapshotReproduces`,
  `WaiversOnlyWaive`.
- `config_graph`: `CyclesAreReal`, `IncludesFirst`, `IncludesAccounted`,
  `Precedence` (whose declaration decides, said by who includes whom, while the
  code goes by the order in which the walk leaves the files).
- `ff`: `FlattensSelected` (the result of the machine is the recursive
  `Meaning` of the filelists, which knows no stack: the blocks around a line are
  found by counting directives, a line counts when in every one of them it is in
  the first branch that holds, and an inclusion adds what its filelist means),
  `ChainIsReal`,
  `InputsSurvive` (a call that has flattened has destroyed none of its inputs;
  an early failure may have published its log over one), `ExitTells`, `FfEnds`.

Bounds, and why they are enough:

- `execution`: hooks of no, one or two commands; two are needed for
  `continue_on_error` and for a log that is truncated and then appended to, and
  hooks of a node do not depend on those of another.  Old logs are all clean or
  all dirty, because a node reads its own log only.
- `workspace`: two invocations and two lock inodes: exclusion fails between two,
  and a second inode is what a re-created lock file would get.  Three of the
  five snapshots, one from each call; they are treated alike.
- `app_history`: one invocation at a time, as exclusion is checked and proved
  separately; two values for each part of a configuration, so that old and new
  can differ in either, interchangeable by symmetry; simulations end cleanly,
  for the properties are about configurations.  Kills and left-over tools.
- `app_audit`: one configuration, two states of the waiver files of which one
  covers the finding; every ending of a simulation; kills, errors, `rmtree` cut
  short.
- `app_shared`: two invocations at once, and kills.
- `log_policy`: two waiver lines over four files, logs of two lines, three
  patterns: one valid for both kinds and different in each (glob matches whole
  lines, regex searches), one valid as a glob only, one for neither.
  `MaxLines` bounds the files; one edit between two judgements.
- `config_graph`: four files, at most two includes in a file and four in all:
  diamonds, repeated includes, cycles of length one to four across both roles,
  Rules that include the entry TC.  Seven families of declarations: flows that
  agree and differ, build parts that fit the flow or do not, filelists in Rules,
  TC and both, `continue_on_error` said and unsaid, with and without `-e`.
- `ff`: three groups of calls.  `Branches`: every filelist of up to five
  directives and sources inside a block, with two macros of which one is
  defined; an `` `elsif `` behind a selected branch in an unselected block needs
  five.  `Trees`: every pair of filelists of up to two entries that include
  each other, themselves or a file of the same name in the working directory by
  `-f` and `-F`, through nested, looping and empty variables; so both bases of
  an include differ and every kind of failure happens in a child.  `Layouts`:
  log and output each new, old, equal, a link to, a linked directory's name of,
  or the place of a filelist, with a run that succeeds or fails late or early.

Deadlock is checked except in `execution` and `config_graph`, which model one
call that ends.  Symmetry is used in `app_history` only, which checks no
liveness.  The state `Ended` of `FfCommand` steps to itself: a call that stops
anywhere else is a deadlock.

Fairness.  `Workspace` and `EsimApplication` assume weak fairness of each
invocation's own steps: the operating system runs the process, and the commands
it waits for end (the code sets no timeout; a hook that never ends holds the
lock forever, and that is a hazard no property can promise away).  Starting an
invocation, faults and edits are not fair.  `Execution` assumes weak fairness
of the engine's progress, and none of an exception.  `FfCommand` assumes weak
fairness of `Step`, the statements of `main` and the flattener, which wait for
nobody; failures of files and kills are not fair.

## 4. What is proved

`WorkspaceProofs` proves, for any number of invocations and lock inodes, with
failing operations and kills:

| theorem | property |
|---|---|
| `TypeCorrect` | `TypeOK` |
| `Exclusion` | `MutualExclusion` |
| `ReadsStand` | `LoadStands` |
| `LitterIsFromCrashes` | `LitterNeedsCrash` |
| `Refinement` | `ImplementsSnapshotStore` |

Exclusion is a fact about inodes: the kernel locks what a descriptor is open on,
so two invocations exclude each other only if their descriptors are of one
inode.  `LockFollows` says so: every open descriptor is of the inode the lock
path names, for nobody unlinks that name, and an invocation holds the lock
exactly while it is in its session.  Two further parts tell when what a session
remembers may be relied on: `SeenInside` (it has read nothing before the
directory was prepared, so CLEAN takes nothing from under a read) and
`TempIsHead` (there is a temporary file only while the write it is for is the
next one of the session call, so every other end of a session leaves none).
In the refinement `Flock` is `Take`, every way out of a session is `Give`,
`ReplaceFile` is `Replace`, `RemoveEntry` is `Discard`; all other steps, the
writing of temporary files among them, are stutters.

`EsimApplicationProofs` proves, for any set of invocations, configurations and
waivers and with every fault:

| theorem | property |
|---|---|
| `TypeCorrect` | `TypeOK` |
| `MutualExclusion` | `LockHeld` |
| `SnapshotsWhileExecuting` | `ExecutingSnapshots` |
| `RecordedFailureIsFinal` | `RecordedFailureSticks` |
| `CompleteRunsAreFresh` | `FullRunIsFresh` |

None of these is inductive as it stands.  That the initial result is in place
while hooks run, for instance, needs that the snapshots were published one after
the other by the invocation that holds the lock, and that nobody else could do
so; that a published verdict keeps `RecordedFailureSticks` needs that the
verdict in `report` does.  The inductive invariant `IInv` therefore adds to
`TypeOK` and `LockHeld` what the holder of the lock has done by the time it is
at a line: which command comes to which line and what its locals hold
(`LocalTyped`), which artifacts are there when a stage comes to read them
(`LocalArtifacts`), which snapshots are its own (`LocalSnapshots`), what the
report may say (`LocalVerdict`).

The argument has three step lemmas: a step of the holder of the lock has to be
looked at for the holder only, since nobody else is at a line of which `IInv`
says anything (`HolderStep`); the same for the step that takes the lock
(`AloneStep`); and a step that leaves the lock and the snapshots alone, whatever
it does to a `simv`, disturbs nobody (`BystanderStep`).  Each action is then one
lemma, named after it, with one step per part of `IInv`.

`FullRunIsFresh` needs `IInv` but is not part of it.  Only the build stage makes
it true: there `LocalArtifacts` says that the filelist on disk is the
invocation's own (`BuildIsFresh`); the other steps leave the simulation, or
change neither `simv` nor the configuration (`StepKeepsFresh`).

`EsimHistoryProofs` proves of the same specification:

| theorem | property |
|---|---|
| `ArtifactsSettle` | `SettledArtifacts` |
| `AuditHolds` | `AuditTrail` |
| `UpstreamKept` | `StageActionsKeepUpstream` |
| `Refinement` | `ImplementsSnapshotStore` |

These relate files that different invocations have written, and each is the
same question: what does an invocation know when it takes over a directory, and
what does it owe until it gives it back.  `LocalUpstream` says what a stage
action has compared by each line, `LocalOwed` that what is published and not yet
made is in `owed`, `LocalAudit` which of the pairs of `AuditTrail` hold already
and which verdict is about to be published.  `Settled` strengthens
`SettledArtifacts` by what holds when only the build is owed, for that is what a
build that ends well starts from.  `Sound` is `AuditTrail` without its
condition: it is what the condition stands for at the lines where the lock is
held and nothing has been published yet.  The refinement needs exclusion and no
more: only the holder of the lock is at a line that publishes (`HolderMoves`),
each publishing line replaces one snapshot whole (`PublishReplaces`), and CLEAN
discards some of them (`RemoveDiscards`).

`FfCommandProofs` proves, for any filelists, links, macros, environments and
places of log and output, and with every fault:

| theorem | property |
|---|---|
| `TypeCorrect` | `FfTypeOK` |
| `RecursionIsReal` | `ChainIsReal` |
| `InputsAreSafe` | `InputsSurvive` |
| `ExitCodeTells` | `ExitTells` |
| `SelectedIsFlattened` | `FlattensSelected`, for calls that are `Spaced` |

The inductive invariant `IInv` adds three things to these four.  `ReadingFollowsPc`:
frames are there while lines are read and not before, and the top filelist is
an input as soon as there is one; without it `Begin` could start on top of old
frames.  `Compared`: past the line where the code compares two names their
files differ, and it is by the comparison, not by the names, that a link is
found.  `FilesFollowPc`: what is on disk, which temporary files exist and what
the exit code is at each line.  `InputsSurvive` rests on `Compared` twice, for
the log against the top filelist before anything is read, and for log and
output against all inputs afterwards.  Only `Include` and `Return` change the
chain of frames (`IncludeFrames`, `ReturnFrames`); every other step replaces
the last frame by one at the same file.

`SelectedIsFlattened` has a condition: a space stands between each `` `ifdef ``,
`` `ifndef `` and `` `elsif `` and its macro.  Without it the property is false,
which is what the run `ff_tabbed_elsif` shows.  The condition is on the call, so
that the theorem speaks of the `Spaced` calls among any `Calls`.  `FlattensSelected` says
something of the end of a call only; the invariant `MInv` says by `StacksMean`
what each frame and each level stand for on the way there.

- `Blocks` ties the levels of a frame to the lines of its filelist.  There is a
  level for each block around the line (`Enclosing`, which counts), outermost
  first; `taken` says that a branch of the block has been selected, `active`
  that the present one is, both only as far as the blocks further out are
  selected.  `BlocksOpened`, `BlocksPart`, `BlocksClosed` and `BlocksStay` show
  that each directive does to the levels what it does to the blocks, and
  `LevelsSelect` that the innermost `active` is `Selected`.
- `FrameMeans` says that the sections of the last frame are what the lines it
  has read mean, and those of a frame that waits what its lines mean but for
  what the next frame will add.  `Return` closes that gap
  (`ReturnKeepsMeaning`), and at the end nothing waits (`FinishMeans`).
- `Within` goes down as many inclusions as there are filelists.  That this is
  enough is `FramesBounded`: by `ChainIsReal` no two frames are at one file.
  Filelists are finitely many by `CallsAssumption`.

`UpToUnfolds` and `WithinUnfolds` show that the two recursive functions of
`Meaning` exist and so satisfy their equations.

`ConfigGraphProofs` proves, for any files, include graphs and declarations:

| theorem | property |
|---|---|
| `TypeCorrect` | `TypeOK` |
| `CyclesReported` | `CyclesAreReal` |
| `MergedBehindIncludes` | `IncludesFirst` |
| `EveryIncludeAccounted` | `IncludesAccounted` |
| `PrecedenceKept` | `Precedence` |

The invariant is about the recursion stack.  `Follows` says of each active file
that the calls it has made and those it has still to make are its include list,
in order; that all files called so far are merged, but for the last, if that is
the next active one.  When a file has no call left, all its includes are
merged, so it may be put behind them (`BehindGrows`, `LeaveIInv`); and a call of
an active file closes a chain of includes (`ReportCycleIInv`).  `MergedIsOrder`
says that no active file is merged, so the code's second test for that in
`visit` never finds one.

`IncludesAccounted` counts at the end of both walks; `Accounted` counts on the
way.  A place in an include list has been called when its file is merged, or
when its file is active and has made that call; the places called and the
entries called are together as many as diagnostics, merged files and active
files.  Each call adds one place (`CallCounted`) and one diagnostic or one
active file; a file that is left goes from the active ones to the merged ones and
its places stay called (`LeaveAInv`).

`Precedence` is said by who includes whom and the code goes by order.
`SaidIsLastWord` shows that the code's loop over the order takes the last file
that says something, `LastIsNotIncluded` that no other that says something
includes it: by `IncludesFirst` what a file includes stands before it, so all
that the later ones include does.  `Compiled` carries what the merge has found to
the end.

`LogPolicyProofs` proves, for any patterns and lines, any of them valid and
matching, and waiver files of any length:

| theorem | property |
|---|---|
| `TypeCorrect` | `TypeOK` |
| `ErrorsAlwaysComplete` | `ErrorsComplete` |
| `CitationsAlwaysResolve` | `CitationsResolve` |
| `SnapshotAlwaysReproduces` | `SnapshotReproduces` |
| `WaiversAlwaysOnlyWaive` | `WaiversOnlyWaive` |

The code's loops keep some elements of a list and drop others; the model has them
as `Select`, which takes the kept positions by rank.  `SelectKeeps` says what that
amounts to, that what is selected is what stands at the kept positions, in their
order, and `NthUnique` that nothing else does.  All else about a judgement follows
from what occurs in the four files (`From`, `HeldBy`): `RejectedHolds` and
`WaiverHitsHold` for any files.  The invariant is `Judged`, that the last judgement is that of
the files it compiled: the user may have edited them since.  For
`SnapshotReproduces` that is not enough, as its hits are counted: `RenderedRules` shows that
a published file, whose headers are remarks, gives the rules back one by one.

`ExecutionProofs` and `PipelineProofs` prove, for any set of prepared runs (every
action and flow, hooks of any number of commands) and any old logs:

| theorem | property |
|---|---|
| `TypeCorrect` | `TypeOK` |
| `NothingAfterFailure` | `FailureTruncates` |
| `EveryNodeJudged` | `JudgedOnce` |
| `VerdictsCoverTheNode` | `LogCoversTheNode` |
| `FailuresExplained` | `FailIsExplained` |
| `PassEarned` | `PassIsEarned` |
| `Refinement` | `ImplementsPipeline` |

The code has no list of nodes: where `execute` goes next is in its control flow
(`Following`), and all that the records promise depends on its not coming to a
node twice.  `Rank` numbers the nodes, and `FollowingClimbs` shows that each way
on leads to a higher rank.  So `issued`, `failed` and the open log, which are
reset at every node, account for all commands of the node and for no other's
(`NodeAccount`), although `build` and `elaborate` log to one file; and everything behind the engine
succeeded and was judged (`PastIsClean`).  For the verdict PASS and the
refinement that is not enough: no node may be left out.  `NodeOrderClimbs` ties
ranks to the documented order, `NothingBetween` shows that `Following` passes
over no node of it, and `DInv` adds that every node with a command behind the
engine has been judged (`DueBehind`), and nothing else (`JudgedAreDue`), and that
a hook the engine has left ran to its last command (`HooksComplete`).  Under the
refinement an evaluation that passes is `Pass`, the final report is `Finish`, a
failed evaluation, a missing artifact and an exception are `Stop`, and commands
and skipped hooks are stutters.

Assumptions on the constants: `ConfigsAssumption` (the prepared runs and old
logs are of their types) for `Execution`; `GraphAssumption` (what include lists and
declarations are, that files are finitely many and include lists bounded) for
`ConfigGraph`; `PolicyAssumption` (no pattern is a remark, and the constants are of
their types) for `LogPolicy`; `CallsAssumption` (the calls are calls with finitely many
filelists, no link is itself a filelist, and `None` is nothing else) and `ExitAssumption` (`None` is
no exit code) for `FfCommand`; for `EsimApplication` `NoneAssumption` (the value
for "nothing" is not one of the others) and `EndingsAssumption` (the endings of
simulations are logs); for `Workspace` `WorkspaceAssumption` (the files are some
of the five snapshots, and there is at least one inode).  TLC evaluates them in every run of the module.

## 5. What is only model-checked, and what is not modelled

Every invariant and action property of the passing runs is a theorem, but for the
condition of `SelectedIsFlattened`.  Liveness (`Terminates`, `SessionsEnd`,
`InvocationsEnd`, `FfEnds`) is beyond the prover and stays with TLC, and so do
the four violations.

What is recursive in these models (`UpTo`, `Within`, `Said`) is a function on an
interval of numbers, and what is proved of it is proved through the least element
of a set of numbers (`UpToInduction`); an induction principle for properties is not
available to the provers.  `Expansion`, the expansion of variables, is recursive
over references; no theorem needs to know what it returns.

Not modelled:

- selectors, field parsing, argument splitting and YAML: sequential functions on
  strings without state;
- what `fnmatch`, `re` and the detectors match: constants of `LogPolicy`;
- arguments, hook commands and tags of several files: they are concatenated in
  the order `ConfigGraph` establishes;
- the command line's parsing and wording; its exit codes are in
  `EsimApplication`;
- how `ff` splits a file into lines and a line into its parts: an entry is given
  by what the tests on its text find;
- two calls of `ff` on one output at once: there is no lock and nothing is
  promised but that the last one wins, which `os.replace` gives each of them;
- documentation, packaging and editor tools.

## 6. Where code and documents disagree

Four runs end in a violation.

- `stale_build`: the guide says that a run action needs a build of a compatible
  configuration; a build action publishes `tc.yaml` before it builds, so after a
  failed one the old `simv` passes for a build of the new configuration.
- `lost_exit`: the guide says that a recorded nonzero exit of the simulation
  stays FAIL; a build action rewrites `result.yaml` without the record and keeps
  the log, and a check then says PASS.
- `ff_log_over_input`: `ff` promises not to write its log over an input.  Before
  anything is read it can compare the log with the top filelist only; when a
  call fails before all filelists have been read, the log replaces the included
  one whose name it has.
- `ff_tabbed_elsif`: a directive may be followed by a tab in the entries that
  are checked for shape, but the test that acts on it looks for a space.  In a
  branch that is not selected the line is skipped without a message, and the
  entries behind it are lost.

Two disagreements have no run.  A check without a primary log returns 1 when
the kept status is FAIL, where the guide has it return 0 (`application.py:217`):
one line, which a unit test settles.  When neither log nor output of `ff` exists
and their names lead to one new file through a linked directory, no comparison
finds it: the log replaces the output and `ff` returns 0 (`ff/cli.py:112`);
`ExitTells` spells this case out.

## 7. Plan

1. The selectors of `_locate_tc` and `_locate_rules` over small directory trees.
2. What `Expansion` promises: that it ends, and that a reference without
   variables is itself.
