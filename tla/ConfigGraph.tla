----------------------------- MODULE ConfigGraph -----------------------------
(***************************************************************************)
(* How ConfigurationCompiler.compile (src/esim/configuration) puts the     *)
(* configuration files together: the include graph of the entry Rules and  *)
(* then that of the entry TC are walked depth first, sharing the set of    *)
(* files already merged, and the files are merged in the order in which    *)
(* the walk leaves them.  A file of either role may include any other.     *)
(*                                                                         *)
(* Of what a file declares only that is kept on which the files of a graph *)
(* have to agree or override each other: filelist and flow (simulator is   *)
(* alike), which parts of build there are, and whether a phase's hooks go  *)
(* on after an error (the phases are alike).  Arguments, tags and hook     *)
(* commands are put behind each other in the order of the files.           *)
(***************************************************************************)
EXTENDS Naturals, FiniteSets, SequencesExt

CONSTANTS
    Files,          \* the configuration files
    EntryRules,     \* the entry of each graph
    EntryTc,
    RulesFiles,     \* the files whose path makes them Rules; the others are TCs
    Graphs,         \* the include lists to be walked: file -> sequence of files
    Declarations,   \* what the files declare, see GraphAssumption
    MaxIncludes,    \* bound on the length of an include list
    None

Flow == {"two-step", "three-step"}
Part == {"args", "analyze", "elaborate"}

\* The graphs that are walked, by their entries.
Entered == {"rules", "tc"}

ASSUME GraphAssumption ==
    /\ IsFiniteSet(Files) /\ MaxIncludes \in Nat
    /\ EntryRules \in RulesFiles /\ RulesFiles \subseteq Files
    /\ EntryTc \in Files \ RulesFiles
    /\ None \notin Flow /\ None \notin BOOLEAN
    /\ \A g \in Graphs :
          g \in [Files -> Seq(Files)] /\ \A f \in Files : Len(g[f]) <= MaxIncludes
    /\ \A d \in Declarations :
          /\ d.filelist \subseteq Files
          /\ d.flow \in [Files -> Flow \cup {None}]
          /\ d.build \in [Files -> SUBSET Part]
          /\ d.goOn \in [Files -> BOOLEAN \cup {None}]
          /\ d.cli \in BOOLEAN       \* -e is given on the command line

VARIABLES
    includes, declares,     \* the files
    graph,                  \* "rules", then "tc", then "merge"
    active,                 \* the files being visited, outermost first
    rest,                   \* the calls of visit still to come: that for the
                            \* entry, then those of each active file
    merged,                 \* merged_paths
    nodes,                  \* graph -> what _load_graph has put in order
    diagnostics,            \* the include chains of the duplicates skipped
    outcome, cycle,         \* how compile ended, and the cycle it reports
    goOn                    \* graph -> its hooks' continue_on_error, when compiled

files == <<includes, declares>>
vars == <<files, graph, active, rest, merged, nodes, diagnostics, outcome, cycle, goOn>>

-----------------------------------------------------------------------------
Init ==
    /\ includes \in Graphs
    /\ declares \in Declarations
    /\ graph = "rules"
    /\ active = <<>> /\ rest = <<<<EntryRules>>>>
    /\ merged = {}
    /\ nodes = [g \in Entered |-> <<>>]
    /\ diagnostics = <<>>
    /\ outcome = "none" /\ cycle = <<>>
    /\ goOn = [g \in Entered |-> FALSE]

Walking == outcome = "none" /\ graph # "merge"

\* The next call of visit is for Path.
Top == Len(rest)
Calling == Walking /\ rest[Top] # <<>>
Path == Head(rest[Top])
Called == [rest EXCEPT ![Top] = Tail(@)]
Active == {active[i] : i \in DOMAIN active}

Fail(how) ==
    /\ outcome' = how
    /\ UNCHANGED <<files, graph, active, rest, merged, nodes, diagnostics, goOn>>

\* Mutant: the whole of active is reported.
ReportCycleFromEntry ==
    /\ Calling /\ Path \in Active
    /\ cycle' = Append(active, Path)
    /\ Fail("cycle")

\* The include cycle: active from the file on, and the file again.
ReportCycle ==
    /\ Calling /\ Path \in Active
    /\ LET start == CHOOSE i \in DOMAIN active : active[i] = Path
       IN  cycle' = Append(SubSeq(active, start, Len(active)), Path)
    /\ Fail("cycle")

\* Mutant: what the Rules graph has merged is skipped without a diagnostic.
SkipMergedByRules ==
    /\ Calling /\ Path \notin Active /\ Path \in merged
    /\ diagnostics' = IF \E i \in DOMAIN nodes[graph] : nodes[graph][i] = Path
                      THEN Append(diagnostics, Append(active, Path)) ELSE diagnostics
    /\ rest' = Called
    /\ UNCHANGED <<files, graph, active, merged, nodes, outcome, cycle, goOn>>

SkipMerged ==
    /\ Calling /\ Path \notin Active /\ Path \in merged
    /\ diagnostics' = Append(diagnostics, Append(active, Path))
    /\ rest' = Called
    /\ UNCHANGED <<files, graph, active, merged, nodes, outcome, cycle, goOn>>

\* _load_source: a TC may not declare what is for Rules alone.  That stands for
\* everything that keeps a file from being loaded.
Loads(path) ==
    path \in RulesFiles \/ (path \notin declares.filelist /\ declares.flow[path] = None)

LoadFails ==
    /\ Calling /\ Path \notin Active /\ Path \notin merged
    /\ ~Loads(Path)
    /\ Fail("load") /\ UNCHANGED cycle

\* Mutants: the includes are visited without the file being active; the file
\* is put in order before its includes.
EnterUnnoticed ==
    /\ Calling /\ Path \notin merged
    /\ Loads(Path)
    /\ active' = Append(active, Path)
    /\ rest' = Append(Called, includes[Path])
    /\ UNCHANGED <<files, graph, merged, nodes, diagnostics, outcome, cycle, goOn>>
EnterInOrder ==
    /\ Calling /\ Path \notin Active /\ Path \notin merged
    /\ Loads(Path)
    /\ active' = Append(active, Path)
    /\ rest' = Append(Called, includes[Path])
    /\ merged' = merged \cup {Path}
    /\ nodes' = [nodes EXCEPT ![graph] = Append(@, Path)]
    /\ UNCHANGED <<files, graph, diagnostics, outcome, cycle, goOn>>

Enter ==
    /\ Calling /\ Path \notin Active /\ Path \notin merged
    /\ Loads(Path)
    /\ active' = Append(active, Path)
    /\ rest' = Append(Called, includes[Path])
    /\ UNCHANGED <<files, graph, merged, nodes, diagnostics, outcome, cycle, goOn>>

\* The end of visit; that the file is not merged by now is checked again.
Leave ==
    /\ Walking /\ active # <<>> /\ rest[Top] = <<>>
    /\ LET path == active[Len(active)]
       IN  IF path \in merged THEN UNCHANGED <<merged, nodes>>
           ELSE /\ merged' = merged \cup {path}
                /\ nodes' = [nodes EXCEPT ![graph] = Append(@, path)]
    /\ active' = SubSeq(active, 1, Len(active) - 1)
    /\ rest' = SubSeq(rest, 1, Top - 1)
    /\ UNCHANGED <<files, graph, diagnostics, outcome, cycle, goOn>>

NextGraph ==
    /\ Walking /\ rest = <<<<>>>>
    /\ graph' = IF graph = "rules" THEN "tc" ELSE "merge"
    /\ rest' = IF graph = "rules" THEN <<<<EntryTc>>>> ELSE rest
    /\ UNCHANGED <<files, active, merged, nodes, diagnostics, outcome, cycle, goOn>>

\* _merge_sources: exactly one filelist and no conflict of flows.
Merges(order) ==
    /\ \E i \in DOMAIN order : \A j \in DOMAIN order :
          order[j] \in declares.filelist <=> j = i
    /\ \A i, j \in DOMAIN order :
          {declares.flow[order[i]], declares.flow[order[j]]} # Flow

FlowOf(order) ==
    IF \E i \in DOMAIN order : declares.flow[order[i]] # None
    THEN declares.flow[order[CHOOSE i \in DOMAIN order : declares.flow[order[i]] # None]]
    ELSE None

Order == nodes["rules"] \o nodes["tc"]

\* _build_configuration, with the flow of the Rules: a flow of two steps has no
\* analyze and elaborate, one of three no arguments of its own.
BuildFits(order, cli) ==
    LET parts == UNION {declares.build[order[i]] : i \in DOMAIN order}
    IN  IF FlowOf(nodes["rules"]) = "two-step" THEN parts \subseteq {"args"} /\ ~cli
                                            ELSE "args" \notin parts

\* Mutant: the hooks go on if one file says so.
OverrideByOr(earlier, later) ==
    IF earlier = TRUE THEN TRUE ELSE IF later # None THEN later ELSE earlier

\* _merge_hooks: a later file overrides if it says anything.
Override(earlier, later) == IF later # None THEN later ELSE earlier

\* What the first files of the order say together.
Said(order) ==
    LET said[n \in 0 .. Len(order)] ==
            IF n = 0 THEN None ELSE Override(said[n - 1], declares.goOn[order[n]])
    IN  said

\* _finalize_hooks: to go on has to be asked for.
GoesOn(order) == Said(order)[Len(order)] = TRUE

\* The rest of compile: both merges, what the Rules graph has to declare, and
\* both configurations.
Merge ==
    /\ outcome = "none" /\ graph = "merge"
    /\ IF /\ Merges(nodes["rules"]) /\ Merges(Order) /\ FlowOf(nodes["rules"]) # None
          /\ BuildFits(nodes["rules"], FALSE) /\ BuildFits(Order, declares.cli)
       THEN /\ outcome' = "compiled"
            /\ goOn' = [g \in Entered |-> GoesOn(IF g = "rules" THEN nodes["rules"] ELSE Order)]
       ELSE outcome' = "conflict" /\ UNCHANGED goOn
    /\ UNCHANGED <<files, graph, active, rest, merged, nodes, diagnostics, cycle>>

Next ==
    \/ ReportCycle \/ SkipMerged \/ LoadFails \/ Enter \/ Leave \/ NextGraph \/ Merge

Spec == Init /\ [][Next]_vars

-----------------------------------------------------------------------------
\* The types of the state.  The visits in progress are of different files: the recursion is bounded.
TypeOK ==
    /\ includes \in Graphs /\ declares \in Declarations
    /\ graph \in {"rules", "tc", "merge"}
    /\ active \in Seq(Files) /\ Len(active) = Cardinality(Active)
    /\ rest \in Seq(Seq(Files)) /\ Len(rest) = Len(active) + 1
    /\ merged \subseteq Files
    /\ nodes \in [Entered -> Seq(Files)]
    /\ diagnostics \in Seq(Seq(Files))
    /\ outcome \in {"none", "cycle", "load", "compiled", "conflict"}
    /\ cycle \in Seq(Files)
    /\ goOn \in [Entered -> BOOLEAN]

IncludesNext(chain) ==
    \A i \in 1 .. Len(chain) - 1 :
        \E k \in DOMAIN includes[chain[i]] : includes[chain[i]][k] = chain[i + 1]

\* A reported cycle is one, and shortest: it closes with the file it starts
\* with and names no other file twice.
CyclesAreReal ==
    outcome = "cycle" =>
        /\ Len(cycle) > 1 /\ cycle[1] = cycle[Len(cycle)]
        /\ IncludesNext(cycle)
        /\ Cardinality({cycle[i] : i \in DOMAIN cycle}) = Len(cycle) - 1

\* A file overrides what it includes, wherever that was included first: every
\* merged file comes once, behind everything it includes.  A walk that has
\* come to its end has therefore found no cycle.
IncludesFirst ==
    /\ \A i, j \in DOMAIN Order : Order[i] = Order[j] => i = j
    /\ \A i \in DOMAIN Order : \A k \in DOMAIN includes[Order[i]] :
          \E j \in 1 .. i - 1 : Order[j] = includes[Order[i]][k]
    /\ graph = "merge" => \A entry \in {EntryRules, EntryTc} :
          \E i \in DOMAIN Order : Order[i] = entry

\* Every include of every merged file either brought its file in or is named
\* in a diagnostic, by the chain that led to it.
IncludesAccounted ==
    graph = "merge" =>
        /\ \A d \in DOMAIN diagnostics :
              LET chain == diagnostics[d]
              IN  chain[1] \in {EntryRules, EntryTc} /\ IncludesNext(chain)
        /\ Len(diagnostics) + Len(Order)
              = 2 + Cardinality({c \in merged \X (1 .. MaxIncludes) :
                                    c[2] \in DOMAIN includes[c[1]]})

\* The files g includes, directly or not.
Included(g) ==
    {f \in Files : \A S \in SUBSET Files :
        (\A h \in S \cup {g} : \A k \in DOMAIN includes[h] : includes[h][k] \in S) => f \in S}

\* The user guide's order of precedence.  Flow and filelist of a compiled TC are
\* those of its Rules: no file that the TC brings in, Rules or not, has a say
\* in them.  In what may be overridden, files that the TC brings in override
\* the Rules, and among either the say is with a file that none of those who
\* say something includes; with the entry, if it says something.
Precedence ==
    outcome = "compiled" =>
        /\ FlowOf(Order) = FlowOf(nodes["rules"])
        /\ \A i \in DOMAIN nodes["tc"] :
              /\ nodes["tc"][i] \notin declares.filelist
              /\ declares.flow[nodes["tc"][i]] \in {None, FlowOf(nodes["rules"])}
        /\ \A g \in Entered :
              LET Says(order) == {f \in ToSet(order) : declares.goOn[f] # None}
                  deciding == IF g = "tc" /\ Says(nodes["tc"]) # {} THEN Says(nodes["tc"])
                                                                ELSE Says(nodes["rules"])
              IN  IF deciding = {} THEN ~goOn[g]
                  ELSE \E f \in deciding : /\ goOn[g] = declares.goOn[f]
                                           /\ \A h \in deciding \ {f} : f \notin Included(h)
=============================================================================
