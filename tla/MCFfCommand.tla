----------------------------- MODULE MCFfCommand -----------------------------
(***************************************************************************)
(* FfCommand over three groups of calls.  Branches: every filelist of up   *)
(* to five directives and sources in a block.  Trees: every pair of short  *)
(* filelists that include each other or a third one, of the same name, in  *)
(* the working directory.  Layouts: every place and linking of log and     *)
(* output.                                                                 *)
(***************************************************************************)
EXTENDS FfCommand, TLC

MCComponent == {"/", "tb", "run", "alias", "top", "core", "a", "b", "log", "out"}
MCVariable == {"$HOME", "$TB", "$LOOP", "$UNSET"}
MCMacro == {"A", "B"}

Tb(name) == <<"/", "tb", name>>
Run(name) == <<"/", "run", name>>
If(kind, macro) == [kind |-> kind, macro |-> macro, tab |-> FALSE]
Tabbed(kind, macro) == [kind |-> kind, macro |-> macro, tab |-> TRUE]
Plain(kind) == [kind |-> kind]
Source(ref) == [kind |-> "path", ref |-> ref]
Includes(kind, ref) == [kind |-> kind, ref |-> ref, remark |-> TRUE]
Lists(entries, n) == UNION {[1 .. k -> entries] : k \in 0 .. n}

Call(texts) ==
    [top |-> Tb("top"), cwd |-> <<"/", "run">>, output |-> Run("out"), log |-> None,
     macros |-> {"A"},
     environment |-> [v \in MCVariable |-> CASE v = "$HOME" -> <<"/">>
                                             [] v = "$TB" -> <<"$HOME", "tb">>
                                             [] v = "$LOOP" -> <<"$HOME", "$LOOP">>
                                             [] v = "$UNSET" -> <<>>],
     texts |-> texts, broken |-> {}, files |-> {Tb("a"), Tb("b"), Run("a"), <<"/", "tb">>},
     links |-> Tb("b") :> Tb("a"), at |-> <<>>]

Branches ==
    {[Call(Tb("top") :> <<If("ifdef", "A")>> \o text \o <<Plain("endif")>>) EXCEPT !.macros = ms] :
        text \in Lists({If("ifdef", "A"), If("ifndef", "B"), If("elsif", "B"), Plain("else"),
                        Plain("endif"), Source(<<"a">>)}, 5),
        ms \in {{"A"}, {"B"}}}

Trees ==
    {Call(Tb("top") :> top @@ Tb("core") :> core @@ Run("core") :> <<Source(<<"a">>)>>) :
        top \in Lists({Includes("f", <<"core">>), Includes("F", <<"core">>),
                       Includes("f", <<"$TB", "core">>), Includes("F", <<"$LOOP", "core">>),
                       [kind |-> "text", section |-> "defines"], Source(<<"b">>)}, 2),
        core \in Lists({Includes("F", <<"top">>), Includes("f", <<"core">>), Source(<<"a">>),
                        Source(<<"$UNSET">>), Plain("malformed"), Plain("junk"),
                        [kind |-> "incdir", refs |-> << <<"$TB">>, <<"a">> >>, remark |-> TRUE]},
                       2)}

Layouts ==
    {[Call(Tb("top") :> <<Includes("F", <<"core">>)>> \o last @@ Tb("core") :> <<Source(<<"a">>)>>)
        EXCEPT !.log = log, !.output = output, !.broken = broken,
               !.links = @ @@ Run("log") :> Tb("core") @@ Run("a") :> Tb("top"),
               !.files = @ \cup old,
               !.at = <<"/", "alias", "core">> :> Tb("core")
                        @@ <<"/", "alias", "out">> :> Run("out")] :
        log \in {None, Run("b"), Run("out"), Run("log"), Run("a"), Tb("top"), Tb("core"),
                 <<"/", "alias", "out">>},
        output \in {Run("out"), Run("log"), Tb("top"), <<"/", "alias", "core">>},
        old \in {{}, {Run("out"), Run("b")}},
        last \in {<<>>, <<Plain("junk")>>},
        broken \in {{}, {Tb("core")}}}

\* Branches with a tab between `elsif and its macro.
TabbedBranches ==
    {[Call(Tb("top") :> <<If("ifdef", "A")>> \o text \o <<Plain("endif")>>) EXCEPT !.macros = ms] :
        text \in Lists({Tabbed("elsif", "B"), Source(<<"a">>)}, 3),
        ms \in {{"A"}, {"B"}}}

\* A log in the place of a filelist that the top filelist includes.
LogOverInput == {c \in Layouts : c.log = Tb("core") /\ c.output = Run("out") /\ c.broken = {}}

MCCalls == Branches \cup Trees \cup Layouts
=============================================================================
