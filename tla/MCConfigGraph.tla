---------------------------- MODULE MCConfigGraph ----------------------------
(***************************************************************************)
(* ConfigGraph over every graph of two Rules files and two TCs with at     *)
(* most four includes in all and two in a file: diamonds, repeated         *)
(* includes, cycles of every length, a TC that its Rules include.          *)
(***************************************************************************)
EXTENDS ConfigGraph

MCFiles == {"base.rules", "common.rules", "func.tc", "part.tc"}
MCRulesFiles == {"base.rules", "common.rules"}

Lists == UNION {[1 .. n -> MCFiles] : n \in 0 .. 2}
MCGraphs ==
    {g \in [MCFiles -> Lists] :
        Len(g["base.rules"]) + Len(g["common.rules"]) + Len(g["func.tc"])
            + Len(g["part.tc"]) <= 4}

\* What base.rules declares has always to be declared somewhere; the others add
\* to it: a second filelist or flow, a part of the build, a word about errors.
Nowhere(v) == [f \in MCFiles |-> v]
Base == [filelist |-> {"base.rules"}, flow |-> [Nowhere(None) EXCEPT !["base.rules"] = "two-step"],
         build |-> Nowhere({}), goOn |-> Nowhere(None), cli |-> FALSE]
MCDeclarations ==
    { Base,
      [Base EXCEPT !.filelist = {"base.rules", "common.rules"}],
      [Base EXCEPT !.filelist = {"base.rules", "part.tc"}],
      [Base EXCEPT !.filelist = {"common.rules"}, !.flow["common.rules"] = "three-step"],
      [Base EXCEPT !.flow = [Nowhere(None) EXCEPT !["common.rules"] = "three-step"],
                   !.build["base.rules"] = {"analyze"}, !.build["part.tc"] = {"args"},
                   !.cli = TRUE],
      [Base EXCEPT !.build["common.rules"] = {"args"}, !.build["part.tc"] = {"elaborate"},
                   !.goOn = [Nowhere(TRUE) EXCEPT !["part.tc"] = None, !["func.tc"] = FALSE]],
      [Base EXCEPT !.goOn = [Nowhere(FALSE) EXCEPT !["common.rules"] = TRUE,
                                                   !["part.tc"] = TRUE, !["func.tc"] = None]] }
=============================================================================
