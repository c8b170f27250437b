-------------------------- MODULE MCEsimApplication --------------------------
(***************************************************************************)
(* EsimApplication for TLC.  The values of the two parts of a              *)
(* configuration are interchangeable, and only safety is checked with the  *)
(* symmetry.                                                               *)
(***************************************************************************)
EXTENDS EsimApplication, TLC

\* Every way a simulation may end, or only the clean one.
AnyEnding == [finding : BOOLEAN, exit : {"zero", "nonzero"}]
CleanEnding == [finding : {FALSE}, exit : {"zero"}]

ConfigSymmetry ==
    {f @@ b : f \in Permutations(Filelists), b \in Permutations(Builds)}
=============================================================================
