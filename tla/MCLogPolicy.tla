----------------------------- MODULE MCLogPolicy -----------------------------
(***************************************************************************)
(* LogPolicy with three patterns: "error: known" is one suspicious line    *)
(* and part of another, "*known" is a glob for both and not a regex, "["   *)
(* is neither.  The logs hold up to two lines.                             *)
(***************************************************************************)
EXTENDS LogPolicy

MCPattern == {"error: known", "*known", "["}
MCLine == {"clean", "error: known", "another error: known"}
MCSuspicious == MCLine \ {"clean"}
MCInvalid == {<<"glob", "[">>, <<"regex", "[">>, <<"regex", "*known">>}
MCMatches ==
    {<<"glob", "error: known", "error: known">>}
        \cup {<<"regex", "error: known", l>> : l \in MCSuspicious}
        \cup {<<"glob", "*known", l>> : l \in MCSuspicious}
MCLogs == UNION {[1..n -> MCLine] : n \in 0..2}
=============================================================================
