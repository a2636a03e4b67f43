----------------------------- MODULE MCRunLoop -----------------------------
(***************************************************************************)
(* Two required agents and the runner.  The gate passes, or fails on each  *)
(* combination of two versions.                                            *)
(***************************************************************************)
EXTENDS RunLoop

CONSTANTS a, b, r, v1, v2

MCAgents == {a, b}
MCVersions == {v1, v2}
MCVerdicts ==
    {[passed |-> TRUE, versions |-> [p \in MCAgents |-> v1]]}
    \cup [passed : {FALSE}, versions : [MCAgents -> MCVersions]]
=============================================================================
