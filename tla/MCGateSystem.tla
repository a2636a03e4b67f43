---------------------------- MODULE MCGateSystem ----------------------------
(***************************************************************************)
(* Two required participants, a with its submit process and b, and two     *)
(* versions.                                                               *)
(***************************************************************************)
EXTENDS GateSystem, TLC

CONSTANTS a, b, v1, v2

MCSymmetry == Permutations({v1, v2})
MCRequired == {a, b}
MCReports ==
    [passed : {TRUE}, versions : [MCRequired -> {v1, v2}]]
    \cup {[passed |-> FALSE, versions |-> <<>>]}
=============================================================================
