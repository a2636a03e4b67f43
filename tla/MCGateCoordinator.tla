------------------------- MODULE MCGateCoordinator -------------------------
(***************************************************************************)
(* Two required participants, one agent that is not required, two          *)
(* versions.  The runner passes a combination it merged, fails naming only *)
(* a part of the quorum and an agent outside it, or fails naming nobody (a *)
(* merge conflict).                                                        *)
(***************************************************************************)
EXTENDS GateCoordinator

CONSTANTS a, b, x, v1, v2

MCParticipants == {a, b, x}
MCRequired == {a, b}
MCVersions == {v1, v2}
MCReports ==
    {[passed |-> TRUE,  versions |-> [p \in {a, b} |-> v1]],
     [passed |-> FALSE, versions |-> [p \in {a, x} |-> v2]],
     [passed |-> FALSE, versions |-> <<>>]}
=============================================================================
