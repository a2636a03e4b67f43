------------------------------ MODULE MCRunner ------------------------------
(***************************************************************************)
(* Two participants, each on a branch of its own.                          *)
(***************************************************************************)
EXTENDS Runner

CONSTANTS a, b, fa, fb, r, fr

MCScenario ==
    [agents |-> <<[name |-> a, branch |-> fa], [name |-> b, branch |-> fb]>>,
     runner |-> [name |-> r, branch |-> fr],
     gateRunner |-> r,
     required |-> <<a, b>>,
     submitTimeout |-> 2, runnerTimeout |-> 1]
=============================================================================
