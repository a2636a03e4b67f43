---------------------------- MODULE MCWorkspace ----------------------------
(* Three acquisitions of one path, for either of two branches.            *)
EXTENDS Workspace, TLC

CONSTANTS c1, c2, c3, b1, b2

MCCallers == {c1, c2, c3}
MCBranches == {b1, b2}
=============================================================================
