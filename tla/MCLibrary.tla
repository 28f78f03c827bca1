------------------------------ MODULE MCLibrary ------------------------------
(* Contents of workspaces for model checking.                              *)
EXTENDS Library, TLC

CONSTANTS c1, c2

TwoContents == {EmptyWS, c1, c2}

\* What a workspace contains makes no difference.
Symmetry == Permutations({c1, c2})
=============================================================================
