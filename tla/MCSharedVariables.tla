------------------------- MODULE MCSharedVariables -------------------------
(* Control vectors for model checking: one that orders sets and uses       *)
(* completely, and one that is different for the two partners.             *)
EXTENDS SharedVariables, TLC

SomeControls == { Bits, {"SET_BY_OFF", "USE_BY_ACC"} }

\* No interpreter is different from the others.
Symmetry == Permutations(Procs)

\* Bound: several keys only as long as nobody sets, uses or restricts.
FewKeys ==
  seq > 1 => \A k \in Key : db[k].state = NOT_SHARED /\ Control(db[k]) = {}
=============================================================================
