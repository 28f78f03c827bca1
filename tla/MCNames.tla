------------------------------- MODULE MCNames -------------------------------
EXTENDS Names, TLC

CONSTANTS F, L

Lambda == [name |-> None, locals |-> [n \in {L} |-> "value"], uses |-> {F}, lambda |-> None, suspends |-> TRUE]

\* Two functions with the name F: one localises the name to which it assigns
\* a lambda, the other one has a label of its own name, and may not be suspended.
SomeLambdas == {Lambda}
SomeFunctions ==
  { [name |-> F, locals |-> [n \in {L} |-> "unused"], uses |-> {L}, lambda |-> Lambda, suspends |-> TRUE],
    [name |-> F, locals |-> [n \in {F} |-> "label"], uses |-> {}, lambda |-> None, suspends |-> FALSE] }

Symmetry == Permutations(Objects)
=============================================================================
