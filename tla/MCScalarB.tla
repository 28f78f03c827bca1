------------------------------ MODULE MCScalarB ------------------------------
(* Values for TLC: up to four nested values, five items and two errors.    *)
EXTENDS ScalarB

Good == [nested |-> FALSE, result |-> OK, node |-> 0]
Bad(e) == [nested |-> FALSE, result |-> e, node |-> 0]
Nest(n) == [nested |-> TRUE, result |-> OK, node |-> n]
V(items) == [empty |-> FALSE, items |-> items]
E(item) == [empty |-> TRUE, items |-> <<item>>]

\* a value that every function can be applied to, two levels deep
Deep == << V(<<Nest(2), Good, Nest(3), Nest(5)>>), V(<<Good, Good>>),
           V(<<Nest(4), Good>>), V(<<Good>>), E(Good) >>

\* items fail in different slices, with different errors, next to nested ones
TwoErrors == << V(<<Bad("DOMAIN"), Nest(2), Bad("LENGTH"), Good>>),
                V(<<Good, Good>>) >>
LateError == << V(<<Nest(2), Nest(3)>>), V(<<Good, Bad("DOMAIN")>>),
                V(<<Good>>) >>
Flat == << V(<<Good, Bad("DOMAIN"), Good, Good, Good>>) >>
\* reciprocal of an enclosed empty vector
EmptyItem == << V(<<Nest(2), Good>>), E(Bad("DOMAIN")) >>

AllTrees == { Deep, TwoErrors, LateError, Flat, EmptyItem }
NoErrors == { Deep }
\* all values of three items, one of them nested, the others good or failing
SmallTrees ==
  { << V(<<a, b, c>>), n >> :
       a, b, c \in {Good, Bad("DOMAIN"), Nest(2)},
       n \in { V(<<x, y>>) : x, y \in {Good, Bad("LENGTH")} }
               \cup { E(Good), E(Bad("LENGTH")) } }
OneNested(t) == Cardinality({ i \in 1..3 : t[1].items[i].nested }) = 1
SmallTreesUsed == { t \in SmallTrees : OneNested(t) }
ManyTrees == AllTrees \cup SmallTreesUsed
OneLine  == { Flat }
=============================================================================
