------------------------------ MODULE MCScalarAB ------------------------------
(* Arguments for TLC: scalars, one-element, empty and two-element vectors  *)
(* whose items are simple, nested or characters.                           *)
EXTENDS ScalarAB

\* an argument, the values of its items, and scalars with one of its items
RECURSIVE Parts(_)
Parts(v) ==
  {v} \cup UNION { {Scalar(v.items[i])} \cup IF IsNested(v.items[i]) THEN Parts(v.items[i].val) ELSE {} :
                    i \in DOMAIN v.items }

It(x) == Simple(<<x>>)
Vec(items) == [shape |-> <<Len(items)>>, items |-> items]
Empty(item) == [shape |-> <<0>>, items |-> <<item>>]

\* what an item may be; x names it
Named(x, k) == Simple(<<x, k>>)
Flat(x) == Vec(<<Named(x, "1"), Named(x, "2")>>)
One(x) == Vec(<<Named(x, "1")>>)
Deep(x) == Vec(<<Named(x, "3"), Enclosed(Flat(x))>>)
Empties == { Enclosed(Empty(It("p"))),
             Enclosed(Empty(Enclosed(Vec(<<It("p"), Simple(Char)>>)))) }
Full(x) == { It(x), Enclosed(Flat(x)), Enclosed(One(x)), Enclosed(Deep(x)) }

ValuesOf(items) ==
  { Scalar(c) : c \in items } \cup { Vec(<<c>>) : c \in items }
    \cup { Vec(<<c, d>>) : c, d \in items }
Pairs(S, T) == { [A |-> a, B |-> b] : a \in S, b \in T }

NestedItems(v) == { i \in DOMAIN v.items : IsNested(v.items[i]) }

\* sequential: everything but pairs of nested items whose result is empty
\* or whose single items have different ranks
SeqArguments ==
  Pairs(ValuesOf(Full("a")), ValuesOf({Simple(Char)} \cup Full("b")))
    \cup Pairs(ValuesOf(Full("a")), ValuesOf({It("b")} \cup Empties))
    \cup Pairs(ValuesOf({It("a")} \cup Empties), ValuesOf(Full("b")))
    \cup Pairs({Empty(It("a")), Vec(<<It("a"), It("a"), It("a")>>)}, ValuesOf(Full("b")))
Emptied(a, b) ==
  IsNested(a) /\ IsNested(b) /\ (IsEmpty(a.val) \/ IsEmpty(b.val))
NothingEmptied(p) ==
  \A i \in DOMAIN p.A.items : \A j \in DOMAIN p.B.items :
     ~Emptied(p.A.items[i], p.B.items[j])
SeqUsed == { p \in SeqArguments : NothingEmptied(p) }

\* parallel: no errors, and no pairs of nested items unless they fail (in jobs
\* of one item, which are not shared)
Vectors3(items) == { Vec(<<c, d, c>>) : c, d \in items }
BadItem == Enclosed(Vec(<<Simple(Char)>>))
BothFail == { [A |-> Vec(<<Enclosed(One("a")), Enclosed(One("a"))>>),
               B |-> Vec(<<BadItem, BadItem>>)] }
ParArguments ==
  Pairs({Scalar(It("a"))}, Vectors3({Enclosed(Flat("b")), It("b")})) \cup
  Pairs(ValuesOf({It("a")}), ValuesOf({Enclosed(Deep("b")), It("b")} \cup Empties))
    \cup Pairs(ValuesOf({Enclosed(Deep("a")), It("a")} \cup Empties), ValuesOf({It("b")}))

WithThreshold(pairs, n) ==
  { [A |-> p.A, B |-> p.B, threshold |-> n] : p \in pairs }
AllCalls == WithThreshold(SeqUsed, 100) \cup WithThreshold(ParArguments \cup BothFail, 1)

\* both arguments nested, with a threshold that makes the job parallel
NestedCall ==
  WithThreshold({ [A |-> Vec(<<Enclosed(Flat("a")), It("a")>>),
                   B |-> Vec(<<Enclosed(Flat("b")), It("b")>>)] }, 1)

PartsOf(calls) == UNION { Parts(c.A) \cup Parts(c.B) : c \in calls }
AllValues == PartsOf(AllCalls)
NestedValues == PartsOf(NestedCall)
=============================================================================
