------------------------------ MODULE Pervasion ------------------------------
(***************************************************************************)
(* APL values as scalar functions see them, and the result of a dyadic     *)
(* scalar function defined by recursion over the items, as the comments in *)
(* ScalarFunction::do_scalar_AB() state it: "cell_Z is nested, pointing to *)
(* Z1 <- A1 fun B1".                                                       *)
(*                                                                         *)
(* A value is [shape, items]; an item is [it |-> tuple] (simple) or        *)
(* [val |-> value] (nested).  An empty value has one item, its prototype.  *)
(* The simple item of a result is named by the items it was computed from. *)
(***************************************************************************)
EXTENDS Integers, Sequences

CONSTANT Values \* the values that arguments of scalar functions and their items are

Volume(shape) ==
  LET p[i \in 0 .. Len(shape)] == IF i = 0 THEN 1 ELSE shape[i] * p[i-1]
  IN  p[Len(shape)]
IsEmpty(v) == Volume(v.shape) = 0
IsNested(c) == "val" \in DOMAIN c
Simple(tuple) == [it |-> tuple]
Enclosed(v) == [val |-> v]
Scalar(c) == [shape |-> <<>>, items |-> <<c>>]

\* A value has as many items as its shape says, but at least one.  The items of
\* nested values are values, and a scalar with one of the items is.
Item == [it : Seq(STRING)] \cup [val : Values]
ASSUME ValuesAssumption ==
  \A v \in Values :
    /\ v \in [shape : Seq(Nat), items : Seq(Item)]
    /\ Len(v.items) = IF IsEmpty(v) THEN 1 ELSE Volume(v.shape)
    /\ \A i \in DOMAIN v.items : Scalar(v.items[i]) \in Values

\* compute_depth(): how deeply the items of a value are nested
Depth[v \in Values] ==
  LET sub == { IF IsNested(v.items[i]) THEN Depth[v.items[i].val] ELSE 0 :
                 i \in DOMAIN v.items }
  IN  IF v.shape = <<>> /\ ~IsNested(v.items[1])
      THEN 0 ELSE 1 + CHOOSE d \in sub : \A e \in sub : e <= d

\* Values are trees: items are less deep than what they are items of.
ASSUME DepthAssumption ==
  \A v \in Values :
    /\ Depth[v] \in Nat
    /\ \A i \in DOMAIN v.items :
         /\ Depth[Scalar(v.items[i])] <= Depth[v]
         /\ IsNested(v.items[i]) => Depth[v.items[i].val] < Depth[v]

\* get_increment(): one-element values are extended
ItemAt(v, z) == IF Volume(v.shape) = 1 THEN v.items[1] ELSE v.items[z]

OK == "E_NO_ERROR"

\* The cell function: it fails if an item is a character.
Char == <<"char">>
CellError(a, b) == IF a.it = Char \/ b.it = Char THEN "DOMAIN" ELSE OK
CellResult(a, b) == Simple(a.it \o b.it)

\* conforming_shape(): a shape or an error
Conforming(shA, shB) ==
  LET ok(shape) == [ec |-> OK, shape |-> shape]
      fails(code) == [ec |-> code, shape |-> <<>>]
  IN  IF shA = <<>> THEN ok(shB) ELSE
      IF shB = <<>> THEN ok(shA) ELSE
      IF Volume(shA) = 1 THEN ok(shB) ELSE
      IF Volume(shB) = 1 \/ shA = shB THEN ok(shA) ELSE
      IF Len(shA) # Len(shB) THEN fails("RANK") ELSE fails("LENGTH")

\* Value::to_type(): zeros and blanks in the same structure; force_numeric
\* makes zeros of the characters at the top level only
Zero == Simple(<<"0">>)
Blank == Simple(<<" ">>)
ToType[v \in Values, numeric \in BOOLEAN] ==
  [v EXCEPT !.items = [i \in DOMAIN @ |->
     CASE IsNested(@[i])                          -> Enclosed(ToType[@[i].val, FALSE])
       [] ~IsNested(@[i]) /\ @[i].it = Char /\ ~numeric -> Blank
       [] OTHER                                   -> Zero]]

\* do_eval_fill_B() of an empty value
FillB(v) == ToType[v, TRUE]

\* do_eval_fill_AB()
FillAB(A, B) == IF IsEmpty(B) THEN FillB(B) ELSE FillB(A)

\* the value that an item points to, or a scalar with the item
Item1(c) == IF IsNested(c) THEN c.val ELSE Scalar(c)

\* a fun b for two items, if f gives the results for values that are less deep
ItemBy(f, a, b) ==
  IF ~IsNested(a) /\ ~IsNested(b)
  THEN [ec |-> CellError(a, b), item |-> CellResult(a, b)]
  ELSE LET r == f[<<Item1(a), Item1(b)>>]
       IN  [ec |-> r.ec, item |-> Enclosed(r.value)]

\* A fun B, or the error that it throws
PervadeBy(f, A, B) ==
  LET c == Conforming(A.shape, B.shape)
      n == Volume(c.shape)
      r == [z \in 1..n |-> ItemBy(f, ItemAt(A, z), ItemAt(B, z))]
      failed == { z \in 1..n : r[z].ec # OK }
  IN  CASE c.ec # OK     -> [ec |-> c.ec, value |-> Scalar(Zero)]
        [] c.ec = OK ->
           CASE n = 0         -> [ec |-> OK, value |-> FillAB(A, B)]
             [] n > 0 /\ failed = {} ->
                  [ec |-> OK, value |-> [shape |-> c.shape,
                                         items |-> [z \in 1..n |-> r[z].item]]]
             [] OTHER -> [ec |-> r[CHOOSE z \in failed : TRUE].ec,
                          value |-> Scalar(Zero)]

Pervade[p \in Values \X Values] == PervadeBy(Pervade, p[1], p[2])
=============================================================================
