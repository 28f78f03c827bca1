---------------------------- MODULE ScalarABProofs ----------------------------
(***************************************************************************)
(* What the job lists of eval_scalar_AB() compute, for all values, all     *)
(* calls and any number of threads.                                        *)
(*                                                                         *)
(* A value of the heap is described by the arguments from which it is      *)
(* computed, and a job is nothing but a value whose cells are all raw.     *)
(* The invariant says of every cell of every value whether it is still to  *)
(* be written (its value is queued, or it is ahead of the threads in the   *)
(* current job) or the result for its two items.                           *)
(*                                                                         *)
(* The second half compares the whole result with the recursion of         *)
(* Pervasion.  Pervade is what its definition says because values are      *)
(* trees.  An error of a value of the heap is one of the call (ChainInv),  *)
(* and when the call returns, the values of the heap are the results for   *)
(* their arguments, the last one first since pointers go to later values.  *)
(***************************************************************************)
EXTENDS ScalarAB, SlicesProofs

-----------------------------------------------------------------------------
(* The types of the variables.                                             *)

Code == {OK, "DOMAIN", "RANK", "LENGTH"}
Cell == {Raw} \cup [it : Seq(STRING)] \cup [ptr : Nat] \cup { Enclosed(FillB(v)) : v \in Values }
HeapValue == [shape : Seq(Nat), cells : Seq(Cell), valid : Nat, A : Values, B : Values]
Job == [z : Nat, A : Values, B : Values]

TypeInv ==
  /\ arg \in Calls
  /\ mpc \in {"start", "pick", "loop", "join", "failed", "end"}
  /\ heap \in Seq(HeapValue)
  /\ jobs \in [Thread -> Seq(Job)]
  /\ tpc \in [Thread -> {"item", "test", "idle"}]
  /\ pos \in [Thread -> Nat]
  /\ mine \in [Thread -> Code]
  /\ error \in Code /\ ec \in Code

\* A value of the heap has cells, and its arguments have an item for each one.
Extends(A, n) == Volume(A.shape) \in {1, n}
WellFormed(v) ==
  /\ Len(v.cells) = Volume(v.shape) /\ Len(v.cells) # 0
  /\ v.valid <= Len(v.cells)
  /\ Extends(v.A, Len(v.cells)) /\ Extends(v.B, Len(v.cells))
HeapInv == \A h \in DOMAIN heap : WellFormed(heap[h])

\* a job for a value of the heap
IsJob(j) == j.z \in DOMAIN heap /\ j.A = heap[j.z].A /\ j.B = heap[j.z].B
Working == mpc \in {"loop", "join"}
Queued(h) == \E t \in Thread : \E i \in DOMAIN jobs[t] : jobs[t][i].z = h

JobsInv ==
  /\ \A t \in Thread : \A i \in DOMAIN jobs[t] : IsJob(jobs[t][i])
  /\ \A t, u \in Thread : \A i \in DOMAIN jobs[t], k \in DOMAIN jobs[u] :
       jobs[t][i].z = jobs[u][k].z => t = u /\ i = k
  /\ Working => job \in Job /\ IsJob(job) /\ ~Queued(job.z)

\* the slices of the current job
First(t) == SliceFirst(t, Length(job))
Last(t) == SliceLast(t, Length(job))

ControlInv ==
  /\ mpc = "start" => heap = <<>> /\ ec = OK
  /\ mpc \in {"start", "end"} => jobs = NoJobs
  /\ mpc = "loop" => ~Shared(heap[job.z]) /\ pos[Master] <= Length(job)
  /\ mpc = "join" =>
       /\ Shared(heap[job.z])
       /\ \A t \in Thread : /\ First(t) <= pos[t]
                            /\ tpc[t] = "test" => pos[t] < Last(t)
  /\ mpc # "join" => \A t \in Thread : tpc[t] = "idle"

\* The first value is the one of the call.
FirstInv ==
  LET c == Conforming(arg.A.shape, arg.B.shape)
  IN  /\ heap # <<>> => /\ c.ec = OK /\ heap[1].shape = c.shape
                        /\ heap[1].A = arg.A /\ heap[1].B = arg.B
      /\ mpc \in {"pick", "loop", "join"} => heap # <<>>
      /\ (mpc = "end" /\ result.ec = OK /\ heap = <<>>) => c.ec = OK /\ Volume(c.shape) = 0

\* An error code has its reason in the arguments.
SomethingFails ==
  \/ Conforming(arg.A.shape, arg.B.shape).ec # OK
  \/ \E h \in DOMAIN heap : \E z \in DOMAIN heap[h].cells : Fails(heap[h], z)
JobFails == \E z \in 1 .. Length(job) : CellFails(heap[job.z], z)
ErrorInv ==
  /\ mpc = "join" =>
       /\ error # OK => JobFails
       /\ \A t \in Thread : (tpc[t] = "test" /\ mine[t] # OK) => JobFails
  /\ mpc \in {"loop", "pick"} => ec = OK
  /\ mpc = "failed" => ec # OK /\ SomethingFails
  /\ mpc = "end" => \/ result.ec = OK
                    \/ result.ec # OK /\ SomethingFails

\* Cell z of the current job is ahead of the threads.
Passed(t) == IF tpc[t] = "test" THEN pos[t] + 1 ELSE pos[t]
Todo(z) ==
  \/ mpc = "loop" /\ z > pos[Master]
  \/ mpc = "join" /\ \E t \in Thread : tpc[t] # "idle" /\ Passed(t) < z /\ z <= Last(t)
Waiting(h, z) == Queued(h) \/ (Working /\ h = job.z /\ Todo(z))

\* Cells that are still to be written are raw; pointers point to later values,
\* every one but the first has exactly one.
PointInv ==
  /\ \A h \in DOMAIN heap : \A z \in DOMAIN heap[h].cells :
       Waiting(h, z) => heap[h].cells[z] = Raw
  /\ \A h \in DOMAIN heap : \A z \in DOMAIN heap[h].cells :
       heap[h].cells[z] \in [ptr : Nat] => heap[h].cells[z] \in [ptr : DOMAIN heap]
  /\ \A h, i \in DOMAIN heap : \A z \in DOMAIN heap[h].cells, y \in DOMAIN heap[i].cells :
       \A k \in DOMAIN heap : (heap[h].cells[z] = Pointer(k) /\ heap[i].cells[y] = Pointer(k))
         => h = i /\ z = y
  /\ \A k \in DOMAIN heap \ {1} :
       \E h \in DOMAIN heap : \E z \in DOMAIN heap[h].cells : heap[h].cells[z] = Pointer(k)

\* The other cells are the results for their items.
ResultInv ==
  /\ mpc = "join" => \A t \in Thread : tpc[t] = "idle" => pos[t] >= Last(t)
  /\ (mpc \in {"pick", "loop", "join"} \/ (mpc = "end" /\ result.ec = OK)) =>
       \A h \in DOMAIN heap : \A z \in DOMAIN heap[h].cells :
          Waiting(h, z) \/ Right(h, z)

Inv ==
  /\ TypeInv /\ HeapInv /\ JobsInv /\ ControlInv /\ FirstInv /\ ErrorInv
  /\ NoneMisplaced => PointInv
  /\ NoneMistaken => ResultInv

-----------------------------------------------------------------------------
(* Values and shapes.                                                      *)

\* A scalar has one item.
LEMMA VolumeOfScalar == Volume(<<>>) = 1
<1> DEFINE P(p) == [i \in 0 .. Len(<<>>) |-> IF i = 0 THEN 1 ELSE (<<>>)[i] * p[i-1]]
           one == [i \in 0 .. Len(<<>>) |-> 1]
<1>1. Len(<<>>) = 0
  OBVIOUS
<1>2. one = P(one)
  BY <1>1
<1>3. LET p == CHOOSE p : p = P(p) IN p = P(p)
  BY <1>2
<1>4. (CHOOSE p : p = P(p))[0] = 1
  BY <1>1, <1>3
<1> QED
  BY <1>1, <1>4 DEF Volume

\* A value and its volume; an argument that is extended to n cells has an item
\* for each of them.
LEMMA ValueFacts ==
  ASSUME NEW v \in Values
  PROVE  /\ v.shape \in Seq(Nat) /\ v.items \in Seq(Item) /\ Volume(v.shape) \in Nat
         /\ v.items # <<>>
         /\ \A i \in DOMAIN v.items : Scalar(v.items[i]) \in Values
<1>1. /\ v \in [shape : Seq(Nat), items : Seq(Item)]
      /\ Len(v.items) = IF IsEmpty(v) THEN 1 ELSE Volume(v.shape)
      /\ \A i \in DOMAIN v.items : Scalar(v.items[i]) \in Values
  BY ValuesAssumption
<1>2. Len(v.items) \in Nat
  BY <1>1
<1>3. Volume(v.shape) \in Nat
  BY <1>1, <1>2 DEF IsEmpty
<1>4. Len(v.items) # 0
  BY <1>1, <1>3 DEF IsEmpty
<1>5. v.shape \in Seq(Nat) /\ v.items \in Seq(Item)
  BY <1>1
<1>6. v.items # <<>>
  BY <1>4, <1>5
<1> QED
  BY <1>1, <1>3, <1>5, <1>6

LEMMA ItemIndex ==
  ASSUME NEW v \in Values, NEW n \in Nat, n # 0, Extends(v, n), NEW z \in 1 .. n
  PROVE  \E i \in DOMAIN v.items : ItemAt(v, z) = v.items[i]
<1>1. Len(v.items) = IF IsEmpty(v) THEN 1 ELSE Volume(v.shape)
  BY ValuesAssumption
<1>2. CASE Volume(v.shape) = 1
  <2>1. 1 \in DOMAIN v.items
    BY <1>1, <1>2, ValueFacts DEF IsEmpty
  <2> QED
    BY <1>2, <2>1, ValueFacts DEF ItemAt
<1>3. CASE Volume(v.shape) # 1
  <2>1. Volume(v.shape) = n
    BY <1>3 DEF Extends
  <2>2. Len(v.items) = n
    BY <1>1, <2>1 DEF IsEmpty
  <2>3. z \in DOMAIN v.items
    BY <2>2, ValueFacts
  <2> QED
    BY <1>3, <2>3, ValueFacts DEF ItemAt
<1> QED
  BY <1>2, <1>3

LEMMA ItemFacts ==
  ASSUME NEW v \in Values, NEW n \in Nat, n # 0, Extends(v, n), NEW z \in 1 .. n
  PROVE  ItemAt(v, z) \in Item /\ Scalar(ItemAt(v, z)) \in Values
<1>1. PICK i \in DOMAIN v.items : ItemAt(v, z) = v.items[i]
  BY ItemIndex
<1> QED BY <1>1, ValueFacts

LEMMA ItemKinds ==
  ASSUME NEW c \in Item, Scalar(c) \in Values
  PROVE  /\ Item1(c) \in Values
         /\ IsNested(c) => c.val \in Values
         /\ ~IsNested(c) => c.it \in Seq(STRING)
<1>1. CASE c \in [it : Seq(STRING)]
  <2>1. ~IsNested(c)
    BY <1>1 DEF IsNested
  <2> QED
    BY <1>1, <2>1 DEF Item1
<1>2. CASE c \in [val : Values]
  <2>1. IsNested(c)
    BY <1>2 DEF IsNested
  <2> QED
    BY <1>2, <2>1 DEF Item1
<1> QED
  BY <1>1, <1>2 DEF Item

\* Both arguments extend to a conforming shape, if it is not empty.
LEMMA ConformingFacts ==
  ASSUME NEW A \in Values, NEW B \in Values
  PROVE  LET c == Conforming(A.shape, B.shape)
         IN  /\ c.ec \in Code /\ c.shape \in Seq(Nat)
             /\ c.ec = OK => /\ Volume(c.shape) \in Nat
                             /\ Volume(c.shape) # 0 => /\ Extends(A, Volume(c.shape))
                                                       /\ Extends(B, Volume(c.shape))
<1> DEFINE c == Conforming(A.shape, B.shape)
<1>1. \/ A.shape = <<>> /\ c.ec = OK /\ c.shape = B.shape
      \/ B.shape = <<>> /\ c.ec = OK /\ c.shape = A.shape
      \/ Volume(A.shape) = 1 /\ c.ec = OK /\ c.shape = B.shape
      \/ Volume(B.shape) = 1 /\ c.ec = OK /\ c.shape = A.shape
      \/ A.shape = B.shape /\ c.ec = OK /\ c.shape = A.shape
      \/ c.ec \in {"RANK", "LENGTH"} /\ c.shape = <<>>
  BY DEF Conforming
<1>2. /\ A.shape \in Seq(Nat) /\ Volume(A.shape) \in Nat
      /\ B.shape \in Seq(Nat) /\ Volume(B.shape) \in Nat
  BY ValueFacts
<1>3. <<>> \in Seq(Nat) /\ OK \notin {"RANK", "LENGTH"} /\ {OK, "RANK", "LENGTH"} \subseteq Code
  BY DEF Code, OK
<1> HIDE DEF c
<1>4. /\ c.ec \in Code /\ c.shape \in Seq(Nat)
      /\ c.ec = OK => /\ Volume(c.shape) \in Nat
                      /\ Volume(c.shape) # 0 => /\ Extends(A, Volume(c.shape))
                                                /\ Extends(B, Volume(c.shape))
  BY <1>1, <1>2, <1>3, VolumeOfScalar DEF Extends
<1> QED BY <1>4 DEF c

-----------------------------------------------------------------------------
(* Values of the heap.                                                     *)

\* Two values of the heap that differ at most in the contents of their cells.
Same(v, w) ==
  /\ v.shape = w.shape /\ v.A = w.A /\ v.B = w.B
  /\ Len(v.cells) = Len(w.cells) /\ DOMAIN v.cells = DOMAIN w.cells

\* G is the heap H after c was written to cell z of value h.
Wrote(H, G, h, z, c) ==
  /\ G \in Seq(HeapValue) /\ Len(H) <= Len(G)
  /\ \A i \in DOMAIN H :
       /\ i \in DOMAIN G /\ Same(G[i], H[i]) /\ G[i].valid = H[i].valid
       /\ \A y \in DOMAIN H[i].cells :
            G[i].cells[y] = IF i = h /\ y = z THEN c ELSE H[i].cells[y]

\* What an operator says of the items of a value does not depend on its cells.
LEMMA SameFacts ==
  ASSUME NEW v, NEW w, Same(v, w), NEW z
  PROVE  /\ OfA(v, z) = OfA(w, z) /\ OfB(v, z) = OfB(w, z)
         /\ BothSimple(v, z) <=> BothSimple(w, z)
         /\ BothNested(v, z) <=> BothNested(w, z)
         /\ OneNested(v, z) <=> OneNested(w, z)
         /\ TheNested(v, z) = TheNested(w, z) /\ Inner(v, z) = Inner(w, z)
         /\ CellFails(v, z) <=> CellFails(w, z)
         /\ Fails(v, z) <=> Fails(w, z)
         /\ Shared(v) <=> Shared(w)
         /\ Misplaced(v, z) <=> Misplaced(w, z)
         /\ Mishandled(v, z) <=> Mishandled(w, z)
<1>1. OfA(v, z) = OfA(w, z) /\ OfB(v, z) = OfB(w, z)
  BY DEF Same, OfA, OfB
<1>2. /\ BothSimple(v, z) <=> BothSimple(w, z)
      /\ BothNested(v, z) <=> BothNested(w, z)
      /\ OneNested(v, z) <=> OneNested(w, z)
      /\ TheNested(v, z) = TheNested(w, z) /\ Inner(v, z) = Inner(w, z)
  BY <1>1 DEF BothSimple, BothNested, OneNested, TheNested, Inner
<1>3. CellFails(v, z) <=> CellFails(w, z)
  BY <1>1, <1>2 DEF CellFails
<1>4. Shared(v) <=> Shared(w)
  BY DEF Same, Shared
<1> QED
  BY <1>1, <1>2, <1>3, <1>4 DEF Fails, Misplaced, Mishandled

LEMMA HeapTypes ==
  ASSUME NEW H \in Seq(HeapValue)
  PROVE  /\ DOMAIN H = 1 .. Len(H) /\ Len(H) \in Nat
         /\ \A h \in DOMAIN H :
              /\ H[h] \in HeapValue /\ H[h].cells \in Seq(Cell) /\ Len(H[h].cells) \in Nat
              /\ DOMAIN H[h].cells = 1 .. Len(H[h].cells)
              /\ H[h].A \in Values /\ H[h].B \in Values /\ H[h].valid \in Nat
<1>1. DOMAIN H = 1 .. Len(H) /\ Len(H) \in Nat /\ \A h \in DOMAIN H : H[h] \in HeapValue
  OBVIOUS
<1>2. ASSUME NEW v \in HeapValue
      PROVE  /\ v.cells \in Seq(Cell) /\ Len(v.cells) \in Nat
             /\ DOMAIN v.cells = 1 .. Len(v.cells)
             /\ v.A \in Values /\ v.B \in Values /\ v.valid \in Nat
  <2>1. v.cells \in Seq(Cell) /\ v.A \in Values /\ v.B \in Values /\ v.valid \in Nat
    BY DEF HeapValue
  <2> QED BY <2>1
<1> QED
  BY <1>1, <1>2

\* writing a cell
LEMMA CellWritten ==
  ASSUME NEW H \in Seq(HeapValue), NEW h \in DOMAIN H, NEW z \in DOMAIN H[h].cells,
         NEW c \in Cell
  PROVE  LET G == [H EXCEPT ![h].cells[z] = c]
         IN  Wrote(H, G, h, z, c) /\ Len(G) = Len(H)
<1> DEFINE G == [H EXCEPT ![h].cells[z] = c]
           w == [H[h] EXCEPT !.cells = [@ EXCEPT ![z] = c]]
<1>1. H[h] \in HeapValue /\ H[h].cells \in Seq(Cell)
  BY HeapTypes
<1>2. [H[h].cells EXCEPT ![z] = c] \in Seq(Cell)
  BY <1>1
<1>3. w \in HeapValue /\ w.cells = [H[h].cells EXCEPT ![z] = c]
  BY <1>1, <1>2 DEF HeapValue
<1>4. Same(w, H[h]) /\ w.valid = H[h].valid
  BY <1>1, <1>2 DEF HeapValue, Same
<1>5. G = [H EXCEPT ![h] = w]
  OBVIOUS
<1> HIDE DEF w, G
<1>6. G \in Seq(HeapValue) /\ Len(G) = Len(H)
  BY <1>3, <1>5
<1>7. ASSUME NEW i \in DOMAIN H
      PROVE  /\ i \in DOMAIN G /\ Same(G[i], H[i]) /\ G[i].valid = H[i].valid
             /\ \A y \in DOMAIN H[i].cells :
                  G[i].cells[y] = IF i = h /\ y = z THEN c ELSE H[i].cells[y]
  <2>1. CASE i = h
    <3>1. G[i] = w
      BY <1>5, <2>1
    <3> QED BY <1>3, <1>4, <1>5, <2>1, <3>1
  <2>2. CASE i # h
    <3>1. G[i] = H[i] /\ i \in DOMAIN G
      BY <1>5, <2>2
    <3> QED BY <2>2, <3>1 DEF Same
  <2> QED BY <2>1, <2>2
<1>8. Len(H) <= Len(G)
  BY <1>6, HeapTypes
<1> QED
  BY <1>6, <1>7, <1>8 DEF Wrote, G

\* a new value
LEMMA ValueAdded ==
  ASSUME NEW H, NEW G, NEW h, NEW z, NEW c, Wrote(H, G, h, z, c), H \in Seq(HeapValue),
         Len(G) = Len(H), NEW v \in HeapValue
  PROVE  /\ Wrote(H, Append(G, v), h, z, c)
         /\ Len(Append(G, v)) = Len(H) + 1 /\ Append(G, v)[Len(H) + 1] = v
<1>1. G \in Seq(HeapValue) /\ Len(G) \in Nat
  BY DEF Wrote
<1>2. /\ Append(G, v) \in Seq(HeapValue) /\ Len(Append(G, v)) = Len(G) + 1
      /\ Append(G, v)[Len(G) + 1] = v
      /\ \A i \in DOMAIN G : i \in DOMAIN Append(G, v) /\ Append(G, v)[i] = G[i]
  BY <1>1
<1> QED
  BY <1>1, <1>2 DEF Wrote

\* A new value is raw.
LEMMA NewValueFacts ==
  ASSUME NEW shape \in Seq(Nat), NEW A \in Values, NEW B \in Values, Volume(shape) \in Nat
  PROVE  LET v == NewValue(shape, A, B)
         IN  /\ v \in HeapValue /\ v.shape = shape /\ v.A = A /\ v.B = B
             /\ Len(v.cells) = Volume(shape) /\ v.valid = 0
             /\ \A z \in DOMAIN v.cells : v.cells[z] = Raw
<1>1. Raw \in Cell
  BY DEF Cell
<1>2. [z \in 1 .. Volume(shape) |-> Raw] \in Seq(Cell)
  BY <1>1
<1>3. Len([z \in 1 .. Volume(shape) |-> Raw]) = Volume(shape)
  OBVIOUS
<1> QED
  BY <1>2, <1>3 DEF NewValue, HeapValue

-----------------------------------------------------------------------------
(* The current job, and the items that a thread is at.                     *)

Active(t) ==
  \/ t = Master /\ InLoop
  \/ mpc = "join" /\ InSlice(t)

LEMMA JobFacts ==
  ASSUME Inv, Working
  PROVE  /\ job \in Job /\ job.z \in DOMAIN heap
         /\ job.A = heap[job.z].A /\ job.B = heap[job.z].B
         /\ Length(job) = Len(heap[job.z].cells) /\ Length(job) \in Nat /\ Length(job) # 0
         /\ DOMAIN heap[job.z].cells = 1 .. Length(job)
         /\ Extends(job.A, Length(job)) /\ Extends(job.B, Length(job))
<1>1. job \in Job /\ IsJob(job)
  BY DEF Inv, JobsInv
<1>2. job.z \in DOMAIN heap /\ job.A = heap[job.z].A /\ job.B = heap[job.z].B
  BY <1>1 DEF IsJob
<1>3. Length(job) = Len(heap[job.z].cells)
  BY DEF Length
<1>4. Length(job) \in Nat /\ DOMAIN heap[job.z].cells = 1 .. Length(job)
  BY <1>2, <1>3, HeapTypes DEF Inv, TypeInv
<1>5. WellFormed(heap[job.z])
  BY <1>2 DEF Inv, HeapInv
<1> QED
  BY <1>1, <1>2, <1>3, <1>4, <1>5 DEF WellFormed

LEMMA SliceFacts ==
  ASSUME Inv, Working, NEW t \in Thread
  PROVE  /\ First(t) \in Nat /\ Last(t) \in Nat /\ Last(t) <= Length(job)
         /\ \A u \in Thread : t # u => Last(t) <= First(u) \/ Last(u) <= First(t)
  BY JobFacts, SlicesDisjoint DEF First, Last

\* the items of an active thread
LEMMA ActiveFacts ==
  ASSUME Inv, NEW t \in Thread, Active(t)
  PROVE  /\ Working /\ pos[t] \in Nat
         /\ pos[t] + 1 \in DOMAIN heap[job.z].cells
         /\ ItemA(t) = OfA(heap[job.z], pos[t] + 1) /\ ItemB(t) = OfB(heap[job.z], pos[t] + 1)
         /\ ItemA(t) \in Item /\ Scalar(ItemA(t)) \in Values
         /\ ItemB(t) \in Item /\ Scalar(ItemB(t)) \in Values
<1>1. Working /\ pos[t] \in Nat
  BY DEF Active, InLoop, Working, Inv, TypeInv
<1>2. pos[t] < Length(job)
  <2>1. CASE t = Master /\ InLoop
    BY <2>1 DEF InLoop
  <2>2. CASE mpc = "join" /\ InSlice(t)
    <3>1. pos[t] < Last(t)
      BY <1>1, <2>2, SliceFacts DEF InSlice, AtEnd, Last
    <3> QED
      BY <1>1, <3>1, SliceFacts, JobFacts
  <2> QED BY <2>1, <2>2 DEF Active
<1>3. pos[t] + 1 \in 1 .. Length(job) /\ Length(job) \in Nat /\ Length(job) # 0
  BY <1>1, <1>2, JobFacts
<1>4. job.A \in Values /\ job.B \in Values
  BY <1>1, JobFacts DEF Job
<1>5. ItemA(t) = ItemAt(job.A, pos[t] + 1) /\ ItemB(t) = ItemAt(job.B, pos[t] + 1)
  BY DEF ItemA, ItemB
<1>6. ItemA(t) = OfA(heap[job.z], pos[t] + 1) /\ ItemB(t) = OfB(heap[job.z], pos[t] + 1)
  BY <1>1, <1>5, JobFacts DEF OfA, OfB
<1>7. /\ ItemA(t) \in Item /\ Scalar(ItemA(t)) \in Values
      /\ ItemB(t) \in Item /\ Scalar(ItemB(t)) \in Values
  BY <1>1, <1>3, <1>4, <1>5, JobFacts, ItemFacts
<1> QED
  BY <1>1, <1>3, <1>6, <1>7, JobFacts

-----------------------------------------------------------------------------
(* What a step of an active thread does to the heap and the jobs.          *)

\* a shape and arguments for a new value
New(shape, A, B) ==
  /\ shape \in Seq(Nat) /\ A \in Values /\ B \in Values
  /\ Volume(shape) \in Nat /\ Volume(shape) # 0
  /\ Extends(A, Volume(shape)) /\ Extends(B, Volume(shape))

Effect(t) ==
  \/ heap' = heap /\ jobs' = jobs
  \/ \E c \in Cell \ [ptr : Nat] : heap' = SetZ(heap, t, c) /\ jobs' = jobs
  \/ \E shape \in Seq(Nat), A, B \in Values :
       New(shape, A, B) /\ AddJob(t, t, shape, A, B)
  \/ /\ ~NoneMisplaced /\ jobs' = jobs
     /\ \E c \in Cell \ [ptr : Nat] : heap' = NextRavel(heap, c)

LEMMA CellKinds ==
  /\ \A v \in Values : Enclosed(FillB(v)) \in Cell \ [ptr : Nat]
  /\ \A a, b \in Item : (~IsNested(a) /\ ~IsNested(b)) => CellResult(a, b) \in Cell \ [ptr : Nat]
  /\ \A k \in Nat : Pointer(k) \in Cell
  /\ Raw \notin [ptr : Nat]
<1>1. ASSUME NEW x PROVE [val |-> x] \notin [ptr : Nat]
  OBVIOUS
<1>2. ASSUME NEW x PROVE [it |-> x] \notin [ptr : Nat]
  OBVIOUS
<1>3. \A v \in Values : Enclosed(FillB(v)) \in Cell \ [ptr : Nat]
  BY <1>1 DEF Cell, Enclosed
<1>4. ASSUME NEW a \in Item, NEW b \in Item, ~IsNested(a), ~IsNested(b)
      PROVE  CellResult(a, b) \in Cell \ [ptr : Nat]
  <2>1. a \in [it : Seq(STRING)] /\ b \in [it : Seq(STRING)]
    BY <1>4 DEF Item, IsNested
  <2>2. a.it \o b.it \in Seq(STRING)
    <3>1. a.it \in Seq(STRING) /\ b.it \in Seq(STRING)
      BY <2>1
    <3> QED BY <3>1
  <2> QED BY <1>2, <2>2 DEF CellResult, Simple, Cell
<1>5. \A k \in Nat : Pointer(k) \in Cell
  BY DEF Pointer, Cell
<1>6. Raw \notin [ptr : Nat]
  BY DEF Raw
<1> QED BY <1>3, <1>4, <1>5, <1>6

LEMMA Either ==
  ASSUME NEW a, NEW b
  PROVE  (IsNested(a) # IsNested(b)) <=> \/ IsNested(a) /\ ~IsNested(b)
                                         \/ ~IsNested(a) /\ IsNested(b)
  BY DEF IsNested

LEMMA NewOneNested ==
  ASSUME NEW a \in Item, NEW b \in Item, Scalar(a) \in Values, Scalar(b) \in Values,
         IsNested(a) # IsNested(b), NEW v, v = IF IsNested(a) THEN a.val ELSE b.val
  PROVE  /\ v \in Values
         /\ ~IsEmpty(v) => New(v.shape, Item1(a), Item1(b))
<1>1. Item1(a) \in Values /\ Item1(b) \in Values /\ v \in Values
  BY ItemKinds, Either
<1>2. ASSUME ~IsEmpty(v) PROVE New(v.shape, Item1(a), Item1(b))
  <2>1. v.shape \in Seq(Nat) /\ Volume(v.shape) \in Nat /\ Volume(v.shape) # 0
    BY <1>1, <1>2, ValueFacts DEF IsEmpty
  <2>2. CASE IsNested(a) /\ ~IsNested(b)
    <3>1. Item1(a) = v /\ Item1(b).shape = <<>>
      BY <2>2 DEF Item1, Scalar
    <3> QED BY <1>1, <2>1, <3>1, VolumeOfScalar DEF New, Extends
  <2>3. CASE ~IsNested(a) /\ IsNested(b)
    <3>1. Item1(b) = v /\ Item1(a).shape = <<>>
      BY <2>3 DEF Item1, Scalar
    <3> QED BY <1>1, <2>1, <3>1, VolumeOfScalar DEF New, Extends
  <2> QED BY <2>2, <2>3, Either
<1> QED BY <1>1, <1>2

LEMMA NewConforming ==
  ASSUME NEW A \in Values, NEW B \in Values, NEW c, c = Conforming(A.shape, B.shape),
         c.ec = OK, Volume(c.shape) # 0
  PROVE  New(c.shape, A, B)
  BY ConformingFacts DEF New

LEMMA NewBothNested ==
  ASSUME NEW A \in Values, NEW B \in Values, NEW c, c = Conforming(B.shape, A.shape),
         c.ec = OK, Volume(c.shape) # 0
  PROVE  New(c.shape, A, B)
  BY NewConforming DEF New

\* A scalar conforms with everything.
LEMMA ScalarConforms ==
  ASSUME NEW shape, NEW a
  PROVE  Conforming(shape, Scalar(a).shape).ec = OK
  BY DEF Conforming, Scalar

LEMMA SeqBothNestedEffect ==
  ASSUME Inv, SeqBothNested
  PROVE  Effect(Master)
<1> DEFINE a == ItemA(Master)
           b == ItemB(Master)
           c == Conforming(b.val.shape, a.val.shape)
<1>1. Active(Master)
  BY DEF Active, SeqBothNested
<1>2. a.val \in Values /\ b.val \in Values
  BY <1>1, ActiveFacts, CoresType, ItemKinds DEF SeqBothNested
<1>3. c.ec = OK => Volume(c.shape) \in Nat
  BY <1>2, ConformingFacts
<1>4. CASE c.ec # OK
  BY <1>4 DEF SeqBothNested, Effect
<1>5. CASE c.ec = OK /\ Volume(c.shape) # 0
  <2>1. AddJob(Master, Master, c.shape, a.val, b.val)
    BY <1>5 DEF SeqBothNested
  <2>2. New(c.shape, a.val, b.val)
    BY <1>2, <1>5, NewBothNested
  <2> HIDE DEF c
  <2> QED BY <2>1, <2>2 DEF Effect, New
<1>6. CASE c.ec = OK /\ Volume(c.shape) = 0
  <2>1. heap' = NextRavel(heap, Enclosed(FillAB(a.val, b.val))) /\ jobs' = jobs
    BY <1>6 DEF SeqBothNested
  <2>2. Misplaced(heap[job.z], pos[Master] + 1)
    BY <1>1, <1>6, ActiveFacts, CoresType DEF Misplaced, BothNested, Inner, SeqBothNested
  <2>3. ~Shared(heap[job.z]) /\ job.z \in DOMAIN heap
    BY JobFacts DEF SeqBothNested, InLoop, Inv, ControlInv, Working
  <2>4. ~NoneMisplaced
    BY <1>1, <2>2, <2>3, ActiveFacts, CoresType DEF NoneMisplaced
  <2>5. Enclosed(FillAB(a.val, b.val)) \in Cell \ [ptr : Nat]
    BY <1>2, CellKinds DEF FillAB
  <2> QED BY <2>1, <2>4, <2>5 DEF Effect
<1> QED BY <1>4, <1>5, <1>6

LEMMA SeqOneNestedEffect ==
  ASSUME Inv, SeqOneNested
  PROVE  Effect(Master)
<1> DEFINE a == ItemA(Master)
           b == ItemB(Master)
           v == IF IsNested(a) THEN a.val ELSE b.val
<1>1. Active(Master)
  BY DEF Active, SeqOneNested
<1>2. /\ a \in Item /\ b \in Item /\ Scalar(a) \in Values /\ Scalar(b) \in Values
      /\ IsNested(a) # IsNested(b)
  BY <1>1, ActiveFacts, CoresType DEF SeqOneNested
<1>3. v \in Values /\ (~IsEmpty(v) => New(v.shape, Item1(a), Item1(b)))
  BY <1>2, NewOneNested
<1>4. IF IsEmpty(v)
      THEN heap' = SetZ(heap, Master, Enclosed(FillB(v))) /\ jobs' = jobs
      ELSE AddJob(Master, Master, v.shape, Item1(a), Item1(b))
  BY DEF SeqOneNested
<1> HIDE DEF v
<1> QED BY <1>3, <1>4, CellKinds DEF Effect, New

LEMMA SeqSimpleEffect ==
  ASSUME Inv, SeqSimple
  PROVE  Effect(Master)
<1>1. Active(Master)
  BY DEF Active, SeqSimple
<1>2. CellResult(ItemA(Master), ItemB(Master)) \in Cell \ [ptr : Nat]
  BY <1>1, ActiveFacts, CoresType, CellKinds DEF SeqSimple
<1> QED BY <1>2 DEF SeqSimple, Effect

LEMMA PFSimpleEffect ==
  ASSUME Inv, NEW t \in Thread, mpc = "join", PFSimple(t)
  PROVE  Effect(t)
<1>1. Active(t)
  BY DEF Active, PFSimple
<1>2. CellResult(ItemA(t), ItemB(t)) \in Cell \ [ptr : Nat]
  BY <1>1, ActiveFacts, CellKinds DEF PFSimple
<1> QED BY <1>2 DEF PFSimple, Effect

\* The fill result of two arguments one of which is a scalar is the one of the
\* other argument.
LEMMA FillOfOne ==
  ASSUME NEW a \in Item, NEW b \in Item, Scalar(a) \in Values, Scalar(b) \in Values,
         IsNested(a) # IsNested(b), NEW v, v = IF IsNested(a) THEN a.val ELSE b.val,
         IsEmpty(v)
  PROVE  FillAB(Item1(a), Item1(b)) = FillB(v)
<1>1. CASE IsNested(a) /\ ~IsNested(b)
  <2>1. Item1(a) = v /\ ~IsEmpty(Item1(b))
    BY <1>1, VolumeOfScalar DEF Item1, IsEmpty, Scalar
  <2> QED BY <2>1 DEF FillAB
<1>2. CASE ~IsNested(a) /\ IsNested(b)
  <2>1. Item1(b) = v
    BY <1>2 DEF Item1
  <2> QED BY <2>1 DEF FillAB
<1> QED BY <1>1, <1>2, Either

LEMMA PFOneNestedEffect ==
  ASSUME Inv, NEW t \in Thread, mpc = "join", PFOneNested(t)
  PROVE  Effect(t)
<1> DEFINE a == ItemA(t)
           b == ItemB(t)
           v == IF IsNested(a) THEN a.val ELSE b.val
<1>1. Active(t)
  BY DEF Active, PFOneNested
<1>2. /\ a \in Item /\ b \in Item /\ Scalar(a) \in Values /\ Scalar(b) \in Values
      /\ IsNested(a) # IsNested(b)
  BY <1>1, ActiveFacts DEF PFOneNested
<1>3. v \in Values /\ (~IsEmpty(v) => New(v.shape, Item1(a), Item1(b)))
  BY <1>2, NewOneNested
<1>4. v = IF IsNested(a) THEN Item1(a) ELSE Item1(b)
  BY <1>2, Either DEF Item1
<1>5. IF IsEmpty(v)
      THEN heap' = SetZ(heap, t, Enclosed(FillAB(Item1(a), Item1(b)))) /\ jobs' = jobs
      ELSE AddJob(t, t, v.shape, Item1(a), Item1(b))
  BY <1>4 DEF PFOneNested
<1>6. IsEmpty(v) => FillAB(Item1(a), Item1(b)) = FillB(v)
  BY <1>2, FillOfOne
<1> HIDE DEF v
<1> QED BY <1>3, <1>5, <1>6, CellKinds DEF Effect, New

LEMMA PFBothNestedEffect ==
  ASSUME Inv, NEW t \in Thread, mpc = "join", PFBothNested(t)
  PROVE  Effect(t)
<1> DEFINE a == ItemA(t)
           b == ItemB(t)
           c == Conforming(b.val.shape, Scalar(a).shape)
<1>1. Active(t)
  BY DEF Active, PFBothNested
<1>2. Scalar(a) \in Values /\ b.val \in Values
  BY <1>1, ActiveFacts, ItemKinds DEF PFBothNested
<1>3. c.ec = OK /\ Volume(c.shape) \in Nat
  BY <1>2, ConformingFacts, ScalarConforms
<1>4. CASE error = OK /\ Volume(c.shape) > 0
  <2>1. AddJob(t, t, c.shape, Scalar(a), b.val)
    BY <1>4 DEF PFBothNested
  <2>2. New(c.shape, Scalar(a), b.val)
    BY <1>2, <1>3, <1>4, NewBothNested
  <2> HIDE DEF c
  <2> QED BY <2>1, <2>2 DEF Effect, New
<1>5. CASE ~(error = OK /\ Volume(c.shape) > 0)
  BY <1>5 DEF PFBothNested, Effect
<1> QED BY <1>4, <1>5

\* A cell written, and a new value with its job.
LEMMA SetZWrites ==
  ASSUME Inv, NEW t \in Thread, Active(t), NEW c \in Cell
  PROVE  Wrote(heap, SetZ(heap, t, c), job.z, pos[t] + 1, c) /\ Len(SetZ(heap, t, c)) = Len(heap)
<1>1. heap \in Seq(HeapValue) /\ job.z \in DOMAIN heap /\ pos[t] + 1 \in DOMAIN heap[job.z].cells
  BY ActiveFacts, JobFacts DEF Inv, TypeInv
<1> QED BY <1>1, CellWritten DEF SetZ

LEMMA SetZFacts ==
  ASSUME Inv, NEW t \in Thread, Active(t), NEW c \in Cell, heap' = SetZ(heap, t, c)
  PROVE  Wrote(heap, heap', job.z, pos[t] + 1, c) /\ Len(heap') = Len(heap)
  BY SetZWrites

LEMMA AddJobFacts ==
  ASSUME Inv, NEW t \in Thread, Active(t), NEW shape, NEW A, NEW B, New(shape, A, B),
         AddJob(t, t, shape, A, B)
  PROVE  /\ Wrote(heap, heap', job.z, pos[t] + 1, Pointer(Len(heap) + 1))
         /\ Len(heap') = Len(heap) + 1
         /\ heap'[Len(heap) + 1] = NewValue(shape, A, B)
         /\ jobs' = [jobs EXCEPT ![t] = Append(@, [z |-> Len(heap) + 1, A |-> A, B |-> B])]
<1> DEFINE G == SetZ(heap, t, Pointer(Len(heap) + 1))
<1>1. heap \in Seq(HeapValue) /\ job.z \in DOMAIN heap /\ pos[t] + 1 \in DOMAIN heap[job.z].cells
  BY ActiveFacts, JobFacts DEF Inv, TypeInv
<1>2. Pointer(Len(heap) + 1) \in Cell
  BY <1>1, CellKinds
<1>3. Wrote(heap, G, job.z, pos[t] + 1, Pointer(Len(heap) + 1)) /\ Len(G) = Len(heap)
  BY <1>1, <1>2, CellWritten DEF SetZ
<1>4. NewValue(shape, A, B) \in HeapValue
  BY NewValueFacts DEF New
<1>5. /\ heap' = Append(G, NewValue(shape, A, B))
      /\ jobs' = [jobs EXCEPT ![t] = Append(@, [z |-> Len(heap) + 1, A |-> A, B |-> B])]
  BY DEF AddJob
<1> HIDE DEF G
<1> QED BY <1>1, <1>3, <1>4, <1>5, ValueAdded

LEMMA OtherCells ==
  ASSUME Inv, NEW t \in Thread, Active(t), NEW shape, NEW A, NEW B, New(shape, A, B),
         AddJob(t, t, shape, A, B)
  PROVE  \A h \in DOMAIN heap : \A z \in DOMAIN heap[h].cells :
           ~(h = job.z /\ z = pos[t] + 1) => heap'[h].cells[z] = heap[h].cells[z]
<1>1. Wrote(heap, heap', job.z, pos[t] + 1, Pointer(Len(heap) + 1))
  BY AddJobFacts
<1> QED BY <1>1 DEF Wrote

LEMMA NextRavelFacts ==
  ASSUME Inv, Working, NEW c \in Cell, heap' = NextRavel(heap, c)
  PROVE  /\ heap' \in Seq(HeapValue) /\ Len(heap') = Len(heap)
         /\ \A h \in DOMAIN heap :
              h \in DOMAIN heap' /\ Same(heap'[h], heap[h]) /\ WellFormed(heap'[h])
<1> DEFINE h == job.z
           n == heap[h].valid
<1>1. /\ heap \in Seq(HeapValue) /\ h \in DOMAIN heap /\ n \in Nat
      /\ \A i \in DOMAIN heap : WellFormed(heap[i])
      /\ heap[h] \in HeapValue /\ heap[h].cells \in Seq(Cell)
  BY JobFacts, HeapTypes DEF Inv, TypeInv, HeapInv
<1>2. CASE n < Len(heap[h].cells)
  <2> DEFINE cs == [heap[h].cells EXCEPT ![n + 1] = c]
             w == [heap[h] EXCEPT !.cells = cs, !.valid = n + 1]
  <2>1. heap' = [heap EXCEPT ![h] = w]
    BY <1>2 DEF NextRavel
  <2>2. cs \in Seq(Cell) /\ Len(cs) = Len(heap[h].cells) /\ DOMAIN cs = DOMAIN heap[h].cells
    <3>1. ASSUME NEW s \in Seq(Cell), NEW i \in DOMAIN s
          PROVE  LET r == [s EXCEPT ![i] = c]
                 IN  r \in Seq(Cell) /\ Len(r) = Len(s) /\ DOMAIN r = DOMAIN s
      OBVIOUS
    <3>2. n + 1 \in DOMAIN heap[h].cells
      BY <1>1, <1>2
    <3> QED BY <1>1, <3>1, <3>2
  <2> HIDE DEF cs
  <2>3. /\ w.cells = cs /\ w.valid = n + 1 /\ w.shape = heap[h].shape
        /\ w.A = heap[h].A /\ w.B = heap[h].B /\ w \in HeapValue
    <3>1. ASSUME NEW u \in HeapValue, NEW d \in Seq(Cell), NEW m \in Nat
          PROVE  LET r == [u EXCEPT !.cells = d, !.valid = m]
                 IN  /\ r.cells = d /\ r.valid = m /\ r.shape = u.shape
                     /\ r.A = u.A /\ r.B = u.B /\ r \in HeapValue
      BY DEF HeapValue
    <3>2. n + 1 \in Nat
      BY <1>1
    <3> QED BY ONLY <1>1, <2>2, <3>1, <3>2
  <2>7. Same(w, heap[h])
    BY <2>2, <2>3 DEF Same
  <2>4. WellFormed(w)
    BY <1>1, <1>2, <2>2, <2>3, <2>7, HeapTypes DEF WellFormed, Same
  <2> HIDE DEF w
  <2>5. heap' \in Seq(HeapValue) /\ Len(heap') = Len(heap) /\ DOMAIN heap' = DOMAIN heap
    BY <1>1, <2>1, <2>3
  <2>6. \A i \in DOMAIN heap : heap'[i] = IF i = h THEN w ELSE heap[i]
    BY <2>1
  <2> QED BY <1>1, <2>4, <2>5, <2>6, <2>7 DEF Same
<1>3. CASE ~(n < Len(heap[h].cells))
  <2>1. heap' = heap
    BY <1>3 DEF NextRavel
  <2> QED BY <1>1, <2>1 DEF Same
<1> QED BY <1>2, <1>3

\* Values are never removed or replaced during an evaluation.
Grows ==
  /\ heap' \in Seq(HeapValue)
  /\ \A h \in DOMAIN heap : h \in DOMAIN heap' /\ Same(heap'[h], heap[h])

LEMMA GrowsWith ==
  ASSUME NEW h, NEW z, NEW c, Wrote(heap, heap', h, z, c)
  PROVE  Grows
  BY DEF Wrote, Grows

LEMMA EffectOnHeap ==
  ASSUME Inv, NEW t \in Thread, Active(t), Effect(t)
  PROVE  Grows /\ HeapInv'
<1> USE DEF HeapInv
<1>1. heap \in Seq(HeapValue) /\ HeapInv /\ Working
  BY ActiveFacts DEF Inv, TypeInv
<1>2. CASE heap' = heap
  BY <1>1, <1>2 DEF Grows, Same
<1>3. ASSUME NEW c \in Cell, heap' = SetZ(heap, t, c)
      PROVE  Grows /\ HeapInv'
  <2>1. Wrote(heap, heap', job.z, pos[t] + 1, c) /\ Len(heap') = Len(heap)
    BY <1>3, SetZFacts
  <2>2. DOMAIN heap' = DOMAIN heap
    BY <1>1, <2>1 DEF Wrote
  <2>3. \A h \in DOMAIN heap : WellFormed(heap'[h])
    BY <1>1, <2>1 DEF Wrote, WellFormed, Same
  <2> QED BY <2>1, <2>2, <2>3, GrowsWith
<1>4. ASSUME NEW shape, NEW A, NEW B, New(shape, A, B), AddJob(t, t, shape, A, B)
      PROVE  Grows /\ HeapInv'
  <2> DEFINE id == Len(heap) + 1
  <2>1. /\ Wrote(heap, heap', job.z, pos[t] + 1, Pointer(id)) /\ Len(heap') = id
        /\ heap'[id] = NewValue(shape, A, B)
    BY <1>4, AddJobFacts
  <2>2. DOMAIN heap' = DOMAIN heap \cup {id}
    BY <1>1, <2>1 DEF Wrote
  <2>3. WellFormed(heap'[id])
    BY <1>4, <2>1, NewValueFacts DEF WellFormed, New
  <2>4. \A h \in DOMAIN heap : WellFormed(heap'[h])
    BY <1>1, <2>1 DEF Wrote, WellFormed, Same
  <2> QED BY <2>1, <2>2, <2>3, <2>4, GrowsWith
<1>5. ASSUME NEW c \in Cell, heap' = NextRavel(heap, c)
      PROVE  Grows /\ HeapInv'
  <2>1. /\ heap' \in Seq(HeapValue) /\ Len(heap') = Len(heap)
        /\ \A h \in DOMAIN heap :
              h \in DOMAIN heap' /\ Same(heap'[h], heap[h]) /\ WellFormed(heap'[h])
    BY <1>1, <1>5, NextRavelFacts
  <2>2. DOMAIN heap' = DOMAIN heap
    BY <1>1, <2>1
  <2> QED BY <2>1, <2>2 DEF Grows
<1> QED BY <1>2, <1>3, <1>4, <1>5 DEF Effect

LEMMA EffectOnJobTypes ==
  ASSUME Inv, NEW t \in Thread, Active(t), Effect(t)
  PROVE  jobs' \in [Thread -> Seq(Job)]
<1>1. jobs \in [Thread -> Seq(Job)] /\ Len(heap) \in Nat
  BY HeapTypes DEF Inv, TypeInv
<1>2. ASSUME NEW shape, NEW A, NEW B, New(shape, A, B), AddJob(t, t, shape, A, B)
      PROVE  jobs' \in [Thread -> Seq(Job)]
  <2>1. [z |-> Len(heap) + 1, A |-> A, B |-> B] \in Job
    BY <1>1, <1>2 DEF New, Job
  <2>2. jobs' = [jobs EXCEPT ![t] = Append(@, [z |-> Len(heap) + 1, A |-> A, B |-> B])]
    BY <1>2, AddJobFacts
  <2> QED BY <1>1, <2>1, <2>2
<1> QED BY <1>1, <1>2 DEF Effect

-----------------------------------------------------------------------------
(* The types of the variables, and the values of the heap.                 *)

LEMMA ArgFacts ==
  ASSUME Inv
  PROVE  arg.A \in Values /\ arg.B \in Values /\ arg.threshold \in Int
<1>1. arg \in [A : Values, B : Values, threshold : Int]
  BY ABAssumption DEF Inv, TypeInv, ABAssumption
<1> QED BY <1>1

LEMMA PFJoins ==
  ASSUME Inv, NEW t \in Thread, tpc[t] \in {"item", "test"}
  PROVE  mpc = "join"
  BY DEF Inv, ControlInv

LEMMA PFActive ==
  ASSUME Inv, NEW t \in Thread, InSlice(t)
  PROVE  mpc = "join" /\ Active(t)
  BY PFJoins DEF InSlice, Active

LEMMA CellErrorType ==
  ASSUME NEW a, NEW b PROVE CellError(a, b) \in Code
  BY DEF CellError, Code

\* the steps that compute a cell
Computes(t) ==
  \/ t = Master /\ (SeqBothNested \/ SeqOneNested \/ SeqSimple)
  \/ PFSimple(t) \/ PFOneNested(t) \/ PFBothNested(t)

\* the steps that only move between jobs
Moves ==
  \/ \E t \in Thread : PickJob(t)
  \/ AllDone \/ Throw \/ SeqEnd \/ Join \/ StartError \/ StartEmpty
  \/ \E t \in Thread : PFTest(t) \/ PFEnd(t)

LEMMA Steps ==
  Next <=> StartJob \/ Again \/ Moves \/ \E t \in Thread : Computes(t)
<1>1. Next => StartJob \/ Again \/ Moves \/ \E t \in Thread : Computes(t)
  BY CoresType DEF Next, Moves, Computes, PF
<1>2. (\E t \in Thread : Computes(t)) => Next
  BY DEF Next, Computes, PF
<1>3. StartJob \/ Again \/ Moves => Next
  BY DEF Next, Moves, PF
<1> QED BY <1>1, <1>2, <1>3

LEMMA ComputesEffect ==
  ASSUME Inv, NEW t \in Thread, Computes(t)
  PROVE  Active(t) /\ Effect(t)
<1>1. CASE t = Master /\ (SeqBothNested \/ SeqOneNested \/ SeqSimple)
  <2>1. Active(t)
    BY <1>1 DEF Active, SeqBothNested, SeqOneNested, SeqSimple
  <2> QED BY <1>1, <2>1, SeqBothNestedEffect, SeqOneNestedEffect, SeqSimpleEffect
<1>2. CASE PFSimple(t) \/ PFOneNested(t) \/ PFBothNested(t)
  <2>1. mpc = "join" /\ Active(t)
    BY <1>2, PFActive DEF PFSimple, PFOneNested, PFBothNested
  <2> QED BY <1>2, <2>1, PFSimpleEffect, PFOneNestedEffect, PFBothNestedEffect
<1> QED BY <1>1, <1>2 DEF Computes

LEMMA ComputesTypes ==
  ASSUME Inv, NEW t \in Thread, Computes(t)
  PROVE  TypeInv'
<1>1. Active(t) /\ heap' \in Seq(HeapValue) /\ jobs' \in [Thread -> Seq(Job)]
  BY ComputesEffect, EffectOnHeap, EffectOnJobTypes DEF Grows
<1>2. /\ arg \in Calls /\ mpc \in {"start", "pick", "loop", "join", "failed", "end"}
      /\ tpc \in [Thread -> {"item", "test", "idle"}] /\ pos \in [Thread -> Nat]
      /\ mine \in [Thread -> Code] /\ error \in Code /\ ec \in Code /\ Master \in Thread
  BY CoresType DEF Inv, TypeInv
<1>9. /\ \A i \in Thread : [pos EXCEPT ![i] = @ + 1] \in [Thread -> Nat]
      /\ \A i \in Thread, x \in {"item", "test", "idle"} :
           [tpc EXCEPT ![i] = x] \in [Thread -> {"item", "test", "idle"}]
  BY <1>2
<1>3. CASE SeqBothNested
  <2>1. ec' \in Code
    <3>1. ItemA(Master).val \in Values /\ ItemB(Master).val \in Values
      BY <1>3, ActiveFacts, CoresType, ItemKinds DEF SeqBothNested, Active
    <3>2. ec' = ec \/ ec' = Conforming(ItemB(Master).val.shape, ItemA(Master).val.shape).ec
      BY <1>3 DEF SeqBothNested
    <3> QED BY <1>2, <3>1, <3>2, ConformingFacts
  <2>2. /\ arg' = arg /\ mpc' \in {mpc, "failed"} /\ tpc' = tpc /\ mine' = mine /\ error' = error
        /\ pos' = pos \/ pos' = [pos EXCEPT ![Master] = @ + 1]
    BY <1>3 DEF SeqBothNested, NextItem
  <2>3. mpc' \in {"start", "pick", "loop", "join", "failed", "end"} /\ pos' \in [Thread -> Nat]
    BY <1>2, <1>9, <2>2
  <2> QED BY <1>1, <1>2, <2>1, <2>2, <2>3 DEF TypeInv
<1>4. CASE SeqOneNested
  BY <1>1, <1>2, <1>4 DEF TypeInv, SeqOneNested, NextItem
<1>5. CASE SeqSimple
  <2>1. /\ arg' = arg /\ mpc' \in {mpc, "failed"} /\ tpc' = tpc /\ mine' = mine /\ error' = error
        /\ pos' = pos \/ pos' = [pos EXCEPT ![Master] = @ + 1]
        /\ ec' \in Code
    BY <1>5, CellErrorType DEF SeqSimple, NextItem
  <2>2. mpc' \in {"start", "pick", "loop", "join", "failed", "end"} /\ pos' \in [Thread -> Nat]
    BY <1>2, <1>9, <2>1
  <2> QED BY <1>1, <1>2, <2>1, <2>2 DEF TypeInv
<1>6. CASE PFSimple(t)
  BY <1>1, <1>2, <1>6, CellErrorType DEF TypeInv, PFSimple
<1>7. CASE PFOneNested(t)
  BY <1>1, <1>2, <1>7 DEF TypeInv, PFOneNested
<1>8. CASE PFBothNested(t)
  <2>1. /\ arg' = arg /\ mpc' = mpc /\ mine' = mine /\ error' = error /\ ec' = ec
        /\ pos' = pos \/ pos' = [pos EXCEPT ![t] = @ + 1]
        /\ tpc' = tpc \/ tpc' = [tpc EXCEPT ![t] = "idle"]
    BY <1>8 DEF PFBothNested
  <2>2. tpc' \in [Thread -> {"item", "test", "idle"}] /\ pos' \in [Thread -> Nat]
    BY <1>2, <1>9, <2>1
  <2> QED BY <1>1, <1>2, <2>1, <2>2 DEF TypeInv
<1> QED BY <1>3, <1>4, <1>5, <1>6, <1>7, <1>8 DEF Computes

LEMMA MovesTypes ==
  ASSUME Inv, Moves
  PROVE  TypeInv' /\ heap' = heap
<1>1. /\ arg \in Calls /\ mpc \in {"start", "pick", "loop", "join", "failed", "end"}
      /\ heap \in Seq(HeapValue) /\ jobs \in [Thread -> Seq(Job)]
      /\ tpc \in [Thread -> {"item", "test", "idle"}] /\ pos \in [Thread -> Nat]
      /\ mine \in [Thread -> Code] /\ error \in Code /\ ec \in Code /\ Master \in Thread
  BY CoresType DEF Inv, TypeInv
<1>2. ASSUME NEW t \in Thread, PickJob(t) PROVE TypeInv' /\ heap' = heap
  <2>1. job' = jobs[t][Len(jobs[t])] /\ jobs[t] # <<>>
    BY <1>2 DEF PickJob, FirstWithJob
  <2>2. jobs[t] \in Seq(Job) /\ Len(jobs[t]) \in DOMAIN jobs[t]
    BY <1>1, <2>1
  <2>3. IsJob(job') /\ heap' = heap
    BY <1>2, <2>1, <2>2 DEF Inv, JobsInv, PickJob
  <2>4. jobs' \in [Thread -> Seq(Job)]
    BY <1>1, <1>2, <2>2 DEF PickJob
  <2>5. Length(job') \in Nat
    BY <1>1, <2>3, HeapTypes DEF IsJob, Length
  <2>7. pos' \in [Thread -> Nat]
    <3>1. \A u \in Thread : SliceFirst(u, Length(job')) \in Nat
      BY <2>5, SlicesDisjoint
    <3>2. \/ pos' = [u \in Thread |-> SliceFirst(u, Length(job'))]
          \/ pos' = [pos EXCEPT ![Master] = 0]
      BY <1>2 DEF PickJob
    <3>3. /\ [u \in Thread |-> SliceFirst(u, Length(job'))] \in [Thread -> Nat]
          /\ [pos EXCEPT ![Master] = 0] \in [Thread -> Nat]
      BY <1>1, <3>1
    <3> QED BY <3>2, <3>3
  <2>8. /\ arg' = arg /\ mpc' \in {"join", "loop"} /\ mine' = mine /\ ec' = ec
        /\ tpc' = tpc \/ tpc' = [u \in Thread |-> "item"]
        /\ error' = OK
    BY <1>2 DEF PickJob
  <2> QED BY <1>1, <2>3, <2>4, <2>7, <2>8 DEF TypeInv, Code
<1>3. AllDone => TypeInv' /\ heap' = heap
  BY <1>1 DEF AllDone, TypeInv
<1>4. Throw => TypeInv' /\ heap' = heap
  BY <1>1 DEF Throw, TypeInv, NoJobs
<1>5. SeqEnd => TypeInv' /\ heap' = heap
  BY <1>1 DEF SeqEnd, TypeInv
<1>6. Join => TypeInv' /\ heap' = heap
  <2> SUFFICES ASSUME Join PROVE TypeInv' /\ heap' = heap
    OBVIOUS
  <2>1. mpc' \in {"pick", "failed"} /\ ec' = error /\ UNCHANGED <<arg, heap, error, jobs, tpc, pos, mine>>
    BY DEF Join
  <2>2. mpc' \in {"start", "pick", "loop", "join", "failed", "end"}
    BY <2>1
  <2> QED BY <1>1, <2>1, <2>2 DEF TypeInv
<1>7. StartError => TypeInv' /\ heap' = heap
  <2>1. Conforming(arg.A.shape, arg.B.shape).ec \in Code
    BY ArgFacts, ConformingFacts
  <2> QED BY <1>1, <2>1 DEF StartError, TypeInv
<1>8. StartEmpty => TypeInv' /\ heap' = heap
  BY <1>1 DEF StartEmpty, TypeInv
<1>9. ASSUME NEW t \in Thread, PFTest(t) \/ PFEnd(t) PROVE TypeInv' /\ heap' = heap
  <2>1. /\ UNCHANGED <<arg, mpc, heap, job, error, ec, jobs, mine>>
        /\ tpc' = [tpc EXCEPT ![t] = "idle"] \/ tpc' = [tpc EXCEPT ![t] = "item"]
        /\ pos' = pos \/ pos' = [pos EXCEPT ![t] = @ + 1]
    BY <1>9 DEF PFTest, PFEnd
  <2>2. tpc' \in [Thread -> {"item", "test", "idle"}]
    <3>1. \A x \in {"item", "test", "idle"} :
            [tpc EXCEPT ![t] = x] \in [Thread -> {"item", "test", "idle"}]
      BY <1>1
    <3> QED BY <1>1, <2>1, <3>1
  <2>3. pos' \in [Thread -> Nat]
    <3>1. [pos EXCEPT ![t] = @ + 1] \in [Thread -> Nat]
      BY <1>1
    <3> QED BY <1>1, <2>1, <3>1
  <2> QED BY <1>1, <2>1, <2>2, <2>3 DEF TypeInv
<1> QED BY <1>2, <1>3, <1>4, <1>5, <1>6, <1>7, <1>8, <1>9 DEF Moves

\* the first value
LEMMA StartJobFacts ==
  ASSUME Inv, StartJob
  PROVE  LET c == Conforming(arg.A.shape, arg.B.shape)
             v == NewValue(c.shape, arg.A, arg.B)
         IN  /\ c.ec = OK /\ New(c.shape, arg.A, arg.B)
             /\ heap' = <<v>> /\ v \in HeapValue /\ WellFormed(v)
             /\ jobs' = [NoJobs EXCEPT ![Master] = <<[z |-> 1, A |-> arg.A, B |-> arg.B]>>]
<1> DEFINE c == Conforming(arg.A.shape, arg.B.shape)
           v == NewValue(c.shape, arg.A, arg.B)
<1>1. /\ c.ec = OK /\ Volume(c.shape) > 0 /\ heap' = <<v>>
      /\ jobs' = [jobs EXCEPT ![Master] = <<[z |-> 1, A |-> arg.A, B |-> arg.B]>>]
      /\ jobs = NoJobs
  BY DEF StartJob, Inv, ControlInv
<1>2. Volume(c.shape) \in Nat
  BY <1>1, ArgFacts, ConformingFacts
<1>3. New(c.shape, arg.A, arg.B)
  BY <1>1, <1>2, ArgFacts, NewConforming
<1> HIDE DEF c
<1>4. v \in HeapValue /\ WellFormed(v)
  BY <1>3, NewValueFacts DEF WellFormed, New
<1> QED BY <1>1, <1>3, <1>4 DEF c

LEMMA StepTypes ==
  ASSUME Inv, [Next]_vars
  PROVE  TypeInv' /\ HeapInv'
<1> USE DEF HeapInv
<1>1. TypeInv /\ HeapInv
  BY DEF Inv
<1>2. ASSUME NEW t \in Thread, Computes(t) PROVE TypeInv' /\ HeapInv'
  BY <1>2, ComputesTypes, ComputesEffect, EffectOnHeap
<1>3. Moves => TypeInv' /\ HeapInv'
  BY <1>1, MovesTypes
<1>4. ASSUME StartJob PROVE TypeInv' /\ HeapInv'
  <2>1. PICK v \in HeapValue : heap' = <<v>> /\ WellFormed(v)
    BY <1>4, StartJobFacts
  <2>2. HeapInv' /\ heap' \in Seq(HeapValue)
    BY <2>1
  <2>3. [z |-> 1, A |-> arg.A, B |-> arg.B] \in Job
    BY ArgFacts DEF Job
  <2>4. jobs' \in [Thread -> Seq(Job)]
    <3>1. <<[z |-> 1, A |-> arg.A, B |-> arg.B]>> \in Seq(Job)
      BY <2>3
    <3> QED BY <1>1, <1>4, <3>1 DEF StartJob, TypeInv
  <2> QED BY <1>1, <1>4, <2>2, <2>4 DEF StartJob, TypeInv
<1>5. ASSUME Again PROVE TypeInv' /\ HeapInv'
  BY <1>1, <1>5 DEF Again, TypeInv, Code
<1>6. ASSUME UNCHANGED vars PROVE TypeInv' /\ HeapInv'
  BY <1>1, <1>6 DEF vars, TypeInv, WellFormed, Extends
<1> QED BY <1>2, <1>3, <1>4, <1>5, <1>6, Steps

-----------------------------------------------------------------------------
(* The job lists.                                                          *)

\* the job of a new value
Added(t, e) ==
  \A u \in Thread :
    /\ \A i \in DOMAIN jobs[u] : i \in DOMAIN jobs'[u] /\ jobs'[u][i] = jobs[u][i]
    /\ \A i \in DOMAIN jobs'[u] :
         \/ i \in DOMAIN jobs[u] /\ jobs'[u][i] = jobs[u][i]
         \/ u = t /\ i = Len(jobs[t]) + 1 /\ jobs'[u][i] = e
    /\ u = t => Len(jobs[t]) + 1 \in DOMAIN jobs'[u] /\ jobs'[u][Len(jobs[t]) + 1] = e

LEMMA JobAdded ==
  ASSUME Inv, NEW t \in Thread, NEW e \in Job, jobs' = [jobs EXCEPT ![t] = Append(@, e)]
  PROVE  Added(t, e)
<1>1. jobs \in [Thread -> Seq(Job)]
  BY DEF Inv, TypeInv
<1>2. \A u \in Thread : u # t => jobs'[u] = jobs[u]
  BY <1>1
<1>3. jobs'[t] = Append(jobs[t], e) /\ jobs[t] \in Seq(Job)
  BY <1>1
<1>4. /\ DOMAIN jobs'[t] = DOMAIN jobs[t] \cup {Len(jobs[t]) + 1}
      /\ jobs'[t][Len(jobs[t]) + 1] = e
      /\ \A i \in DOMAIN jobs[t] : jobs'[t][i] = jobs[t][i]
  BY <1>3
<1> QED BY <1>2, <1>4 DEF Added

LEMMA EffectOnJobs ==
  ASSUME Inv, NEW t \in Thread, Active(t), Effect(t)
  PROVE  /\ \A u \in Thread : \A i \in DOMAIN jobs'[u] : IsJob(jobs[u][i])'
         /\ \A u, w \in Thread : \A i \in DOMAIN jobs'[u], k \in DOMAIN jobs'[w] :
              jobs'[u][i].z = jobs'[w][k].z => u = w /\ i = k
         /\ \A h \in DOMAIN heap : Queued(h)' <=> Queued(h)
         /\ \A h \in DOMAIN heap' : h \notin DOMAIN heap => Queued(h)'
<1> USE DEF IsJob, Queued
<1>1. /\ \A u \in Thread : \A i \in DOMAIN jobs[u] : IsJob(jobs[u][i])
      /\ \A u, w \in Thread : \A i \in DOMAIN jobs[u], k \in DOMAIN jobs[w] :
              jobs[u][i].z = jobs[w][k].z => u = w /\ i = k
      /\ heap \in Seq(HeapValue)
  BY DEF Inv, JobsInv, TypeInv
<1>2. /\ \A h \in DOMAIN heap : /\ h \in DOMAIN heap'
                                /\ heap'[h].A = heap[h].A /\ heap'[h].B = heap[h].B
      /\ heap' \in Seq(HeapValue)
  BY EffectOnHeap DEF Grows, Same
<1>3. CASE jobs' = jobs /\ DOMAIN heap' = DOMAIN heap
  BY <1>1, <1>2, <1>3
<1>4. ASSUME NEW shape, NEW A, NEW B, New(shape, A, B), AddJob(t, t, shape, A, B)
      PROVE  /\ \A u \in Thread : \A i \in DOMAIN jobs'[u] : IsJob(jobs[u][i])'
             /\ \A u, w \in Thread : \A i \in DOMAIN jobs'[u], k \in DOMAIN jobs'[w] :
                  jobs'[u][i].z = jobs'[w][k].z => u = w /\ i = k
             /\ \A h \in DOMAIN heap : Queued(h)' <=> Queued(h)
             /\ \A h \in DOMAIN heap' : h \notin DOMAIN heap => Queued(h)'
  <2> DEFINE id == Len(heap) + 1
             e == [z |-> id, A |-> A, B |-> B]
  <2>1. /\ Wrote(heap, heap', job.z, pos[t] + 1, Pointer(id)) /\ Len(heap') = id
        /\ heap'[id] = NewValue(shape, A, B)
        /\ jobs' = [jobs EXCEPT ![t] = Append(@, e)]
    BY <1>4, AddJobFacts
  <2>2. id \in Nat /\ id \notin DOMAIN heap /\ DOMAIN heap' = DOMAIN heap \cup {id}
    BY <1>1, <1>2, <2>1
  <2>3. heap'[id].A = A /\ heap'[id].B = B
    BY <1>4, <2>1, NewValueFacts DEF New
  <2>4. e \in Job /\ e.z = id /\ e.A = A /\ e.B = B
    BY <1>4, <2>2 DEF Job, New
  <2> HIDE DEF id, e
  <2>11. Added(t, e)
    BY <2>1, <2>4, JobAdded
  <2>5. \A u \in Thread :
           /\ \A i \in DOMAIN jobs[u] : i \in DOMAIN jobs'[u] /\ jobs'[u][i] = jobs[u][i]
           /\ \A i \in DOMAIN jobs'[u] :
                \/ i \in DOMAIN jobs[u] /\ jobs'[u][i] = jobs[u][i]
                \/ u = t /\ i = Len(jobs[t]) + 1 /\ jobs'[u][i] = e
           /\ u = t => Len(jobs[t]) + 1 \in DOMAIN jobs'[u] /\ jobs'[u][Len(jobs[t]) + 1] = e
    BY <2>11 DEF Added
  <2>6. \A u \in Thread : \A i \in DOMAIN jobs'[u] : IsJob(jobs[u][i])'
    <3> SUFFICES ASSUME NEW u \in Thread, NEW i \in DOMAIN jobs'[u]
                 PROVE  IsJob(jobs[u][i])'
      OBVIOUS
    <3>1. CASE i \in DOMAIN jobs[u] /\ jobs'[u][i] = jobs[u][i]
      BY <1>1, <1>2, <3>1
    <3>2. CASE jobs'[u][i] = e
      BY <2>2, <2>3, <2>4, <3>2
    <3> QED BY <2>5, <3>1, <3>2
  <2>7. \A u, w \in Thread : \A i \in DOMAIN jobs'[u], k \in DOMAIN jobs'[w] :
                  jobs'[u][i].z = jobs'[w][k].z => u = w /\ i = k
    <3> SUFFICES ASSUME NEW u \in Thread, NEW w \in Thread,
                        NEW i \in DOMAIN jobs'[u], NEW k \in DOMAIN jobs'[w],
                        jobs'[u][i].z = jobs'[w][k].z
                 PROVE  u = w /\ i = k
      OBVIOUS
    <3> QED BY <1>1, <2>2, <2>4, <2>5
  <2>8. \A h \in DOMAIN heap : Queued(h)' <=> Queued(h)
    BY <2>2, <2>4, <2>5
  <2>9. \E u \in Thread : \E i \in DOMAIN jobs'[u] : jobs'[u][i].z = id
    <3>1. Len(jobs[t]) + 1 \in DOMAIN jobs'[t] /\ jobs'[t][Len(jobs[t]) + 1] = e
      BY <2>5
    <3> QED BY <2>4, <3>1
  <2>10. \A h \in DOMAIN heap' : h \notin DOMAIN heap => Queued(h)'
    BY <2>2, <2>9
  <2> QED BY <2>6, <2>7, <2>8, <2>10
<1>5. ASSUME NEW c \in Cell, heap' = SetZ(heap, t, c) PROVE DOMAIN heap' = DOMAIN heap
  BY <1>1, <1>2, <1>5, SetZFacts
<1>6. ASSUME NEW c \in Cell, heap' = NextRavel(heap, c) PROVE DOMAIN heap' = DOMAIN heap
  BY <1>1, <1>2, <1>6, NextRavelFacts, ActiveFacts
<1> QED BY <1>3, <1>4, <1>5, <1>6 DEF Effect

\* what happens to the current job while it is computed
LEMMA ComputesJob ==
  ASSUME Inv, NEW t \in Thread, Computes(t)
  PROVE  /\ Working /\ arg' = arg /\ result' = result
         /\ mpc' = "failed" \/ (mpc' = mpc /\ job' = job /\ Working')
<1>1. Working
  BY ComputesEffect, ActiveFacts
<1>2. CASE PFSimple(t) \/ PFOneNested(t) \/ PFBothNested(t)
  BY <1>1, <1>2 DEF PFSimple, PFOneNested, PFBothNested, Working
<1>3. CASE SeqBothNested \/ SeqOneNested \/ SeqSimple
  BY <1>1, <1>3 DEF SeqBothNested, SeqOneNested, SeqSimple, Working
<1> QED BY <1>1, <1>2, <1>3 DEF Computes

\* the job of an active thread is not queued again
LEMMA StepJobs ==
  ASSUME Inv, [Next]_vars
  PROVE  JobsInv'
<1>1. /\ \A u \in Thread : \A i \in DOMAIN jobs[u] : IsJob(jobs[u][i])
      /\ \A u, w \in Thread : \A i \in DOMAIN jobs[u], k \in DOMAIN jobs[w] :
              jobs[u][i].z = jobs[w][k].z => u = w /\ i = k
      /\ Working => job \in Job /\ IsJob(job) /\ ~Queued(job.z)
      /\ jobs \in [Thread -> Seq(Job)] /\ heap \in Seq(HeapValue)
  BY DEF Inv, JobsInv, TypeInv
<1>2. ASSUME NEW t \in Thread, Computes(t) PROVE JobsInv'
  <2>1. /\ \A u \in Thread : \A i \in DOMAIN jobs'[u] : IsJob(jobs[u][i])'
        /\ \A u, w \in Thread : \A i \in DOMAIN jobs'[u], k \in DOMAIN jobs'[w] :
              jobs'[u][i].z = jobs'[w][k].z => u = w /\ i = k
        /\ \A h \in DOMAIN heap : Queued(h)' <=> Queued(h)
    BY <1>2, ComputesEffect, EffectOnJobs
  <2>2. Working' => job' = job /\ Working
    BY <1>2, ComputesJob DEF Working
  <2>3. Working' => job' \in Job /\ IsJob(job)' /\ ~Queued(job.z)'
    <3> SUFFICES ASSUME Working' PROVE job' \in Job /\ IsJob(job)' /\ ~Queued(job.z)'
      OBVIOUS
    <3>1. job' = job /\ job \in Job /\ IsJob(job) /\ ~Queued(job.z)
      BY <1>1, <2>2
    <3>2. IsJob(job)'
      BY <1>2, <3>1, ComputesEffect, EffectOnHeap DEF Grows, Same, IsJob
    <3>3. job.z \in DOMAIN heap
      BY <3>1 DEF IsJob
    <3>4. ~Queued(job.z)'
      BY <2>1, <3>1, <3>3 DEF Queued
    <3> QED BY <3>1, <3>2, <3>4
  <2> QED BY <2>1, <2>3 DEF JobsInv
<1>3. ASSUME heap' = heap, jobs' = jobs \/ jobs' = NoJobs, Working' => Working /\ job' = job
      PROVE  JobsInv'
  <2>1. CASE jobs' = jobs
    BY <1>1, <1>3, <2>1 DEF JobsInv, IsJob, Queued
  <2>2. CASE jobs' = NoJobs
    <3>1. \A u \in Thread : DOMAIN jobs'[u] = {}
      BY <2>2 DEF NoJobs
    <3> QED BY <1>1, <1>3, <3>1 DEF JobsInv, IsJob, Queued
  <2> QED BY <1>3, <2>1, <2>2
<1>4. ASSUME NEW t \in Thread, PickJob(t) PROVE JobsInv'
  <2> DEFINE n == Len(jobs[t])
  <2>1. /\ jobs[t] # <<>> /\ job' = jobs[t][n] /\ heap' = heap
        /\ jobs' = [jobs EXCEPT ![t] = SubSeq(@, 1, Len(@) - 1)]
    BY <1>4 DEF PickJob, FirstWithJob
  <2>2. n \in DOMAIN jobs[t] /\ jobs[t] \in Seq(Job)
    BY <1>1, <2>1
  <2>3. \A u \in Thread : \A i \in DOMAIN jobs'[u] :
           i \in DOMAIN jobs[u] /\ jobs'[u][i] = jobs[u][i] /\ ~(u = t /\ i = n)
    <3>1. /\ jobs'[t] = SubSeq(jobs[t], 1, n - 1)
          /\ \A u \in Thread : u # t => jobs'[u] = jobs[u]
      BY <1>1, <2>1
    <3>2. \A i \in DOMAIN jobs'[t] :
            i \in DOMAIN jobs[t] /\ jobs'[t][i] = jobs[t][i] /\ i # n
      BY <2>2, <3>1
    <3> QED BY <3>1, <3>2
  <2> HIDE DEF n
  <2>4. job' \in Job /\ IsJob(job')
    BY <1>1, <2>1, <2>2
  <2>5. ~Queued(job.z)'
    BY <1>1, <2>1, <2>2, <2>3 DEF Queued
  <2>6. /\ \A u \in Thread : \A i \in DOMAIN jobs'[u] : IsJob(jobs[u][i])'
        /\ \A u, w \in Thread : \A i \in DOMAIN jobs'[u], k \in DOMAIN jobs'[w] :
              jobs'[u][i].z = jobs'[w][k].z => u = w /\ i = k
    BY <1>1, <2>1, <2>3 DEF IsJob
  <2>7. IsJob(job)'
    BY <2>1, <2>4 DEF IsJob
  <2> QED BY <2>4, <2>5, <2>6, <2>7 DEF JobsInv
<1>5. AllDone \/ Throw \/ SeqEnd \/ Join \/ StartError \/ StartEmpty => JobsInv'
  BY <1>3 DEF AllDone, Throw, SeqEnd, Join, StartError, StartEmpty, Working
<1>6. ASSUME NEW t \in Thread, PFTest(t) \/ PFEnd(t) PROVE JobsInv'
  BY <1>3, <1>6 DEF PFTest, PFEnd, Working
<1>7. ASSUME StartJob PROVE JobsInv'
  <2> DEFINE e == [z |-> 1, A |-> arg.A, B |-> arg.B]
  <2>1. PICK v : heap' = <<v>> /\ v.A = arg.A /\ v.B = arg.B
    BY <1>7, StartJobFacts, NewValueFacts DEF New
  <2>2. jobs' = [NoJobs EXCEPT ![Master] = <<e>>] /\ ~Working'
    BY <1>7, StartJobFacts DEF StartJob, Working
  <2>3. e.z = 1 /\ e.A = arg.A /\ e.B = arg.B
    OBVIOUS
  <2> HIDE DEF e
  <2>4. \A u \in Thread : jobs'[u] = IF u = Master THEN <<e>> ELSE <<>>
    BY <2>2, CoresType DEF NoJobs
  <2>5. \A u \in Thread : \A i \in DOMAIN jobs'[u] : u = Master /\ i = 1 /\ jobs'[u][i] = e
    BY <2>4
  <2> QED BY <2>1, <2>2, <2>3, <2>5 DEF JobsInv, IsJob
<1>8. ASSUME Again PROVE JobsInv'
  <2>1. jobs' = NoJobs /\ ~Working'
    BY <1>8 DEF Again, Working, Inv, ControlInv
  <2>2. \A u \in Thread : DOMAIN jobs'[u] = {}
    BY <2>1 DEF NoJobs
  <2> QED BY <2>1, <2>2 DEF JobsInv
<1>9. ASSUME UNCHANGED vars PROVE JobsInv'
  BY <1>3, <1>9 DEF vars, Working
<1> QED BY <1>2, <1>4, <1>5, <1>6, <1>7, <1>8, <1>9, Steps DEF Moves

-----------------------------------------------------------------------------
(* Where the master and the threads are.                                   *)

LEMMA SameJob ==
  ASSUME Inv, Working, Grows, job' = job, arg' = arg
  PROVE  /\ Length(job)' = Length(job) /\ job.z \in DOMAIN heap'
         /\ Shared(heap[job.z])' <=> Shared(heap[job.z])
         /\ \A t : First(t)' = First(t) /\ Last(t)' = Last(t)
         /\ \A z : CellFails(heap[job.z], z)' <=> CellFails(heap[job.z], z)
         /\ JobFails => JobFails'
<1>1. job.z \in DOMAIN heap
  BY JobFacts
<1>2. job.z \in DOMAIN heap' /\ Same(heap'[job.z], heap[job.z])
  BY <1>1 DEF Grows
<1>3. Length(job)' = Length(job)
  BY <1>2 DEF Length, Same
<1>4. Shared(heap[job.z])' <=> Shared(heap[job.z])
  BY <1>2 DEF Shared, Same
<1>5. \A t : First(t)' = First(t) /\ Last(t)' = Last(t)
  BY <1>3 DEF First, Last
<1>6. \A z : CellFails(heap[job.z], z)' <=> CellFails(heap[job.z], z)
  BY <1>2, SameFacts
<1>7. JobFails => JobFails'
  BY <1>3, <1>6 DEF JobFails
<1> QED BY <1>2, <1>3, <1>4, <1>5, <1>6, <1>7

\* a thread that computes a cell of a shared job
LEMMA PFControl ==
  ASSUME Inv, NEW t \in Thread, PFSimple(t) \/ PFOneNested(t) \/ PFBothNested(t)
  PROVE  /\ mpc = "join" /\ mpc' = mpc /\ job' = job /\ arg' = arg /\ ec' = ec
         /\ pos[t] < Last(t) /\ tpc[t] = "item"
         /\ \/ pos' = pos /\ tpc' \in { [tpc EXCEPT ![t] = x] : x \in {"test", "idle"} }
            \/ pos' = [pos EXCEPT ![t] = @ + 1] /\ tpc' = tpc
<1>1. InSlice(t)
  BY DEF PFSimple, PFOneNested, PFBothNested
<1>2. mpc = "join" /\ Working
  BY <1>1, PFActive DEF Working
<1>3. pos[t] \in Nat /\ Last(t) \in Nat
  BY <1>2, SliceFacts DEF Inv, TypeInv
<1>4. pos[t] < Last(t) /\ tpc[t] = "item"
  BY <1>1, <1>3 DEF InSlice, AtEnd, Last
<1> QED BY <1>2, <1>4 DEF PFSimple, PFOneNested, PFBothNested

\* a thread that moves within a shared job
LEMMA JoinControl ==
  ASSUME Inv, NEW t \in Thread, mpc = "join", mpc' = mpc, job' = job, arg' = arg, Grows,
         pos[t] < Last(t),
         \/ pos' = pos /\ tpc' \in { [tpc EXCEPT ![t] = x] : x \in {"test", "idle"} }
         \/ pos' = [pos EXCEPT ![t] = @ + 1] /\ tpc' \in {tpc, [tpc EXCEPT ![t] = "item"]}
            /\ tpc'[t] = "item"
  PROVE  ControlInv'
<1>1. /\ Shared(heap[job.z])
      /\ \A u \in Thread : First(u) <= pos[u] /\ (tpc[u] = "test" => pos[u] < Last(u))
      /\ tpc \in [Thread -> {"item", "test", "idle"}] /\ pos \in [Thread -> Nat]
  BY DEF Inv, ControlInv, TypeInv
<1>2. Working
  BY DEF Working
<1>3. /\ Shared(heap[job.z])'
      /\ \A u : First(u)' = First(u) /\ Last(u)' = Last(u)
  BY <1>1, <1>2, SameJob
<1>4. \A u \in Thread : First(u) \in Nat /\ Last(u) \in Nat
  BY <1>2, SliceFacts
<1>5. \A u \in Thread \ {t} : pos'[u] = pos[u] /\ tpc'[u] = tpc[u]
  BY <1>1
<1>6. First(t) <= pos'[t] /\ (tpc'[t] = "test" => pos'[t] < Last(t))
  BY <1>1, <1>4
<1>7. \A u \in Thread : First(u)' <= pos'[u] /\ (tpc'[u] = "test" => pos'[u] < Last(u)')
  BY <1>1, <1>3, <1>5, <1>6
<1> QED BY <1>3, <1>7 DEF ControlInv

\* the master at an item of a job of its own
LEMMA SeqControl ==
  ASSUME Inv, SeqBothNested \/ SeqOneNested \/ SeqSimple
  PROVE  /\ mpc = "loop" /\ arg' = arg /\ error' = error /\ tpc' = tpc /\ mine' = mine
         /\ pos[Master] < Length(job)
         /\ \/ mpc' = "failed" /\ heap' = heap /\ jobs' = jobs /\ pos' = pos
            \/ /\ mpc' = mpc /\ job' = job /\ pos' = [pos EXCEPT ![Master] = @ + 1]
               /\ ec' = ec \/ ec' = OK
  BY DEF SeqBothNested, SeqOneNested, SeqSimple, InLoop, NextItem

LEMMA StepControl ==
  ASSUME Inv, [Next]_vars
  PROVE  ControlInv'
<1>1. /\ ControlInv /\ tpc \in [Thread -> {"item", "test", "idle"}] /\ pos \in [Thread -> Nat]
      /\ Master \in Thread /\ heap \in Seq(HeapValue)
  BY CoresType DEF Inv, TypeInv
<1>2. ASSUME NEW t \in Thread, PFSimple(t) \/ PFOneNested(t) \/ PFBothNested(t)
      PROVE  ControlInv'
  <2>1. Grows
    BY <1>2, ComputesEffect, EffectOnHeap DEF Computes
  <2>2. /\ mpc = "join" /\ mpc' = mpc /\ job' = job /\ arg' = arg
        /\ pos[t] < Last(t) /\ tpc[t] = "item"
        /\ \/ pos' = pos /\ tpc' \in { [tpc EXCEPT ![t] = x] : x \in {"test", "idle"} }
           \/ pos' = [pos EXCEPT ![t] = @ + 1] /\ tpc' = tpc
    BY <1>2, PFControl
  <2> QED BY <2>1, <2>2, JoinControl
<1>3. ASSUME SeqBothNested \/ SeqOneNested \/ SeqSimple
      PROVE  ControlInv'
  <2>1. Grows
    BY <1>3, CoresType, ComputesEffect, EffectOnHeap DEF Computes
  <2>2. /\ mpc = "loop" /\ arg' = arg /\ tpc' = tpc /\ pos[Master] < Length(job)
        /\ \/ mpc' = "failed"
           \/ mpc' = mpc /\ job' = job /\ pos' = [pos EXCEPT ![Master] = @ + 1]
    BY <1>3, SeqControl
  <2>3. Working /\ ~Shared(heap[job.z]) /\ \A u \in Thread : tpc[u] = "idle"
    BY <1>1, <2>2 DEF Working, ControlInv
  <2>4. CASE mpc' = "failed"
    BY <2>2, <2>3, <2>4 DEF ControlInv
  <2>5. CASE mpc' = mpc /\ job' = job /\ pos' = [pos EXCEPT ![Master] = @ + 1]
    <3>1. ~Shared(heap[job.z])' /\ Length(job)' = Length(job) /\ Length(job) \in Nat
      BY <2>1, <2>2, <2>3, <2>5, SameJob, JobFacts
    <3>2. pos'[Master] <= Length(job)'
      BY <1>1, <2>2, <2>5, <3>1
    <3> QED BY <2>2, <2>3, <2>5, <3>1, <3>2 DEF ControlInv
  <2> QED BY <2>2, <2>4, <2>5
<1>4. ASSUME NEW t \in Thread, PickJob(t) PROVE ControlInv'
  <2>1. job' = jobs[t][Len(jobs[t])] /\ jobs[t] # <<>> /\ heap' = heap /\ arg' = arg
    BY <1>4 DEF PickJob, FirstWithJob
  <2>2. jobs[t] \in Seq(Job) /\ Len(jobs[t]) \in DOMAIN jobs[t]
    BY <2>1 DEF Inv, TypeInv
  <2>3. job'.z \in DOMAIN heap
    BY <2>1, <2>2 DEF Inv, JobsInv, IsJob
  <2>4. Length(job') = Len(heap'[job'.z].cells) /\ Length(job') \in Nat
    BY <1>1, <2>1, <2>3, HeapTypes DEF Length
  <2>5. Shared(heap[job.z])' <=> MaybeParallel /\ Length(job') > arg.threshold
    BY <2>1, <2>4 DEF Shared, MaybeParallel
  <2>6. \A u : First(u)' = SliceFirst(u, Length(job'))
    BY <2>4 DEF First, Length
  <2>7. CASE Shared(heap[job.z])'
    <3>1. mpc' = "join" /\ tpc' = [u \in Thread |-> "item"]
          /\ pos' = [u \in Thread |-> SliceFirst(u, Length(job'))]
      BY <1>4, <2>5, <2>7 DEF PickJob
    <3>2. \A u \in Thread : pos'[u] = First(u)' /\ tpc'[u] = "item" /\ First(u)' \in Nat
      BY <2>4, <2>6, <3>1, SlicesDisjoint
    <3> QED BY <2>7, <3>1, <3>2 DEF ControlInv
  <2>8. CASE ~Shared(heap[job.z])'
    <3>1. mpc' = "loop" /\ tpc' = tpc /\ pos' = [pos EXCEPT ![Master] = 0] /\ mpc = "pick"
      BY <1>4, <2>5, <2>8 DEF PickJob
    <3>2. pos'[Master] = 0 /\ Length(job)' \in Nat
      BY <1>1, <2>4, <3>1 DEF Length
    <3>3. \A u \in Thread : tpc'[u] = "idle"
      BY <1>1, <3>1 DEF ControlInv
    <3> QED BY <2>8, <3>1, <3>2, <3>3 DEF ControlInv
  <2> QED BY <2>7, <2>8
<1>5. ASSUME AllDone PROVE ControlInv'
  <2>1. jobs = NoJobs
    <3>1. jobs = [u \in Thread |-> jobs[u]]
      BY DEF Inv, TypeInv
    <3> QED BY <1>5, <3>1 DEF AllDone, NoJobs
  <2> QED BY <1>1, <1>5, <2>1 DEF AllDone, ControlInv
<1>6. Throw \/ SeqEnd \/ Join \/ StartError \/ StartEmpty => ControlInv'
  BY <1>1 DEF Throw, SeqEnd, Join, StartError, StartEmpty, ControlInv
<1>7. ASSUME NEW t \in Thread, PFTest(t) PROVE ControlInv'
  <2>1. /\ mpc = "join" /\ mpc' = mpc /\ job' = job /\ arg' = arg /\ heap' = heap
        /\ \/ pos' = pos /\ tpc' = [tpc EXCEPT ![t] = "idle"]
           \/ pos' = [pos EXCEPT ![t] = @ + 1] /\ tpc' = [tpc EXCEPT ![t] = "item"]
    BY <1>7, PFJoins DEF PFTest
  <2>2. pos[t] < Last(t) /\ Grows
    BY <1>1, <1>7, <2>1 DEF PFTest, ControlInv, Grows, Same
  <2>3. tpc' = [tpc EXCEPT ![t] = "item"] => tpc'[t] = "item"
    BY <1>1
  <2> QED BY <2>1, <2>2, <2>3, JoinControl
<1>8. ASSUME NEW t \in Thread, PFEnd(t) PROVE ControlInv'
  <2>1. mpc = "join" /\ UNCHANGED <<arg, mpc, heap, job, pos>> /\ tpc' = [tpc EXCEPT ![t] = "idle"]
    BY <1>8, PFJoins DEF PFEnd
  <2>2. \A u \in Thread : tpc'[u] = "test" => tpc[u] = "test"
    BY <1>1, <2>1
  <2>3. \A u : First(u)' = First(u) /\ Last(u)' = Last(u)
    BY <2>1 DEF First, Last, Length
  <2>4. Shared(heap[job.z])'
    BY <1>1, <2>1 DEF ControlInv, Shared
  <2> QED BY <1>1, <2>1, <2>2, <2>3, <2>4 DEF ControlInv
<1>9. StartJob \/ Again => ControlInv'
  BY <1>1 DEF StartJob, Again, ControlInv
<1>10. ASSUME UNCHANGED vars PROVE ControlInv'
  BY <1>1, <1>10 DEF vars, ControlInv, First, Last, Length, Shared
<1> QED
  BY <1>2, <1>3, <1>4, <1>5, <1>6, <1>7, <1>8, <1>9, <1>10, Steps DEF Computes, Moves

-----------------------------------------------------------------------------
(* The first value, and the reasons of errors.                             *)

LEMMA ComputesGrow ==
  ASSUME Inv, NEW t \in Thread, Computes(t)
  PROVE  Grows /\ Working /\ job.z \in DOMAIN heap /\ arg' = arg /\ result' = result
  BY ComputesEffect, EffectOnHeap, ComputesJob, JobFacts

LEMMA StepFirst ==
  ASSUME Inv, [Next]_vars
  PROVE  FirstInv'
<1> DEFINE c == Conforming(arg.A.shape, arg.B.shape)
           F == c.ec = OK /\ heap[1].shape = c.shape /\ heap[1].A = arg.A /\ heap[1].B = arg.B
<1>1. /\ heap # <<>> => F
      /\ mpc \in {"pick", "loop", "join"} => heap # <<>>
      /\ (mpc = "end" /\ result.ec = OK /\ heap = <<>>) => c.ec = OK /\ Volume(c.shape) = 0
      /\ heap \in Seq(HeapValue)
  BY DEF Inv, FirstInv, TypeInv
<1>2. ASSUME NEW t \in Thread, Computes(t) PROVE FirstInv'
  <2>1. Grows /\ Working /\ job.z \in DOMAIN heap /\ arg' = arg
    BY <1>2, ComputesGrow
  <2>2. heap # <<>> /\ 1 \in DOMAIN heap
    BY <1>1, <2>1, HeapTypes
  <2>3. 1 \in DOMAIN heap' /\ Same(heap'[1], heap[1])
    BY <2>1, <2>2 DEF Grows
  <2>4. heap' # <<>>
    BY <2>3
  <2>5. F'
    BY <1>1, <2>1, <2>2, <2>3 DEF Same
  <2> HIDE DEF c, F
  <2> QED BY <2>4, <2>5 DEF FirstInv, c, F
<1>3. ASSUME UNCHANGED <<arg, heap>>, mpc' \in {"pick", "loop", "join"} => heap # <<>>,
             (mpc' = "end" /\ result'.ec = OK /\ heap = <<>>) => c.ec = OK /\ Volume(c.shape) = 0
      PROVE  FirstInv'
  BY <1>1, <1>3 DEF FirstInv
<1>4. ASSUME NEW t \in Thread, PickJob(t) PROVE FirstInv'
  BY <1>1, <1>3, <1>4 DEF PickJob
<1>5. ASSUME NEW t \in Thread, PFTest(t) \/ PFEnd(t) PROVE FirstInv'
  BY <1>1, <1>3, <1>5 DEF PFTest, PFEnd
<1>6. AllDone \/ StartEmpty \/ StartError \/ SeqEnd \/ Join => FirstInv'
  BY <1>1, <1>3 DEF AllDone, StartEmpty, StartError, SeqEnd, Join
<1>7. ASSUME Throw PROVE FirstInv'
  <2>1. result'.ec # OK
    BY <1>7 DEF Throw, Inv, ErrorInv
  <2> QED BY <1>3, <1>7, <2>1 DEF Throw
<1>8. ASSUME StartJob PROVE FirstInv'
  <2>1. PICK v : heap' = <<v>> /\ v.shape = c.shape /\ v.A = arg.A /\ v.B = arg.B
    BY <1>8, StartJobFacts, NewValueFacts DEF New
  <2>2. c.ec = OK /\ arg' = arg /\ mpc' = "pick"
    BY <1>8, StartJobFacts DEF StartJob
  <2>3. heap' # <<>> /\ heap'[1] = v
    BY <2>1
  <2> QED BY <2>1, <2>2, <2>3 DEF FirstInv
<1>9. Again => FirstInv'
  BY DEF Again, FirstInv
<1>10. ASSUME UNCHANGED vars PROVE FirstInv'
  BY <1>1, <1>3, <1>10 DEF vars
<1> QED BY <1>2, <1>4, <1>5, <1>6, <1>7, <1>8, <1>9, <1>10, Steps DEF Moves

LEMMA FailsStays ==
  ASSUME Inv, Grows, arg' = arg
  PROVE  SomethingFails => SomethingFails'
<1> SUFFICES ASSUME SomethingFails PROVE SomethingFails'
  OBVIOUS
<1>1. ASSUME NEW h \in DOMAIN heap, NEW z \in DOMAIN heap[h].cells, Fails(heap[h], z)
      PROVE  SomethingFails'
  <2>1. h \in DOMAIN heap' /\ Same(heap'[h], heap[h])
    BY DEF Grows
  <2>2. z \in DOMAIN heap'[h].cells /\ Fails(heap'[h], z)
    BY <1>1, <2>1, SameFacts DEF Same
  <2>3. Fails(heap[h], z)'
    BY <2>2 DEF Fails, CellFails, BothSimple, BothNested, OfA, OfB, Inner
  <2> QED BY <2>1, <2>2, <2>3 DEF SomethingFails
<1>2. CASE Conforming(arg.A.shape, arg.B.shape).ec # OK
  BY <1>2 DEF SomethingFails
<1> QED BY <1>1, <1>2 DEF SomethingFails

\* a pair of simple items for which the function fails
LEMMA CellFailure ==
  ASSUME Inv, NEW t \in Thread, Active(t), ~IsNested(ItemA(t)), ~IsNested(ItemB(t)),
         CellError(ItemA(t), ItemB(t)) # OK
  PROVE  JobFails /\ SomethingFails
<1>1. /\ pos[t] + 1 \in 1 .. Length(job) /\ job.z \in DOMAIN heap
      /\ pos[t] + 1 \in DOMAIN heap[job.z].cells
  BY ActiveFacts, JobFacts
<1>2. CellFails(heap[job.z], pos[t] + 1)
  BY ActiveFacts DEF CellFails, BothSimple
<1> QED BY <1>1, <1>2 DEF JobFails, SomethingFails, Fails

LEMMA JobFailure ==
  ASSUME Inv, Working, JobFails
  PROVE  SomethingFails
  BY JobFacts DEF JobFails, SomethingFails, Fails

LEMMA StepErrors ==
  ASSUME Inv, [Next]_vars
  PROVE  ErrorInv'
<1>1. /\ ErrorInv /\ tpc \in [Thread -> {"item", "test", "idle"}] /\ mine \in [Thread -> Code]
      /\ Master \in Thread /\ heap \in Seq(HeapValue)
  BY CoresType DEF Inv, TypeInv
<1>2. ASSUME NEW t \in Thread, PFSimple(t) \/ PFOneNested(t) \/ PFBothNested(t)
      PROVE  ErrorInv'
  <2>1. Grows /\ Working /\ arg' = arg /\ mpc = "join" /\ mpc' = mpc /\ job' = job /\ ec' = ec
    BY <1>2, ComputesGrow, PFControl DEF Computes
  <2>2. JobFails => JobFails'
    BY <2>1, SameJob
  <2>3. CASE PFSimple(t)
    <3>1. error' = CellError(ItemA(t), ItemB(t)) /\ mine' = [mine EXCEPT ![t] = error']
          /\ tpc' = [tpc EXCEPT ![t] = "test"] /\ ~IsNested(ItemA(t)) /\ ~IsNested(ItemB(t))
          /\ InSlice(t)
      BY <2>3 DEF PFSimple
    <3>2. error' # OK => JobFails
      BY <3>1, PFActive, CellFailure
    <3>3. \A u \in Thread : (tpc'[u] = "test" /\ mine'[u] # OK) => JobFails
      BY <1>1, <2>1, <3>1, <3>2 DEF ErrorInv
    <3> QED BY <2>1, <2>2, <3>2, <3>3 DEF ErrorInv
  <2>4. CASE PFOneNested(t) \/ PFBothNested(t)
    <3>1. error' = error /\ mine' = mine /\ tpc' \in {tpc, [tpc EXCEPT ![t] = "idle"]}
      BY <2>4 DEF PFOneNested, PFBothNested
    <3>2. \A u \in Thread : tpc'[u] = "test" => tpc[u] = "test"
      BY <1>1, <3>1
    <3> QED BY <1>1, <2>1, <2>2, <3>1, <3>2 DEF ErrorInv
  <2> QED BY <1>2, <2>3, <2>4
<1>3. ASSUME SeqBothNested \/ SeqOneNested \/ SeqSimple
      PROVE  ErrorInv'
  <2>1. Grows /\ Working /\ arg' = arg /\ mpc = "loop" /\ Active(Master)
    BY <1>1, <1>3, ComputesGrow, ComputesEffect, SeqControl DEF Computes
  <2>2. CASE mpc' = "failed"
    <3>1. ec' # OK /\ SomethingFails
      <4>1. CASE SeqSimple
        <5>1. ec' = CellError(ItemA(Master), ItemB(Master)) /\ ec' # OK
              /\ ~IsNested(ItemA(Master)) /\ ~IsNested(ItemB(Master))
          BY <2>1, <2>2, <4>1 DEF SeqSimple
        <5> QED BY <1>1, <2>1, <5>1, CellFailure
      <4>2. CASE SeqBothNested
        <5>1. /\ IsNested(ItemA(Master)) /\ IsNested(ItemB(Master)) /\ ec' # OK
              /\ ec' = Conforming(ItemB(Master).val.shape, ItemA(Master).val.shape).ec
          BY <2>1, <2>2, <4>2 DEF SeqBothNested
        <5>2. /\ job.z \in DOMAIN heap /\ pos[Master] + 1 \in DOMAIN heap[job.z].cells
              /\ Fails(heap[job.z], pos[Master] + 1)
          BY <1>1, <2>1, <5>1, ActiveFacts, JobFacts DEF Fails, BothNested, Inner
        <5> QED BY <5>1, <5>2 DEF SomethingFails
      <4>3. ~SeqOneNested
        BY <2>1, <2>2 DEF SeqOneNested
      <4> QED BY <1>3, <4>1, <4>2, <4>3
    <3> QED BY <2>1, <2>2, <3>1, FailsStays DEF ErrorInv
  <2>3. CASE mpc' # "failed"
    BY <1>1, <1>3, <2>1, <2>3, SeqControl DEF ErrorInv
  <2> QED BY <2>2, <2>3
<1>4. ASSUME NEW t \in Thread, PickJob(t) PROVE ErrorInv'
  <2>1. /\ error' = OK /\ ec' = ec /\ mpc = "pick" /\ mpc' \in {"join", "loop"}
        /\ mpc' = "join" => tpc' = [u \in Thread |-> "item"]
    BY <1>4 DEF PickJob
  <2> QED BY <1>1, <2>1 DEF ErrorInv
<1>5. ASSUME NEW t \in Thread, PFTest(t) \/ PFEnd(t) PROVE ErrorInv'
  <2>1. /\ UNCHANGED <<arg, mpc, heap, job, error, ec, mine>> /\ mpc = "join"
        /\ tpc' \in { [tpc EXCEPT ![t] = x] : x \in {"idle", "item"} }
    BY <1>1, <1>5, PFJoins DEF PFTest, PFEnd
  <2>2. \A u \in Thread : tpc'[u] = "test" => tpc[u] = "test"
    BY <1>1, <2>1
  <2>3. JobFails' <=> JobFails
    BY <2>1 DEF JobFails, Length, CellFails, BothSimple, OfA, OfB
  <2> QED BY <1>1, <2>1, <2>2, <2>3 DEF ErrorInv
<1>6. Again \/ StartJob \/ SeqEnd \/ StartEmpty \/ AllDone => ErrorInv'
  BY <1>1 DEF Again, StartJob, SeqEnd, StartEmpty, AllDone, ErrorInv, NoResult, Inv, ControlInv
<1>7. ASSUME UNCHANGED <<arg, heap>> PROVE SomethingFails' <=> SomethingFails
  BY <1>7 DEF SomethingFails, Fails, CellFails, BothSimple, BothNested, OfA, OfB, Inner
<1>8. Throw => ErrorInv'
  BY <1>1, <1>7 DEF Throw, ErrorInv
<1>9. StartError => ErrorInv'
  BY DEF StartError, ErrorInv, SomethingFails
<1>10. ASSUME Join PROVE ErrorInv'
  <2>1. mpc = "join" /\ ec' = error /\ mpc' = IF error = OK THEN "pick" ELSE "failed"
    BY <1>10 DEF Join
  <2>2. error # OK => SomethingFails
    BY <1>1, <2>1, JobFailure DEF ErrorInv, Working
  <2> QED BY <1>7, <1>10, <2>1, <2>2 DEF ErrorInv, Join
<1>11. ASSUME UNCHANGED vars PROVE ErrorInv'
  <2>1. JobFails' <=> JobFails
    BY <1>11 DEF vars, JobFails, Length, CellFails, BothSimple, OfA, OfB
  <2> QED BY <1>1, <1>7, <1>11, <2>1 DEF vars, ErrorInv
<1> QED
  BY <1>2, <1>3, <1>4, <1>5, <1>6, <1>8, <1>9, <1>10, <1>11, Steps DEF Computes, Moves

-----------------------------------------------------------------------------
(* The cells that are ahead of the threads.                                *)

\* Thread t has computed its item.
Advances(t) ==
  /\ mpc' = mpc /\ job' = job
  /\ \/ mpc = "loop" /\ t = Master /\ pos' = [pos EXCEPT ![Master] = @ + 1]
     \/ /\ mpc = "join"
        /\ \/ pos' = pos /\ tpc' = [tpc EXCEPT ![t] = "test"]
           \/ pos' = [pos EXCEPT ![t] = @ + 1] /\ tpc' = tpc

LEMMA TodoAdvances ==
  ASSUME Inv, NEW t \in Thread, Active(t), Grows, arg' = arg, Advances(t)
  PROVE  /\ Todo(pos[t] + 1)
         /\ \A z \in Nat : Todo(z)' <=> Todo(z) /\ z # pos[t] + 1
<1>1. /\ tpc \in [Thread -> {"item", "test", "idle"}] /\ pos \in [Thread -> Nat] /\ Working
  BY ActiveFacts DEF Inv, TypeInv
<1>2. Length(job)' = Length(job) /\ \A u : First(u)' = First(u) /\ Last(u)' = Last(u)
  BY <1>1, SameJob DEF Advances
<1>3. CASE mpc = "loop"
  BY <1>1, <1>3, CoresType DEF Advances, Todo
<1>4. CASE mpc = "join"
  <2>1. pos[t] < Last(t) /\ tpc[t] = "item"
    BY <1>1, <1>4, SliceFacts DEF Active, InLoop, InSlice, AtEnd, Last
  <2>2. \A u \in Thread : First(u) \in Nat /\ Last(u) \in Nat /\ First(u) <= pos[u]
    BY <1>1, <1>4, SliceFacts DEF Inv, ControlInv
  <2>3. \A u \in Thread : u # t => Last(t) <= First(u) \/ Last(u) <= First(t)
    BY <1>1, SliceFacts
  <2>4. \A u \in Thread : u # t => Passed(u)' = Passed(u) /\ tpc'[u] = tpc[u]
    BY <1>1, <1>4 DEF Advances, Passed
  <2>5. Passed(t) = pos[t] /\ Passed(t)' = pos[t] + 1 /\ tpc'[t] # "idle"
    BY <1>1, <1>4, <2>1 DEF Advances, Passed
  <2>6. \A u \in Thread : Passed(u) \in Nat /\ First(u) <= Passed(u)
    BY <1>1, <2>2 DEF Passed
  <2>7. mpc' = "join"
    BY <1>4 DEF Advances
  <2>8. Todo(pos[t] + 1)
    BY <1>1, <1>4, <2>1, <2>2, <2>5 DEF Todo
  <2>9. ASSUME NEW z \in Nat, Todo(z)' PROVE Todo(z) /\ z # pos[t] + 1
    <3>1. PICK u \in Thread : tpc'[u] # "idle" /\ Passed(u)' < z /\ z <= Last(u)
      BY <1>2, <2>7, <2>9 DEF Todo
    <3>2. CASE u = t
      BY <1>1, <1>4, <2>1, <2>5, <3>1, <3>2 DEF Todo
    <3>3. CASE u # t
      <4>1. Todo(z)
        BY <1>4, <2>4, <3>1, <3>3 DEF Todo
      <4>2. First(u) < z /\ z <= Last(u)
        BY <2>2, <2>4, <2>6, <3>1, <3>3
      <4>3. First(t) < pos[t] + 1 /\ pos[t] + 1 <= Last(t)
        BY <1>1, <2>1, <2>2
      <4> QED BY <1>1, <2>2, <2>3, <3>3, <4>1, <4>2, <4>3
    <3> QED BY <3>2, <3>3
  <2>10. ASSUME NEW z \in Nat, Todo(z), z # pos[t] + 1 PROVE Todo(z)'
    <3>1. PICK u \in Thread : tpc[u] # "idle" /\ Passed(u) < z /\ z <= Last(u)
      BY <1>4, <2>10 DEF Todo
    <3>2. tpc'[u] # "idle" /\ Passed(u)' < z
      BY <1>1, <2>4, <2>5, <2>6, <2>10, <3>1
    <3> QED BY <1>2, <2>7, <3>1, <3>2 DEF Todo
  <2> QED BY <2>8, <2>9, <2>10
<1> QED BY <1>1, <1>3, <1>4 DEF Working

\* A thread that computes an item advances, or it gives up.
LEMMA ComputesCases ==
  ASSUME Inv, NEW t \in Thread, Computes(t)
  PROVE  \/ Advances(t)
         \/ heap' = heap /\ jobs' = jobs /\ mpc' = "failed"
         \/ /\ heap' = heap /\ jobs' = jobs /\ PFBothNested(t)
            /\ mpc = "join" /\ mpc' = mpc /\ job' = job /\ pos' = pos
            /\ tpc' = [tpc EXCEPT ![t] = "idle"]
<1>1. CASE t = Master /\ (SeqBothNested \/ SeqOneNested \/ SeqSimple)
  BY <1>1, SeqControl DEF Advances
<1>2. CASE PFSimple(t)
  BY <1>2, PFControl DEF PFSimple, Advances
<1>3. CASE PFOneNested(t)
  BY <1>3, PFControl DEF PFOneNested, Advances
<1>4. CASE PFBothNested(t)
  BY <1>4, PFControl DEF PFBothNested, Advances
<1> QED BY <1>1, <1>2, <1>3, <1>4 DEF Computes

LEMMA WaitingAdvances ==
  ASSUME Inv, NEW t \in Thread, Computes(t), Advances(t)
  PROVE  /\ Waiting(job.z, pos[t] + 1)
         /\ \A h \in DOMAIN heap : \A z \in DOMAIN heap[h].cells :
              Waiting(h, z)' <=> Waiting(h, z) /\ ~(h = job.z /\ z = pos[t] + 1)
         /\ \A h \in DOMAIN heap' : h \notin DOMAIN heap => \A z : Waiting(h, z)'
<1>1. Active(t) /\ Effect(t) /\ Grows /\ Working /\ arg' = arg /\ heap \in Seq(HeapValue)
  BY ComputesEffect, ComputesGrow DEF Inv, TypeInv
<1>2. Working' /\ job' = job
  BY <1>1 DEF Advances, Working
<1>3. Todo(pos[t] + 1) /\ \A z \in Nat : Todo(z)' <=> Todo(z) /\ z # pos[t] + 1
  BY <1>1, TodoAdvances
<1>4. /\ \A h \in DOMAIN heap : Queued(h)' <=> Queued(h)
      /\ \A h \in DOMAIN heap' : h \notin DOMAIN heap => Queued(h)'
  BY <1>1, EffectOnJobs
<1>5. ~Queued(job.z)
  BY <1>1 DEF Inv, JobsInv
<1>6. \A h \in DOMAIN heap : \A z \in DOMAIN heap[h].cells : z \in Nat
  BY <1>1, HeapTypes
<1> QED BY <1>1, <1>2, <1>3, <1>4, <1>5, <1>6 DEF Waiting

LEMMA WaitingGivesUp ==
  ASSUME Inv, NEW t \in Thread, jobs' = jobs, heap' = heap,
         \/ mpc' \notin {"loop", "join"}
         \/ /\ mpc = "join" /\ mpc' = mpc /\ job' = job
            /\ \/ pos' = pos /\ tpc' = [tpc EXCEPT ![t] = "idle"]
               \/ /\ pos' = [pos EXCEPT ![t] = @ + 1] /\ tpc[t] = "test"
                  /\ tpc' = [tpc EXCEPT ![t] = "item"]
  PROVE  \A h, z : Waiting(h, z)' => Waiting(h, z)
<1>1. /\ tpc \in [Thread -> {"item", "test", "idle"}] /\ pos \in [Thread -> Nat]
  BY DEF Inv, TypeInv
<1>2. \A h : Queued(h)' <=> Queued(h)
  BY DEF Queued
<1>3. CASE mpc' \notin {"loop", "join"}
  BY <1>2, <1>3 DEF Waiting, Working
<1>4. ASSUME mpc = "join", mpc' = mpc, job' = job,
             \/ pos' = pos /\ tpc' = [tpc EXCEPT ![t] = "idle"]
             \/ /\ pos' = [pos EXCEPT ![t] = @ + 1] /\ tpc[t] = "test"
                /\ tpc' = [tpc EXCEPT ![t] = "item"]
      PROVE  \A z : Todo(z)' => Todo(z)
  <2>1. \A u \in Thread : tpc'[u] # "idle" => tpc[u] # "idle" /\ Passed(u)' = Passed(u)
    BY <1>1, <1>4 DEF Passed
  <2>2. \A u : Last(u)' = Last(u)
    BY <1>4 DEF Last, Length
  <2> QED BY <1>4, <2>1, <2>2 DEF Todo
<1> QED BY <1>2, <1>3, <1>4 DEF Waiting, Working

\* Nothing that waits appears when the master goes from job to job.
LEMMA WaitingMoves ==
  ASSUME Inv, Moves
  PROVE  \A h, z : Waiting(h, z)' => Waiting(h, z)
<1>1. ASSUME NEW t \in Thread, PickJob(t)
      PROVE  \A h, z : Waiting(h, z)' => Waiting(h, z)
  <2> DEFINE n == Len(jobs[t])
  <2>1. /\ jobs[t] # <<>> /\ job' = jobs[t][n] /\ jobs \in [Thread -> Seq(Job)]
        /\ jobs' = [jobs EXCEPT ![t] = SubSeq(@, 1, Len(@) - 1)]
    BY <1>1 DEF PickJob, FirstWithJob, Inv, TypeInv
  <2>2. n \in DOMAIN jobs[t]
    BY <2>1
  <2>3. \A u \in Thread : \A i \in DOMAIN jobs'[u] : i \in DOMAIN jobs[u] /\ jobs'[u][i] = jobs[u][i]
    <3>1. /\ jobs'[t] = SubSeq(jobs[t], 1, n - 1) /\ jobs[t] \in Seq(Job)
          /\ \A u \in Thread : u # t => jobs'[u] = jobs[u]
      BY <2>1
    <3>2. \A i \in DOMAIN jobs'[t] : i \in DOMAIN jobs[t] /\ jobs'[t][i] = jobs[t][i]
      BY <2>2, <3>1
    <3> QED BY <3>1, <3>2
  <2>4. \A h : Queued(h)' => Queued(h)
    BY <2>3 DEF Queued
  <2>5. Queued(job'.z)
    BY <2>1, <2>2 DEF Queued
  <2> QED BY <2>4, <2>5 DEF Waiting
<1>2. Throw => \A h, z : Waiting(h, z)' => Waiting(h, z)
  BY DEF Throw, Waiting, Working, Queued, NoJobs
<1>3. AllDone \/ SeqEnd \/ Join \/ StartError \/ StartEmpty =>
        \A h, z : Waiting(h, z)' => Waiting(h, z)
  BY WaitingGivesUp, CoresType DEF AllDone, SeqEnd, Join, StartError, StartEmpty
<1>4. ASSUME NEW t \in Thread, PFTest(t) \/ PFEnd(t)
      PROVE  \A h, z : Waiting(h, z)' => Waiting(h, z)
  <2>1. mpc = "join"
    BY <1>4, PFJoins DEF PFTest, PFEnd
  <2> QED BY <1>4, <2>1, WaitingGivesUp DEF PFTest, PFEnd
<1> QED BY <1>1, <1>2, <1>3, <1>4 DEF Moves

-----------------------------------------------------------------------------
(* Raw cells and pointers.                                                 *)

LEMMA MistakesStay ==
  ASSUME Inv, Grows, arg' = arg
  PROVE  /\ NoneMisplaced' => NoneMisplaced
         /\ NoneMistaken' => NoneMistaken
<1>1. ASSUME NEW h \in DOMAIN heap
      PROVE  /\ h \in DOMAIN heap' /\ DOMAIN heap'[h].cells = DOMAIN heap[h].cells
             /\ Shared(heap[h])' <=> Shared(heap[h])
             /\ \A z : Misplaced(heap[h], z)' <=> Misplaced(heap[h], z)
             /\ \A z : Mishandled(heap[h], z)' <=> Mishandled(heap[h], z)
  <2>1. h \in DOMAIN heap' /\ Same(heap'[h], heap[h])
    BY DEF Grows
  <2>2. Shared(heap[h])' <=> Shared(heap[h])
    BY <2>1 DEF Shared, Same
  <2>3. \A z : /\ Misplaced(heap'[h], z) <=> Misplaced(heap[h], z)
               /\ BothNested(heap'[h], z) <=> BothNested(heap[h], z)
               /\ CellFails(heap'[h], z) <=> CellFails(heap[h], z)
    BY <2>1, SameFacts
  <2>4. \A z : /\ Misplaced(heap[h], z)' <=> Misplaced(heap'[h], z)
               /\ BothNested(heap[h], z)' <=> BothNested(heap'[h], z)
               /\ CellFails(heap[h], z)' <=> CellFails(heap'[h], z)
    BY DEF Misplaced, CellFails, BothSimple, BothNested, OfA, OfB, Inner
  <2>5. \A z : Mishandled(heap[h], z)' <=> Mishandled(heap[h], z)
    BY <2>2, <2>3, <2>4 DEF Mishandled
  <2> QED BY <2>1, <2>2, <2>3, <2>4, <2>5 DEF Same
<1> QED BY <1>1 DEF NoneMisplaced, NoneMistaken

LEMMA PointerKind ==
  ASSUME NEW k \in Nat
  PROVE  Pointer(k) \in [ptr : Nat] /\ Raw # Pointer(k) /\ \A m \in Nat : Pointer(k) = Pointer(m) => k = m
<1>1. Pointer(k) \in [ptr : Nat]
  BY DEF Pointer
<1>2. Raw # Pointer(k)
  BY <1>1, CellKinds
<1>3. \A m \in Nat : Pointer(k).ptr = k /\ Pointer(m).ptr = m
  BY DEF Pointer
<1> QED BY <1>1, <1>2, <1>3

\* a cell that does not point is written
LEMMA PointWrite ==
  ASSUME Inv, PointInv, NEW t \in Thread, Computes(t), Advances(t),
         NEW c \in Cell \ [ptr : Nat], heap' = SetZ(heap, t, c)
  PROVE  PointInv'
<1> DEFINE j == job.z
           y == pos[t] + 1
<1>1. /\ Wrote(heap, heap', j, y, c) /\ Len(heap') = Len(heap) /\ heap \in Seq(HeapValue)
      /\ j \in DOMAIN heap /\ y \in DOMAIN heap[j].cells
  BY ComputesEffect, ComputesGrow, SetZFacts, ActiveFacts DEF Inv, TypeInv
<1>2. /\ DOMAIN heap' = DOMAIN heap
      /\ \A h \in DOMAIN heap :
           /\ DOMAIN heap'[h].cells = DOMAIN heap[h].cells
           /\ \A z \in DOMAIN heap[h].cells :
                heap'[h].cells[z] = IF h = j /\ z = y THEN c ELSE heap[h].cells[z]
  BY <1>1 DEF Wrote, Same
<1>3. heap[j].cells[y] = Raw
  BY <1>1, WaitingAdvances DEF PointInv
<1>4. \A k \in Nat : Raw # Pointer(k) /\ c # Pointer(k)
  BY PointerKind
<1>5. \A h \in DOMAIN heap : \A z \in DOMAIN heap[h].cells :
        Waiting(h, z)' => Waiting(h, z) /\ ~(h = j /\ z = y)
  BY WaitingAdvances
<1>6. \A h \in DOMAIN heap : h \in Nat
  BY <1>1, HeapTypes
<1> HIDE DEF j, y
<1>7. \A h \in DOMAIN heap' : \A z \in DOMAIN heap'[h].cells :
        Waiting(h, z)' => heap'[h].cells[z] = Raw
  BY <1>2, <1>5 DEF PointInv
<1>8. \A h \in DOMAIN heap' : \A z \in DOMAIN heap'[h].cells :
        heap'[h].cells[z] \in [ptr : Nat] => heap'[h].cells[z] \in [ptr : DOMAIN heap']
  BY <1>2 DEF PointInv
<1>9. \A h, i \in DOMAIN heap' : \A z \in DOMAIN heap'[h].cells, x \in DOMAIN heap'[i].cells :
        \A k \in DOMAIN heap' : (heap'[h].cells[z] = Pointer(k) /\ heap'[i].cells[x] = Pointer(k))
          => h = i /\ z = x
  BY <1>2, <1>4, <1>6 DEF PointInv
<1>10. \A k \in DOMAIN heap' \ {1} :
        \E h \in DOMAIN heap' : \E z \in DOMAIN heap'[h].cells : heap'[h].cells[z] = Pointer(k)
  <2> SUFFICES ASSUME NEW k \in DOMAIN heap, k # 1
               PROVE  \E h \in DOMAIN heap' : \E z \in DOMAIN heap'[h].cells :
                         heap'[h].cells[z] = Pointer(k)
    BY <1>2
  <2>1. PICK h \in DOMAIN heap : \E z \in DOMAIN heap[h].cells : heap[h].cells[z] = Pointer(k)
    BY DEF PointInv
  <2>2. PICK z \in DOMAIN heap[h].cells : heap[h].cells[z] = Pointer(k)
    BY <2>1
  <2>3. ~(h = j /\ z = y)
    BY <1>3, <1>4, <1>6, <2>2
  <2> QED BY <1>2, <2>2, <2>3
<1> QED BY <1>7, <1>8, <1>9, <1>10 DEF PointInv

\* a new value, and the cell that points to it
LEMMA PointAdd ==
  ASSUME Inv, PointInv, NEW t \in Thread, Computes(t), Advances(t),
         NEW shape, NEW A, NEW B, New(shape, A, B), AddJob(t, t, shape, A, B)
  PROVE  PointInv'
<1> DEFINE j == job.z
           y == pos[t] + 1
           id == Len(heap) + 1
           c == Pointer(id)
<1>1. /\ Wrote(heap, heap', j, y, c) /\ Len(heap') = id /\ heap \in Seq(HeapValue)
      /\ heap'[id] = NewValue(shape, A, B)
      /\ j \in DOMAIN heap /\ y \in DOMAIN heap[j].cells
  BY ComputesEffect, ComputesGrow, AddJobFacts, ActiveFacts DEF Inv, TypeInv
<1>2. id \in Nat /\ id \notin DOMAIN heap /\ DOMAIN heap' = DOMAIN heap \cup {id}
  BY <1>1 DEF Wrote
<1>3. \A h \in DOMAIN heap :
           /\ DOMAIN heap'[h].cells = DOMAIN heap[h].cells
           /\ \A z \in DOMAIN heap[h].cells :
                heap'[h].cells[z] = IF h = j /\ z = y THEN c ELSE heap[h].cells[z]
  BY <1>1 DEF Wrote, Same
<1>4. \A z \in DOMAIN heap'[id].cells : heap'[id].cells[z] = Raw
  BY <1>1, NewValueFacts DEF New
<1>5. heap[j].cells[y] = Raw
  BY <1>1, WaitingAdvances DEF PointInv
<1>6. \A k \in Nat : Pointer(k) \in [ptr : Nat] /\ Raw # Pointer(k) /\ (c = Pointer(k) => k = id)
  BY <1>2, PointerKind
<1>7. \A h \in DOMAIN heap : \A z \in DOMAIN heap[h].cells :
        Waiting(h, z)' => Waiting(h, z) /\ ~(h = j /\ z = y)
  BY WaitingAdvances
<1>8. \A h \in DOMAIN heap : h \in Nat
  BY <1>1, HeapTypes
<1>9. c = Pointer(id) /\ c \in [ptr : DOMAIN heap']
  BY <1>2 DEF Pointer
\* no cell points to the new value yet
<1>10. \A h \in DOMAIN heap : \A z \in DOMAIN heap[h].cells : heap[h].cells[z] # Pointer(id)
  <2> SUFFICES ASSUME NEW h \in DOMAIN heap, NEW z \in DOMAIN heap[h].cells,
                      heap[h].cells[z] = Pointer(id)
               PROVE  FALSE
    OBVIOUS
  <2>1. Pointer(id) \in [ptr : DOMAIN heap]
    BY <1>2, <1>6 DEF PointInv
  <2>2. Pointer(id).ptr = id
    BY DEF Pointer
  <2> QED BY <1>2, <2>1, <2>2
<1> HIDE DEF j, y, id, c
<1>11. \A h \in DOMAIN heap' : \A z \in DOMAIN heap'[h].cells :
        Waiting(h, z)' => heap'[h].cells[z] = Raw
  BY <1>2, <1>3, <1>4, <1>7 DEF PointInv
<1>12. \A h \in DOMAIN heap' : \A z \in DOMAIN heap'[h].cells :
        heap'[h].cells[z] \in [ptr : Nat] => heap'[h].cells[z] \in [ptr : DOMAIN heap']
  <2>1. Raw \notin [ptr : Nat]
    BY CellKinds
  <2> QED BY <1>2, <1>3, <1>4, <1>9, <2>1 DEF PointInv
<1>13. \A h, i \in DOMAIN heap' : \A z \in DOMAIN heap'[h].cells, x \in DOMAIN heap'[i].cells :
        \A k \in DOMAIN heap' : (heap'[h].cells[z] = Pointer(k) /\ heap'[i].cells[x] = Pointer(k))
          => h = i /\ z = x
  <2> SUFFICES ASSUME NEW h \in DOMAIN heap', NEW i \in DOMAIN heap', NEW k \in DOMAIN heap',
                      NEW z \in DOMAIN heap'[h].cells, NEW x \in DOMAIN heap'[i].cells,
                      heap'[h].cells[z] = Pointer(k), heap'[i].cells[x] = Pointer(k)
               PROVE  h = i /\ z = x
    OBVIOUS
  <2>1. h \in DOMAIN heap /\ i \in DOMAIN heap /\ k \in Nat
    BY <1>2, <1>4, <1>6, <1>8
  <2>2. CASE k = id
    BY <1>3, <1>10, <2>1, <2>2
  <2>3. CASE k # id
    <3>1. heap[h].cells[z] = Pointer(k) /\ heap[i].cells[x] = Pointer(k) /\ k \in DOMAIN heap
      BY <1>2, <1>3, <1>6, <2>1, <2>3
    <3> QED BY <1>3, <2>1, <3>1 DEF PointInv
  <2> QED BY <2>2, <2>3
<1>14. \A k \in DOMAIN heap' \ {1} :
        \E h \in DOMAIN heap' : \E z \in DOMAIN heap'[h].cells : heap'[h].cells[z] = Pointer(k)
  <2> SUFFICES ASSUME NEW k \in DOMAIN heap', k # 1
               PROVE  \E h \in DOMAIN heap' : \E z \in DOMAIN heap'[h].cells :
                         heap'[h].cells[z] = Pointer(k)
    OBVIOUS
  <2>1. CASE k = id
    BY <1>1, <1>2, <1>3, <1>9, <2>1
  <2>2. CASE k # id
    <3>1. PICK h \in DOMAIN heap : \E z \in DOMAIN heap[h].cells : heap[h].cells[z] = Pointer(k)
      BY <1>2, <2>2 DEF PointInv
    <3>2. PICK z \in DOMAIN heap[h].cells : heap[h].cells[z] = Pointer(k)
      BY <3>1
    <3>3. ~(h = j /\ z = y)
      BY <1>2, <1>5, <1>6, <1>8, <2>2, <3>2
    <3> QED BY <1>2, <1>3, <3>2, <3>3
  <2> QED BY <2>1, <2>2
<1> QED BY <1>11, <1>12, <1>13, <1>14 DEF PointInv

LEMMA PointKeep ==
  ASSUME PointInv, heap' = heap, \A h, z : Waiting(h, z)' => Waiting(h, z)
  PROVE  PointInv'
  BY DEF PointInv

LEMMA StepPoints ==
  ASSUME Inv, [Next]_vars, NoneMisplaced'
  PROVE  PointInv'
<1>1. ASSUME NEW t \in Thread, Computes(t) PROVE PointInv'
  <2>1. Active(t) /\ Effect(t) /\ Grows /\ arg' = arg
    BY <1>1, ComputesEffect, ComputesGrow
  <2>2. NoneMisplaced /\ PointInv
    BY <2>1, MistakesStay DEF Inv
  <2>3. CASE heap' = heap /\ jobs' = jobs
    <3>1. \/ mpc' = "failed"
          \/ mpc = "join" /\ mpc' = mpc /\ job' = job /\ pos' = pos
             /\ tpc' = [tpc EXCEPT ![t] = "idle"]
          \/ Advances(t)
      BY <1>1, ComputesCases
    <3>2. CASE Advances(t)
      <4>1. \A h \in DOMAIN heap : \A z \in DOMAIN heap[h].cells :
              Waiting(h, z)' => Waiting(h, z)
        BY <1>1, <3>2, WaitingAdvances
      <4> QED BY <2>2, <2>3, <4>1 DEF PointInv
    <3>3. CASE ~Advances(t)
      BY <2>2, <2>3, <3>1, <3>3, WaitingGivesUp, PointKeep
    <3> QED BY <3>2, <3>3
  <2>4. CASE Advances(t)
    BY <1>1, <2>1, <2>2, <2>3, <2>4, PointWrite, PointAdd DEF Effect
  <2>5. CASE ~Advances(t)
    BY <1>1, <2>3, <2>5, ComputesCases
  <2> QED BY <2>4, <2>5
<1>2. ASSUME Moves PROVE PointInv'
  <2>1. heap' = heap
    BY <1>2, MovesTypes
  <2>2. arg' = arg
    BY <1>2 DEF Moves, PickJob, AllDone, Throw, SeqEnd, Join, StartError, StartEmpty, PFTest, PFEnd
  <2>3. Grows
    BY <2>1 DEF Grows, Same, Inv, TypeInv
  <2> QED BY <1>2, <2>1, <2>2, <2>3, MistakesStay, WaitingMoves, PointKeep DEF Inv
<1>3. ASSUME StartJob PROVE PointInv'
  <2>1. PICK v : heap' = <<v>> /\ \A z \in DOMAIN v.cells : v.cells[z] = Raw
    BY <1>3, StartJobFacts, NewValueFacts DEF New
  <2>2. DOMAIN heap' = {1} /\ heap'[1] = v
    BY <2>1
  <2>3. Raw \notin [ptr : Nat] /\ \A k \in Nat : Raw # Pointer(k)
    BY CellKinds, PointerKind
  <2> QED BY <2>1, <2>2, <2>3 DEF PointInv
<1>4. ASSUME Again PROVE PointInv'
  BY <1>4 DEF Again, PointInv
<1>5. ASSUME UNCHANGED vars PROVE PointInv'
  <2>1. PointInv /\ heap' = heap
    <3>1. NoneMisplaced
      BY <1>5 DEF vars, NoneMisplaced, Shared, Misplaced, BothNested, OfA, OfB, Inner
    <3> QED BY <1>5, <3>1 DEF Inv, vars
  <2>2. \A h, z : Waiting(h, z)' => Waiting(h, z)
    BY <1>5 DEF vars, Waiting, Working, Queued, Todo, Passed, Last, Length
  <2> QED BY <2>1, <2>2, PointKeep
<1> QED BY <1>1, <1>2, <1>3, <1>4, <1>5, Steps

-----------------------------------------------------------------------------
(* The results.                                                            *)

\* Right(h, z)', with the items of value h before the step
PointsNext(h, c, shape, A, B) ==
  \E k \in DOMAIN heap' :
    /\ h < k /\ c = Pointer(k)
    /\ heap'[k].shape = shape /\ heap'[k].A = A /\ heap'[k].B = B
RightNext(h, z) ==
  LET v == heap[h]
      c == heap'[h].cells[z]
      a == OfA(v, z)
      b == OfB(v, z)
  IN  /\ BothSimple(v, z) => c = CellResult(a, b) /\ CellError(a, b) = OK
      /\ BothNested(v, z) => PointsNext(h, c, Inner(v, z).shape, a.val, b.val)
      /\ OneNested(v, z) =>
           LET n == TheNested(v, z)
           IN  IF IsEmpty(n) THEN c = Enclosed(FillB(n))
                             ELSE PointsNext(h, c, n.shape, Item1(a), Item1(b))

LEMMA RightIsNext ==
  ASSUME NEW h, NEW z, Same(heap'[h], heap[h]), RightNext(h, z)
  PROVE  Right(h, z)'
<1> DEFINE v == heap[h]
           w == heap'[h]
<1>1. /\ OfA(w, z) = OfA(v, z) /\ OfB(w, z) = OfB(v, z)
      /\ BothSimple(w, z) <=> BothSimple(v, z)
      /\ BothNested(w, z) <=> BothNested(v, z)
      /\ OneNested(w, z) <=> OneNested(v, z)
      /\ TheNested(w, z) = TheNested(v, z) /\ Inner(w, z) = Inner(v, z)
  BY SameFacts
<1>2. /\ OfA(heap[h], z)' = OfA(w, z) /\ OfB(heap[h], z)' = OfB(w, z)
      /\ BothSimple(heap[h], z)' <=> BothSimple(w, z)
      /\ BothNested(heap[h], z)' <=> BothNested(w, z)
      /\ OneNested(heap[h], z)' <=> OneNested(w, z)
      /\ TheNested(heap[h], z)' = TheNested(w, z) /\ Inner(heap[h], z)' = Inner(w, z)
  BY DEF OfA, OfB, BothSimple, BothNested, OneNested, TheNested, Inner
<1>3. BothSimple(v, z) => heap'[h].cells[z] = CellResult(OfA(v, z), OfB(v, z))
                          /\ CellError(OfA(v, z), OfB(v, z)) = OK
  BY DEF RightNext
<1>4. BothNested(v, z) =>
        PointsNext(h, heap'[h].cells[z], Inner(v, z).shape, OfA(v, z).val, OfB(v, z).val)
  BY DEF RightNext
<1>5. OneNested(v, z) =>
        IF IsEmpty(TheNested(v, z)) THEN heap'[h].cells[z] = Enclosed(FillB(TheNested(v, z)))
        ELSE PointsNext(h, heap'[h].cells[z], TheNested(v, z).shape,
                        Item1(OfA(v, z)), Item1(OfB(v, z)))
  BY DEF RightNext
<1>6. ASSUME NEW c, NEW shape, NEW A, NEW B, PointsNext(h, c, shape, A, B)
      PROVE  \E k \in DOMAIN heap' : /\ h < k /\ c = Pointer(k)
                                     /\ heap'[k].shape = shape /\ heap'[k].A = A /\ heap'[k].B = B
  BY <1>6 DEF PointsNext
<1>7. (BothSimple(heap[h], z) => heap[h].cells[z] = CellResult(OfA(heap[h], z), OfB(heap[h], z))
                                 /\ CellError(OfA(heap[h], z), OfB(heap[h], z)) = OK)'
  BY <1>1, <1>2, <1>3
<1>8. (BothNested(heap[h], z) =>
         PointsTo(h, heap[h].cells[z], Inner(heap[h], z).shape,
                  OfA(heap[h], z).val, OfB(heap[h], z).val))'
  BY <1>1, <1>2, <1>4 DEF PointsNext, PointsTo
<1>9. (OneNested(heap[h], z) =>
         IF IsEmpty(TheNested(heap[h], z))
         THEN heap[h].cells[z] = Enclosed(FillB(TheNested(heap[h], z)))
         ELSE PointsTo(h, heap[h].cells[z], TheNested(heap[h], z).shape,
                       Item1(OfA(heap[h], z)), Item1(OfB(heap[h], z))))'
  BY <1>1, <1>2, <1>5 DEF PointsNext, PointsTo
<1> QED BY <1>7, <1>8, <1>9 DEF Right

LEMMA RightStays ==
  ASSUME NEW h \in DOMAIN heap, NEW z \in DOMAIN heap[h].cells, Grows,
         heap'[h].cells[z] = heap[h].cells[z], Right(h, z)
  PROVE  Right(h, z)'
<1>1. Same(heap'[h], heap[h])
  BY DEF Grows
<1>2. ASSUME NEW c, NEW shape, NEW A, NEW B, PointsTo(h, c, shape, A, B)
      PROVE  PointsNext(h, c, shape, A, B)
  <2>1. PICK k \in DOMAIN heap :
          /\ h < k /\ c = Pointer(k)
          /\ heap[k].shape = shape /\ heap[k].A = A /\ heap[k].B = B
    BY <1>2 DEF PointsTo
  <2>2. k \in DOMAIN heap' /\ Same(heap'[k], heap[k])
    BY DEF Grows
  <2> QED BY <2>1, <2>2 DEF Same, PointsNext
<1>3. RightNext(h, z)
  BY <1>2 DEF Right, RightNext
<1> QED BY <1>1, <1>3, RightIsNext

\* the cell of a new value
LEMMA AddedPoints ==
  ASSUME Inv, NEW t \in Thread, Active(t), NEW shape, NEW A, NEW B, New(shape, A, B),
         AddJob(t, t, shape, A, B)
  PROVE  PointsNext(job.z, heap'[job.z].cells[pos[t] + 1], shape, A, B)
<1> DEFINE id == Len(heap) + 1
<1>1. /\ Wrote(heap, heap', job.z, pos[t] + 1, Pointer(id)) /\ Len(heap') = id
      /\ heap'[id] = NewValue(shape, A, B)
  BY AddJobFacts
<1>2. /\ job.z \in DOMAIN heap /\ pos[t] + 1 \in DOMAIN heap[job.z].cells
      /\ heap \in Seq(HeapValue)
  BY ActiveFacts, JobFacts DEF Inv, TypeInv
<1>3. heap'[id].shape = shape /\ heap'[id].A = A /\ heap'[id].B = B
  BY <1>1, NewValueFacts DEF New
<1>4. heap'[job.z].cells[pos[t] + 1] = Pointer(id)
  BY <1>1, <1>2 DEF Wrote
<1>5. id \in DOMAIN heap' /\ job.z < id
  BY <1>1, <1>2, HeapTypes DEF Wrote
<1> HIDE DEF id
<1> QED BY <1>3, <1>4, <1>5 DEF PointsNext

\* The cell that a thread has computed is the result for its items, unless
\* the threads mistake it.
LEMMA ComputedIsRight ==
  ASSUME Inv, NoneMistaken, NEW t \in Thread, Computes(t), Advances(t),
         NEW h, NEW z, h = job.z, z = pos[t] + 1
  PROVE  Right(h, z)'
<1> DEFINE v == heap[h]
           a == ItemA(t)
           b == ItemB(t)
<1>1. /\ Active(t) /\ Grows /\ Working /\ heap \in Seq(HeapValue)
      /\ h \in DOMAIN heap /\ z \in DOMAIN heap[h].cells
      /\ a = OfA(v, z) /\ b = OfB(v, z) /\ a \in Item /\ b \in Item
      /\ Scalar(a) \in Values /\ Scalar(b) \in Values
  BY ComputesEffect, ComputesGrow, ActiveFacts DEF Inv, TypeInv
<1>2. Same(heap'[h], heap[h])
  BY <1>1 DEF Grows
<1>3. ~Misplaced(v, z) /\ ~Mishandled(v, z)
  BY <1>1 DEF NoneMistaken
<1>4. mpc = "join" => Shared(v)
  BY DEF Inv, ControlInv
<1>5. h < Len(heap) + 1 /\ Len(heap) + 1 \in Nat
  BY <1>1, HeapTypes
<1>6. ASSUME NEW c \in Cell, heap' = SetZ(heap, t, c) PROVE heap'[h].cells[z] = c
  BY <1>1, <1>6, SetZFacts DEF Wrote
<1>7. ASSUME NEW shape, NEW A, NEW B, New(shape, A, B), AddJob(t, t, shape, A, B)
      PROVE  PointsNext(h, heap'[h].cells[z], shape, A, B)
  BY <1>1, <1>7, AddedPoints
<1>8. CASE BothSimple(v, z)
  <2>1. ~IsNested(a) /\ ~IsNested(b)
    BY <1>1, <1>8 DEF BothSimple
  <2>2. CellError(a, b) = OK /\ heap' = SetZ(heap, t, CellResult(a, b))
    <3>1. CASE SeqSimple /\ t = Master
      <4>1. ec' = CellError(a, b) /\ mpc = "loop"
        BY <3>1 DEF SeqSimple, InLoop
      <4>2. CellError(a, b) = OK
        BY <3>1, <4>1 DEF SeqSimple, Advances
      <4> QED BY <3>1, <4>1, <4>2 DEF SeqSimple
    <3>2. CASE PFSimple(t)
      <4>1. mpc = "join"
        BY <3>2, PFActive DEF PFSimple
      <4>2. CellError(a, b) = OK
        BY <1>1, <1>3, <1>4, <1>8, <4>1 DEF Mishandled, CellFails
      <4> QED BY <3>2, <4>2 DEF PFSimple
    <3>3. ~SeqBothNested \/ t # Master
      BY <2>1 DEF SeqBothNested
    <3>4. ~SeqOneNested \/ t # Master
      BY <2>1, Either DEF SeqOneNested
    <3>5. ~PFOneNested(t) /\ ~PFBothNested(t)
      BY <2>1, Either DEF PFOneNested, PFBothNested
    <3> QED BY <3>1, <3>2, <3>3, <3>4, <3>5 DEF Computes
  <2>3. heap'[h].cells[z] = CellResult(a, b)
    BY <1>1, <1>6, <2>1, <2>2, CellKinds
  <2>4. ~BothNested(v, z) /\ ~OneNested(v, z)
    BY <1>1, <2>1, Either DEF BothNested, OneNested
  <2>5. RightNext(h, z)
    BY <1>1, <2>2, <2>3, <2>4 DEF RightNext
  <2> QED BY <1>2, <2>5, RightIsNext
<1>9. CASE BothNested(v, z)
  <2>1. IsNested(a) /\ IsNested(b)
    BY <1>1, <1>9 DEF BothNested
  <2>2. ~(mpc = "join")
    BY <1>3, <1>4, <1>9 DEF Mishandled
  <2>3. SeqBothNested /\ t = Master
    <3>1. ~PFSimple(t) /\ ~PFOneNested(t) /\ ~PFBothNested(t)
      BY <2>2, PFActive DEF PFSimple, PFOneNested, PFBothNested
    <3>2. ~SeqSimple \/ t # Master
      BY <2>1 DEF SeqSimple
    <3>3. ~SeqOneNested \/ t # Master
      BY <2>1, Either DEF SeqOneNested
    <3> QED BY <3>1, <3>2, <3>3 DEF Computes
  <2>4. a.val \in Values /\ b.val \in Values
    BY <1>1, <2>1, ItemKinds
  <2> DEFINE c == Conforming(b.val.shape, a.val.shape)
  <2>5. c = Inner(v, z)
    BY <1>1 DEF Inner
  <2>6. c.ec = OK
    BY <2>3 DEF SeqBothNested, Advances, InLoop
  <2>7. Volume(c.shape) # 0
    BY <1>3, <1>9, <2>5, <2>6 DEF Misplaced
  <2>8. AddJob(t, t, c.shape, a.val, b.val)
    BY <2>3, <2>6, <2>7 DEF SeqBothNested
  <2>9. New(c.shape, a.val, b.val)
    BY <2>4, <2>6, <2>7, NewBothNested
  <2> HIDE DEF c
  <2>10. PointsNext(h, heap'[h].cells[z], c.shape, a.val, b.val)
    BY <1>7, <2>8, <2>9
  <2>11. ~BothSimple(v, z) /\ ~OneNested(v, z)
    BY <1>1, <2>1, Either DEF BothSimple, OneNested
  <2>12. RightNext(h, z)
    BY <1>1, <2>5, <2>10, <2>11 DEF RightNext
  <2> QED BY <1>2, <2>12, RightIsNext
<1>10. CASE OneNested(v, z)
  <2> DEFINE n == IF IsNested(a) THEN a.val ELSE b.val
  <2>1. IsNested(a) # IsNested(b)
    BY <1>1, <1>10 DEF OneNested
  <2>2. n = TheNested(v, z)
    BY <1>1 DEF TheNested
  <2>3. n \in Values /\ (~IsEmpty(n) => New(n.shape, Item1(a), Item1(b)))
    BY <1>1, <2>1, NewOneNested
  <2>4. IF IsEmpty(n) THEN heap' = SetZ(heap, t, Enclosed(FillB(n)))
                      ELSE AddJob(t, t, n.shape, Item1(a), Item1(b))
    <3>1. CASE SeqOneNested /\ t = Master
      BY <3>1 DEF SeqOneNested
    <3>2. CASE PFOneNested(t)
      <4>1. n = IF IsNested(a) THEN Item1(a) ELSE Item1(b)
        BY <2>1, Either DEF Item1
      <4>2. IsEmpty(n) => FillAB(Item1(a), Item1(b)) = FillB(n)
        BY <1>1, <2>1, FillOfOne
      <4> QED BY <3>2, <4>1, <4>2 DEF PFOneNested
    <3>3. ~(SeqBothNested /\ t = Master) /\ ~(SeqSimple /\ t = Master)
      BY <2>1, Either DEF SeqBothNested, SeqSimple
    <3>4. ~PFSimple(t) /\ ~PFBothNested(t)
      BY <2>1, Either DEF PFSimple, PFBothNested
    <3> QED BY <3>1, <3>2, <3>3, <3>4 DEF Computes
  <2> HIDE DEF n
  <2>5. IF IsEmpty(n) THEN heap'[h].cells[z] = Enclosed(FillB(n))
        ELSE PointsNext(h, heap'[h].cells[z], n.shape, Item1(a), Item1(b))
    BY <1>6, <1>7, <2>3, <2>4, CellKinds
  <2>6. ~BothSimple(v, z) /\ ~BothNested(v, z)
    BY <1>1, <2>1, Either DEF BothSimple, BothNested
  <2>7. RightNext(h, z)
    BY <1>1, <2>2, <2>5, <2>6 DEF RightNext
  <2> QED BY <1>2, <2>7, RightIsNext
<1>11. BothSimple(v, z) \/ BothNested(v, z) \/ OneNested(v, z)
  BY Either DEF BothSimple, BothNested, OneNested
<1> QED BY <1>8, <1>9, <1>10, <1>11

\* Results are needed until the call returns.
Needed == mpc \in {"pick", "loop", "join"} \/ (mpc = "end" /\ result.ec = OK)

\* With nothing mistaken, no thread of a shared job meets an error.
LEMMA NoErrorShared ==
  ASSUME Inv, NoneMistaken, mpc = "join"
  PROVE  ~JobFails
<1>1. Shared(heap[job.z]) /\ job.z \in DOMAIN heap /\ DOMAIN heap[job.z].cells = 1 .. Length(job)
  BY JobFacts DEF Inv, ControlInv, Working
<1> QED BY <1>1 DEF JobFails, NoneMistaken, Mishandled

LEMMA ResultsComputed ==
  ASSUME Inv, NoneMistaken, ResultInv, NEW t \in Thread, Computes(t)
  PROVE  ResultInv'
<1>1. Active(t) /\ Effect(t) /\ Grows /\ Working /\ heap \in Seq(HeapValue)
      /\ job.z \in DOMAIN heap /\ pos[t] + 1 \in DOMAIN heap[job.z].cells /\ arg' = arg
  BY ComputesEffect, ComputesGrow, ActiveFacts DEF Inv, TypeInv
<1>2. CASE mpc' = "failed"
  BY <1>2 DEF ResultInv
<1>3. CASE Advances(t)
  <2>1. mpc' = mpc /\ job' = job
    BY <1>3 DEF Advances
  <2>2. mpc' = "join" => \A u \in Thread : tpc'[u] = "idle" => pos'[u] >= Last(u)'
    <3> SUFFICES ASSUME mpc' = "join", NEW u \in Thread, tpc'[u] = "idle"
                 PROVE  pos'[u] >= Last(u)'
      OBVIOUS
    <3>1. /\ tpc \in [Thread -> {"item", "test", "idle"}] /\ pos \in [Thread -> Nat]
          /\ tpc[t] # "idle"
      BY <1>1, <2>1 DEF Inv, TypeInv, Active, InSlice, InLoop
    <3>2. tpc[u] = "idle" /\ pos'[u] = pos[u]
      BY <1>3, <2>1, <3>1 DEF Advances
    <3>3. Last(u)' = Last(u)
      BY <1>1, <2>1, SameJob
    <3> QED BY <2>1, <3>2, <3>3 DEF ResultInv
  <2>3. ASSUME NEW h \in DOMAIN heap', NEW z \in DOMAIN heap'[h].cells
        PROVE  Waiting(h, z)' \/ Right(h, z)'
    <3>1. CASE h \notin DOMAIN heap
      BY <1>3, <3>1, WaitingAdvances
    <3>2. CASE h = job.z /\ z = pos[t] + 1
      BY <1>3, <3>2, ComputedIsRight
    <3>3. CASE h \in DOMAIN heap /\ ~(h = job.z /\ z = pos[t] + 1)
      <4>1. z \in DOMAIN heap[h].cells
        BY <1>1, <3>3 DEF Grows, Same
      <4>2. Waiting(h, z) \/ Right(h, z)
        BY <1>1, <3>3, <4>1 DEF ResultInv, Working
      <4>3. CASE Waiting(h, z)
        BY <1>3, <3>3, <4>1, <4>3, WaitingAdvances
      <4>4. CASE Right(h, z)
        <5>1. heap'[h].cells[z] = heap[h].cells[z]
          <6>1. ASSUME NEW c \in Cell, heap' = SetZ(heap, t, c)
                PROVE  heap'[h].cells[z] = heap[h].cells[z]
            BY <1>1, <3>3, <4>1, <6>1, SetZFacts DEF Wrote
          <6>2. ASSUME NEW shape, NEW A, NEW B, New(shape, A, B), AddJob(t, t, shape, A, B)
                PROVE  heap'[h].cells[z] = heap[h].cells[z]
            BY <1>1, <3>3, <4>1, <6>2, OtherCells
          <6>3. NoneMisplaced
            BY DEF NoneMisplaced, NoneMistaken
          <6> QED BY <1>1, <6>1, <6>2, <6>3 DEF Effect
        <5> QED BY <1>1, <3>3, <4>1, <4>4, <5>1, RightStays
      <4> QED BY <4>2, <4>3, <4>4
    <3> QED BY <3>1, <3>2, <3>3
  <2> QED BY <2>2, <2>3 DEF ResultInv
<1>4. ~(PFBothNested(t) /\ mpc = "join")
  <2> SUFFICES ASSUME PFBothNested(t), mpc = "join" PROVE FALSE
    OBVIOUS
  <2>1. BothNested(heap[job.z], pos[t] + 1)
    BY <1>1, ActiveFacts DEF PFBothNested, BothNested
  <2>2. Shared(heap[job.z])
    BY DEF Inv, ControlInv
  <2> QED BY <1>1, <2>1, <2>2 DEF NoneMistaken, Mishandled
<1> QED BY <1>2, <1>3, <1>4, ComputesCases

\* a step that leaves the heap alone, and after which no cell is done that was
\* not done before
LEMMA ResultsKept ==
  ASSUME ResultInv, heap' = heap,
         mpc' = "join" => \A t \in Thread : tpc'[t] = "idle" => pos'[t] >= Last(t)',
         Needed' => Needed /\ \A h \in DOMAIN heap : \A z \in DOMAIN heap[h].cells :
                                Waiting(h, z) => Waiting(h, z)'
  PROVE  ResultInv'
<1>1. \A h, z : Right(h, z)' <=> Right(h, z)
  BY DEF Right, PointsTo, OfA, OfB, BothSimple, BothNested, OneNested, TheNested, Inner
<1> QED BY <1>1 DEF ResultInv, Needed

LEMMA ResultsPicked ==
  ASSUME Inv, ResultInv, NEW t \in Thread, PickJob(t)
  PROVE  ResultInv'
<1> DEFINE n == Len(jobs[t])
<1>1. /\ jobs[t] # <<>> /\ job' = jobs[t][n] /\ jobs \in [Thread -> Seq(Job)]
      /\ jobs' = [jobs EXCEPT ![t] = SubSeq(@, 1, Len(@) - 1)]
      /\ heap' = heap /\ arg' = arg /\ heap \in Seq(HeapValue) /\ mpc = "pick"
  BY DEF PickJob, FirstWithJob, Inv, TypeInv
<1>2. n \in DOMAIN jobs[t] /\ jobs[t] \in Seq(Job)
  BY <1>1
<1>3. \A u \in Thread : \A i \in DOMAIN jobs[u] :
        \/ u = t /\ i = n
        \/ i \in DOMAIN jobs'[u] /\ jobs'[u][i] = jobs[u][i]
  <2>1. /\ jobs'[t] = SubSeq(jobs[t], 1, n - 1)
        /\ \A u \in Thread : u # t => jobs'[u] = jobs[u]
    BY <1>1
  <2>2. \A i \in DOMAIN jobs[t] : i # n => i \in DOMAIN jobs'[t] /\ jobs'[t][i] = jobs[t][i]
    BY <1>2, <2>1
  <2> QED BY <2>1, <2>2
<1>4. job'.z \in DOMAIN heap
  BY <1>1, <1>2 DEF Inv, JobsInv, IsJob
<1>5. \A h : Queued(h) => Queued(h)' \/ h = job'.z
  BY <1>1, <1>3 DEF Queued
<1>6. /\ Length(job') = Len(heap[job'.z].cells) /\ Length(job') \in Nat
      /\ DOMAIN heap[job'.z].cells = 1 .. Length(job')
  BY <1>1, <1>4, HeapTypes DEF Length
<1>7. CASE mpc' = "loop"
  <2>1. pos'[Master] = 0
    BY <1>7, CoresType DEF PickJob, Inv, TypeInv
  <2>2. \A z \in 1 .. Length(job') : Todo(z)'
    BY <1>6, <1>7, <2>1 DEF Todo
  <2>3. \A h \in DOMAIN heap : \A z \in DOMAIN heap[h].cells : Waiting(h, z) => Waiting(h, z)'
    BY <1>1, <1>5, <1>6, <1>7, <2>2 DEF Waiting, Working
  <2> QED BY <1>1, <1>7, <2>3, ResultsKept DEF Needed
<1>8. CASE mpc' = "join"
  <2>1. /\ tpc' = [u \in Thread |-> "item"]
        /\ pos' = [u \in Thread |-> SliceFirst(u, Length(job'))]
    BY <1>8 DEF PickJob
  <2>2. \A u : Last(u)' = SliceLast(u, Length(job'))
    BY <1>1 DEF Last, Length
  <2>3. ASSUME NEW z \in 1 .. Length(job') PROVE Todo(z)'
    <3>1. PICK u \in Thread : SliceFirst(u, Length(job')) < z /\ z <= SliceLast(u, Length(job'))
      BY <1>6, SlicesCover
    <3>2. tpc'[u] = "item" /\ Passed(u)' = SliceFirst(u, Length(job'))
      BY <2>1 DEF Passed
    <3> QED BY <1>8, <2>2, <3>1, <3>2 DEF Todo
  <2>4. \A h \in DOMAIN heap : \A z \in DOMAIN heap[h].cells : Waiting(h, z) => Waiting(h, z)'
    BY <1>1, <1>5, <1>6, <1>8, <2>3 DEF Waiting, Working
  <2> QED BY <1>1, <1>8, <2>1, <2>4, ResultsKept DEF Needed
<1>9. mpc' \in {"loop", "join"}
  BY DEF PickJob
<1> QED BY <1>7, <1>8, <1>9

LEMMA ResultsThread ==
  ASSUME Inv, NoneMistaken, ResultInv, NEW t \in Thread, PFTest(t) \/ PFEnd(t)
  PROVE  ResultInv'
<1>1. /\ mpc = "join" /\ UNCHANGED <<arg, mpc, heap, job, jobs, error, result>>
      /\ tpc \in [Thread -> {"item", "test", "idle"}] /\ pos \in [Thread -> Nat]
  BY PFJoins DEF PFTest, PFEnd, Inv, TypeInv
<1>2. \A u : Last(u)' = Last(u)
  BY <1>1 DEF Last, Length
<1>3. \A h : Queued(h)' <=> Queued(h)
  BY <1>1 DEF Queued
<1>4. Last(t) \in Nat
  BY <1>1, SliceFacts DEF Working
<1>5. \/ tpc[t] = "test" /\ tpc' = [tpc EXCEPT ![t] = "item"] /\ pos' = [pos EXCEPT ![t] = @ + 1]
      \/ tpc[t] = "item" /\ pos[t] >= Last(t) /\ tpc' = [tpc EXCEPT ![t] = "idle"] /\ pos' = pos
  <2>1. CASE PFTest(t)
    <3>1. error = OK /\ mine[t] = OK
      BY <1>1, <2>1, NoErrorShared DEF PFTest, Inv, ErrorInv
    <3> QED BY <2>1, <3>1 DEF PFTest
  <2>2. CASE PFEnd(t)
    BY <2>2 DEF PFEnd, AtEnd, Last
  <2> QED BY <2>1, <2>2
<1>6. \A u \in Thread : u # t => tpc'[u] = tpc[u] /\ pos'[u] = pos[u] /\ Passed(u)' = Passed(u)
  BY <1>1, <1>5 DEF Passed
<1>7. \A u \in Thread : tpc'[u] = "idle" => pos'[u] >= Last(u)'
  <2>1. \A u \in Thread : tpc[u] = "idle" => pos[u] >= Last(u)
    BY <1>1 DEF ResultInv
  <2>2. tpc'[t] = "idle" => pos'[t] >= Last(t)
    BY <1>1, <1>5
  <2> QED BY <1>2, <1>6, <2>1, <2>2
<1>8. ASSUME NEW z \in Nat, Todo(z) PROVE Todo(z)'
  <2>1. PICK u \in Thread : tpc[u] # "idle" /\ Passed(u) < z /\ z <= Last(u)
    BY <1>1, <1>8 DEF Todo
  <2>2. CASE u # t
    BY <1>1, <1>2, <1>6, <2>1, <2>2 DEF Todo
  <2>3. CASE u = t
    <3>1. tpc[t] = "test" /\ tpc' = [tpc EXCEPT ![t] = "item"] /\ pos' = [pos EXCEPT ![t] = @ + 1]
      BY <1>1, <1>4, <1>5, <2>1, <2>3 DEF Passed
    <3>2. tpc'[t] = "item" /\ Passed(t)' = Passed(t)
      BY <1>1, <3>1 DEF Passed
    <3> QED BY <1>1, <1>2, <2>1, <2>3, <3>2 DEF Todo
  <2> QED BY <2>2, <2>3
<1>9. \A h \in DOMAIN heap : \A z \in DOMAIN heap[h].cells : z \in Nat
  BY HeapTypes DEF Inv, TypeInv
<1>10. \A h \in DOMAIN heap : \A z \in DOMAIN heap[h].cells : Waiting(h, z) => Waiting(h, z)'
  BY <1>1, <1>3, <1>8, <1>9 DEF Waiting, Working
<1> QED BY <1>1, <1>7, <1>10, ResultsKept DEF Needed

LEMMA StepResults ==
  ASSUME Inv, [Next]_vars, NoneMistaken'
  PROVE  ResultInv'
<1>1. ASSUME Grows, arg' = arg PROVE NoneMistaken /\ ResultInv
  BY <1>1, MistakesStay DEF Inv
<1>2. ASSUME NEW t \in Thread, Computes(t) PROVE ResultInv'
  BY <1>1, <1>2, ComputesGrow, ResultsComputed
<1>3. ASSUME Moves PROVE ResultInv'
  <2>1. heap' = heap /\ heap \in Seq(HeapValue)
    BY <1>3, MovesTypes DEF Inv, TypeInv
  <2>2. arg' = arg
    BY <1>3 DEF Moves, PickJob, AllDone, Throw, SeqEnd, Join, StartError, StartEmpty, PFTest, PFEnd
  <2>3. NoneMistaken /\ ResultInv
    BY <1>1, <2>1, <2>2 DEF Grows, Same
  <2>4. ASSUME NEW t \in Thread, PickJob(t) \/ PFTest(t) \/ PFEnd(t) PROVE ResultInv'
    BY <2>3, <2>4, ResultsPicked, ResultsThread
  <2>5. Throw => ResultInv'
    BY DEF Throw, ResultInv, Inv, ErrorInv
  <2>6. ASSUME StartError \/ StartEmpty PROVE ResultInv'
    <3>1. heap' = <<>> /\ mpc' \in {"failed", "end"}
      BY <2>1, <2>6 DEF StartError, StartEmpty, Inv, ControlInv
    <3> QED BY <3>1 DEF ResultInv
  <2>7. ASSUME AllDone PROVE ResultInv'
    <3>1. \A h, z : ~Waiting(h, z)
      BY <2>7 DEF AllDone, Waiting, Working, Queued
    <3> QED BY <2>1, <2>3, <2>7, <3>1, ResultsKept DEF AllDone, Needed
  <2>8. ASSUME SeqEnd PROVE ResultInv'
    <3>1. Working /\ mpc = "loop" /\ pos[Master] >= Length(job) /\ mpc' = "pick" /\ jobs' = jobs
      BY <2>8 DEF SeqEnd, Working
    <3>2. \A z \in 1 .. Length(job) : ~Todo(z)
      BY <3>1, JobFacts, CoresType DEF Todo, Inv, TypeInv
    <3>3. \A h : Queued(h)' <=> Queued(h)
      BY <3>1 DEF Queued
    <3>4. \A h \in DOMAIN heap : \A z \in DOMAIN heap[h].cells : Waiting(h, z) => Waiting(h, z)'
      BY <3>1, <3>2, <3>3, JobFacts DEF Waiting
    <3> QED BY <2>1, <2>3, <3>1, <3>4, ResultsKept DEF Needed
  <2>9. ASSUME Join PROVE ResultInv'
    <3>1. /\ mpc = "join" /\ mpc' # "join" /\ jobs' = jobs
          /\ \A t \in Thread : tpc[t] = "idle"
      BY <2>9 DEF Join
    <3>2. \A z : ~Todo(z)
      BY <3>1 DEF Todo
    <3>3. \A h : Queued(h)' <=> Queued(h)
      BY <3>1 DEF Queued
    <3>4. \A h, z : Waiting(h, z) => Waiting(h, z)'
      BY <3>2, <3>3 DEF Waiting
    <3> QED BY <2>1, <2>3, <3>1, <3>4, ResultsKept DEF Needed
  <2> QED BY <1>3, <2>4, <2>5, <2>6, <2>7, <2>8, <2>9 DEF Moves
<1>4. ASSUME StartJob PROVE ResultInv'
  <2>1. mpc' = "pick" /\ heap' = <<heap'[1]>>
    BY <1>4, StartJobFacts DEF StartJob
  <2>2. jobs'[Master] = <<[z |-> 1, A |-> arg.A, B |-> arg.B]>>
    BY <1>4, CoresType DEF StartJob, Inv, TypeInv
  <2>3. 1 \in DOMAIN jobs'[Master] /\ jobs'[Master][1].z = 1
    BY <2>2
  <2>4. \A z : Waiting(1, z)'
    BY <2>3, CoresType DEF Waiting, Queued
  <2>5. DOMAIN heap' = {1}
    BY <2>1
  <2> QED BY <2>1, <2>4, <2>5 DEF ResultInv
<1>5. ASSUME Again PROVE ResultInv'
  BY <1>5 DEF Again, ResultInv
<1>6. ASSUME UNCHANGED vars PROVE ResultInv'
  <2>1. heap' = heap /\ arg' = arg /\ heap \in Seq(HeapValue)
    BY <1>6 DEF vars, Inv, TypeInv
  <2>2. ResultInv
    BY <1>1, <2>1 DEF Grows, Same
  <2>3. \A h, z : Waiting(h, z)' <=> Waiting(h, z)
    BY <1>6 DEF vars, Waiting, Working, Queued, Todo, Passed, Last, Length
  <2>4. \A t : Last(t)' = Last(t)
    BY <1>6 DEF vars, Last, Length
  <2>5. mpc' = mpc /\ tpc' = tpc /\ pos' = pos /\ result' = result
    BY <1>6 DEF vars
  <2>6. mpc' = "join" => \A t \in Thread : tpc'[t] = "idle" => pos'[t] >= Last(t)'
    BY <2>2, <2>4, <2>5 DEF ResultInv
  <2>7. Needed' <=> Needed
    BY <2>5 DEF Needed
  <2> QED BY <2>1, <2>2, <2>3, <2>6, <2>7, ResultsKept
<1> QED BY <1>2, <1>3, <1>4, <1>5, <1>6, Steps

-----------------------------------------------------------------------------
(* The theorems.                                                           *)

LEMMA InitInv == Init => Inv
<1> SUFFICES ASSUME Init PROVE Inv
  OBVIOUS
<1>1. /\ arg \in Calls /\ mpc = "start" /\ heap = <<>> /\ jobs = NoJobs
      /\ tpc = [t \in Thread |-> "idle"] /\ pos = [t \in Thread |-> 0]
      /\ mine = [t \in Thread |-> OK] /\ error = OK /\ ec = OK
  BY DEF Init
<1>2. jobs \in [Thread -> Seq(Job)] /\ \A t \in Thread : DOMAIN jobs[t] = {}
  BY <1>1 DEF NoJobs
<1>3. heap \in Seq(HeapValue) /\ DOMAIN heap = {}
  BY <1>1
<1>4. TypeInv
  BY <1>1, <1>2, <1>3 DEF TypeInv, Code
<1>5. HeapInv /\ JobsInv
  BY <1>1, <1>2, <1>3 DEF HeapInv, JobsInv, Working
<1>6. ControlInv /\ FirstInv /\ ErrorInv
  BY <1>1, <1>3 DEF ControlInv, FirstInv, ErrorInv
<1>7. PointInv /\ ResultInv
  BY <1>1, <1>3 DEF PointInv, ResultInv
<1> QED BY <1>4, <1>5, <1>6, <1>7 DEF Inv

LEMMA StepInv == Inv /\ [Next]_vars => Inv'
  BY StepTypes, StepJobs, StepControl, StepFirst, StepErrors, StepPoints, StepResults DEF Inv

THEOREM Invariance == Spec => []Inv
  BY InitInv, StepInv, PTL DEF Spec

LEMMA InvTypeOK == Inv => TypeOK
<1> SUFFICES ASSUME Inv PROVE TypeOK
  OBVIOUS
<1>1. /\ mpc \in {"start", "pick", "loop", "join", "failed", "end"}
      /\ tpc \in [Thread -> {"item", "test", "idle"}] /\ pos \in [Thread -> Nat]
  BY DEF Inv, TypeInv
<1>2. \A id \in DOMAIN heap :
        /\ Len(heap[id].cells) = Volume(heap[id].shape)
        /\ heap[id].valid \in 0 .. Len(heap[id].cells)
  BY HeapTypes DEF Inv, TypeInv, HeapInv, WellFormed
<1>3. \A t \in Thread : \A k \in DOMAIN jobs[t] : jobs[t][k].z \in DOMAIN heap
  BY DEF Inv, JobsInv, IsJob
<1>4. mpc \in {"loop", "join"} => job.z \in DOMAIN heap
  BY JobFacts DEF Working
<1> QED BY <1>1, <1>2, <1>3, <1>4 DEF TypeOK

\* The state of eval_scalar_AB() is well formed in every state: jobs are for
\* values of the heap, whose cells are as many as their shapes say.
THEOREM TypeCorrect == Spec => []TypeOK
  BY Invariance, InvTypeOK, PTL

LEMMA InvItems == Inv => ItemsAreComputed
<1> SUFFICES ASSUME Inv, mpc = "end" PROVE ItemsAreComputed
  BY DEF ItemsAreComputed
<1> DEFINE c == Conforming(arg.A.shape, arg.B.shape)
<1>1. (result.ec = OK /\ heap = <<>>) => c.ec = OK /\ Volume(c.shape) = 0
  BY DEF Inv, FirstInv
<1>2. ASSUME result.ec = OK, heap # <<>>
      PROVE  /\ c.ec = OK /\ heap[1].shape = c.shape
             /\ heap[1].A = arg.A /\ heap[1].B = arg.B
  BY <1>2 DEF Inv, FirstInv
<1>3. ASSUME result.ec = OK, NoneMistaken
      PROVE  \A h \in DOMAIN heap : \A z \in DOMAIN heap[h].cells : Right(h, z)
  <2>1. \A h, z : ~Waiting(h, z)
    BY DEF Waiting, Working, Queued, Inv, ControlInv, NoJobs
  <2> QED BY <1>3, <2>1 DEF Inv, ResultInv
<1>4. result.ec # OK =>
             \/ c.ec # OK
             \/ \E h \in DOMAIN heap : \E z \in DOMAIN heap[h].cells : Fails(heap[h], z)
  BY DEF Inv, ErrorInv, SomethingFails
<1> HIDE DEF c
<1>5. ItemsAreComputed <=>
        /\ (result.ec = OK /\ heap = <<>>) => c.ec = OK /\ Volume(c.shape) = 0
        /\ (result.ec = OK /\ heap # <<>>) =>
             /\ c.ec = OK /\ heap[1].shape = c.shape
             /\ heap[1].A = arg.A /\ heap[1].B = arg.B
             /\ NoneMistaken =>
                  \A h \in DOMAIN heap : \A z \in DOMAIN heap[h].cells : Right(h, z)
        /\ result.ec # OK =>
             \/ c.ec # OK
             \/ \E h \in DOMAIN heap : \E z \in DOMAIN heap[h].cells : Fails(heap[h], z)
  BY DEF ItemsAreComputed, c
<1> QED BY <1>1, <1>2, <1>3, <1>4, <1>5

\* What eval_scalar_AB() returns is computed item by item from its arguments,
\* whatever the values, the number of threads and their interleaving; what it
\* throws has a reason in them.
THEOREM ComputedItems == Spec => []ItemsAreComputed
  BY Invariance, InvItems, PTL

LEMMA InvOneOwner == Inv => OneOwner
<1> SUFFICES ASSUME Inv PROVE OneOwner
  OBVIOUS
<1>1. heap \in Seq(HeapValue) /\ \A h \in DOMAIN heap : h \in Nat
  BY HeapTypes DEF Inv, TypeInv
<1>2. ASSUME NoneMisplaced, NEW id \in DOMAIN heap \ {1}
      PROVE  Cardinality(PointersTo(id)) = 1
  <2>1. PointInv
    BY <1>2 DEF Inv
  <2>2. PICK h \in DOMAIN heap : \E z \in DOMAIN heap[h].cells : heap[h].cells[z] = Pointer(id)
    BY <2>1 DEF PointInv
  <2>3. PICK z \in DOMAIN heap[h].cells : heap[h].cells[z] = Pointer(id)
    BY <2>2
  <2>4. <<h, z>> \in PointersTo(id)
    BY <2>3 DEF PointersTo
  <2>5. \A p \in PointersTo(id) : p = <<h, z>>
    <3> SUFFICES ASSUME NEW p \in PointersTo(id) PROVE p = <<h, z>>
      OBVIOUS
    <3>1. PICK i \in DOMAIN heap : p \in {i} \X DOMAIN heap[i].cells
      BY DEF PointersTo
    <3>2. PICK x \in DOMAIN heap[i].cells : p = <<i, x>>
      BY <3>1
    <3>3. heap[i].cells[x] = Pointer(id)
      BY <3>2 DEF PointersTo
    <3>4. i = h /\ x = z
      BY <2>1, <2>3, <3>3 DEF PointInv
    <3> QED BY <3>2, <3>4
  <2>6. PointersTo(id) = {<<h, z>>}
    BY <2>4, <2>5
  <2> QED BY <2>6, FS_Singleton
<1>3. ASSUME NEW id \in DOMAIN heap PROVE Cardinality(JobsFor(id)) <= 1
  <2>1. ASSUME NEW p \in JobsFor(id)
        PROVE  \E t \in Thread : \E i \in DOMAIN jobs[t] : p = <<t, i>> /\ jobs[t][i].z = id
    <3>1. PICK t \in Thread : p \in {t} \X DOMAIN jobs[t]
      BY DEF JobsFor
    <3>2. PICK i \in DOMAIN jobs[t] : p = <<t, i>>
      BY <3>1
    <3> QED BY <3>2 DEF JobsFor
  <2>2. \A p, q \in JobsFor(id) : p = q
    BY <2>1 DEF Inv, JobsInv
  <2>3. CASE JobsFor(id) = {}
    BY <2>3, FS_EmptySet
  <2>4. CASE JobsFor(id) # {}
    <3>1. PICK p : JobsFor(id) = {p}
      BY <2>2, <2>4
    <3>2. Cardinality(JobsFor(id)) = 1
      BY <3>1, FS_Singleton
    <3> QED BY <3>2
  <2> QED BY <2>3, <2>4
<1> QED BY <1>2, <1>3 DEF OneOwner

\* Every value that is computed belongs to one cell and is in one job list at
\* most, whatever the values, the number of threads and their interleaving.
THEOREM OneOwnerEach == Spec => []OneOwner
  BY Invariance, InvOneOwner, PTL

-----------------------------------------------------------------------------
(* The recursion of Pervade is well-founded, so that Pervade is what its   *)
(* definition says.                                                        *)

\* The pairs of values, and how deep they are
ValuePair == Values \X Values
Rank(p) == Depth[p[1]] + Depth[p[2]]

\* An item is less deep than its value, and a scalar with it is not deeper.
LEMMA ItemDepth ==
  ASSUME NEW v \in Values, NEW n \in Nat, n # 0, Extends(v, n), NEW z \in 1 .. n
  PROVE  /\ Depth[v] \in Nat /\ Depth[Scalar(ItemAt(v, z))] <= Depth[v]
         /\ IsNested(ItemAt(v, z)) => Depth[ItemAt(v, z).val] < Depth[v]
<1>1. \E i \in DOMAIN v.items : ItemAt(v, z) = v.items[i]
  BY ItemIndex
<1> QED BY <1>1, DepthAssumption

LEMMA RankType ==
  ASSUME NEW p \in ValuePair
  PROVE  Rank(p) \in Nat
<1>1. p[1] \in Values /\ p[2] \in Values
  BY DEF ValuePair
<1> QED BY <1>1, DepthAssumption DEF Rank

\* The results for pairs of items come from pairs that are less deep.
LEMMA ItemRank ==
  ASSUME NEW A \in Values, NEW B \in Values, NEW n \in Nat, n # 0, Extends(A, n), Extends(B, n),
         NEW z \in 1 .. n, IsNested(ItemAt(A, z)) \/ IsNested(ItemAt(B, z))
  PROVE  LET p == <<Item1(ItemAt(A, z)), Item1(ItemAt(B, z))>>
         IN  p \in ValuePair /\ Rank(p) < Rank(<<A, B>>)
<1> DEFINE a == ItemAt(A, z)
           b == ItemAt(B, z)
<1>1. /\ a \in Item /\ Scalar(a) \in Values /\ b \in Item /\ Scalar(b) \in Values
  BY ItemFacts
<1>2. Item1(a) \in Values /\ Item1(b) \in Values
  BY <1>1, ItemKinds
<1>3. /\ Depth[A] \in Nat /\ Depth[Scalar(a)] <= Depth[A] /\ (IsNested(a) => Depth[a.val] < Depth[A])
      /\ Depth[B] \in Nat /\ Depth[Scalar(b)] <= Depth[B] /\ (IsNested(b) => Depth[b.val] < Depth[B])
  BY ItemDepth
<1>4. Depth[Item1(a)] \in Nat /\ Depth[Item1(b)] \in Nat
  BY <1>2, DepthAssumption
<1>5. Item1(a) = IF IsNested(a) THEN a.val ELSE Scalar(a)
  BY DEF Item1
<1>6. Item1(b) = IF IsNested(b) THEN b.val ELSE Scalar(b)
  BY DEF Item1
<1>7. IsNested(a) \/ IsNested(b)
  OBVIOUS
<1> HIDE DEF a, b
<1>8. Depth[Item1(a)] <= Depth[A] /\ (IsNested(a) => Depth[Item1(a)] < Depth[A])
  BY <1>3, <1>4, <1>5
<1>9. Depth[Item1(b)] <= Depth[B] /\ (IsNested(b) => Depth[Item1(b)] < Depth[B])
  BY <1>3, <1>4, <1>6
<1>10. Depth[Item1(a)] + Depth[Item1(b)] < Depth[A] + Depth[B]
  BY <1>3, <1>4, <1>7, <1>8, <1>9
<1>11. /\ <<Item1(a), Item1(b)>> \in ValuePair
       /\ Rank(<<Item1(a), Item1(b)>>) < Rank(<<A, B>>)
  BY <1>2, <1>10 DEF ValuePair, Rank
<1> QED BY <1>11 DEF a, b

\* The result for a pair depends on the results for pairs that are less deep.
LEMMA PervadeBelow ==
  ASSUME NEW f, NEW g, NEW A \in Values, NEW B \in Values,
         \A p \in ValuePair : Rank(p) < Rank(<<A, B>>) => f[p] = g[p]
  PROVE  PervadeBy(f, A, B) = PervadeBy(g, A, B)
<1> DEFINE c == Conforming(A.shape, B.shape)
           n == Volume(c.shape)
           R(h) == [z \in 1..n |-> ItemBy(h, ItemAt(A, z), ItemAt(B, z))]
<1>1. c.ec = OK => n \in Nat /\ (n # 0 => Extends(A, n) /\ Extends(B, n))
  BY ConformingFacts
<1>2. CASE c.ec # OK
  BY <1>2 DEF PervadeBy
<1>3. CASE c.ec = OK /\ n = 0
  BY <1>3 DEF PervadeBy
<1>4. CASE c.ec = OK /\ n # 0
  <2>1. ASSUME NEW z \in 1 .. n
        PROVE  ItemBy(f, ItemAt(A, z), ItemAt(B, z)) = ItemBy(g, ItemAt(A, z), ItemAt(B, z))
    <3> DEFINE a == ItemAt(A, z)
               b == ItemAt(B, z)
    <3>1. CASE ~IsNested(a) /\ ~IsNested(b)
      BY <3>1 DEF ItemBy
    <3>2. CASE IsNested(a) \/ IsNested(b)
      <4>1. f[<<Item1(a), Item1(b)>>] = g[<<Item1(a), Item1(b)>>]
        <5> HIDE DEF n
        <5> QED BY <1>1, <1>4, <3>2, ItemRank
      <4> QED BY <3>2, <4>1 DEF ItemBy
    <3> QED BY <3>1, <3>2
  <2>2. R(f) = R(g)
    BY <2>1
  <2> QED BY <2>2 DEF PervadeBy
<1> QED BY <1>2, <1>3, <1>4

\* f is what Pervade should be for pairs that are less deep than n.
Approximates(f, n) ==
  \A p \in ValuePair : Rank(p) < n => f[p] = PervadeBy(f, p[1], p[2])

LEMMA SameBelow ==
  ASSUME NEW f, NEW g, NEW n \in Nat, NEW m \in Nat, Approximates(f, n), Approximates(g, m),
         NEW p \in ValuePair, Rank(p) < n, Rank(p) < m
  PROVE  f[p] = g[p]
<1> DEFINE D == { Rank(q) : q \in { r \in ValuePair : Rank(r) < n /\ Rank(r) < m /\ f[r] # g[r] } }
<1> SUFFICES ASSUME f[p] # g[p] PROVE FALSE
  OBVIOUS
<1>1. D \in SUBSET Nat /\ D # {}
  BY RankType
<1>2. PICK k \in D : \A d \in D : ~(d < k)
  <2> HIDE DEF D
  <2> QED BY <1>1, Least
<1>3. PICK q \in ValuePair : k = Rank(q) /\ k < n /\ k < m /\ f[q] # g[q]
  BY <1>2
<1>4. \A r \in ValuePair : Rank(r) < k => f[r] = g[r]
  BY <1>2, <1>3, RankType
<1>5. q[1] \in Values /\ q[2] \in Values /\ q = <<q[1], q[2]>>
  BY DEF ValuePair
<1>6. PervadeBy(f, q[1], q[2]) = PervadeBy(g, q[1], q[2])
  BY <1>3, <1>4, <1>5, PervadeBelow
<1> QED BY <1>3, <1>6 DEF Approximates

LEMMA Approximation ==
  ASSUME NEW n \in Nat
  PROVE  \E f : Approximates(f, n)
<1> DEFINE D == { m \in Nat : ~ \E f : Approximates(f, m) }
<1> SUFFICES ASSUME D # {} PROVE FALSE
  OBVIOUS
<1>1. PICK k \in D : \A d \in D : ~(d < k)
  <2> D \in SUBSET Nat
    OBVIOUS
  <2> HIDE DEF D
  <2> QED BY Least
<1>2. k # 0
  <2>1. \A f : Approximates(f, 0)
    BY RankType DEF Approximates
  <2> QED BY <2>1
<1>3. k \in Nat /\ k - 1 \in Nat /\ k - 1 < k
  BY <1>2
<1>4. PICK g : Approximates(g, k - 1)
  BY <1>1, <1>3
<1> DEFINE h == [p \in ValuePair |-> IF Rank(p) < k - 1 THEN g[p] ELSE PervadeBy(g, p[1], p[2])]
<1>5. ASSUME NEW p \in ValuePair, Rank(p) < k
      PROVE  h[p] = PervadeBy(h, p[1], p[2])
  <2>1. h[p] = PervadeBy(g, p[1], p[2])
    BY <1>4, <1>5 DEF Approximates
  <2>2. p[1] \in Values /\ p[2] \in Values /\ p = <<p[1], p[2]>>
    BY DEF ValuePair
  <2>3. \A q \in ValuePair : Rank(q) < Rank(p) => Rank(q) < k - 1
    BY <1>3, <1>5, RankType
  <2>4. \A q \in ValuePair : Rank(q) < Rank(p) => g[q] = h[q]
    BY <2>3
  <2> HIDE DEF h
  <2>5. PervadeBy(g, p[1], p[2]) = PervadeBy(h, p[1], p[2])
    BY <2>2, <2>4, PervadeBelow
  <2> QED BY <2>1, <2>5
<1> HIDE DEF h
<1>6. Approximates(h, k)
  BY <1>5 DEF Approximates
<1> QED BY <1>1, <1>6

LEMMA PervadeIs ==
  ASSUME NEW A \in Values, NEW B \in Values
  PROVE  Pervade[<<A, B>>] = PervadeBy(Pervade, A, B)
<1> DEFINE G(n) == CHOOSE g : Approximates(g, n)
           f == [p \in ValuePair |-> G(Rank(p) + 1)[p]]
<1>1. ASSUME NEW n \in Nat PROVE Approximates(G(n), n)
  BY Approximation
<1> HIDE DEF G
<1>2. ASSUME NEW p \in ValuePair, NEW n \in Nat, Rank(p) < n
      PROVE  f[p] = G(n)[p]
  <2>1. Rank(p) + 1 \in Nat /\ Rank(p) < Rank(p) + 1
    BY RankType
  <2> QED BY <1>1, <1>2, <2>1, SameBelow
<1>3. ASSUME NEW p \in ValuePair
      PROVE  f[p] = PervadeBy(f, p[1], p[2])
  <2> DEFINE n == Rank(p) + 1
  <2>1. n \in Nat /\ Rank(p) < n /\ Rank(p) \in Nat
    BY RankType
  <2>2. f[p] = PervadeBy(G(n), p[1], p[2])
    BY <1>1, <2>1 DEF Approximates
  <2>3. p[1] \in Values /\ p[2] \in Values /\ p = <<p[1], p[2]>>
    BY DEF ValuePair
  <2> HIDE DEF f
  <2>4. \A q \in ValuePair : Rank(q) < Rank(p) => G(n)[q] = f[q]
    BY <1>2, <2>1, RankType
  <2> HIDE DEF n
  <2>5. PervadeBy(G(n), p[1], p[2]) = PervadeBy(f, p[1], p[2])
    BY <2>3, <2>4, PervadeBelow
  <2> QED BY <2>2, <2>5
<1>4. f = [p \in ValuePair |-> PervadeBy(f, p[1], p[2])]
  <2>1. f = [p \in ValuePair |-> f[p]]
    OBVIOUS
  <2> HIDE DEF f
  <2> QED BY <1>3, <2>1, Zenon
<1> HIDE DEF f
<1>5. Pervade = [p \in ValuePair |-> PervadeBy(Pervade, p[1], p[2])]
  BY <1>4, Zenon DEF Pervade, ValuePair
<1>6. <<A, B>> \in ValuePair
  BY DEF ValuePair
<1> HIDE DEF ValuePair
<1> QED BY <1>5, <1>6

-----------------------------------------------------------------------------
(* What Pervade says of two values and their items.                        *)

\* the result of Pervade for cell z of A and B
ItemResult(A, B, z) == ItemBy(Pervade, ItemAt(A, z), ItemAt(B, z))

\* A fun B fails if the shapes do not conform or the function fails for some items,
\* and else has the results for the items.
LEMMA PervadeFails ==
  ASSUME NEW A \in Values, NEW B \in Values, NEW z,
         LET c == Conforming(A.shape, B.shape)
         IN  \/ c.ec # OK
             \/ z \in 1 .. Volume(c.shape) /\ ItemResult(A, B, z).ec # OK
  PROVE  Pervade[<<A, B>>].ec # OK
<1> DEFINE c == Conforming(A.shape, B.shape)
           n == Volume(c.shape)
           r == [y \in 1..n |-> ItemBy(Pervade, ItemAt(A, y), ItemAt(B, y))]
           failed == { y \in 1..n : r[y].ec # OK }
<1>1. CASE c.ec # OK
  <2>1. PervadeBy(Pervade, A, B) = [ec |-> c.ec, value |-> Scalar(Zero)]
    BY <1>1 DEF PervadeBy
  <2> QED BY <1>1, <2>1, PervadeIs
<1>2. CASE c.ec = OK
  <2>1. z \in 1 .. n /\ ItemResult(A, B, z).ec # OK /\ n \in Nat
    BY <1>2, ConformingFacts
  <2>2. n # 0 /\ failed # {}
    BY <2>1 DEF ItemResult
  <2>3. PervadeBy(Pervade, A, B) = [ec |-> r[CHOOSE y \in failed : TRUE].ec, value |-> Scalar(Zero)]
    BY <1>2, <2>2 DEF PervadeBy
  <2>4. (CHOOSE y \in failed : TRUE) \in failed
    <3> HIDE DEF failed
    <3> QED BY <2>2
  <2>5. r[CHOOSE y \in failed : TRUE].ec # OK
    BY <2>4
  <2> HIDE DEF r, failed
  <2>6. PervadeBy(Pervade, A, B).ec # OK
    BY <2>3, <2>5
  <2> QED BY <2>6, PervadeIs
<1> QED BY <1>1, <1>2

LEMMA PervadeEmpty ==
  ASSUME NEW A \in Values, NEW B \in Values,
         Conforming(A.shape, B.shape).ec = OK, Volume(Conforming(A.shape, B.shape).shape) = 0
  PROVE  Pervade[<<A, B>>] = [ec |-> OK, value |-> FillAB(A, B)]
<1>1. PervadeBy(Pervade, A, B) = [ec |-> OK, value |-> FillAB(A, B)]
  BY DEF PervadeBy
<1> QED BY <1>1, PervadeIs

LEMMA PervadeSucceeds ==
  ASSUME NEW A \in Values, NEW B \in Values, NEW n \in Nat, n # 0,
         NEW c, c = Conforming(A.shape, B.shape), c.ec = OK, Volume(c.shape) = n,
         \A z \in 1 .. n : ItemResult(A, B, z).ec = OK
  PROVE  Pervade[<<A, B>>] =
           [ec |-> OK, value |-> [shape |-> c.shape,
                                  items |-> [z \in 1 .. n |-> ItemResult(A, B, z).item]]]
<1> DEFINE r == [z \in 1..n |-> ItemBy(Pervade, ItemAt(A, z), ItemAt(B, z))]
           failed == { z \in 1..n : r[z].ec # OK }
<1>1. failed = {}
  BY DEF ItemResult
<1>2. PervadeBy(Pervade, A, B) =
        [ec |-> OK, value |-> [shape |-> c.shape, items |-> [z \in 1..n |-> r[z].item]]]
  BY <1>1 DEF PervadeBy
<1>3. [z \in 1..n |-> r[z].item] = [z \in 1 .. n |-> ItemResult(A, B, z).item]
  BY DEF ItemResult
<1> QED BY <1>2, <1>3, PervadeIs

\* Which shapes conform does not depend on their order, nor does the number of items.
LEMMA ConformingEither ==
  ASSUME NEW A \in Values, NEW B \in Values
  PROVE  LET c == Conforming(A.shape, B.shape)
             d == Conforming(B.shape, A.shape)
         IN  /\ c.ec = OK <=> d.ec = OK
             /\ c.ec = OK => Volume(c.shape) = Volume(d.shape)
<1> DEFINE c == Conforming(A.shape, B.shape)
           d == Conforming(B.shape, A.shape)
           a == A.shape
           b == B.shape
<1>1. (c.ec = OK <=> d.ec = OK) /\ (c.ec = OK => \/ c.shape = d.shape
                                                 \/ Volume(a) = 1 /\ Volume(b) = 1)
  <2>1. CASE a = <<>> \/ b = <<>> \/ Volume(a) = 1 \/ Volume(b) = 1 \/ a = b
    <3>1. c = [ec |-> OK, shape |-> IF a = <<>> \/ (b # <<>> /\ Volume(a) = 1) THEN b ELSE a]
      BY <2>1 DEF Conforming
    <3>2. d = [ec |-> OK, shape |-> IF b = <<>> \/ (a # <<>> /\ Volume(b) = 1) THEN a ELSE b]
      BY <2>1 DEF Conforming
    <3> HIDE DEF c, d
    <3>3. c.ec = OK /\ d.ec = OK
      BY <3>1, <3>2
    <3>4. \/ c.shape = d.shape
          \/ Volume(a) = 1 /\ Volume(b) = 1
      BY <2>1, <3>1, <3>2
    <3> QED BY <3>3, <3>4
  <2>2. CASE ~(a = <<>> \/ b = <<>> \/ Volume(a) = 1 \/ Volume(b) = 1 \/ a = b)
    BY <2>2 DEF Conforming, OK
  <2> QED BY <2>1, <2>2
<1>2. c.ec = OK => c.shape \in {a, b}
  BY DEF Conforming, OK
<1>3. d.ec = OK => d.shape \in {a, b}
  BY DEF Conforming, OK
<1> HIDE DEF c, d
<1>4. /\ c.ec = OK <=> d.ec = OK
      /\ c.ec = OK => Volume(c.shape) = Volume(d.shape)
  BY <1>1, <1>2, <1>3
<1> QED BY <1>4 DEF c, d

\* a scalar and something else
LEMMA ScalarConforming ==
  ASSUME NEW shape, NEW a
  PROVE  /\ Conforming(shape, Scalar(a).shape) = [ec |-> OK, shape |-> shape]
         /\ Conforming(Scalar(a).shape, shape) = [ec |-> OK, shape |-> shape]
  BY DEF Conforming, Scalar

-----------------------------------------------------------------------------
(* An error of the function for the arguments of a value is one of the     *)
(* call, and what eval_scalar_AB() returns.                                *)

\* No pair of nested items is computed by the threads, which would take the
\* first one for a scalar.
NoneEnclosed ==
  \A h \in DOMAIN heap : \A z \in DOMAIN heap[h].cells :
     ~(Shared(heap[h]) /\ BothNested(heap[h], z))

\* Value v of the heap has as many cells as its arguments conform to, and if the
\* function fails for them then it does for those of the call.
Chained(v) ==
  LET c == Conforming(v.A.shape, v.B.shape)
  IN  /\ c.ec = OK /\ Volume(c.shape) = Len(v.cells)
      /\ Pervade[<<v.A, v.B>>].ec # OK => Pervade[<<arg.A, arg.B>>].ec # OK
ChainInv == NoneEnclosed => \A h \in DOMAIN heap : Chained(heap[h])

\* A and B are the arguments for a nested item of value v.
ItemsOf(v, A, B) ==
  \E z \in 1 .. Len(v.cells) :
    /\ IsNested(OfA(v, z)) \/ IsNested(OfB(v, z))
    /\ A = Item1(OfA(v, z)) /\ B = Item1(OfB(v, z))

LEMMA ItemsChained ==
  ASSUME NEW v, v.A \in Values, v.B \in Values, Chained(v), NEW w, ItemsOf(v, w.A, w.B),
         NEW c, c = Conforming(w.A.shape, w.B.shape), c.ec = OK, Volume(c.shape) = Len(w.cells)
  PROVE  Chained(w)
<1> SUFFICES ASSUME Pervade[<<w.A, w.B>>].ec # OK
             PROVE  Pervade[<<arg.A, arg.B>>].ec # OK
  BY DEF Chained
<1>1. PICK z \in 1 .. Len(v.cells) :
        /\ IsNested(OfA(v, z)) \/ IsNested(OfB(v, z))
        /\ w.A = Item1(OfA(v, z)) /\ w.B = Item1(OfB(v, z))
  BY DEF ItemsOf
<1>2. ItemResult(v.A, v.B, z).ec = Pervade[<<w.A, w.B>>].ec
  BY <1>1 DEF ItemResult, ItemBy, OfA, OfB
<1>3. Pervade[<<v.A, v.B>>].ec # OK
  BY <1>2, PervadeFails DEF Chained
<1> QED BY <1>3 DEF Chained

LEMMA SameChained ==
  ASSUME NEW v, NEW w, Same(v, w), Chained(w)
  PROVE  Chained(v)
  BY DEF Same, Chained

\* A thread adds at most one value, for a pair of items of the value of the job.
LEMMA ComputesAdds ==
  ASSUME Inv, NoneEnclosed, NEW t \in Thread, Computes(t)
  PROVE  \/ Len(heap') = Len(heap)
         \/ LET w == heap'[Len(heap) + 1]
                c == Conforming(w.A.shape, w.B.shape)
            IN  /\ Len(heap') = Len(heap) + 1
                /\ ItemsOf(heap[job.z], w.A, w.B)
                /\ c.ec = OK /\ Volume(c.shape) = Len(w.cells)
<1> DEFINE a == ItemA(t)
           b == ItemB(t)
           v == heap[job.z]
           z == pos[t] + 1
           Adds(w) == LET c == Conforming(w.A.shape, w.B.shape)
                      IN  /\ ItemsOf(v, w.A, w.B)
                          /\ c.ec = OK /\ Volume(c.shape) = Len(w.cells)
<1>1. /\ Active(t) /\ Working /\ heap \in Seq(HeapValue) /\ job.z \in DOMAIN heap
      /\ z \in DOMAIN v.cells /\ DOMAIN v.cells = 1 .. Len(v.cells)
      /\ a = OfA(v, z) /\ b = OfB(v, z) /\ a \in Item /\ b \in Item
      /\ Scalar(a) \in Values /\ Scalar(b) \in Values
  BY ComputesEffect, ActiveFacts, JobFacts DEF Inv, TypeInv
<1>9. ASSUME NEW shape, NEW A, NEW B, New(shape, A, B), AddJob(t, t, shape, A, B)
      PROVE  Len(heap') = Len(heap) + 1 /\ heap'[Len(heap) + 1] = NewValue(shape, A, B)
  BY <1>1, <1>9, AddJobFacts
<1>2. ASSUME NEW shape, NEW A, NEW B, New(shape, A, B), AddJob(t, t, shape, A, B),
             IsNested(a) \/ IsNested(b), A = Item1(a), B = Item1(b),
             NEW c, c = Conforming(A.shape, B.shape), c.ec = OK, Volume(c.shape) = Volume(shape)
      PROVE  Len(heap') = Len(heap) + 1 /\ Adds(heap'[Len(heap) + 1])
  <2>1. Len(heap') = Len(heap) + 1 /\ heap'[Len(heap) + 1] = NewValue(shape, A, B)
    BY <1>2, <1>9
  <2>2. NewValue(shape, A, B).A = A /\ NewValue(shape, A, B).B = B
        /\ Len(NewValue(shape, A, B).cells) = Volume(shape)
    BY <1>2, NewValueFacts DEF New
  <2>3. ItemsOf(v, A, B)
    <3> HIDE DEF z
    <3> QED BY <1>1, <1>2 DEF ItemsOf
  <2> QED BY <1>2, <2>1, <2>2, <2>3
<1>3. ASSUME NEW c \in Cell, heap' = SetZ(heap, t, c)
      PROVE  Len(heap') = Len(heap)
  BY <1>1, <1>3, SetZFacts
<1>4. CASE SeqSimple /\ t = Master
  BY <1>1, <1>3, <1>4, CellKinds DEF SeqSimple
<1>5. CASE PFSimple(t)
  BY <1>1, <1>3, <1>5, CellKinds DEF PFSimple
<1>6. CASE (SeqOneNested /\ t = Master) \/ PFOneNested(t)
  <2> DEFINE n == IF IsNested(a) THEN a.val ELSE b.val
  <2>1. IsNested(a) # IsNested(b)
    BY <1>6 DEF SeqOneNested, PFOneNested
  <2>2. n = IF IsNested(a) THEN Item1(a) ELSE Item1(b)
    BY <2>1, Either DEF Item1
  <2>3. n \in Values /\ (~IsEmpty(n) => New(n.shape, Item1(a), Item1(b)))
    BY <1>1, <2>1, NewOneNested
  <2>4. CASE IsEmpty(n)
    <3>1. IsEmpty(n) => FillAB(Item1(a), Item1(b)) = FillB(n)
      BY <1>1, <2>1, FillOfOne
    <3>2. heap' = SetZ(heap, t, Enclosed(FillB(n)))
      BY <1>6, <2>2, <2>4, <3>1 DEF SeqOneNested, PFOneNested
    <3> HIDE DEF n
    <3> QED BY <1>3, <2>3, <3>2, CellKinds
  <2>5. CASE ~IsEmpty(n)
    <3>1. AddJob(t, t, n.shape, Item1(a), Item1(b))
      BY <1>6, <2>2, <2>5 DEF SeqOneNested, PFOneNested
    <3>2. Conforming(Item1(a).shape, Item1(b).shape) = [ec |-> OK, shape |-> n.shape]
      BY <2>1, <2>2, Either, ScalarConforming DEF Item1
    <3> DEFINE c == Conforming(Item1(a).shape, Item1(b).shape)
    <3>3. c.ec = OK /\ c.shape = n.shape
      BY <3>2
    <3>4. IsNested(a) \/ IsNested(b)
      BY <2>1, Either
    <3> HIDE DEF n, c
    <3> QED BY <1>2, <2>3, <2>5, <3>1, <3>3, <3>4 DEF c
  <2> QED BY <2>4, <2>5
<1>7. CASE SeqBothNested /\ t = Master
  <2> DEFINE c == Conforming(b.val.shape, a.val.shape)
             d == Conforming(a.val.shape, b.val.shape)
  <2>1. IsNested(a) /\ IsNested(b)
    BY <1>7 DEF SeqBothNested
  <2>2. a.val \in Values /\ b.val \in Values /\ Item1(a) = a.val /\ Item1(b) = b.val
    BY <1>1, <2>1, ItemKinds DEF Item1
  <2>3. CASE c.ec # OK
    BY <1>7, <2>3 DEF SeqBothNested
  <2>4. CASE c.ec = OK /\ Volume(c.shape) = 0
    <3>1. heap' = NextRavel(heap, Enclosed(FillAB(a.val, b.val)))
      BY <1>7, <2>4 DEF SeqBothNested
    <3>2. Enclosed(FillAB(a.val, b.val)) \in Cell
      BY <2>2, CellKinds DEF FillAB
    <3> QED BY <1>1, <3>1, <3>2, NextRavelFacts
  <2>5. CASE c.ec = OK /\ Volume(c.shape) # 0
    <3>1. AddJob(t, t, c.shape, a.val, b.val)
      BY <1>7, <2>5 DEF SeqBothNested
    <3>2. New(c.shape, a.val, b.val)
      BY <2>2, <2>5, NewBothNested
    <3>3. d.ec = OK /\ Volume(d.shape) = Volume(c.shape)
      BY <2>2, <2>5, ConformingEither
    <3> HIDE DEF c, d
    <3> QED BY <1>2, <2>1, <2>2, <3>1, <3>2, <3>3 DEF d
  <2> QED BY <2>3, <2>4, <2>5
<1>8. ~PFBothNested(t)
  <2> SUFFICES ASSUME PFBothNested(t) PROVE FALSE
    OBVIOUS
  <2>1. mpc = "join" /\ BothNested(v, z)
    BY <1>1, PFActive DEF PFBothNested, BothNested
  <2>2. Shared(v)
    BY <2>1 DEF Inv, ControlInv
  <2> QED BY <1>1, <2>1, <2>2 DEF NoneEnclosed
<1> QED BY <1>4, <1>5, <1>6, <1>7, <1>8 DEF Computes

\* Pairs of items that are enclosed stay so.
LEMMA EnclosedStay ==
  ASSUME Inv, Grows, arg' = arg
  PROVE  NoneEnclosed' => NoneEnclosed
<1>1. ASSUME NEW h \in DOMAIN heap, NEW z \in DOMAIN heap[h].cells,
             Shared(heap[h]), BothNested(heap[h], z)
      PROVE  ~NoneEnclosed'
  <2>1. h \in DOMAIN heap' /\ Same(heap'[h], heap[h])
    BY DEF Grows
  <2>2. z \in DOMAIN heap'[h].cells
    BY <2>1 DEF Same
  <2>3. Shared(heap[h])'
    BY <1>1, <2>1 DEF Shared, Same
  <2>4. BothNested(heap'[h], z)
    BY <1>1, <2>1, SameFacts
  <2>5. BothNested(heap[h], z)'
    BY <2>4 DEF BothNested, OfA, OfB
  <2> QED BY <2>1, <2>2, <2>3, <2>5 DEF NoneEnclosed
<1> QED BY <1>1 DEF NoneEnclosed

LEMMA StepChain ==
  ASSUME Inv, ChainInv, [Next]_vars
  PROVE  ChainInv'
<1>1. heap \in Seq(HeapValue)
  BY DEF Inv, TypeInv
<1>2. ASSUME UNCHANGED <<arg, heap>> PROVE ChainInv'
  BY <1>2 DEF ChainInv, NoneEnclosed, Chained, Shared, BothNested, OfA, OfB
<1>3. ASSUME Moves PROVE ChainInv'
  <2>1. heap' = heap /\ arg' = arg
    BY <1>3, MovesTypes DEF Moves, PickJob, AllDone, Throw, SeqEnd, Join, StartError, StartEmpty,
                            PFTest, PFEnd
  <2> QED BY <1>2, <2>1
<1>4. UNCHANGED vars => ChainInv'
  BY <1>2 DEF vars
<1>5. Again => ChainInv'
  BY DEF Again, ChainInv
<1>6. ASSUME StartJob PROVE ChainInv'
  <2> DEFINE c == Conforming(arg.A.shape, arg.B.shape)
             v == NewValue(c.shape, arg.A, arg.B)
  <2>1. c.ec = OK /\ New(c.shape, arg.A, arg.B) /\ heap' = <<v>> /\ arg' = arg
    BY <1>6, StartJobFacts DEF StartJob
  <2>2. v.A = arg.A /\ v.B = arg.B /\ Len(v.cells) = Volume(c.shape)
    BY <2>1, NewValueFacts DEF New
  <2>3. Chained(v)
    BY <2>1, <2>2 DEF Chained
  <2>4. Chained(v)'
    BY <2>1, <2>3 DEF Chained
  <2> HIDE DEF v
  <2>5. \A h \in DOMAIN heap' : heap'[h] = v
    BY <2>1
  <2>6. \A h \in DOMAIN heap' : Chained(heap[h])'
    BY <2>1, <2>3, <2>5 DEF Chained
  <2> QED BY <2>6 DEF ChainInv
<1>7. ASSUME NEW t \in Thread, Computes(t), NoneEnclosed'
      PROVE  \A h \in DOMAIN heap' : Chained(heap[h])'
  <2>1. Grows /\ Working /\ job.z \in DOMAIN heap /\ arg' = arg
    BY <1>7, ComputesGrow
  <2>2. NoneEnclosed /\ \A h \in DOMAIN heap : Chained(heap[h])
    BY <1>7, <2>1, EnclosedStay DEF ChainInv
  <2>3. \A h \in DOMAIN heap : Chained(heap'[h])
    BY <2>1, <2>2, SameChained DEF Grows
  <2>4. Len(heap') # Len(heap) => Len(heap') = Len(heap) + 1 /\ Chained(heap'[Len(heap) + 1])
    <3> SUFFICES ASSUME Len(heap') # Len(heap)
                 PROVE  Len(heap') = Len(heap) + 1 /\ Chained(heap'[Len(heap) + 1])
      OBVIOUS
    <3> DEFINE w == heap'[Len(heap) + 1]
               c == Conforming(w.A.shape, w.B.shape)
    <3>1. /\ Len(heap') = Len(heap) + 1 /\ ItemsOf(heap[job.z], w.A, w.B)
          /\ c.ec = OK /\ Volume(c.shape) = Len(w.cells)
      BY <1>7, <2>2, ComputesAdds
    <3>2. heap[job.z].A \in Values /\ heap[job.z].B \in Values /\ Chained(heap[job.z])
      BY <1>1, <2>1, <2>2, HeapTypes
    <3> HIDE DEF w
    <3>3. Chained(w)
      BY <3>1, <3>2, ItemsChained
    <3> QED BY <3>1, <3>3 DEF w
  <2>5. heap' \in Seq(HeapValue) /\ Len(heap) \in Nat
    BY <1>1, <2>1 DEF Grows
  <2>6. \A h \in DOMAIN heap' : Chained(heap'[h])
    <3>1. \A h \in DOMAIN heap' : h \in DOMAIN heap \/ (h = Len(heap) + 1 /\ h = Len(heap'))
      BY <1>1, <2>4, <2>5
    <3> QED BY <2>3, <2>4, <2>5, <3>1
  <2> QED BY <2>1, <2>6 DEF Chained
<1>8. ASSUME NEW t \in Thread, Computes(t) PROVE ChainInv'
  BY <1>7, <1>8 DEF ChainInv
<1> QED BY <1>3, <1>4, <1>5, <1>6, <1>8, Steps

-----------------------------------------------------------------------------
(* What is returned.                                                       *)

\* What is returned is the value that was built.
BuiltInv ==
  (mpc = "end" /\ result.ec = OK) =>
    result = [ec |-> OK, value |-> IF heap = <<>> THEN FillAB(arg.A, arg.B) ELSE Built]

LEMMA StepBuilt ==
  ASSUME Inv, BuiltInv, [Next]_vars
  PROVE  BuiltInv'
<1>1. AllDone => BuiltInv'
  <2> SUFFICES ASSUME AllDone PROVE BuiltInv'
    OBVIOUS
  <2>1. heap # <<>> /\ heap' = heap /\ result' = [ec |-> OK, value |-> Built]
    BY DEF AllDone, Inv, FirstInv
  <2>2. Built' = Built
    BY <2>1 DEF Built, ValueBy
  <2> HIDE DEF Built
  <2> QED BY <2>1, <2>2 DEF BuiltInv
<1>2. StartEmpty => BuiltInv'
  BY DEF StartEmpty, Inv, ControlInv, BuiltInv
<1>3. Throw => BuiltInv'
  BY DEF Throw, Inv, ErrorInv, BuiltInv
<1>4. ASSUME mpc' # "end" PROVE BuiltInv'
  BY <1>4 DEF BuiltInv
<1>5. ASSUME NEW t \in Thread, Computes(t) PROVE mpc' # "end"
  <2>1. mpc \in {"loop", "join"}
    BY <1>5, ComputesGrow DEF Working
  <2> QED BY <1>5, <2>1 DEF Computes, SeqBothNested, SeqOneNested, SeqSimple, PFSimple,
                            PFOneNested, PFBothNested
<1>6. ASSUME NEW t \in Thread, PickJob(t) PROVE mpc' # "end"
  BY <1>6 DEF PickJob
<1>7. ASSUME NEW t \in Thread, PFTest(t) \/ PFEnd(t) PROVE mpc' # "end"
  <2>1. tpc[t] \in {"item", "test"} /\ mpc' = mpc
    BY <1>7 DEF PFTest, PFEnd
  <2>2. mpc = "join"
    BY <2>1, PFJoins
  <2> QED BY <2>1, <2>2
<1>8. SeqEnd \/ Join \/ StartError \/ StartJob \/ Again => mpc' # "end"
  BY DEF SeqEnd, Join, StartError, StartJob, Again
<1>9. UNCHANGED vars => BuiltInv'
  BY DEF vars, BuiltInv, Built, ValueBy
<1> QED BY <1>1, <1>2, <1>3, <1>4, <1>5, <1>6, <1>7, <1>8, <1>9, Steps DEF Moves

LEMMA ChainedInvariance == Spec => [](Inv /\ ChainInv /\ BuiltInv)
<1>1. Init => Inv /\ ChainInv /\ BuiltInv
  BY InitInv DEF Init, ChainInv, BuiltInv
<1>2. Inv /\ ChainInv /\ BuiltInv /\ [Next]_vars => Inv' /\ ChainInv' /\ BuiltInv'
  BY StepInv, StepChain, StepBuilt
<1> QED BY <1>1, <1>2, PTL DEF Spec

-----------------------------------------------------------------------------
(* The values that were built are the results for their arguments, from    *)
(* the last one to the first.                                              *)

\* The result of the function for the arguments of value h
Of(h) == Pervade[<<heap[h].A, heap[h].B>>]

\* The state after a call that has returned a value and mistaken nothing
Returned ==
  /\ Inv /\ ChainInv /\ NoneMistaken /\ NoneExchanged
  /\ mpc = "end" /\ result.ec = OK /\ heap # <<>>

LEMMA ReturnedFacts ==
  ASSUME Returned, NEW h \in DOMAIN heap
  PROVE  LET c == Conforming(heap[h].A.shape, heap[h].B.shape)
             n == Len(heap[h].cells)
         IN  /\ heap \in Seq(HeapValue) /\ heap[h].A \in Values /\ heap[h].B \in Values
             /\ n \in Nat /\ n # 0 /\ DOMAIN heap[h].cells = 1 .. n
             /\ c.ec = OK /\ Volume(c.shape) = n
             /\ \A z \in 1 .. n :
                  /\ Right(h, z) /\ ~Exchanged(heap[h], z)
                  /\ OfA(heap[h], z) \in Item /\ Scalar(OfA(heap[h], z)) \in Values
                  /\ OfB(heap[h], z) \in Item /\ Scalar(OfB(heap[h], z)) \in Values
<1> DEFINE v == heap[h]
           c == Conforming(v.A.shape, v.B.shape)
           n == Len(v.cells)
<1>1. Inv /\ ChainInv /\ NoneMistaken /\ NoneExchanged /\ mpc = "end" /\ result.ec = OK
  BY DEF Returned
<1>2. /\ heap \in Seq(HeapValue) /\ v.A \in Values /\ v.B \in Values
      /\ n \in Nat /\ n # 0 /\ DOMAIN v.cells = 1 .. n
      /\ Extends(v.A, n) /\ Extends(v.B, n)
  BY <1>1, HeapTypes DEF Inv, TypeInv, HeapInv, WellFormed
<1>3. NoneEnclosed
  BY <1>1 DEF NoneMistaken, Mishandled, NoneEnclosed
<1>4. c.ec = OK /\ Volume(c.shape) = n
  BY <1>1, <1>3 DEF ChainInv, Chained
<1>5. \A z \in 1 .. n : ~Exchanged(v, z)
  BY <1>1, <1>2 DEF NoneExchanged
<1>6. \A z \in 1 .. n : Right(h, z)
  <2>1. \A z : ~Waiting(h, z)
    BY <1>1 DEF Waiting, Working, Queued, Inv, ControlInv, NoJobs
  <2> QED BY <1>1, <1>2, <2>1 DEF Inv, ResultInv
<1> HIDE DEF n
<1>7. \A z \in 1 .. n : /\ OfA(v, z) \in Item /\ Scalar(OfA(v, z)) \in Values
                        /\ OfB(v, z) \in Item /\ Scalar(OfB(v, z)) \in Values
  BY <1>2, ItemFacts DEF OfA, OfB
<1> QED BY <1>2, <1>4, <1>5, <1>6, <1>7 DEF n

\* Three kinds of cells.
LEMMA Kinds ==
  ASSUME NEW v, NEW z
  PROVE  \/ BothSimple(v, z) /\ ~BothNested(v, z) /\ ~OneNested(v, z)
         \/ BothNested(v, z) /\ ~BothSimple(v, z) /\ ~OneNested(v, z)
         \/ OneNested(v, z) /\ ~BothSimple(v, z) /\ ~BothNested(v, z)
  BY Either DEF BothSimple, BothNested, OneNested

\* A value and the other item, extended to its shape.
LEMMA OneItem ==
  ASSUME NEW v, NEW z, OneNested(v, z)
  PROVE  /\ IsNested(OfA(v, z)) \/ IsNested(OfB(v, z))
         /\ Conforming(Item1(OfA(v, z)).shape, Item1(OfB(v, z)).shape)
              = [ec |-> OK, shape |-> TheNested(v, z).shape]
<1>1. IsNested(OfA(v, z)) # IsNested(OfB(v, z))
  BY DEF OneNested
<1>2. CASE IsNested(OfA(v, z)) /\ ~IsNested(OfB(v, z))
  BY <1>2, ScalarConforming DEF Item1, TheNested
<1>3. CASE ~IsNested(OfA(v, z)) /\ IsNested(OfB(v, z))
  BY <1>3, ScalarConforming DEF Item1, TheNested
<1> QED BY <1>1, <1>2, <1>3, Either

\* The shape of a value is the one that its arguments conform to.
LEMMA ShapeOf ==
  ASSUME Returned, NEW k \in DOMAIN heap
  PROVE  heap[k].shape = Conforming(heap[k].A.shape, heap[k].B.shape).shape
<1>1. CASE k = 1
  BY <1>1 DEF Returned, Inv, FirstInv
<1>2. CASE k # 1
  <2>1. PointInv
    BY DEF Returned, Inv, NoneMistaken, NoneMisplaced
  <2>2. PICK h \in DOMAIN heap : \E z \in DOMAIN heap[h].cells : heap[h].cells[z] = Pointer(k)
    BY <1>2, <2>1 DEF PointInv
  <2>3. PICK z \in DOMAIN heap[h].cells : heap[h].cells[z] = Pointer(k)
    BY <2>2
  <2> DEFINE v == heap[h]
             a == OfA(v, z)
             b == OfB(v, z)
  <2>4. /\ Right(h, z) /\ ~Exchanged(v, z) /\ a \in Item /\ b \in Item
        /\ Scalar(a) \in Values /\ Scalar(b) \in Values
    BY <2>3, ReturnedFacts
  <2>5. \A j \in DOMAIN heap : j \in Nat
    BY ReturnedFacts, HeapTypes
  <2>6. Pointer(k) \in [ptr : Nat]
    BY <2>5, PointerKind
  <2>7. ASSUME NEW shape, NEW A, NEW B, PointsTo(h, heap[h].cells[z], shape, A, B)
        PROVE  heap[k].shape = shape /\ heap[k].A = A /\ heap[k].B = B
    <3>1. PICK j \in DOMAIN heap :
            /\ heap[h].cells[z] = Pointer(j)
            /\ heap[j].shape = shape /\ heap[j].A = A /\ heap[j].B = B
      BY <2>7 DEF PointsTo
    <3>2. j = k
      BY <2>3, <2>5, <3>1, PointerKind
    <3> QED BY <3>1, <3>2
  <2>8. CASE BothSimple(v, z)
    <3>1. Pointer(k) = CellResult(a, b)
      BY <2>3, <2>4, <2>8 DEF Right
    <3>2. CellResult(a, b) \notin [ptr : Nat]
      BY <2>4, <2>8, CellKinds DEF BothSimple
    <3> QED BY <2>6, <3>1, <3>2
  <2>9. CASE BothNested(v, z)
    <3>1. PointsTo(h, heap[h].cells[z], Inner(v, z).shape, a.val, b.val)
      BY <2>4, <2>9 DEF Right
    <3>2. heap[k].shape = Inner(v, z).shape /\ heap[k].A = a.val /\ heap[k].B = b.val
      BY <2>7, <3>1
    <3>3. Inner(v, z).shape = Conforming(a.val.shape, b.val.shape).shape
      BY <2>4, <2>9 DEF Exchanged
    <3> QED BY <3>2, <3>3
  <2>10. CASE OneNested(v, z)
    <3> DEFINE n == TheNested(v, z)
    <3>1. IF IsEmpty(n) THEN heap[h].cells[z] = Enclosed(FillB(n))
                        ELSE PointsTo(h, heap[h].cells[z], n.shape, Item1(a), Item1(b))
      BY <2>4, <2>10 DEF Right
    <3>2. ~IsEmpty(n)
      <4>1. n \in Values
        BY <2>4, <2>10, NewOneNested DEF OneNested, TheNested
      <4>2. Enclosed(FillB(n)) \notin [ptr : Nat]
        BY <4>1, CellKinds
      <4> HIDE DEF n
      <4> QED BY <2>3, <2>6, <3>1, <4>2
    <3>3. heap[k].shape = n.shape /\ heap[k].A = Item1(a) /\ heap[k].B = Item1(b)
      <4> HIDE DEF n
      <4> QED BY <2>7, <3>1, <3>2
    <3>4. Conforming(Item1(a).shape, Item1(b).shape) = [ec |-> OK, shape |-> n.shape]
      BY <2>10, OneItem
    <3> HIDE DEF a, b, n
    <3> QED BY <3>3, <3>4
  <2> QED BY <2>8, <2>9, <2>10, Kinds
<1> QED BY <1>1, <1>2

\* Cell z of value h has the result for its items, if the values at later
\* addresses are the results for theirs and f gives them.
LEMMA CellBuilt ==
  ASSUME Returned, NEW h \in DOMAIN heap, NEW z \in 1 .. Len(heap[h].cells), NEW f,
         \A k \in DOMAIN heap : h < k => Of(k).ec = OK /\ f[k] = Of(k).value
  PROVE  LET c == heap[h].cells[z]
             r == ItemResult(heap[h].A, heap[h].B, z)
         IN  r.ec = OK /\ r.item = IF IsPointer(c) THEN Enclosed(f[c.ptr]) ELSE c
<1> DEFINE v == heap[h]
           a == OfA(v, z)
           b == OfB(v, z)
           c == v.cells[z]
           r == ItemResult(v.A, v.B, z)
<1>1. /\ Right(h, z) /\ a \in Item /\ b \in Item
      /\ Scalar(a) \in Values /\ Scalar(b) \in Values
  BY ReturnedFacts
<1>2. r = ItemBy(Pervade, a, b)
  BY DEF ItemResult, OfA, OfB
<1>3. CASE BothSimple(v, z)
  <2>1. ~IsNested(a) /\ ~IsNested(b)
    BY <1>3 DEF BothSimple
  <2>2. r = [ec |-> CellError(a, b), item |-> CellResult(a, b)]
    BY <1>2, <2>1 DEF ItemBy
  <2>3. c = CellResult(a, b) /\ CellError(a, b) = OK
    BY <1>1, <1>3 DEF Right
  <2>4. ~IsPointer(CellResult(a, b))
    BY DEF IsPointer, CellResult, Simple
  <2> HIDE DEF c, r
  <2>5. r.ec = OK /\ r.item = c
    BY <2>2, <2>3
  <2> QED BY <2>3, <2>4, <2>5 DEF c, r
<1>4. ASSUME NEW shape, NEW A, NEW B, PointsTo(h, c, shape, A, B),
             IsNested(a) \/ IsNested(b), A = Item1(a), B = Item1(b)
      PROVE  r.ec = OK /\ r.item = Enclosed(f[c.ptr]) /\ IsPointer(c)
  <2>1. PICK k \in DOMAIN heap :
          h < k /\ c = Pointer(k) /\ heap[k].shape = shape /\ heap[k].A = A /\ heap[k].B = B
    BY <1>4 DEF PointsTo
  <2>2. Of(k) = Pervade[<<Item1(a), Item1(b)>>] /\ Of(k).ec = OK /\ f[k] = Of(k).value
    BY <1>4, <2>1 DEF Of
  <2>3. r = [ec |-> Of(k).ec, item |-> Enclosed(Of(k).value)]
    BY <1>2, <1>4, <2>2 DEF ItemBy
  <2>4. c.ptr = k /\ IsPointer(c)
    BY <2>1 DEF Pointer, IsPointer
  <2> HIDE DEF c, r
  <2>5. r.ec = OK /\ r.item = Enclosed(f[k])
    BY <2>2, <2>3
  <2> QED BY <2>4, <2>5
<1>5. CASE BothNested(v, z)
  <2>1. PointsTo(h, c, Inner(v, z).shape, a.val, b.val)
    BY <1>1, <1>5 DEF Right
  <2>2. IsNested(a) /\ IsNested(b) /\ Item1(a) = a.val /\ Item1(b) = b.val
    BY <1>5 DEF BothNested, Item1
  <2> HIDE DEF a, b, c, r
  <2>3. r.ec = OK /\ r.item = Enclosed(f[c.ptr]) /\ IsPointer(c)
    BY <1>4, <2>1, <2>2
  <2> QED BY <2>3 DEF c, r
<1>6. CASE OneNested(v, z)
  <2> DEFINE n == TheNested(v, z)
  <2>1. IF IsEmpty(n) THEN c = Enclosed(FillB(n))
                      ELSE PointsTo(h, c, n.shape, Item1(a), Item1(b))
    BY <1>1, <1>6 DEF Right
  <2>2. /\ IsNested(a) \/ IsNested(b)
        /\ Conforming(Item1(a).shape, Item1(b).shape) = [ec |-> OK, shape |-> n.shape]
    BY <1>6, OneItem
  <2>3. CASE ~IsEmpty(n)
    <3> HIDE DEF a, b, c, r, n
    <3>1. r.ec = OK /\ r.item = Enclosed(f[c.ptr]) /\ IsPointer(c)
      BY <1>4, <2>1, <2>2, <2>3
    <3> QED BY <3>1 DEF c, r
  <2>4. CASE IsEmpty(n)
    <3>1. Item1(a) \in Values /\ Item1(b) \in Values
      BY <1>1, ItemKinds
    <3>2. FillAB(Item1(a), Item1(b)) = FillB(n)
      BY <1>1, <1>6, <2>4, FillOfOne DEF OneNested, TheNested
    <3>3. Volume(n.shape) = 0
      BY <2>4 DEF IsEmpty
    <3> HIDE DEF n
    <3>4. Pervade[<<Item1(a), Item1(b)>>] = [ec |-> OK, value |-> FillB(n)]
      BY <2>2, <3>1, <3>2, <3>3, PervadeEmpty
    <3>5. r = [ec |-> OK, item |-> Enclosed(FillB(n))]
      BY <1>2, <2>2, <3>4 DEF ItemBy
    <3>6. ~IsPointer(Enclosed(FillB(n)))
      BY DEF IsPointer, Enclosed
    <3> HIDE DEF c, r
    <3>7. r.ec = OK /\ r.item = c
      BY <2>1, <2>4, <3>5
    <3> QED BY <2>1, <2>4, <3>6, <3>7 DEF c, r
  <2> QED BY <2>3, <2>4
<1> QED BY <1>3, <1>5, <1>6, Kinds

LEMMA ValueBuilt ==
  ASSUME Returned, NEW h \in DOMAIN heap, NEW f,
         \A k \in DOMAIN heap : h < k => Of(k).ec = OK /\ f[k] = Of(k).value
  PROVE  Of(h) = [ec |-> OK, value |-> ValueBy(f, h)]
<1> DEFINE A == heap[h].A
           B == heap[h].B
           c == Conforming(A.shape, B.shape)
           n == Len(heap[h].cells)
<1>1. /\ A \in Values /\ B \in Values /\ n \in Nat /\ n # 0 /\ DOMAIN heap[h].cells = 1 .. n
      /\ c.ec = OK /\ Volume(c.shape) = n
  BY ReturnedFacts
<1>2. c.shape = heap[h].shape
  BY ShapeOf
<1>3. \A z \in 1 .. n : ItemResult(A, B, z).ec = OK
  BY CellBuilt
<1> HIDE DEF A, B, c, n
<1>4. Pervade[<<A, B>>] =
        [ec |-> OK, value |-> [shape |-> c.shape,
                               items |-> [z \in 1 .. n |-> ItemResult(A, B, z).item]]]
  BY <1>1, <1>3, PervadeSucceeds DEF c
<1> DEFINE item(z) == LET d == heap[h].cells[z] IN IF IsPointer(d) THEN Enclosed(f[d.ptr]) ELSE d
<1>5. \A z \in 1 .. n : ItemResult(A, B, z).item = item(z)
  BY CellBuilt DEF A, B, n
<1>6. [z \in 1 .. n |-> ItemResult(A, B, z).item] = [z \in 1 .. n |-> item(z)]
  <2> HIDE DEF item
  <2> QED BY <1>5
<1>7. ValueBy(f, h) = [shape |-> heap[h].shape, items |-> [z \in 1 .. n |-> item(z)]]
  BY <1>1 DEF ValueBy
<1> HIDE DEF item
<1> QED BY <1>2, <1>4, <1>6, <1>7 DEF Of, A, B

\* The function has a result for every value that was built.
LEMMA AllHaveResults ==
  ASSUME Returned, NEW h \in DOMAIN heap
  PROVE  Of(h).ec = OK
<1> DEFINE f == [k \in DOMAIN heap |-> Of(k).value]
           D == { Len(heap) - k : k \in { i \in DOMAIN heap : Of(i).ec # OK } }
<1> SUFFICES ASSUME Of(h).ec # OK PROVE FALSE
  OBVIOUS
<1>1. heap \in Seq(HeapValue) /\ DOMAIN heap = 1 .. Len(heap) /\ Len(heap) \in Nat
  BY ReturnedFacts
<1>2. D \in SUBSET Nat /\ D # {}
  BY <1>1
<1>3. PICK d \in D : \A e \in D : ~(e < d)
  <2> HIDE DEF D
  <2> QED BY <1>2, Least
<1>4. PICK k \in DOMAIN heap : d = Len(heap) - k /\ Of(k).ec # OK
  BY <1>3
<1>5. ASSUME NEW i \in DOMAIN heap, k < i, Of(i).ec # OK PROVE FALSE
  <2>1. Len(heap) - i \in D
    BY <1>5
  <2> HIDE DEF D
  <2>2. Len(heap) - i < d
    BY <1>1, <1>4, <1>5
  <2> QED BY <1>3, <2>1, <2>2
<1>6. \A i \in DOMAIN heap : k < i => Of(i).ec = OK /\ f[i] = Of(i).value
  BY <1>5
<1> HIDE DEF f, D
<1>7. Of(k) = [ec |-> OK, value |-> ValueBy(f, k)]
  BY <1>6, ValueBuilt
<1> QED BY <1>4, <1>7

\* The recursion over the pointers gives the results.
LEMMA BuiltIs ==
  ASSUME Returned
  PROVE  Of(1) = [ec |-> OK, value |-> Built]
<1> DEFINE g == [k \in DOMAIN heap |-> Of(k).value]
           V(f) == [id \in DOMAIN heap |-> ValueBy(f, id)]
           f == CHOOSE f : f = V(f)
           D == { Len(heap) - k : k \in { i \in DOMAIN heap : f[i] # Of(i).value } }
<1>1. heap \in Seq(HeapValue) /\ DOMAIN heap = 1 .. Len(heap) /\ Len(heap) \in Nat /\ heap # <<>>
  <2>1. heap # <<>> /\ heap \in Seq(HeapValue)
    BY DEF Returned, Inv, TypeInv
  <2> QED BY <2>1
<1>2. \A h \in DOMAIN heap : Of(h).ec = OK /\ g[h] = Of(h).value
  BY AllHaveResults
<1>3. g = V(g)
  <2>1. ASSUME NEW h \in DOMAIN heap PROVE g[h] = ValueBy(g, h)
    <3>1. Of(h).ec = OK /\ g[h] = Of(h).value
      BY <1>2
    <3> HIDE DEF g
    <3>2. Of(h) = [ec |-> OK, value |-> ValueBy(g, h)]
      BY <1>2, ValueBuilt
    <3> QED BY <3>1, <3>2
  <2>2. g = [k \in DOMAIN heap |-> g[k]]
    OBVIOUS
  <2> HIDE DEF g
  <2> QED BY <2>1, <2>2, Zenon
<1>4. f = V(f)
  <2> HIDE DEF g, V
  <2> QED BY <1>3
<1> HIDE DEF f
<1>5. \A h \in DOMAIN heap : f[h] = ValueBy(f, h)
  BY <1>4
<1>6. ASSUME NEW h \in DOMAIN heap, f[h] # Of(h).value PROVE FALSE
  <2>1. D \in SUBSET Nat /\ D # {}
    BY <1>1, <1>6
  <2>2. PICK d \in D : \A e \in D : ~(e < d)
    <3> HIDE DEF D
    <3> QED BY <2>1, Least
  <2>3. PICK k \in DOMAIN heap : d = Len(heap) - k /\ f[k] # Of(k).value
    BY <2>2
  <2>4. ASSUME NEW i \in DOMAIN heap, k < i, f[i] # Of(i).value PROVE FALSE
    <3>1. Len(heap) - i \in D
      BY <2>4
    <3> HIDE DEF D
    <3>2. Len(heap) - i < d
      BY <1>1, <2>3, <2>4
    <3> QED BY <2>2, <3>1, <3>2
  <2>5. \A i \in DOMAIN heap : k < i => Of(i).ec = OK /\ f[i] = Of(i).value
    BY <1>2, <2>4
  <2>6. Of(k) = [ec |-> OK, value |-> ValueBy(f, k)]
    BY <2>5, ValueBuilt
  <2> QED BY <1>5, <2>3, <2>6
<1>7. Built = f[1]
  BY Zenon DEF Built, f
<1>8. 1 \in DOMAIN heap /\ \A k \in DOMAIN heap : 1 < k => Of(k).ec = OK /\ f[k] = Of(k).value
  BY <1>1, <1>2, <1>6
<1>9. Of(1) = [ec |-> OK, value |-> ValueBy(f, 1)]
  BY <1>8, ValueBuilt
<1> QED BY <1>5, <1>7, <1>8, <1>9

LEMMA ErrorsChained ==
  ASSUME Inv, ChainInv, NoneEnclosed, mpc = "end", result.ec # OK
  PROVE  Pervade[<<arg.A, arg.B>>].ec # OK
<1>1. SomethingFails
  BY DEF Inv, ErrorInv
<1>2. CASE Conforming(arg.A.shape, arg.B.shape).ec # OK
  BY <1>2, ArgFacts, PervadeFails
<1>3. ASSUME NEW h \in DOMAIN heap, NEW z \in DOMAIN heap[h].cells, Fails(heap[h], z)
      PROVE  Pervade[<<arg.A, arg.B>>].ec # OK
  <2> DEFINE v == heap[h]
             a == OfA(v, z)
             b == OfB(v, z)
             n == Len(v.cells)
  <2>1. Chained(v)
    BY DEF ChainInv
  <2>2. /\ v.A \in Values /\ v.B \in Values /\ n \in Nat /\ n # 0 /\ z \in 1 .. n
        /\ Extends(v.A, n) /\ Extends(v.B, n)
    BY HeapTypes DEF Inv, TypeInv, HeapInv, WellFormed
  <2>3. a \in Item /\ Scalar(a) \in Values /\ b \in Item /\ Scalar(b) \in Values
    <3> HIDE DEF n
    <3> QED BY <2>2, ItemFacts DEF OfA, OfB
  <2>4. ItemResult(v.A, v.B, z) = ItemBy(Pervade, a, b)
    BY DEF ItemResult, OfA, OfB
  <2>5. ItemBy(Pervade, a, b).ec # OK
    <3>1. CASE CellFails(v, z)
      BY <3>1 DEF CellFails, BothSimple, ItemBy
    <3>2. CASE BothNested(v, z) /\ Inner(v, z).ec # OK
      <4>1. IsNested(a) /\ IsNested(b) /\ Inner(v, z) = Conforming(b.val.shape, a.val.shape)
        BY <3>2 DEF BothNested, Inner
      <4>2. a.val \in Values /\ b.val \in Values
        BY <2>3, <4>1, ItemKinds
      <4>3. Conforming(a.val.shape, b.val.shape).ec # OK
        BY <3>2, <4>1, <4>2, ConformingEither
      <4>4. Pervade[<<a.val, b.val>>].ec # OK
        BY <4>2, <4>3, PervadeFails
      <4> QED BY <4>1, <4>4 DEF ItemBy, Item1
    <3> QED BY <1>3, <3>1, <3>2 DEF Fails
  <2>6. Pervade[<<v.A, v.B>>].ec # OK
    BY <2>1, <2>2, <2>4, <2>5, PervadeFails DEF Chained
  <2> QED BY <2>1, <2>6 DEF Chained
<1> QED BY <1>1, <1>2, <1>3 DEF SomethingFails

LEMMA InvPervasive ==
  ASSUME Inv, ChainInv, BuiltInv, NoneMistaken, NoneExchanged
  PROVE  ResultIsPervasive
<1> DEFINE r == Pervade[<<arg.A, arg.B>>]
<1> SUFFICES ASSUME mpc = "end"
             PROVE  IF r.ec = OK THEN result = r ELSE result.ec # OK
  BY DEF ResultIsPervasive
<1>1. CASE result.ec # OK
  <2>1. NoneEnclosed
    BY DEF NoneMistaken, Mishandled, NoneEnclosed
  <2>2. r.ec # OK
    BY <1>1, <2>1, ErrorsChained
  <2> QED BY <1>1, <2>2
<1>2. CASE result.ec = OK /\ heap = <<>>
  <2>1. result = [ec |-> OK, value |-> FillAB(arg.A, arg.B)]
    BY <1>2 DEF BuiltInv
  <2>2. r = [ec |-> OK, value |-> FillAB(arg.A, arg.B)]
    BY <1>2, ArgFacts, PervadeEmpty DEF Inv, FirstInv
  <2> QED BY <2>1, <2>2
<1>3. CASE result.ec = OK /\ heap # <<>>
  <2>1. result = [ec |-> OK, value |-> Built]
    BY <1>3 DEF BuiltInv
  <2>2. Returned
    BY <1>3 DEF Returned
  <2>3. r = [ec |-> OK, value |-> Built]
    <3>1. Of(1) = r
      BY <1>3 DEF Of, Inv, FirstInv
    <3> QED BY <2>2, <3>1, BuiltIs
  <2> HIDE DEF r
  <2> QED BY <2>1, <2>3
<1> QED BY <1>1, <1>2, <1>3

\* What eval_scalar_AB() returns is pervasive, for all values, any number of
\* threads and any interleaving: it is the result of the recursion over the
\* items, and it throws if and only if the function fails for some pair of
\* items.  Excluded are the calls in which a pair of nested items has an empty
\* result or is computed by the threads, threads meet an error, or the shapes
\* of two nested one-element items differ: these the code gets wrong.
THEOREM PervasiveResults ==
  Spec => [](NoneMistaken /\ NoneExchanged => ResultIsPervasive)
  BY ChainedInvariance, InvPervasive, PTL

\* When eval_scalar_AB() throws then the function does fail for the arguments,
\* unless the threads compute pairs of nested items.
THEOREM ErrorsArePervasive ==
  Spec => [](NoneEnclosed /\ mpc = "end" /\ result.ec # OK => Pervade[<<arg.A, arg.B>>].ec # OK)
  BY ChainedInvariance, ErrorsChained, PTL

=============================================================================
