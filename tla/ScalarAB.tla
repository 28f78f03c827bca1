------------------------------- MODULE ScalarAB -------------------------------
(***************************************************************************)
(* The evaluation of a dyadic scalar function on nested values             *)
(* (ScalarFunction::eval_scalar_AB): the values computed by the sequential *)
(* loop of the master, and by the threads that share a job.                *)
(*                                                                         *)
(* The job lists, the slices and the shared error code are those of module *)
(* ScalarB; jobs_lock, which ScalarB models, makes one step of what is     *)
(* done under it.  What differs is the data: two arguments whose shapes    *)
(* may or may not conform, one-element values that are extended, and the   *)
(* cells of the result, which are written in place or by next_ravel().     *)
(***************************************************************************)
EXTENDS Pervasion, Slices, FiniteSets

CONSTANT Calls \* calls: arguments A and B, and get_dyadic_threshold()

ASSUME ABAssumption == Calls \subseteq [A : Values, B : Values, threshold : Int]

VARIABLES
  arg,    \* the arguments A and B, and the threshold
  mpc,    \* where the master is
  heap,   \* the values of the result: shape, cells, valid_ravel_items, and
          \* (history) the arguments they are computed from
  job,    \* job_AB: result value (index of heap) and arguments
  error,  \* job_AB->error
  ec,     \* the error code that do_scalar_AB() returns
  jobs,   \* joblist_AB of each thread
  tpc,    \* where each thread is in PF_scalar_AB()
  pos,    \* z of each thread (and of the master's sequential loop)
  mine,   \* what the cell function has just returned to each thread
  result  \* what eval_scalar_AB() returned or threw

vars == <<arg, mpc, heap, job, error, ec, jobs, tpc, pos, mine, result>>

\* A cell of the result is raw (never written), simple, points to a value of
\* the heap, or contains a finished value.
Raw == [raw |-> 0]
Pointer(id) == [ptr |-> id]
IsPointer(c) == "ptr" \in DOMAIN c
NewValue(shape, A, B) ==
  [shape |-> shape, cells |-> [z \in 1 .. Volume(shape) |-> Raw], valid |-> 0,
   A |-> A, B |-> B]

\* the value that was built at address id, if f gives those at later addresses,
\* and the one at the first address
ValueBy(f, id) ==
  [shape |-> heap[id].shape,
   items |-> [z \in DOMAIN heap[id].cells |->
                LET c == heap[id].cells[z]
                IN  IF IsPointer(c) THEN Enclosed(f[c.ptr]) ELSE c]]
Built == LET value[id \in DOMAIN heap] == ValueBy(value, id) IN value[1]

NoJobs == [t \in Thread |-> <<>>]
NoJob == [z |-> 0, A |-> Scalar(Zero), B |-> Scalar(Zero)]
NoResult == [ec |-> "none", value |-> Scalar(Zero)]
Length(j) == Len(heap[j.z].cells)

Init ==
  /\ arg \in Calls
  /\ mpc = "start" /\ heap = <<>> /\ job = NoJob
  /\ error = OK /\ ec = OK
  /\ jobs = NoJobs
  /\ tpc = [t \in Thread |-> "idle"]
  /\ pos = [t \in Thread |-> 0]
  /\ mine = [t \in Thread |-> OK]
  /\ result = NoResult

\* eval_scalar_AB() up to the first job
StartError ==
  /\ mpc = "start"
  /\ Conforming(arg.A.shape, arg.B.shape).ec # OK
  /\ ec' = Conforming(arg.A.shape, arg.B.shape).ec
  /\ mpc' = "failed"
  /\ UNCHANGED <<arg, heap, job, error, jobs, tpc, pos, mine, result>>

StartEmpty ==
  /\ mpc = "start"
  /\ LET c == Conforming(arg.A.shape, arg.B.shape)
     IN  c.ec = OK /\ Volume(c.shape) = 0
  /\ result' = [ec |-> OK, value |-> FillAB(arg.A, arg.B)]
  /\ mpc' = "end"
  /\ UNCHANGED <<arg, heap, job, error, ec, jobs, tpc, pos, mine>>

StartJob ==
  /\ mpc = "start"
  /\ LET c == Conforming(arg.A.shape, arg.B.shape)
     IN  /\ c.ec = OK /\ Volume(c.shape) > 0
         /\ heap' = <<NewValue(c.shape, arg.A, arg.B)>>
  /\ jobs' = [jobs EXCEPT ![Master] = <<[z |-> 1, A |-> arg.A, B |-> arg.B]>>]
  /\ mpc' = "pick"
  /\ UNCHANGED <<arg, job, error, ec, tpc, pos, mine, result>>

FirstWithJob(t) == jobs[t] # <<>> /\ \A u \in Thread : u < t => jobs[u] = <<>>

MaybeParallel == Cores > 1

PickJob(t) ==
  /\ mpc = "pick"
  /\ FirstWithJob(t)
  /\ job' = jobs[t][Len(jobs[t])]
  /\ jobs' = [jobs EXCEPT ![t] = SubSeq(@, 1, Len(@) - 1)]
  /\ error' = OK
  /\ IF MaybeParallel /\ Length(job') > arg.threshold
     THEN /\ mpc' = "join"
          /\ tpc' = [u \in Thread |-> "item"]
          /\ pos' = [u \in Thread |-> SliceFirst(u, Length(job'))]
     ELSE /\ mpc' = "loop"
          /\ pos' = [pos EXCEPT ![Master] = 0]
          /\ tpc' = tpc
  /\ UNCHANGED <<arg, heap, ec, mine, result>>

\* Z is returned when all jobs are done
AllDone ==
  /\ mpc = "pick"
  /\ \A t \in Thread : jobs[t] = <<>>
  /\ result' = [ec |-> OK, value |-> Built]
  /\ mpc' = "end"
  /\ job' = NoJob
  /\ UNCHANGED <<arg, heap, error, ec, jobs, tpc, pos, mine>>

\* MUTANT: the jobs are not cancelled
ThrowKeep ==
  /\ mpc = "failed"
  /\ result' = [ec |-> ec, value |-> Scalar(Zero)]
  /\ jobs' = jobs
  /\ mpc' = "end"
  /\ UNCHANGED <<arg, heap, job, error, ec, tpc, pos, mine>>

\* cancel_all_dyadic_jobs(); throw_apl_error(ec)
Throw ==
  /\ mpc = "failed"
  /\ result' = [ec |-> ec, value |-> Scalar(Zero)]
  /\ jobs' = NoJobs
  /\ mpc' = "end"
  /\ UNCHANGED <<arg, heap, job, error, ec, tpc, pos, mine>>

\* the same call again
Again ==
  /\ mpc = "end"
  /\ heap' = <<>> /\ ec' = OK /\ result' = NoResult
  /\ mpc' = "start"
  /\ UNCHANGED <<arg, job, error, jobs, tpc, pos, mine>>

-----------------------------------------------------------------------------
ItemA(t) == ItemAt(job.A, pos[t] + 1)
ItemB(t) == ItemAt(job.B, pos[t] + 1)
\* cell_Z of thread t := c
SetZ(h, t, c) == [h EXCEPT ![job.z].cells[pos[t] + 1] = c]

\* next_ravel_Pointer(): the first cell that next_ravel() has not given out
NextRavel(h, c) ==
  IF h[job.z].valid < Len(h[job.z].cells)
  THEN [h EXCEPT ![job.z].cells[h[job.z].valid + 1] = c,
                 ![job.z].valid = @ + 1]
  ELSE h

\* a new result value of the given shape, pointed to by cell_Z of thread t,
\* and a job at thread l that computes it from A1 and B1
AddJob(t, l, shape, A1, B1) ==
  LET id == Len(heap) + 1
  IN  /\ heap' = Append(SetZ(heap, t, Pointer(id)), NewValue(shape, A1, B1))
      /\ jobs' = [jobs EXCEPT ![l] = Append(@, [z |-> id, A |-> A1, B |-> B1])]

-----------------------------------------------------------------------------
(* The sequential loop of the master.                                      *)

InLoop == mpc = "loop" /\ pos[Master] < Length(job)
NextItem == pos' = [pos EXCEPT ![Master] = @ + 1]

SeqBothNested ==
  /\ InLoop
  /\ IsNested(ItemA(Master)) /\ IsNested(ItemB(Master))
  /\ LET A1 == ItemA(Master).val
         B1 == ItemB(Master).val
         c  == Conforming(B1.shape, A1.shape)
     IN  IF c.ec # OK
         THEN /\ ec' = c.ec /\ mpc' = "failed"
              /\ UNCHANGED <<heap, jobs, pos>>
         ELSE /\ IF Volume(c.shape) = 0
                 THEN /\ heap' = NextRavel(heap, Enclosed(FillAB(A1, B1)))
                      /\ jobs' = jobs
                 ELSE AddJob(Master, Master, c.shape, A1, B1)
              /\ NextItem
              /\ UNCHANGED <<ec, mpc>>
  /\ UNCHANGED <<arg, job, error, tpc, mine, result>>

\* MUTANT: the arguments of the job are swapped
SeqOneNestedSwapped ==
  /\ InLoop
  /\ IsNested(ItemA(Master)) # IsNested(ItemB(Master))
  /\ LET v == IF IsNested(ItemA(Master)) THEN ItemA(Master).val
                                         ELSE ItemB(Master).val
     IN  IF IsEmpty(v)
         THEN /\ heap' = SetZ(heap, Master, Enclosed(FillB(v)))
              /\ jobs' = jobs
         ELSE AddJob(Master, Master, v.shape,
                     Item1(ItemB(Master)), Item1(ItemA(Master)))
  /\ NextItem
  /\ UNCHANGED <<arg, mpc, job, error, ec, tpc, mine, result>>

\* one of the items is nested: the other one is extended to its shape
SeqOneNested ==
  /\ InLoop
  /\ IsNested(ItemA(Master)) # IsNested(ItemB(Master))
  /\ LET v == IF IsNested(ItemA(Master)) THEN ItemA(Master).val
                                         ELSE ItemB(Master).val
     IN  IF IsEmpty(v)
         THEN /\ heap' = SetZ(heap, Master, Enclosed(FillB(v)))
              /\ jobs' = jobs
         ELSE AddJob(Master, Master, v.shape,
                     Item1(ItemA(Master)), Item1(ItemB(Master)))
  /\ NextItem
  /\ UNCHANGED <<arg, mpc, job, error, ec, tpc, mine, result>>

SeqSimple ==
  /\ InLoop
  /\ ~IsNested(ItemA(Master)) /\ ~IsNested(ItemB(Master))
  /\ ec' = CellError(ItemA(Master), ItemB(Master))
  /\ IF ec' = OK
     THEN /\ heap' = SetZ(heap, Master, CellResult(ItemA(Master), ItemB(Master)))
          /\ NextItem
          /\ UNCHANGED <<mpc, job>>
     ELSE /\ mpc' = "failed" /\ job' = NoJob
          /\ UNCHANGED <<heap, pos>>
  /\ UNCHANGED <<arg, error, jobs, tpc, mine, result>>

SeqEnd ==
  /\ mpc = "loop" /\ pos[Master] >= Length(job)
  /\ job' = NoJob /\ mpc' = "pick"
  /\ UNCHANGED <<arg, heap, error, ec, jobs, tpc, pos, mine, result>>

-----------------------------------------------------------------------------
(* PF_scalar_AB(), run by the master and by every worker.                  *)

AtEnd(t) == pos[t] >= SliceLast(t, Length(job))
InSlice(t) == tpc[t] = "item" /\ ~AtEnd(t)

\* job_AB->error = (cell_B.*fun2)(&cell_Z, &cell_A)
PFSimple(t) ==
  /\ InSlice(t)
  /\ ~IsNested(ItemA(t)) /\ ~IsNested(ItemB(t))
  /\ error' = CellError(ItemA(t), ItemB(t))
  /\ mine' = [mine EXCEPT ![t] = error']
  /\ heap' = IF error' = OK
             THEN SetZ(heap, t, CellResult(ItemA(t), ItemB(t))) ELSE heap
  /\ tpc' = [tpc EXCEPT ![t] = "test"]
  /\ UNCHANGED <<arg, mpc, job, ec, jobs, pos, result>>

\* if (job_AB->error != E_NO_ERROR) return
PFTest(t) ==
  /\ tpc[t] = "test"
  /\ \E seen \in {mine[t], error} :
       IF seen = OK
       THEN /\ tpc' = [tpc EXCEPT ![t] = "item"]
            /\ pos' = [pos EXCEPT ![t] = @ + 1]
       ELSE /\ tpc' = [tpc EXCEPT ![t] = "idle"]
            /\ pos' = pos
  /\ UNCHANGED <<arg, mpc, heap, job, error, ec, jobs, mine, result>>

\* MUTANT: the fill result is not stored
PFOneNestedNoFill(t) ==
  /\ InSlice(t)
  /\ IsNested(ItemA(t)) # IsNested(ItemB(t))
  /\ LET A1 == Item1(ItemA(t))
         B1 == Item1(ItemB(t))
         v  == IF IsNested(ItemA(t)) THEN A1 ELSE B1
     IN  IF IsEmpty(v)
         THEN /\ heap' = heap
              /\ jobs' = jobs
         ELSE AddJob(t, t, v.shape, A1, B1)
  /\ pos' = [pos EXCEPT ![t] = @ + 1]
  /\ UNCHANGED <<arg, mpc, job, error, ec, tpc, mine, result>>

\* one of the items is nested
PFOneNested(t) ==
  /\ InSlice(t)
  /\ IsNested(ItemA(t)) # IsNested(ItemB(t))
  /\ LET A1 == Item1(ItemA(t))
         B1 == Item1(ItemB(t))
         v  == IF IsNested(ItemA(t)) THEN A1 ELSE B1
     IN  IF IsEmpty(v)
         THEN /\ heap' = SetZ(heap, t, Enclosed(FillAB(A1, B1)))
              /\ jobs' = jobs
         ELSE AddJob(t, t, v.shape, A1, B1)
  /\ pos' = [pos EXCEPT ![t] = @ + 1]
  /\ UNCHANGED <<arg, mpc, job, error, ec, tpc, mine, result>>

\* both are nested: Value_P A1(cell_A, LOC) is a new scalar with the nested
\* item cell_A, not the value that cell_A points to.  conforming_shape() has
\* nothing to complain about (it leaves job_AB->error as it finds it), and
\* the fill result of an empty B1 is not stored.
PFBothNested(t) ==
  /\ InSlice(t)
  /\ IsNested(ItemA(t)) /\ IsNested(ItemB(t))
  /\ LET A1 == Scalar(ItemA(t))
         B1 == ItemB(t).val
         c  == Conforming(B1.shape, A1.shape)
     IN  IF error # OK
         THEN /\ tpc' = [tpc EXCEPT ![t] = "idle"]
              /\ UNCHANGED <<heap, jobs, pos>>
         ELSE /\ IF Volume(c.shape) > 0
                 THEN AddJob(t, t, c.shape, A1, B1)
                 ELSE UNCHANGED <<heap, jobs>>
              /\ pos' = [pos EXCEPT ![t] = @ + 1]
              /\ tpc' = tpc
  /\ UNCHANGED <<arg, mpc, job, error, ec, mine, result>>

PFEnd(t) ==
  /\ tpc[t] = "item" /\ AtEnd(t)
  /\ tpc' = [tpc EXCEPT ![t] = "idle"]
  /\ UNCHANGED <<arg, mpc, heap, job, error, ec, jobs, pos, mine, result>>

\* M_join(), and the test of job_AB->error after it
Join ==
  /\ mpc = "join" /\ \A t \in Thread : tpc[t] = "idle"
  /\ ec' = error
  /\ mpc' = IF error = OK THEN "pick" ELSE "failed"
  /\ job' = IF error = OK THEN NoJob ELSE job
  /\ UNCHANGED <<arg, heap, error, jobs, tpc, pos, mine, result>>

PF(t) ==
  \/ PFSimple(t) \/ PFTest(t) \/ PFOneNested(t) \/ PFBothNested(t) \/ PFEnd(t)

Next ==
  \/ StartError \/ StartEmpty \/ StartJob
  \/ \E t \in Thread : PickJob(t)
  \/ AllDone \/ Throw \/ Again
  \/ SeqBothNested \/ SeqOneNested \/ SeqSimple \/ SeqEnd
  \/ Join
  \/ \E t \in Thread : PF(t)

Spec == Init /\ [][Next]_vars

-----------------------------------------------------------------------------
\* The shape of the state: jobs point to values of the heap, slices end
\* within the result.
TypeOK ==
  /\ mpc \in {"start", "pick", "loop", "join", "failed", "end"}
  /\ \A id \in DOMAIN heap :
       /\ Len(heap[id].cells) = Volume(heap[id].shape)
       /\ heap[id].valid \in 0 .. Len(heap[id].cells)
  /\ \A t \in Thread :
       /\ tpc[t] \in {"item", "test", "idle"}
       /\ pos[t] \in Nat
       /\ \A k \in DOMAIN jobs[t] : jobs[t][k].z \in DOMAIN heap
  /\ (mpc \in {"loop", "join"}) => job.z \in DOMAIN heap

\* The result of a scalar function is pervasive: its items are the results of
\* the function for the items of the arguments, whatever the nesting, the
\* number of threads and their interleaving, and it fails if and only if the
\* function fails for some pair of items ("cell_Z is nested, pointing to
\* Z1 <- A1 fun B1", do_scalar_AB()).
ResultIsPervasive ==
  mpc = "end" =>
    LET r == Pervade[<<arg.A, arg.B>>]
    IN  IF r.ec = OK THEN result = r ELSE result.ec # OK

-----------------------------------------------------------------------------
(* What the cells of the values of the heap should be.  In these operators *)
(* v is a value of the heap.                                               *)

\* the items from which cell z of v is computed
OfA(v, z) == ItemAt(v.A, z)
OfB(v, z) == ItemAt(v.B, z)
BothSimple(v, z) == ~IsNested(OfA(v, z)) /\ ~IsNested(OfB(v, z))
BothNested(v, z) == IsNested(OfA(v, z)) /\ IsNested(OfB(v, z))
OneNested(v, z) == IsNested(OfA(v, z)) # IsNested(OfB(v, z))
TheNested(v, z) == IF IsNested(OfA(v, z)) THEN OfA(v, z).val ELSE OfB(v, z).val
Inner(v, z) == Conforming(OfB(v, z).val.shape, OfA(v, z).val.shape)

\* the function has no result for the items
CellFails(v, z) == BothSimple(v, z) /\ CellError(OfA(v, z), OfB(v, z)) # OK
Fails(v, z) == CellFails(v, z) \/ (BothNested(v, z) /\ Inner(v, z).ec # OK)

\* the value is computed by all threads
Shared(v) == MaybeParallel /\ Len(v.cells) > arg.threshold

\* a pair of nested items with an empty result, which next_ravel() misplaces
Misplaced(v, z) ==
  BothNested(v, z) /\ Inner(v, z).ec = OK /\ Volume(Inner(v, z).shape) = 0

\* what the threads get wrong: pairs of nested items, and errors, which the
\* next cell function resets
Mishandled(v, z) == Shared(v) /\ (BothNested(v, z) \/ CellFails(v, z))

\* a pair of nested items whose common shape depends on which one comes first:
\* they have one item each and different ranks
Exchanged(v, z) ==
  BothNested(v, z) /\
    Inner(v, z).shape # Conforming(OfA(v, z).val.shape, OfB(v, z).val.shape).shape

NoneMisplaced ==
  \A h \in DOMAIN heap : \A z \in DOMAIN heap[h].cells :
     Shared(heap[h]) \/ ~Misplaced(heap[h], z)
NoneMistaken ==
  \A h \in DOMAIN heap : \A z \in DOMAIN heap[h].cells :
     ~Misplaced(heap[h], z) /\ ~Mishandled(heap[h], z)
NoneExchanged ==
  \A h \in DOMAIN heap : \A z \in DOMAIN heap[h].cells : ~Exchanged(heap[h], z)

\* cell c of value h points to a later value that is computed from A and B
PointsTo(h, c, shape, A, B) ==
  \E k \in DOMAIN heap :
    /\ h < k /\ c = Pointer(k)
    /\ heap[k].shape = shape /\ heap[k].A = A /\ heap[k].B = B

\* cell z of value h is the result for its two items
Right(h, z) ==
  LET v == heap[h]
      c == heap[h].cells[z]
      a == OfA(v, z)
      b == OfB(v, z)
  IN  /\ BothSimple(v, z) => c = CellResult(a, b) /\ CellError(a, b) = OK
      /\ BothNested(v, z) => PointsTo(h, c, Inner(v, z).shape, a.val, b.val)
      /\ OneNested(v, z) =>
           LET n == TheNested(v, z)
           IN  IF IsEmpty(n) THEN c = Enclosed(FillB(n))
                             ELSE PointsTo(h, c, n.shape, Item1(a), Item1(b))

\* What the recursion over the items says, for one value and its items: when
\* eval_scalar_AB() returns Z then the first value is the one of the call, and
\* every cell of every value is the result for its two items: computed by the
\* function, or pointing to a value that is computed from these items.  When it
\* throws, then the arguments do not conform or the function fails for a pair.
ItemsAreComputed ==
  mpc = "end" =>
    LET c == Conforming(arg.A.shape, arg.B.shape)
    IN  /\ (result.ec = OK /\ heap = <<>>) => c.ec = OK /\ Volume(c.shape) = 0
        /\ (result.ec = OK /\ heap # <<>>) =>
             /\ c.ec = OK /\ heap[1].shape = c.shape
             /\ heap[1].A = arg.A /\ heap[1].B = arg.B
             /\ NoneMistaken =>
                  \A h \in DOMAIN heap : \A z \in DOMAIN heap[h].cells : Right(h, z)
        /\ result.ec # OK =>
             \/ c.ec # OK
             \/ \E h \in DOMAIN heap : \E z \in DOMAIN heap[h].cells : Fails(heap[h], z)

\* A value under construction has exactly one cell that points to it (its
\* parent counts it among its pointer cells), and a job for it is in at most
\* one list: nothing is computed twice or into a value that is unreachable.
PointersTo(id) ==
  { p \in UNION { {h} \X DOMAIN heap[h].cells : h \in DOMAIN heap } :
      heap[p[1]].cells[p[2]] = Pointer(id) }
JobsFor(id) ==
  { p \in UNION { {t} \X DOMAIN jobs[t] : t \in Thread } :
      jobs[p[1]][p[2]].z = id }
OneOwner ==
  /\ NoneMisplaced => \A id \in DOMAIN heap \ {1} : Cardinality(PointersTo(id)) = 1
  /\ \A id \in DOMAIN heap : Cardinality(JobsFor(id)) <= 1
=============================================================================
