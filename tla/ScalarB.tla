------------------------------- MODULE ScalarB -------------------------------
(***************************************************************************)
(* The evaluation of a monadic scalar function on a nested value           *)
(* (ScalarFunction::eval_scalar_B): a job per nested value, one list of    *)
(* jobs per thread, each job done by the master alone or shared by all     *)
(* active threads, which add jobs for the nested items they meet.          *)
(*                                                                         *)
(* The pool is used as ForkJoin promises it: between fork and join every   *)
(* thread below Cores runs PF_scalar_B() once.                             *)
(*                                                                         *)
(* A value is a tree of nodes; node 1 is B itself.  An item of a node is   *)
(* simple, with the error code that the cell function returns for it, or   *)
(* nested, with the node it points to.  An empty node has one item all the *)
(* same, its prototype (nz_element_count() is 1).                          *)
(***************************************************************************)
EXTENDS Slices, Sequences, FiniteSets

CONSTANTS
  Thresholds, \* values of get_monadic_threshold(), which []FIO can change
  Trees       \* the values that functions are applied to

OK == "E_NO_ERROR"

ItemType == [nested : BOOLEAN, result : STRING, node : Nat]
NodeType == [empty : BOOLEAN, items : Seq(ItemType)]

\* The nodes of a tree are numbered so that an item points to a later node; to
\* each node but the first exactly one item points.
ScalarAssumption ==
  /\ Thresholds \subseteq Int
  /\ \A t \in Trees : t \in Seq(NodeType) /\ t # <<>> /\ ~t[1].empty
  /\ \A t \in Trees : \A n \in DOMAIN t :
       /\ Len(t[n].items) > 0
       /\ t[n].empty => Len(t[n].items) = 1 /\ ~t[n].items[1].nested
       /\ \A i \in DOMAIN t[n].items :
            LET item == t[n].items[i]
            IN  item.nested => item.node \in DOMAIN t /\ item.node > n
  /\ \A t \in Trees : \A n, m \in DOMAIN t :
       \A i \in DOMAIN t[n].items, j \in DOMAIN t[m].items :
         /\ t[n].items[i].nested /\ t[m].items[j].nested
         /\ t[n].items[i].node = t[m].items[j].node
         => n = m /\ i = j
  /\ \A t \in Trees : \A m \in (DOMAIN t) \ {1} :
       \E n \in DOMAIN t : \E i \in DOMAIN t[n].items :
         t[n].items[i].nested /\ t[n].items[i].node = m
ASSUME ScalarAssumption

VARIABLES
  tree,   \* the value being processed
  mpc,    \* where the master is in eval_scalar_B() and do_scalar_B()
  job,    \* job_B, the node being computed (0: none)
  error,  \* job_B->error
  ec,     \* the error code that do_scalar_B() returns
  jobs,   \* joblist_B of each thread
  tpc,    \* where each thread is in PF_scalar_B()
  pos,    \* z of each thread (and of the master's sequential loop)
  mine,   \* what the cell function has just returned to each thread
  lock,   \* jobs_lock
  threshold, \* get_monadic_threshold() of the function
  cells,  \* history: how often each cell of each result has been written
  shared  \* history: a job of this evaluation was shared by the threads

callVars == <<tree, threshold>>
vars == <<callVars, mpc, job, error, ec, jobs, tpc, pos, mine, lock, cells, shared>>

Items(n) == tree[n].items
Cell(t) == UNION { {n} \X (DOMAIN t[n].items) : n \in DOMAIN t }
Unwritten(t) == [c \in Cell(t) |-> 0]
Written(c) == [cells EXCEPT ![c] = @ + 1]
NoJobs == [t \in Thread |-> <<>>]

-----------------------------------------------------------------------------
(* The items that a thread computes.                                       *)

AtEnd(t) == pos[t] >= SliceLast(t, Len(Items(job)))
Item(t) == Items(job)[pos[t] + 1]

-----------------------------------------------------------------------------
Init ==
  /\ tree \in Trees /\ threshold \in Thresholds /\ shared = FALSE
  /\ mpc = "start" /\ job = 0
  /\ error = OK /\ ec = OK
  /\ jobs = NoJobs
  /\ tpc = [t \in Thread |-> "idle"]
  /\ pos = [t \in Thread |-> 0]
  /\ mine = [t \in Thread |-> OK]
  /\ lock = 0
  /\ cells = Unwritten(tree)

\* eval_scalar_B() is called for another value
Start ==
  /\ mpc = "start"
  /\ tree' \in Trees /\ threshold' \in Thresholds /\ shared' = FALSE
  /\ cells' = Unwritten(tree')
  /\ jobs' = [jobs EXCEPT ![Master] = <<1>>]
  /\ ec' = OK
  /\ mpc' = "pick"
  /\ UNCHANGED <<job, error, tpc, pos, mine, lock>>

MaybeParallel == Cores > 1

\* the first thread with a job gives its last one
FirstWithJob(t) == jobs[t] # <<>> /\ \A u \in Thread : u < t => jobs[u] = <<>>
\* MUTANT: back() without pop_back()
PickJobKeep(t) ==
  /\ mpc = "pick"
  /\ FirstWithJob(t)
  /\ job' = jobs[t][Len(jobs[t])]
  /\ jobs' = jobs
  /\ error' = OK
  /\ IF MaybeParallel /\ Len(Items(job')) > threshold
     THEN /\ mpc' = "join" /\ shared' = TRUE
          /\ tpc' = [u \in Thread |-> "item"]
          /\ pos' = [u \in Thread |-> SliceFirst(u, Len(Items(job')))]
     ELSE /\ mpc' = "loop" /\ shared' = shared
          /\ pos' = [pos EXCEPT ![Master] = 0]
          /\ tpc' = tpc
  /\ UNCHANGED <<callVars, ec, mine, lock, cells>>

\* MUTANT: the error of the previous job is kept
PickJobStale(t) ==
  /\ mpc = "pick"
  /\ FirstWithJob(t)
  /\ job' = jobs[t][Len(jobs[t])]
  /\ jobs' = [jobs EXCEPT ![t] = SubSeq(@, 1, Len(@) - 1)]
  /\ error' = error
  /\ IF MaybeParallel /\ Len(Items(job')) > threshold
     THEN /\ mpc' = "join" /\ shared' = TRUE
          /\ tpc' = [u \in Thread |-> "item"]
          /\ pos' = [u \in Thread |-> SliceFirst(u, Len(Items(job')))]
     ELSE /\ mpc' = "loop" /\ shared' = shared
          /\ pos' = [pos EXCEPT ![Master] = 0]
          /\ tpc' = tpc
  /\ UNCHANGED <<callVars, ec, mine, lock, cells>>


PickJob(t) ==
  /\ mpc = "pick"
  /\ FirstWithJob(t)
  /\ job' = jobs[t][Len(jobs[t])]
  /\ jobs' = [jobs EXCEPT ![t] = SubSeq(@, 1, Len(@) - 1)]
  /\ error' = OK
  /\ IF MaybeParallel /\ Len(Items(job')) > threshold
     THEN /\ mpc' = "join" /\ shared' = TRUE
          /\ tpc' = [u \in Thread |-> "item"]
          /\ pos' = [u \in Thread |-> SliceFirst(u, Len(Items(job')))]
     ELSE /\ mpc' = "loop" /\ shared' = shared
          /\ pos' = [pos EXCEPT ![Master] = 0]
          /\ tpc' = tpc
  /\ UNCHANGED <<callVars, ec, mine, lock, cells>>

\* all jobs done: the result is returned, the lists are asserted to be empty
AllDone ==
  /\ mpc = "pick"
  /\ \A t \in Thread : jobs[t] = <<>>
  /\ job' = 0
  /\ mpc' = "result"
  /\ UNCHANGED <<callVars, error, ec, jobs, tpc, pos, mine, lock, cells, shared>>

-----------------------------------------------------------------------------
(* The sequential loop of the master.                                      *)

\* a nested item: a job for it, whether or not the item is empty
SeqNested ==
  /\ mpc = "loop" /\ pos[Master] < Len(Items(job))
  /\ Item(Master).nested
  /\ jobs' = [jobs EXCEPT ![Master] = Append(@, Item(Master).node)]
  /\ cells' = Written(<<job, pos[Master] + 1>>)
  /\ pos' = [pos EXCEPT ![Master] = @ + 1]
  /\ UNCHANGED <<callVars, mpc, job, error, ec, tpc, mine, lock, shared>>
\* MUTANT: the loop goes on after an error
SeqSimpleOn ==
  /\ mpc = "loop" /\ pos[Master] < Len(Items(job))
  /\ ~Item(Master).nested
  /\ ec' = Item(Master).result
  /\ cells' = IF ec' = OK THEN Written(<<job, pos[Master] + 1>>) ELSE cells
  /\ pos' = [pos EXCEPT ![Master] = @ + 1]
  /\ UNCHANGED <<callVars, mpc, job, error, jobs, tpc, mine, lock, shared>>


SeqSimple ==
  /\ mpc = "loop" /\ pos[Master] < Len(Items(job))
  /\ ~Item(Master).nested
  /\ ec' = Item(Master).result
  /\ IF ec' = OK
     THEN /\ cells' = Written(<<job, pos[Master] + 1>>)
          /\ pos' = [pos EXCEPT ![Master] = @ + 1]
          /\ UNCHANGED <<mpc, job>>
     ELSE /\ job' = 0 /\ mpc' = "failed"
          /\ UNCHANGED <<cells, pos>>
  /\ UNCHANGED <<callVars, error, jobs, tpc, mine, lock, shared>>

SeqEnd ==
  /\ mpc = "loop" /\ pos[Master] >= Len(Items(job))
  /\ job' = 0 /\ mpc' = "pick"
  /\ UNCHANGED <<callVars, error, ec, jobs, tpc, pos, mine, lock, cells, shared>>

-----------------------------------------------------------------------------
(* PF_scalar_B(), run by the master and by every worker.                   *)

\* job_B->error = (cell_B.*fun1)(&cell_Z)
PFSimple(t) ==
  /\ tpc[t] = "item" /\ ~AtEnd(t)
  /\ ~Item(t).nested
  /\ error' = Item(t).result
  /\ mine' = [mine EXCEPT ![t] = Item(t).result]
  /\ cells' = IF error' = OK THEN Written(<<job, pos[t] + 1>>) ELSE cells
  /\ tpc' = [tpc EXCEPT ![t] = "test"]
  /\ UNCHANGED <<callVars, mpc, job, ec, jobs, pos, lock, shared>>

\* if (job_B->error != E_NO_ERROR) return: other threads may have written
\* job_B->error; the compiler may, but need not, keep the value in a register
PFTest(t) ==
  /\ tpc[t] = "test"
  /\ \E seen \in {mine[t], error} :
       IF seen = OK
       THEN /\ tpc' = [tpc EXCEPT ![t] = "item"]
            /\ pos' = [pos EXCEPT ![t] = @ + 1]
       ELSE /\ tpc' = [tpc EXCEPT ![t] = "idle"]
            /\ pos' = pos
  /\ UNCHANGED <<callVars, mpc, job, error, ec, jobs, mine, lock, cells, shared>>

\* MUTANT: the result of atomic_fetch_add() is not looked at
PFAcquireAlways(t) ==
  /\ \/ tpc[t] = "item" /\ ~AtEnd(t) /\ Item(t).nested
     \/ tpc[t] = "retry"
  /\ lock' = lock + 1
  /\ tpc' = [tpc EXCEPT ![t] = "add"]
  /\ UNCHANGED <<callVars, mpc, job, error, ec, jobs, pos, mine, cells, shared>>
\* acquire_lock(): atomic_fetch_add(lock, 1) == 0
PFAcquire(t) ==
  /\ \/ tpc[t] = "item" /\ ~AtEnd(t) /\ Item(t).nested
     \/ tpc[t] = "retry"
  /\ lock' = lock + 1
  /\ tpc' = [tpc EXCEPT ![t] = IF lock = 0 THEN "add" ELSE "undo"]
  /\ UNCHANGED <<callVars, mpc, job, error, ec, jobs, pos, mine, cells, shared>>

\* MUTANT: the failed attempt is not undone
PFUndoNot(t) ==
  /\ tpc[t] = "undo"
  /\ lock' = lock
  /\ tpc' = [tpc EXCEPT ![t] = "retry"]
  /\ UNCHANGED <<callVars, mpc, job, error, ec, jobs, pos, mine, cells, shared>>
\* acquire_lock(): atomic_add(lock, -1) after a failed attempt
PFUndo(t) ==
  /\ tpc[t] = "undo"
  /\ lock' = lock - 1
  /\ tpc' = [tpc EXCEPT ![t] = "retry"]
  /\ UNCHANGED <<callVars, mpc, job, error, ec, jobs, pos, mine, cells, shared>>

\* a nested item: a job for it unless it is empty, in which case the result
\* is its type
PFAdd(t) ==
  /\ tpc[t] = "add"
  /\ LET n == Item(t).node
     IN  IF tree[n].empty
         THEN /\ cells' = [c \in DOMAIN cells |->
                             IF c = <<job, pos[t] + 1>> \/ c[1] = n
                             THEN cells[c] + 1 ELSE cells[c]]
              /\ jobs' = jobs
         ELSE /\ cells' = Written(<<job, pos[t] + 1>>)
              /\ jobs' = [jobs EXCEPT ![t] = Append(@, n)]
  /\ tpc' = [tpc EXCEPT ![t] = "added"]
  /\ UNCHANGED <<callVars, mpc, job, error, ec, pos, mine, lock, shared>>

\* MUTANT: the lock is not released
PFReleaseNot(t) ==
  /\ tpc[t] = "added"
  /\ lock' = lock
  /\ pos' = [pos EXCEPT ![t] = @ + 1]
  /\ tpc' = [tpc EXCEPT ![t] = "item"]
  /\ UNCHANGED <<callVars, mpc, job, error, ec, jobs, mine, cells, shared>>
\* release_lock()
PFRelease(t) ==
  /\ tpc[t] = "added"
  /\ lock' = lock - 1
  /\ pos' = [pos EXCEPT ![t] = @ + 1]
  /\ tpc' = [tpc EXCEPT ![t] = "item"]
  /\ UNCHANGED <<callVars, mpc, job, error, ec, jobs, mine, cells, shared>>

PFEnd(t) ==
  /\ tpc[t] = "item" /\ AtEnd(t)
  /\ tpc' = [tpc EXCEPT ![t] = "idle"]
  /\ UNCHANGED <<callVars, mpc, job, error, ec, jobs, pos, mine, lock, cells, shared>>

\* M_join(), and the test of job_B->error after it. On an error job_B still
\* points to the job, but it is set before it is read again: here it is none.
Join ==
  /\ mpc = "join" /\ \A t \in Thread : tpc[t] = "idle"
  /\ IF error = OK
     THEN mpc' = "pick" /\ ec' = ec
     ELSE mpc' = "failed" /\ ec' = error
  /\ job' = 0
  /\ UNCHANGED <<callVars, error, jobs, tpc, pos, mine, lock, cells, shared>>

-----------------------------------------------------------------------------
(* eval_scalar_B() after do_scalar_B().                                    *)

\* MUTANT: only the master's jobs are cancelled
ThrowMaster ==
  /\ mpc = "failed"
  /\ jobs' = [jobs EXCEPT ![Master] = <<>>]
  /\ mpc' = "start"
  /\ UNCHANGED <<callVars, job, error, ec, tpc, pos, mine, lock, cells, shared>>
\* cancel_all_monadic_jobs(); throw_apl_error(ec)
Throw ==
  /\ mpc = "failed"
  /\ jobs' = NoJobs
  /\ mpc' = "start"
  /\ UNCHANGED <<callVars, job, error, ec, tpc, pos, mine, lock, cells, shared>>

Return ==
  /\ mpc = "result"
  /\ mpc' = "start"
  /\ UNCHANGED <<callVars, job, error, ec, jobs, tpc, pos, mine, lock, cells, shared>>

PF(t) ==
  \/ PFSimple(t) \/ PFTest(t) \/ PFAcquire(t) \/ PFUndo(t) \/ PFAdd(t)
  \/ PFRelease(t) \/ PFEnd(t)

Evaluate ==
  \/ \E t \in Thread : PickJob(t)
  \/ AllDone
  \/ SeqNested \/ SeqSimple \/ SeqEnd
  \/ Join \/ Throw \/ Return

Next == Start \/ Evaluate \/ \E t \in Thread : PF(t)

Spec == Init /\ [][Next]_vars

\* The kernel schedules every thread.
Fairness == WF_vars(Evaluate) /\ \A t \in Thread : WF_vars(PF(t))
FairSpec == Spec /\ Fairness

-----------------------------------------------------------------------------
NodeOrNone == 0 .. Len(tree)
CodesOf(items) == { i.result : i \in { items[k] : k \in DOMAIN items } }
ErrorCode ==
  {OK} \cup UNION { UNION { CodesOf(t[n].items) : n \in DOMAIN t } : t \in Trees }

\* The shape of the state: job, lists, slices and lock of do_scalar_B().
TypeOK ==
  /\ tree \in Trees /\ threshold \in Thresholds /\ shared \in BOOLEAN
  /\ mpc \in {"start", "pick", "loop", "join", "failed", "result"}
  /\ job \in NodeOrNone
  /\ jobs \in [Thread -> Seq(1 .. Len(tree))]
  /\ tpc \in [Thread -> {"idle", "item", "test", "retry", "undo", "add", "added"}]
  /\ pos \in [Thread -> Nat]
  /\ lock \in 0 .. Cores
  /\ cells \in [Cell(tree) -> Nat]
  /\ {error, ec} \cup {mine[t] : t \in Thread} \subseteq ErrorCode

\* jobs_lock lets one thread at a time add to a job list and create values
\* (the comment at the head of PF_scalar_B()).
InLock(t) == tpc[t] \in {"add", "added"}
OneAdder == \A t, u \in Thread : InLock(t) /\ InLock(u) => t = u

\* No cell of a result is computed twice, whichever threads share a job and
\* whichever list a nested item goes to.
CellsWrittenOnce == \A c \in DOMAIN cells : cells[c] <= 1

\* What is queued remains to be done: no job is queued twice, the current job
\* is not queued, and nothing of a queued job has been computed.
Queue(t) == { jobs[t][k] : k \in DOMAIN jobs[t] }
QueuedJobsAreFresh ==
  /\ \A t \in Thread : \A i, j \in DOMAIN jobs[t] :
       jobs[t][i] = jobs[t][j] => i = j
  /\ \A t, u \in Thread : t # u => Queue(t) \cap Queue(u) = {}
  /\ \A t \in Thread : \A n \in Queue(t) :
       n # job /\ \A c \in DOMAIN cells : c[1] = n => cells[c] = 0

\* No job of an evaluation survives it, neither of one that failed nor of
\* one that returned (the assertion in eval_scalar_B()).
NoJobLeftOver == mpc \in {"start", "result"} => jobs = NoJobs

\* If no item fails then every cell of every value of the result has been
\* computed when the result is returned.
Flawless(t) ==
  \A n \in DOMAIN t : \A i \in DOMAIN t[n].items :
     t[n].items[i].nested \/ t[n].items[i].result = OK
AllWritten == \A c \in DOMAIN cells : cells[c] = 1
FlawlessIsComplete == mpc = "result" /\ Flawless(tree) => AllWritten

\* Nothing fails without a cause: the error code thrown is that of an item.
ErrorIsReal ==
  mpc = "failed" =>
    /\ ec # OK
    /\ \E n \in DOMAIN tree : \E i \in DOMAIN tree[n].items :
         LET item == tree[n].items[i] IN ~item.nested /\ item.result = ec

\* As long as the master does all jobs itself, a value that it returns has been
\* initialised completely: no error is lost.
AloneIsComplete == mpc = "result" /\ ~shared => AllWritten

\* A value that is returned has been initialised completely, also when some
\* item failed: then no value is returned ("check that this value was
\* completely initialized", Value::check_value()).
ResultIsComplete == mpc = "result" => AllWritten

\* An evaluation ends, unless two threads that want jobs_lock undo each
\* other's attempts for ever: atomic_fetch_add() of one fails because of the
\* other one's that has failed but is not undone yet.
Colliding ==
  \E t, u \in Thread : t # u /\ tpc[t] = "undo" /\ tpc[u] # "idle"
EvaluationEnds == []<>(mpc = "start") \/ []<>Colliding
=============================================================================
