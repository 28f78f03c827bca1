------------------------------ MODULE ThreadPool ------------------------------
(***************************************************************************)
(* The worker pool of parallel GNU APL: Thread_context (fork, join, pool   *)
(* semaphores), CPU_pool (locking the pool, changing the core count) and   *)
(* the thread functions of class Parallel.                                 *)
(*                                                                         *)
(* Thread 0 is the interpreter (the master), threads 1 .. MaxCores-1 are   *)
(* workers.  All of them run concurrently; one action below is one access  *)
(* to shared memory.  ++job_number of a worker is a load and a store,      *)
(* since job_number is volatile but not atomic and is also written by the  *)
(* master.                                                                 *)
(***************************************************************************)
EXTENDS Integers, FiniteSets

CONSTANTS
  MaxCores,      \* CPU_pool::get_count(): the number of threads, master included
  JobMod,        \* number of values of the (char) job_number
  InitialCores,  \* core count requested at the end of Parallel::init()
  Requests,      \* core counts that []SYL[26;2] may be set to (also bad ones)
  CreateMayFail  \* may pthread_create() fail?

ASSUME PoolAssumption ==
  /\ MaxCores \in Nat \ {0}
  /\ JobMod \in Nat /\ JobMod >= 2
  /\ InitialCores \in 1..MaxCores
  /\ Requests \subseteq Int
  /\ CreateMayFail \in BOOLEAN

Worker == 1 .. MaxCores-1
Thread == 0 .. MaxCores-1
ActiveWorker(n) == 1 .. n-1

VARIABLES
  mpc,      \* where the master is
  mode,     \* why the master forked: a job, terminal input, a new core count
  newCount, \* the argument of change_core_count()
  idx,      \* the worker that the master's current loop has reached
  active,   \* active_core_count
  doWork,   \* do_work, the function the workers shall call
  busy,     \* busy_worker_count
  mjob,     \* job_number of the master
  wpc,      \* where each worker is
  wjob,     \* job_number of each worker
  wreg,     \* the value that ++job_number of a worker has loaded
  wfun,     \* the function the worker has called
  sema,     \* pool_sema of each worker
  shares,   \* history: how often each thread did its share of the current job
  raced     \* history: the master has set the job_number of a worker that had
            \* not finished incrementing it and will end with another one

masterVars == <<mpc, mode, newCount, idx, active, doWork, mjob>>
workerVars == <<wpc, wjob, wreg, wfun>>
vars == <<masterVars, workerVars, busy, sema, shares, raced>>

MasterPC == {"create", "idle", "fork", "bump", "share", "join", "tty",
             "set", "sync", "post"}
WorkerPC == {"none", "sem", "fork", "call", "work", "dec", "load", "store",
             "wait"}
Mode     == {"none", "work", "tty", "change"}
Function == {"no_work", "work", "lock"}

TypeOK ==
  /\ mpc \in MasterPC
  /\ mode \in Mode
  /\ newCount \in 1..MaxCores
  /\ idx \in 1..MaxCores
  /\ active \in 1..MaxCores
  /\ doWork \in Function
  /\ busy \in Int
  /\ mjob \in 0..JobMod-1
  /\ wpc \in [Worker -> WorkerPC]
  /\ wjob \in [Worker -> 0..JobMod-1]
  /\ wreg \in [Worker -> 0..JobMod-1]
  /\ wfun \in [Worker -> Function]
  /\ sema \in [Worker -> Nat]
  /\ shares \in [Thread -> Nat]
  /\ raced \in BOOLEAN

-----------------------------------------------------------------------------
NoShares == [t \in Thread |-> 0]

(* Job numbers count modulo JobMod.                                        *)
Succ(j) == (j + 1) % JobMod

(* The job a worker has reached, or will have reached when it has finished *)
(* incrementing its job number.                                            *)
Reached(w) == CASE wpc[w] = "load" -> Succ(wjob[w])
                [] wpc[w] = "store" -> Succ(wreg[w])
                [] OTHER -> wjob[w]

(* init_parallel(): all job numbers 0, no worker thread yet, one core.     *)
Init ==
  /\ mpc = "create" /\ mode = "none"
  /\ newCount = 1 /\ idx = 1 /\ active = 1
  /\ doWork = "no_work" /\ busy = 0 /\ mjob = 0
  /\ wpc = [w \in Worker |-> "none"]
  /\ wjob = [w \in Worker |-> 0]
  /\ wreg = [w \in Worker |-> 0]
  /\ wfun = [w \in Worker |-> "no_work"]
  /\ sema = [w \in Worker |-> 0]
  /\ shares = NoShares /\ raced = FALSE

-----------------------------------------------------------------------------
(* The master.                                                             *)

(* Mutant: lock_pool() does not fork.                                      *)
LockPoolNoFork(m, unlocked) ==
  mode' = m /\ mpc' = unlocked /\ UNCHANGED doWork

(* lock_pool(), first half: with one core there is nothing to lock,        *)
(* otherwise fork the function with which the workers block themselves.    *)
LockPool(m, unlocked) ==
  /\ mode' = m
  /\ IF active <= 1 THEN mpc' = unlocked /\ UNCHANGED doWork
                    ELSE mpc' = "fork" /\ doWork' = "lock"

(* Mutant: the upper limit of the core count is not checked.               *)
BeginChangeUnlimited(n) ==
  IF n < 0 \/ n = active
    THEN mpc' = "idle" /\ UNCHANGED <<mode, doWork, newCount>>
    ELSE newCount' = n /\ LockPool("change", "set")

(* change_core_count(n) up to the end of lock_pool().  0 stands for one    *)
(* core (it also switches run_parallel off, which one core implies); n out *)
(* of range is an error and the current count needs no change.             *)
BeginChange(n) ==
  LET count == IF n = 0 THEN 1 ELSE n IN
  IF n < 0 \/ n > MaxCores \/ count = active
    THEN mpc' = "idle" /\ UNCHANGED <<mode, doWork, newCount>>
    ELSE newCount' = count /\ LockPool("change", "set")

(* pthread_create() and the wait for the new thread, which then blocks on  *)
(* its semaphore.                                                          *)
MCreate ==
  /\ mpc = "create" /\ idx < MaxCores
  /\ wpc' = [wpc EXCEPT ![idx] = "sem"]
  /\ idx' = idx + 1
  /\ UNCHANGED <<mpc, mode, newCount, active, doWork, mjob, wjob, wreg, wfun,
                 busy, sema, shares, raced>>

(* pthread_create() fails: init() gives up and leaves one core active.     *)
MCreateFails ==
  /\ CreateMayFail
  /\ mpc = "create" /\ idx < MaxCores
  /\ mpc' = "idle" /\ active' = 1
  /\ UNCHANGED <<mode, newCount, idx, doWork, mjob, workerVars, busy, sema,
                 shares, raced>>

(* All threads exist: init() ends by waking up InitialCores of them.       *)
MCreated ==
  /\ mpc = "create" /\ idx = MaxCores
  /\ BeginChange(InitialCores)
  /\ UNCHANGED <<idx, active, mjob, workerVars, busy, sema, shares, raced>>

(* A primitive with enough items starts a parallel job.                    *)
MStartWork ==
  /\ mpc = "idle" /\ active > 1
  /\ doWork' = "work" /\ mode' = "work" /\ mpc' = "fork"
  /\ shares' = NoShares
  /\ UNCHANGED <<newCount, idx, active, mjob, workerVars, busy, sema, raced>>

(* The interpreter asks for a terminal line and locks the pool meanwhile.  *)
MStartInput ==
  /\ mpc = "idle"
  /\ LockPool("tty", "tty")
  /\ UNCHANGED <<newCount, idx, active, mjob, workerVars, busy, sema, shares,
                 raced>>

(* []SYL[26;2] <- n                                                        *)
MStartChange ==
  /\ mpc = "idle"
  /\ \E n \in Requests : BeginChange(n)
  /\ UNCHANGED <<idx, active, mjob, workerVars, busy, sema, shares, raced>>

(* Mutant: the master is counted as a worker.                              *)
MForkAddMaster ==
  /\ mpc = "fork"
  /\ busy' = busy + active
  /\ mpc' = "bump"
  /\ UNCHANGED <<mode, newCount, idx, active, doWork, mjob, workerVars, sema,
                 shares, raced>>

(* M_fork(), first access: the workers become busy ...                     *)
MForkAdd ==
  /\ mpc = "fork"
  /\ busy' = busy + (active - 1)
  /\ mpc' = "bump"
  /\ UNCHANGED <<mode, newCount, idx, active, doWork, mjob, workerVars, sema,
                 shares, raced>>

(* ... and second access: the new job number starts them.                  *)
MForkBump ==
  /\ mpc = "bump"
  /\ mjob' = Succ(mjob)
  /\ mpc' = IF mode = "work" THEN "share" ELSE "join"
  /\ UNCHANGED <<mode, newCount, idx, active, doWork, workerVars, busy, sema,
                 shares, raced>>

(* The master does its own share of the job.                               *)
MShare ==
  /\ mpc = "share"
  /\ shares' = [shares EXCEPT ![0] = @ + 1]
  /\ mpc' = "join"
  /\ UNCHANGED <<mode, newCount, idx, active, doWork, mjob, workerVars, busy,
                 sema, raced>>

(* Mutant: M_join() returns with one worker still busy.                    *)
MJoinEarly ==
  /\ mpc = "join" /\ busy <= 1
  /\ mpc' = CASE mode = "work" -> "idle"
              [] mode = "tty" -> "tty"
              [] OTHER -> "set"
  /\ UNCHANGED <<mode, newCount, idx, active, doWork, mjob, workerVars, busy,
                 sema, shares, raced>>

(* M_join(): the busy wait ends when no worker is busy.                    *)
MJoin ==
  /\ mpc = "join" /\ busy = 0
  /\ mpc' = CASE mode = "work" -> "idle"
              [] mode = "tty" -> "tty"
              [] OTHER -> "set"
  /\ UNCHANGED <<mode, newCount, idx, active, doWork, mjob, workerVars, busy,
                 sema, shares, raced>>

(* unlock_pool(): with one core nothing, otherwise one post per worker.    *)
UnlockPool(count) ==
  /\ mpc' = IF count <= 1 THEN "idle" ELSE "post"
  /\ idx' = 1

(* A line has been read.                                                   *)
MInput ==
  /\ mpc = "tty"
  /\ UnlockPool(active)
  /\ UNCHANGED <<mode, newCount, active, doWork, mjob, workerVars, busy, sema,
                 shares, raced>>

(* set_active_core_count(); only an increase sets the job numbers next.    *)
MSetCount ==
  /\ mpc = "set"
  /\ active' = newCount
  /\ IF newCount > active THEN mpc' = "sync" /\ idx' = 1
                          ELSE UnlockPool(newCount)
  /\ UNCHANGED <<mode, newCount, doWork, mjob, workerVars, busy, sema, shares,
                 raced>>

(* Mutant: an added worker keeps the job number it was parked with.        *)
MSyncMissing ==
  /\ mpc = "sync"
  /\ IF idx + 1 < newCount THEN idx' = idx + 1 /\ UNCHANGED mpc
                           ELSE UnlockPool(newCount)
  /\ UNCHANGED <<mode, newCount, active, doWork, mjob, workerVars, busy, sema,
                 shares, raced>>

(* The next worker gets the job number of the master.                      *)
MSync ==
  /\ mpc = "sync"
  /\ wjob' = [wjob EXCEPT ![idx] = mjob]
  /\ IF idx + 1 < newCount THEN idx' = idx + 1 /\ UNCHANGED mpc
                           ELSE UnlockPool(newCount)
  /\ UNCHANGED <<mode, newCount, active, doWork, mjob, wpc, wreg, wfun, busy,
                 sema, shares>>
  /\ raced' = \/ raced
              \/ wpc[idx] = "load"
              \/ wpc[idx] = "store" /\ Succ(wreg[idx]) # mjob

(* Mutant: the last worker is not posted.                                  *)
MPostOneLess ==
  /\ mpc = "post"
  /\ IF idx + 1 < active
       THEN /\ sema' = [sema EXCEPT ![idx] = @ + 1]
            /\ idx' = idx + 1 /\ UNCHANGED mpc
       ELSE idx' = 1 /\ mpc' = "idle" /\ UNCHANGED sema
  /\ UNCHANGED <<mode, newCount, active, doWork, mjob, workerVars, busy, shares,
                 raced>>

(* The next worker is unblocked.                                           *)
MPost ==
  /\ mpc = "post"
  /\ sema' = [sema EXCEPT ![idx] = @ + 1]
  /\ IF idx + 1 < active THEN idx' = idx + 1 /\ UNCHANGED mpc
                         ELSE idx' = 1 /\ mpc' = "idle"
  /\ UNCHANGED <<mode, newCount, active, doWork, mjob, workerVars, busy, shares,
                 raced>>

-----------------------------------------------------------------------------
(* A worker.                                                               *)

WGoto(w, from, to) ==
  /\ wpc[w] = from
  /\ wpc' = [wpc EXCEPT ![w] = to]

(* Mutant: sem_wait() does not consume the post.                           *)
WWakeKeep(w) ==
  /\ WGoto(w, "sem", "fork")
  /\ sema[w] > 0
  /\ UNCHANGED <<masterVars, wjob, wreg, wfun, busy, sema, shares, raced>>

(* sem_wait(&pool_sema), initially and in PF_lock_unlock_pool()            *)
WWake(w) ==
  /\ WGoto(w, "sem", "fork")
  /\ sema[w] > 0
  /\ sema' = [sema EXCEPT ![w] = @ - 1]
  /\ UNCHANGED <<masterVars, wjob, wreg, wfun, busy, shares, raced>>

(* PF_fork(): the busy wait ends when the master has a new job number.     *)
WFork(w) ==
  /\ WGoto(w, "fork", "call")
  /\ mjob # wjob[w]
  /\ UNCHANGED <<masterVars, wjob, wreg, wfun, busy, sema, shares, raced>>

(* do_work(tctx): only a real job does more than joining at once.          *)
WCall(w) ==
  /\ WGoto(w, "call", IF doWork = "work" THEN "work" ELSE "dec")
  /\ wfun' = [wfun EXCEPT ![w] = doWork]
  /\ UNCHANGED <<masterVars, wjob, wreg, busy, sema, shares, raced>>

(* The worker does its share of the job.                                   *)
WWork(w) ==
  /\ WGoto(w, "work", "dec")
  /\ shares' = [shares EXCEPT ![w] = @ + 1]
  /\ UNCHANGED <<masterVars, wjob, wreg, wfun, busy, sema, raced>>

(* PF_join(): the worker is no longer busy, ...                            *)
WDec(w) ==
  /\ WGoto(w, "dec", "load")
  /\ busy' = busy - 1
  /\ UNCHANGED <<masterVars, wjob, wreg, wfun, sema, shares, raced>>

(* ... increments its job number ...                                       *)
WLoad(w) ==
  /\ WGoto(w, "load", "store")
  /\ wreg' = [wreg EXCEPT ![w] = wjob[w]]
  /\ UNCHANGED <<masterVars, wjob, wfun, busy, sema, shares, raced>>

(* Mutant: PF_join() does not increment the job number.                    *)
WStoreSame(w) ==
  /\ WGoto(w, "store", "wait")
  /\ UNCHANGED <<masterVars, wjob, wreg, wfun, busy, sema, shares, raced>>

WStore(w) ==
  /\ WGoto(w, "store", "wait")
  /\ wjob' = [wjob EXCEPT ![w] = Succ(wreg[w])]
  /\ UNCHANGED <<masterVars, wreg, wfun, busy, sema, shares, raced>>

(* ... and waits for the other workers or for the next job.  PF_join() was *)
(* called from PF_lock_unlock_pool(), which then blocks on the semaphore,  *)
(* or from worker_main(), which then waits for the next job.               *)
WJoined(w) ==
  /\ WGoto(w, "wait", IF wfun[w] = "lock" THEN "sem" ELSE "fork")
  /\ busy = 0 \/ mjob # wjob[w]
  /\ UNCHANGED <<masterVars, wjob, wreg, wfun, busy, sema, shares, raced>>

WorkerStep(w) ==
  \/ WWake(w)
  \/ WFork(w)
  \/ WCall(w)
  \/ WWork(w)
  \/ WDec(w)
  \/ WLoad(w)
  \/ WStore(w)
  \/ WJoined(w)

(* The steps that the master takes by itself; starting a job, reading a    *)
(* line and changing the core count are up to the user.                    *)
MasterStep ==
  \/ MCreate
  \/ MCreated
  \/ MForkAdd
  \/ MForkBump
  \/ MShare
  \/ MJoin
  \/ MSetCount
  \/ MSync
  \/ MPost

UserStep ==
  \/ MCreateFails
  \/ MStartWork
  \/ MStartInput
  \/ MStartChange
  \/ MInput

Next ==
  \/ MasterStep
  \/ UserStep
  \/ \E w \in Worker : WorkerStep(w)

Spec == Init /\ [][Next]_vars

(* The threads are scheduled by the kernel: each of them, when it can take *)
(* a step for ever, takes one.  Users owe the program nothing.             *)
FairSpec ==
  /\ Spec
  /\ WF_vars(MasterStep)
  /\ \A w \in Worker : WF_vars(WorkerStep(w))

-----------------------------------------------------------------------------
(* Properties.                                                             *)

(* The workers that have not yet joined the current job.  While the core   *)
(* count is increased, those before idx have got their job number.         *)
Participant == ActiveWorker(IF mpc = "sync" THEN idx ELSE active)
Unfinished == {w \in Participant : Reached(w) # mjob}

(* busy_worker_count is what its declaration says: the number of           *)
(* unfinished workers.  (Between the two halves of M_fork() all workers    *)
(* are already counted.)  It holds until a core count is increased while a *)
(* worker is still about to increment its job number.                      *)
BusyCountsUnfinished ==
  ~raced => busy = IF mpc = "bump" THEN active - 1 ELSE Cardinality(Unfinished)

(* When M_join() of a job has returned, every active thread has done its   *)
(* share, once: the result of the primitive is complete.                   *)
JoinedJobIsComplete ==
  ~raced /\ mode = "work" /\ mpc = "idle" =>
    shares = [t \in Thread |-> IF t < active THEN 1 ELSE 0]

(* While the pool is locked (terminal input is awaited, the core count is  *)
(* set) every worker is on its way to its semaphore, with no wakeup        *)
(* pending: none runs a job, and none can start one.                       *)
ParkingOnly(w) ==
  /\ wpc[w] \in {"none", "load", "store", "wait", "sem"}
  /\ wpc[w] \in {"load", "store", "wait"} => wfun[w] = "lock"
  /\ sema[w] = 0

LockedPoolIsQuiet ==
  ~raced /\ mpc \in {"tty", "set", "sync"} => \A w \in Worker : ParkingOnly(w)

(* No worker that the master waits for is itself blocked: none sleeps on   *)
(* its semaphore without a post, none waits for a job that has started or  *)
(* for the others to join.  Since busy counts those workers, M_join() has  *)
(* either ended or somebody can still bring it nearer to its end, unless   *)
(* the thread of a worker does not exist.                                  *)
Blocked(w) ==
  \/ wpc[w] = "sem" /\ sema[w] = 0
  \/ wpc[w] = "fork" /\ mjob = wjob[w]
  \/ wpc[w] = "wait" /\ busy # 0 /\ mjob = wjob[w]

NoBlockedWorkerIsAwaited ==
  ~raced /\ mpc = "join" => \A w \in Unfinished : ~Blocked(w)

(* The pool implements ForkJoin as long as nothing raced: a share is done  *)
(* once, in the job it belongs to, and the join waits for all of them.     *)
FJ == INSTANCE ForkJoin WITH
        team <- active,
        running <- (mode = "work" /\ mpc # "idle")

ImplementsForkJoin == [][~raced' => FJ!Next]_(FJ!vars)

(* With no increase of the core count after init() nothing can race, and   *)
(* the pool implements ForkJoin without reservations.                      *)
ForkJoinSpec == FJ!Spec

(* M_join() returns, provided that the threads that share the job exist.   *)
AllCreated == \A w \in ActiveWorker(active) : wpc[w] # "none"
JoinReturns == mpc = "join" /\ AllCreated ~> mpc # "join" \/ raced

(* Workers do not burn cycles during terminal input: unless the line comes *)
(* first, they all block on their semaphores.                              *)
InputBlocksWorkers ==
  mpc = "tty" ~> \/ mpc # "tty"
                 \/ raced
                 \/ \A w \in Worker : wpc[w] \in {"none", "sem"}

(* The declaration of busy_worker_count ("the number of unfinished         *)
(* workers") taken at its word, whatever happens.                          *)
BusyIsANumberOfWorkers == busy >= 0

=============================================================================
