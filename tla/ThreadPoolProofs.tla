--------------------------- MODULE ThreadPoolProofs ---------------------------
(***************************************************************************)
(* Proofs about ThreadPool, for every number of threads, every range of    *)
(* job numbers and every sequence of requests.                             *)
(***************************************************************************)
EXTENDS ThreadPool, FiniteSetTheorems, TLAPS

(* The successor of a job number is a job number, and a different one.     *)
LEMMA SuccType ==
  ASSUME NEW j \in 0..JobMod-1
  PROVE  Succ(j) \in 0..JobMod-1 /\ Succ(j) # j
<1>1. CASE j = JobMod-1
  BY <1>1, PoolAssumption DEF Succ
<1>2. CASE j # JobMod-1
  BY <1>2, PoolAssumption DEF Succ
<1> QED BY <1>1, <1>2

(* Counting up one counter keeps all of them numbers.                      *)
LEMMA CountUp ==
  ASSUME NEW S, NEW f \in [S -> Nat], NEW x
  PROVE  [f EXCEPT ![x] = @ + 1] \in [S -> Nat]
<1> DEFINE g == [f EXCEPT ![x] = @ + 1]
<1>1. ASSUME NEW y \in S PROVE g[y] \in Nat
  <2>1. CASE y = x
    <3>1. f[x] \in Nat BY <2>1
    <3>2. g[y] = f[x] + 1 BY <2>1
    <3> QED BY <3>1, <3>2
  <2>2. CASE y # x BY <2>2
  <2> QED BY <2>1, <2>2
<1> QED BY <1>1

(* No step of the pool leaves its state space: in particular every core    *)
(* count is within limits and every semaphore and share count is a number. *)
LEMMA TypeInvariant == TypeOK /\ [Next]_vars => TypeOK'
<1> SUFFICES ASSUME TypeOK, [Next]_vars PROVE TypeOK'
  OBVIOUS
<1> USE DEF TypeOK
<1>1. ASSUME NEW n \in Int, BeginChange(n)
      PROVE  /\ mpc' \in MasterPC /\ mode' \in Mode
             /\ newCount' \in 1..MaxCores /\ doWork' \in Function
  BY <1>1, PoolAssumption DEF BeginChange, LockPool, MasterPC, Mode, Function
<1>2. ASSUME NEW count, UnlockPool(count)
      PROVE  mpc' \in MasterPC /\ idx' \in 1..MaxCores
  BY <1>2, PoolAssumption DEF UnlockPool, MasterPC
<1>3. ASSUME NEW w \in Worker, NEW from, NEW to \in WorkerPC, WGoto(w, from, to)
      PROVE  wpc' \in [Worker -> WorkerPC]
  BY <1>3 DEF WGoto
<1> USE DEF masterVars, workerVars
<1>m. CASE MasterStep
  <2>1. CASE MCreate
    <3>1. wpc' \in [Worker -> WorkerPC] BY <2>1 DEF MCreate, WorkerPC
    <3>2. idx' \in 1..MaxCores BY <2>1, PoolAssumption DEF MCreate
    <3> QED BY <2>1, <3>1, <3>2 DEF MCreate
  <2>2. CASE MCreated
    <3>1. InitialCores \in Int BY PoolAssumption
    <3> QED BY <2>2, <1>1, <3>1 DEF MCreated
  <2>3. CASE MForkAdd BY <2>3 DEF MForkAdd, MasterPC
  <2>4. CASE MForkBump
    <3>1. mpc' \in MasterPC BY <2>4 DEF MForkBump, MasterPC
    <3>2. Succ(mjob) \in 0..JobMod-1 BY SuccType
    <3> QED BY <2>4, <3>1, <3>2 DEF MForkBump
  <2>5. CASE MShare
    <3>1. shares' \in [Thread -> Nat] BY <2>5, CountUp DEF MShare
    <3> QED BY <2>5, <3>1 DEF MShare, MasterPC
  <2>6. CASE MJoin
    <3>1. mpc' \in MasterPC BY <2>6 DEF MJoin, MasterPC
    <3> QED BY <2>6, <3>1 DEF MJoin
  <2>7. CASE MSetCount
    <3>1. mpc' \in MasterPC /\ idx' \in 1..MaxCores
      <4>1. CASE newCount > active
        BY <2>7, <4>1, PoolAssumption DEF MSetCount, MasterPC
      <4>2. CASE ~(newCount > active)
        BY <2>7, <4>2, <1>2 DEF MSetCount
      <4> QED BY <4>1, <4>2
    <3> QED BY <2>7, <3>1 DEF MSetCount
  <2>8. CASE MSync
    <3>1. mpc' \in MasterPC /\ idx' \in 1..MaxCores
      BY <2>8, <1>2, PoolAssumption DEF MSync
    <3>2. wjob' \in [Worker -> 0..JobMod-1] BY <2>8 DEF MSync
    <3>3. raced' \in BOOLEAN BY <2>8 DEF MSync
    <3> QED BY <2>8, <3>1, <3>2, <3>3 DEF MSync
  <2>9. CASE MPost
    <3>1. mpc' \in MasterPC /\ idx' \in 1..MaxCores
      BY <2>9, PoolAssumption DEF MPost, MasterPC
    <3>2. sema' \in [Worker -> Nat] BY <2>9, CountUp DEF MPost
    <3> QED BY <2>9, <3>1, <3>2 DEF MPost
  <2> QED BY <1>m, <2>1, <2>2, <2>3, <2>4, <2>5, <2>6, <2>7, <2>8, <2>9
          DEF MasterStep
<1>u. CASE UserStep
  <2>1. CASE MCreateFails
    <3>1. active' \in 1..MaxCores BY <2>1, PoolAssumption DEF MCreateFails
    <3> QED BY <2>1, <3>1 DEF MCreateFails, MasterPC
  <2>2. CASE MStartWork
    <3>1. shares' \in [Thread -> Nat] BY <2>2 DEF MStartWork, NoShares
    <3> QED BY <2>2, <3>1 DEF MStartWork, MasterPC, Mode, Function
  <2>3. CASE MStartInput
    <3>1. mpc' \in MasterPC /\ mode' \in Mode /\ doWork' \in Function
      BY <2>3 DEF MStartInput, LockPool, MasterPC, Mode, Function
    <3> QED BY <2>3, <3>1 DEF MStartInput
  <2>4. CASE MStartChange
    <3>1. Requests \subseteq Int BY PoolAssumption
    <3> QED BY <2>4, <1>1, <3>1 DEF MStartChange
  <2>5. CASE MInput BY <2>5, <1>2 DEF MInput
  <2> QED BY <1>u, <2>1, <2>2, <2>3, <2>4, <2>5 DEF UserStep
<1>w. ASSUME NEW w \in Worker, WorkerStep(w) PROVE TypeOK'
  <2>0. wpc' \in [Worker -> WorkerPC]
    BY <1>w, <1>3 DEF WorkerStep, WWake, WFork, WCall, WWork, WDec, WLoad,
       WStore, WJoined, WorkerPC
  <2>1. CASE WWake(w)
    <3>1. sema' \in [Worker -> Nat] BY <2>1 DEF WWake
    <3> QED BY <2>0, <2>1, <3>1 DEF WWake
  <2>2. CASE WFork(w) BY <2>0, <2>2 DEF WFork
  <2>3. CASE WCall(w)
    <3>1. wfun' \in [Worker -> Function] BY <2>3 DEF WCall
    <3> QED BY <2>0, <2>3, <3>1 DEF WCall
  <2>4. CASE WWork(w)
    <3>1. shares' \in [Thread -> Nat] BY <2>4, CountUp DEF WWork
    <3> QED BY <2>0, <2>4, <3>1 DEF WWork
  <2>5. CASE WDec(w)
    <3>1. busy' \in Int BY <2>5 DEF WDec
    <3> QED BY <2>0, <2>5, <3>1 DEF WDec
  <2>6. CASE WLoad(w)
    <3>1. wreg' \in [Worker -> 0..JobMod-1] BY <2>6 DEF WLoad
    <3> QED BY <2>0, <2>6, <3>1 DEF WLoad
  <2>7. CASE WStore(w)
    <3>1. Succ(wreg[w]) \in 0..JobMod-1 BY SuccType
    <3>2. wjob' \in [Worker -> 0..JobMod-1] BY <2>7, <3>1 DEF WStore
    <3> QED BY <2>0, <2>7, <3>2 DEF WStore
  <2>8. CASE WJoined(w) BY <2>0, <2>8 DEF WJoined
  <2> QED BY <1>w, <2>1, <2>2, <2>3, <2>4, <2>5, <2>6, <2>7, <2>8
          DEF WorkerStep
<1>s. CASE UNCHANGED vars BY <1>s DEF vars
<1> QED BY <1>m, <1>u, <1>w, <1>s DEF Next

(* Initially every variable has its type.                                  *)
LEMMA InitTypeOK == Init => TypeOK
<1> SUFFICES ASSUME Init PROVE TypeOK
  OBVIOUS
<1>1. mpc \in MasterPC /\ mode \in Mode /\ doWork \in Function
  BY DEF Init, MasterPC, Mode, Function
<1>2. /\ newCount \in 1..MaxCores /\ idx \in 1..MaxCores
      /\ active \in 1..MaxCores /\ busy \in Int /\ mjob \in 0..JobMod-1
  BY PoolAssumption DEF Init
<1>3. wpc \in [Worker -> WorkerPC] /\ wfun \in [Worker -> Function]
  BY DEF Init, WorkerPC, Function
<1>4. 0 \in 0..JobMod-1
  BY PoolAssumption
<1>5. /\ wjob \in [Worker -> 0..JobMod-1] /\ wreg \in [Worker -> 0..JobMod-1]
      /\ sema \in [Worker -> Nat] /\ shares \in [Thread -> Nat]
  BY <1>4 DEF Init, NoShares
<1> QED BY <1>1, <1>2, <1>3, <1>5 DEF Init, TypeOK

(* Type correctness of the pool.                                           *)
THEOREM TypeCorrect == Spec => []TypeOK
BY InitTypeOK, TypeInvariant, PTL DEF Spec

-----------------------------------------------------------------------------
(* The inductive invariant.                                                *)

(* A worker that is blocked, or about to block, until the pool is unlocked.*)
Parking(w) ==
  /\ wpc[w] \in {"none", "load", "store", "wait", "sem"}
  /\ wpc[w] \in {"load", "store", "wait"} => wfun[w] = "lock"

(* Where the master is says why it is there, and that there are workers.   *)
MasterInv ==
  /\ mpc = "create" => mode = "none" /\ active = 1
  /\ mpc \in {"fork", "bump", "share", "join"} =>
       /\ active > 1 /\ mode # "none"
       /\ doWork = IF mode = "work" THEN "work" ELSE "lock"
  /\ mpc = "share" => mode = "work"
  /\ mpc = "tty" => mode = "tty"
  /\ mpc \in {"set", "sync"} => mode = "change"
  /\ mpc = "post" => mode \in {"tty", "change"}
  /\ mpc = "sync" => active = newCount
  /\ mpc \in {"sync", "post"} => idx < active

(* Every participant has reached the job of the master, or is one behind   *)
(* it while the master waits.                                              *)
JobInv ==
  \A w \in Participant :
    IF mpc \in {"share", "join"}
      THEN mjob = Reached(w) \/ mjob = Succ(Reached(w))
      ELSE mjob = Reached(w)

(* A worker is inside a job only while the master waits for it.            *)
WorkInv ==
  \A w \in Worker :
    /\ wpc[w] \in {"call", "work", "dec"} =>
         /\ w < active
         /\ mpc \in {"share", "join"}
         /\ Reached(w) # mjob
    /\ wpc[w] = "work" => mode = "work"
    /\ wpc[w] \in {"work", "dec"} => wfun[w] = doWork

(* A worker that does not take part, or has joined the job with which the  *)
(* pool is locked and was not posted since.                                *)
Locked(w) ==
  \/ w >= active
  \/ mpc \in {"tty", "set", "sync"}
  \/ mpc = "post" /\ w >= idx
  \/ mpc = "join" /\ mode # "work" /\ Reached(w) = mjob

(* At most one post is pending, for a worker that is parked; locked ones   *)
(* are parked with no post pending.                                        *)
ParkInv ==
  \A w \in Worker :
    /\ sema[w] \in {0, 1}
    /\ sema[w] = 1 => Parking(w)
    /\ Locked(w) => Parking(w) /\ sema[w] = 0

BusyInv ==
  busy = IF mpc = "bump" THEN active - 1 ELSE Cardinality(Unfinished)

(* Who has done its share: the master after MShare, a worker between its   *)
(* work and the next job.                                                  *)
SharesInv ==
  mode = "work" =>
    /\ mpc \in {"fork", "bump", "share"} => shares[0] = 0
    /\ mpc \in {"join", "idle"} => shares[0] = 1
    /\ \A w \in Worker :
         shares[w] = IF /\ w < active
                        /\ \/ mpc = "idle"
                           \/ /\ mpc \in {"share", "join"}
                              /\ Reached(w) = mjob \/ wpc[w] = "dec"
                       THEN 1 ELSE 0

RaceFreeInv ==
  MasterInv /\ JobInv /\ WorkInv /\ ParkInv /\ BusyInv /\ SharesInv

PoolInv == TypeOK /\ (~raced => RaceFreeInv)

(* While no participant is unfinished, nobody is busy.                     *)
LEMMA NobodyUnfinished ==
  ASSUME \A w \in Participant : Reached(w) = mjob
  PROVE  Unfinished = {} /\ Cardinality(Unfinished) = 0
<1>1. Unfinished = {} BY DEF Unfinished
<1> QED BY <1>1, FS_EmptySet

(* The workers that may be unfinished are finitely many.                   *)
LEMMA UnfinishedFinite ==
  ASSUME TypeOK
  PROVE  /\ Participant \subseteq 1..MaxCores /\ Unfinished \subseteq Participant
         /\ IsFiniteSet(Unfinished)
<1>1. Participant \subseteq 1..MaxCores /\ Unfinished \subseteq Participant
  BY PoolAssumption DEF Participant, ActiveWorker, Unfinished, TypeOK
<1>2. IsFiniteSet(1..MaxCores) BY FS_Interval, PoolAssumption
<1> QED BY <1>1, <1>2, FS_Subset

(* Init.                                                                   *)
LEMMA PoolInvInit == Init => PoolInv
<1> SUFFICES ASSUME Init PROVE PoolInv
  OBVIOUS
<1>1. TypeOK BY InitTypeOK
<1>2. Participant = {} BY DEF Init, Participant, ActiveWorker
<1>3. \A w \in Worker : wpc[w] = "none" /\ sema[w] = 0 BY DEF Init
<1>4. MasterInv BY DEF Init, MasterInv
<1>5. JobInv BY <1>2 DEF JobInv
<1>6. WorkInv BY <1>3 DEF WorkInv
<1>7. ParkInv BY <1>3 DEF ParkInv, Locked, Parking
<1>8. BusyInv BY <1>2, NobodyUnfinished DEF Init, BusyInv
<1>9. SharesInv BY DEF Init, SharesInv
<1> QED BY <1>1, <1>4, <1>5, <1>6, <1>7, <1>8, <1>9 DEF PoolInv, RaceFreeInv

(* The steps of a worker: they change nothing of the other workers.        *)
LEMMA OtherWorkers ==
  ASSUME TypeOK, NEW w \in Worker, WorkerStep(w)
  PROVE  /\ UNCHANGED <<mpc, mode, newCount, idx, active, doWork, mjob, raced>>
         /\ Participant' = Participant
         /\ \A v \in Worker \ {w} :
              /\ wpc'[v] = wpc[v] /\ wfun'[v] = wfun[v] /\ sema'[v] = sema[v]
              /\ shares'[v] = shares[v] /\ Reached(v)' = Reached(v)
         /\ 0 \in Thread /\ shares'[0] = shares[0]
<1> USE DEF WorkerStep, WWake, WFork, WCall, WWork, WDec, WLoad, WStore, WJoined,
        masterVars
<1>1. UNCHANGED <<mpc, mode, newCount, idx, active, doWork, mjob, raced>>
  OBVIOUS
<1>2. Participant' = Participant BY <1>1 DEF Participant, ActiveWorker
<1>3. ASSUME NEW v \in Worker \ {w}
      PROVE  /\ wpc'[v] = wpc[v] /\ wfun'[v] = wfun[v] /\ sema'[v] = sema[v]
             /\ wjob'[v] = wjob[v] /\ wreg'[v] = wreg[v]
  BY DEF TypeOK, WGoto
<1>4. ASSUME NEW v \in Thread \ {w} PROVE shares'[v] = shares[v]
  BY DEF TypeOK
<1>5. Worker \subseteq Thread /\ 0 \in Thread \ {w}
  BY PoolAssumption DEF Worker, Thread
<1>6. \A v \in Worker \ {w} : Reached(v)' = Reached(v)
  BY <1>3 DEF Reached
<1> QED BY <1>1, <1>2, <1>3, <1>4, <1>5, <1>6

(* All steps of a worker but WDec leave it as far as it was.               *)
LEMMA SameReached ==
  ASSUME TypeOK, NEW w \in Worker, WorkerStep(w), ~WDec(w)
  PROVE  /\ \A v \in Worker : Reached(v)' = Reached(v)
         /\ Unfinished' = Unfinished /\ busy' = busy
<1>1. Reached(w)' = Reached(w)
  <2>1. CASE WLoad(w) BY <2>1 DEF WLoad, WGoto, Reached, TypeOK, Succ
  <2>2. CASE WStore(w) BY <2>2 DEF WStore, WGoto, Reached, TypeOK, Succ
  <2>3. CASE WWake(w) BY <2>3 DEF WWake, WGoto, Reached, TypeOK
  <2>4. CASE WFork(w) BY <2>4 DEF WFork, WGoto, Reached, TypeOK
  <2>5. CASE WCall(w) BY <2>5 DEF WCall, WGoto, Reached, TypeOK
  <2>6. CASE WWork(w) BY <2>6 DEF WWork, WGoto, Reached, TypeOK
  <2>7. CASE WJoined(w) BY <2>7 DEF WJoined, WGoto, Reached, TypeOK
  <2> QED BY <2>1, <2>2, <2>3, <2>4, <2>5, <2>6, <2>7 DEF WorkerStep
<1>2. \A v \in Worker : Reached(v)' = Reached(v)
  BY <1>1, OtherWorkers
<1>3. Participant' = Participant /\ mjob' = mjob BY OtherWorkers
<1>4. Participant \subseteq Worker
  BY PoolAssumption DEF TypeOK, Participant, ActiveWorker, Worker
<1>5. Unfinished' = Unfinished BY <1>2, <1>3, <1>4 DEF Unfinished
<1>6. busy' = busy
  BY DEF WorkerStep, WWake, WFork, WCall, WWork, WLoad, WStore, WJoined
<1> QED BY <1>2, <1>5, <1>6

(* A worker that has been forked is a participant of the job for which the *)
(* master waits; parked ones are not forked.                               *)
LEMMA ForkedWorker ==
  ASSUME TypeOK, RaceFreeInv, NEW w \in Worker, ~Parking(w)
  PROVE  /\ w < active /\ sema[w] = 0
         /\ mpc # "sync" => w \in Participant
         /\ mpc \notin {"tty", "set", "sync"}
         /\ ~(mpc = "post" /\ w >= idx)
         /\ ~(mpc = "join" /\ mode # "work" /\ Reached(w) = mjob)
<1>1. w \in Int /\ active \in Int /\ w >= 1
  BY PoolAssumption DEF Worker, TypeOK
<1>2. /\ w < active /\ sema[w] = 0
      /\ mpc \notin {"tty", "set", "sync"}
      /\ ~(mpc = "post" /\ w >= idx)
      /\ ~(mpc = "join" /\ mode # "work" /\ Reached(w) = mjob)
  BY <1>1 DEF RaceFreeInv, ParkInv, Locked
<1> QED BY <1>1, <1>2 DEF Participant, ActiveWorker

LEMMA WorkerKeepsInv ==
  ASSUME TypeOK, RaceFreeInv, NEW w \in Worker, WorkerStep(w)
  PROVE  RaceFreeInv'
<1> USE OtherWorkers
<1>0. /\ w \in Int /\ active \in Int /\ w >= 1 /\ 0 # w
      /\ Participant \subseteq Worker
  <2>1. w \in Int /\ active \in Int /\ w >= 1 /\ 0 # w
    BY PoolAssumption DEF Worker, TypeOK
  <2>2. Participant \subseteq Worker
    BY PoolAssumption DEF Worker, TypeOK, Participant, ActiveWorker
  <2> QED BY <2>1, <2>2
<1>m. MasterInv' BY DEF RaceFreeInv, MasterInv
<1>o. \A v \in Worker \ {w} : Parking(v)' <=> Parking(v) BY DEF Parking
<1>p. ASSUME NEW v \in Worker \ {w}
      PROVE  /\ sema'[v] \in {0, 1}
             /\ sema'[v] = 1 => Parking(v)'
             /\ Locked(v)' => Parking(v)' /\ sema'[v] = 0
  BY <1>o DEF RaceFreeInv, ParkInv, Locked
<1>w. ASSUME NEW v \in Worker \ {w}
      PROVE  /\ wpc'[v] \in {"call", "work", "dec"} =>
                  /\ v < active'
                  /\ mpc' \in {"share", "join"}
                  /\ Reached(v)' # mjob'
             /\ wpc'[v] = "work" => mode' = "work"
             /\ wpc'[v] \in {"work", "dec"} => wfun'[v] = doWork'
  BY DEF RaceFreeInv, WorkInv
<1>1. CASE ~WDec(w)
  <2> USE <1>1, SameReached
  <2>1. JobInv' BY <1>0 DEF RaceFreeInv, JobInv
  <2>2. BusyInv' BY DEF RaceFreeInv, BusyInv
  <2>3. CASE WWake(w)
    <3>1. wpc[w] = "sem" /\ wpc'[w] = "fork" /\ sema[w] = 1 /\ sema'[w] = 0
      BY <2>3 DEF WWake, WGoto, TypeOK, RaceFreeInv, ParkInv, Locked
    <3>2. WorkInv' BY <1>w, <3>1 DEF WorkInv
    <3>3. ParkInv' BY <1>p, <3>1 DEF RaceFreeInv, ParkInv, Locked
    <3>4. SharesInv' BY <3>1, <2>3 DEF WWake, RaceFreeInv, SharesInv
    <3> QED BY <1>m, <2>1, <2>2, <3>2, <3>3, <3>4 DEF RaceFreeInv
  <2>4. CASE WFork(w)
    <3>1. wpc[w] = "fork" /\ wpc'[w] = "call" /\ sema'[w] = sema[w]
      BY <2>4 DEF WFork, WGoto, TypeOK
    <3>2. Reached(w) # mjob BY <2>4, <3>1 DEF WFork, Reached
    <3>3. ~Parking(w) BY <3>1 DEF Parking
    <3>4. mpc \in {"share", "join"}
      BY <3>2, <3>3, ForkedWorker DEF RaceFreeInv, JobInv
    <3>5. WorkInv' BY <1>w, <3>1, <3>2, <3>3, <3>4, ForkedWorker DEF WorkInv
    <3>6. ParkInv' BY <1>0, <1>p, <3>1, <3>2, <3>3, ForkedWorker
       DEF ParkInv, Locked
    <3>7. SharesInv' BY <3>1, <2>4 DEF WFork, RaceFreeInv, SharesInv
    <3> QED BY <1>m, <2>1, <2>2, <3>5, <3>6, <3>7 DEF RaceFreeInv
  <2>5. CASE WCall(w)
    <3>1. /\ wpc[w] = "call" /\ sema'[w] = sema[w] /\ wfun'[w] = doWork
          /\ wpc'[w] = IF doWork = "work" THEN "work" ELSE "dec"
      BY <2>5 DEF WCall, WGoto, TypeOK
    <3>2. w < active /\ mpc \in {"share", "join"} /\ Reached(w) # mjob
      BY <3>1 DEF RaceFreeInv, WorkInv
    <3>3. doWork = IF mode = "work" THEN "work" ELSE "lock"
      BY <3>2 DEF RaceFreeInv, MasterInv
    <3>4. ~Parking(w) BY <3>1 DEF Parking
    <3>5. WorkInv' BY <1>w, <3>1, <3>2, <3>3 DEF WorkInv
    <3>6. ParkInv' BY <1>0, <1>p, <3>1, <3>2, <3>4, ForkedWorker
       DEF ParkInv, Locked
    <3>7. SharesInv' BY <3>1, <3>3, <2>5 DEF WCall, RaceFreeInv, SharesInv
    <3> QED BY <1>m, <2>1, <2>2, <3>5, <3>6, <3>7 DEF RaceFreeInv
  <2>6. CASE WWork(w)
    <3>1. wpc[w] = "work" /\ wpc'[w] = "dec" /\ sema'[w] = sema[w]
          /\ wfun'[w] = wfun[w]
      BY <2>6 DEF WWork, WGoto, TypeOK
    <3>2. /\ w < active /\ mpc \in {"share", "join"} /\ Reached(w) # mjob
          /\ mode = "work" /\ wfun[w] = doWork
      BY <3>1 DEF RaceFreeInv, WorkInv
    <3>3. ~Parking(w) BY <3>1 DEF Parking
    <3>4. wfun'[w] = doWork' BY <3>1, <3>2
    <3>5. WorkInv' BY <1>w, <3>1, <3>2, <3>4 DEF WorkInv
    <3>6. ParkInv' BY <1>0, <1>p, <3>1, <3>2, <3>3, ForkedWorker
       DEF ParkInv, Locked
    <3>7. shares[w] = 0 /\ shares'[w] = 1
      <4>1. shares[w] = 0 BY <3>1, <3>2 DEF RaceFreeInv, SharesInv
      <4>2. w \in Thread BY PoolAssumption DEF Worker, Thread
      <4> QED BY <2>6, <4>1, <4>2 DEF WWork, TypeOK
    <3>8. SharesInv' BY <3>1, <3>2, <3>7 DEF RaceFreeInv, SharesInv
    <3> QED BY <1>m, <2>1, <2>2, <3>5, <3>6, <3>8 DEF RaceFreeInv
  <2>7. CASE WLoad(w) \/ WStore(w)
    <3>1. /\ wpc[w] \in {"load", "store"} /\ wpc'[w] \in {"store", "wait"}
          /\ sema'[w] = sema[w] /\ wfun'[w] = wfun[w] /\ shares'[w] = shares[w]
      BY <2>7 DEF WLoad, WStore, WGoto, TypeOK
    <3>2. Parking(w)' <=> Parking(w) BY <3>1 DEF Parking
    <3>3. WorkInv' BY <1>w, <3>1 DEF WorkInv
    <3>4. ParkInv' BY <1>p, <3>1, <3>2 DEF RaceFreeInv, ParkInv, Locked
    <3>5. SharesInv' BY <3>1 DEF RaceFreeInv, SharesInv
    <3> QED BY <1>m, <2>1, <2>2, <3>3, <3>4, <3>5 DEF RaceFreeInv
  <2>8. CASE WJoined(w)
    <3>1. /\ wpc[w] = "wait" /\ wpc'[w] \in {"sem", "fork"}
          /\ wpc'[w] = "sem" <=> wfun[w] = "lock"
          /\ sema'[w] = sema[w] /\ wfun'[w] = wfun[w] /\ shares'[w] = shares[w]
      BY <2>8 DEF WJoined, WGoto, TypeOK
    <3>2. Parking(w)' <=> Parking(w) BY <3>1 DEF Parking
    <3>3. WorkInv' BY <1>w, <3>1 DEF WorkInv
    <3>4. ParkInv' BY <1>p, <3>1, <3>2 DEF RaceFreeInv, ParkInv, Locked
    <3>5. SharesInv' BY <3>1 DEF RaceFreeInv, SharesInv
    <3> QED BY <1>m, <2>1, <2>2, <3>3, <3>4, <3>5 DEF RaceFreeInv
  <2> QED BY <2>3, <2>4, <2>5, <2>6, <2>7, <2>8 DEF WorkerStep
<1>2. CASE WDec(w)
  <2>1. /\ wpc[w] = "dec" /\ wpc'[w] = "load" /\ sema'[w] = sema[w]
        /\ wfun'[w] = wfun[w] /\ wjob'[w] = wjob[w] /\ shares'[w] = shares[w]
        /\ busy' = busy - 1
    BY <1>2 DEF WDec, WGoto, TypeOK
  <2>2. /\ w < active /\ mpc \in {"share", "join"} /\ Reached(w) # mjob
        /\ wfun[w] = doWork
    BY <2>1 DEF RaceFreeInv, WorkInv
  <2>3. ~Parking(w) BY <2>1 DEF Parking
  <2>4. w \in Participant BY <2>2, <2>3, ForkedWorker
  <2>5. Reached(w)' = mjob
    BY <2>1, <2>2, <2>4 DEF RaceFreeInv, JobInv, Reached, Succ
  <2>6. JobInv' BY <1>0, <2>2, <2>5 DEF RaceFreeInv, JobInv
  <2>7. BusyInv'
    <3>1. w \in Unfinished /\ Unfinished' = Unfinished \ {w}
      BY <1>0, <2>2, <2>4, <2>5 DEF Unfinished
    <3>2. IsFiniteSet(Unfinished) BY UnfinishedFinite
    <3>3. Cardinality(Unfinished') = Cardinality(Unfinished) - 1
      BY <3>1, <3>2, FS_RemoveElement
    <3> QED BY <2>1, <2>2, <3>3 DEF RaceFreeInv, BusyInv
  <2>8. WorkInv' BY <1>w, <2>1 DEF WorkInv
  <2>9. ParkInv'
    <3>1. mpc = "join" /\ mode # "work" => Parking(w)'
      BY <2>1, <2>2 DEF RaceFreeInv, MasterInv, Parking
    <3> QED BY <1>0, <1>p, <2>1, <2>2, <2>3, <3>1, ForkedWorker
        DEF ParkInv, Locked
  <2>10. SharesInv' BY <2>1, <2>2, <2>5 DEF RaceFreeInv, SharesInv
  <2> QED BY <1>m, <2>6, <2>7, <2>8, <2>9, <2>10 DEF RaceFreeInv
<1> QED BY <1>1, <1>2

(* The steps of the master.  Most of them leave the workers alone.         *)
LEMMA WorkersUnchanged ==
  ASSUME TypeOK, UNCHANGED <<mjob, workerVars>>
  PROVE  \A v \in Worker : Reached(v)' = Reached(v) /\ (Parking(v)' <=> Parking(v))
BY DEF workerVars, Reached, Succ, Parking

LEMMA WorkerIsPositive ==
  ASSUME TypeOK
  PROVE  /\ Worker \subseteq Int /\ active \in Int /\ idx \in Int
         /\ \A w \in Worker : w >= 1
         /\ Participant \subseteq Worker
<1>1. /\ Worker \subseteq Int /\ active \in Int /\ idx \in Int
      /\ \A w \in Worker : w >= 1
  BY PoolAssumption DEF Worker, TypeOK
<1>2. Participant \subseteq Worker
  BY PoolAssumption DEF Worker, TypeOK, Participant, ActiveWorker
<1> QED BY <1>1, <1>2

(* Locking the pool, or not changing the core count after all.             *)
LEMMA LockKeepsInv ==
  ASSUME TypeOK, RaceFreeInv, mpc \in {"create", "idle"},
         UNCHANGED <<idx, active, mjob, workerVars, busy, sema, shares>>,
         \/ mpc' = "idle" /\ UNCHANGED <<mode, doWork>>
         \/ LockPool("tty", "tty")
         \/ LockPool("change", "set")
  PROVE  RaceFreeInv'
<1> USE WorkersUnchanged, WorkerIsPositive DEF LockPool
<1>1. /\ mpc' \in {"idle", "fork", "tty", "set"}
      /\ mpc' \in {"tty", "set"} => active <= 1
      /\ mode' = "work" => mode = "work" /\ mpc = "idle" /\ mpc' = "idle"
  BY DEF RaceFreeInv, MasterInv
<1>2. MasterInv' BY DEF RaceFreeInv, MasterInv
<1>3. Participant' = Participant BY <1>1 DEF Participant, ActiveWorker
<1>4. JobInv' BY <1>1, <1>3 DEF RaceFreeInv, JobInv
<1>5. WorkInv' BY <1>1 DEF RaceFreeInv, WorkInv, workerVars
<1>6. ParkInv'
  <2> SUFFICES ASSUME NEW w \in Worker PROVE ParkInv!(w)'
    BY DEF ParkInv, Locked
  <2>1. sema'[w] \in {0, 1} /\ (sema'[w] = 1 => Parking(w)')
    BY DEF RaceFreeInv, ParkInv, Locked
  <2>2. w >= active => Parking(w)' /\ sema'[w] = 0
    BY DEF RaceFreeInv, ParkInv, Locked
  <2>3. mpc' \in {"tty", "set"} => w >= active
    BY <1>1
  <2> QED BY <1>1, <2>1, <2>2, <2>3 DEF Locked
<1>7. BusyInv'
  <2>1. Unfinished' = Unfinished BY <1>3 DEF Unfinished
  <2> QED BY <1>1, <2>1 DEF RaceFreeInv, BusyInv
<1>8. SharesInv' BY <1>1 DEF RaceFreeInv, SharesInv, workerVars
<1> QED BY <1>2, <1>4, <1>5, <1>6, <1>7, <1>8 DEF RaceFreeInv

(* Creating the threads: only the master takes part in jobs, so far.       *)
LEMMA CreateKeepsInv ==
  ASSUME TypeOK, RaceFreeInv, MCreate \/ MCreateFails
  PROVE  RaceFreeInv'
<1> USE WorkerIsPositive
<1>1. /\ mpc = "create" /\ mpc' \in {"create", "idle"}
      /\ mode = "none" /\ active = 1
      /\ UNCHANGED <<mode, active, busy, sema, mjob, wfun>>
  BY DEF MCreate, MCreateFails, workerVars, RaceFreeInv, MasterInv
<1>2. Participant = {} /\ Participant' = {}
  BY <1>1 DEF Participant, ActiveWorker
<1>3. \A w \in Worker : Parking(w) /\ sema[w] = 0
  BY <1>1 DEF RaceFreeInv, ParkInv, Locked
<1>4. \A w \in Worker : wpc'[w] = wpc[w] \/ wpc'[w] = "sem"
  BY DEF MCreate, MCreateFails, workerVars, TypeOK
<1>5. \A w \in Worker : Parking(w)' /\ sema'[w] = 0
  BY <1>1, <1>3, <1>4 DEF Parking
<1>6. MasterInv' BY <1>1 DEF MasterInv
<1>7. JobInv' BY <1>2 DEF JobInv
<1>8. WorkInv' BY <1>5 DEF Parking, WorkInv
<1>9. ParkInv' BY <1>5 DEF ParkInv, Locked
<1>10. BusyInv'
  <2>1. Unfinished = {} /\ Unfinished' = {} BY <1>2 DEF Unfinished
  <2> QED BY <1>1, <2>1 DEF RaceFreeInv, BusyInv
<1>11. SharesInv' BY <1>1 DEF SharesInv
<1> QED BY <1>6, <1>7, <1>8, <1>9, <1>10, <1>11 DEF RaceFreeInv

(* Forking and joining.                                                    *)
LEMMA ForkJoinKeepsInv ==
  ASSUME TypeOK, RaceFreeInv,
         MStartWork \/ MForkAdd \/ MForkBump \/ MShare \/ MJoin
  PROVE  RaceFreeInv'
<1> USE WorkerIsPositive DEF masterVars, workerVars
<1>1. CASE MStartWork
  <2> USE <1>1 DEF MStartWork
  <2>1. \A w \in Worker : Reached(w)' = Reached(w) /\ (Parking(w)' <=> Parking(w))
    BY WorkersUnchanged
  <2>2. MasterInv' BY DEF MasterInv
  <2>3. Participant' = Participant BY DEF Participant, ActiveWorker
  <2>4. JobInv' BY <2>1, <2>3 DEF RaceFreeInv, JobInv
  <2>5. WorkInv' BY DEF RaceFreeInv, WorkInv
  <2>6. ParkInv' BY <2>1 DEF RaceFreeInv, ParkInv, Locked
  <2>7. BusyInv'
    <3>1. Unfinished' = Unfinished BY <2>1, <2>3 DEF Unfinished
    <3> QED BY <3>1 DEF RaceFreeInv, BusyInv
  <2>8. SharesInv'
    <3>1. Worker \subseteq Thread /\ 0 \in Thread
      BY PoolAssumption DEF Worker, Thread
    <3> QED BY <3>1 DEF SharesInv, NoShares
  <2> QED BY <2>2, <2>4, <2>5, <2>6, <2>7, <2>8 DEF RaceFreeInv
<1>2. CASE MForkAdd
  <2> USE <1>2 DEF MForkAdd
  <2>1. \A w \in Worker : Reached(w)' = Reached(w) /\ (Parking(w)' <=> Parking(w))
    BY WorkersUnchanged
  <2>2. MasterInv' BY DEF RaceFreeInv, MasterInv
  <2>3. Participant' = Participant BY DEF Participant, ActiveWorker
  <2>4. JobInv' BY <2>1, <2>3 DEF RaceFreeInv, JobInv
  <2>5. WorkInv' BY DEF RaceFreeInv, WorkInv
  <2>6. ParkInv' BY <2>1 DEF RaceFreeInv, ParkInv, Locked
  <2>7. BusyInv'
    <3>1. Cardinality(Unfinished) = 0
      BY NobodyUnfinished DEF RaceFreeInv, JobInv
    <3> QED BY <3>1 DEF RaceFreeInv, BusyInv
  <2>8. SharesInv' BY DEF RaceFreeInv, SharesInv
  <2> QED BY <2>2, <2>4, <2>5, <2>6, <2>7, <2>8 DEF RaceFreeInv
<1>3. CASE MForkBump
  <2> USE <1>3 DEF MForkBump
  <2>1. \A w \in Worker : Reached(w)' = Reached(w) /\ (Parking(w)' <=> Parking(w))
    BY DEF Reached, Succ, Parking
  <2>2. mpc' \in {"share", "join"} /\ MasterInv' BY DEF RaceFreeInv, MasterInv
  <2>3. Participant' = Participant /\ Participant = 1 .. active-1
    BY <2>2 DEF Participant, ActiveWorker
  <2>4. \A w \in Participant : Reached(w) = mjob
    BY DEF RaceFreeInv, JobInv
  <2>5. mjob' = Succ(mjob) /\ mjob' # mjob
    BY SuccType DEF TypeOK
  <2>6. JobInv' BY <2>1, <2>2, <2>3, <2>4, <2>5 DEF JobInv
  <2>7. \A w \in Worker : wpc'[w] \notin {"call", "work", "dec"}
    BY DEF RaceFreeInv, WorkInv
  <2>8. WorkInv' BY <2>7 DEF WorkInv
  <2>9. ParkInv'
    <3> SUFFICES ASSUME NEW w \in Worker PROVE ParkInv!(w)'
      BY DEF ParkInv, Locked
    <3>1. sema'[w] \in {0, 1} /\ (sema'[w] = 1 => Parking(w)')
      BY <2>1 DEF RaceFreeInv, ParkInv, Locked
    <3>2. w >= active => Parking(w)' /\ sema'[w] = 0
      BY <2>1 DEF RaceFreeInv, ParkInv, Locked
    <3>3. w >= active \/ Reached(w)' # mjob'
      BY <2>1, <2>3, <2>4, <2>5
    <3> QED BY <2>2, <3>1, <3>2, <3>3 DEF Locked
  <2>10. BusyInv'
    <3>1. Unfinished' = 1 .. active-1
      BY <2>1, <2>3, <2>4, <2>5 DEF Unfinished
    <3>2. active > 1 BY DEF RaceFreeInv, MasterInv
    <3>3. Cardinality(1 .. active-1) = active - 1
      BY <3>2, FS_Interval
    <3> QED BY <2>2, <3>1, <3>3 DEF RaceFreeInv, BusyInv
  <2>11. SharesInv'
    <3>1. mode = "work" => /\ shares[0] = 0 /\ mpc' = "share"
                           /\ \A w \in Worker : shares[w] = 0
      BY DEF RaceFreeInv, SharesInv
    <3>2. \A w \in Worker : w < active => Reached(w)' # mjob'
      BY <2>1, <2>3, <2>4, <2>5
    <3> QED BY <2>7, <3>1, <3>2 DEF SharesInv
  <2> QED BY <2>2, <2>6, <2>8, <2>9, <2>10, <2>11 DEF RaceFreeInv
<1>4. CASE MShare
  <2> USE <1>4 DEF MShare
  <2>1. \A w \in Worker : Reached(w)' = Reached(w) /\ (Parking(w)' <=> Parking(w))
    BY WorkersUnchanged
  <2>2. MasterInv' BY DEF RaceFreeInv, MasterInv
  <2>3. Participant' = Participant BY DEF Participant, ActiveWorker
  <2>4. JobInv' BY <2>1, <2>3 DEF RaceFreeInv, JobInv
  <2>5. WorkInv' BY <2>1 DEF RaceFreeInv, WorkInv
  <2>6. ParkInv'
    <3>1. mode' = "work" BY DEF RaceFreeInv, MasterInv
    <3> QED BY <2>1, <3>1 DEF RaceFreeInv, ParkInv, Locked
  <2>7. BusyInv'
    <3>1. Unfinished' = Unfinished BY <2>1, <2>3 DEF Unfinished
    <3> QED BY <3>1 DEF RaceFreeInv, BusyInv
  <2>8. SharesInv'
    <3>1. 0 \in Thread BY PoolAssumption DEF Thread
    <3>2. mode = "work" BY DEF RaceFreeInv, MasterInv
    <3>3. shares[0] = 0 BY <3>2 DEF RaceFreeInv, SharesInv
    <3>4. shares'[0] = 1 BY <3>1, <3>3 DEF TypeOK
    <3>5. \A w \in Worker : shares'[w] = shares[w] BY DEF TypeOK, Worker, Thread
    <3> QED BY <2>1, <3>2, <3>4, <3>5 DEF RaceFreeInv, SharesInv
  <2> QED BY <2>2, <2>4, <2>5, <2>6, <2>7, <2>8 DEF RaceFreeInv
<1>5. CASE MJoin
  <2> USE <1>5 DEF MJoin
  <2>1. \A w \in Worker : Reached(w)' = Reached(w) /\ (Parking(w)' <=> Parking(w))
    BY WorkersUnchanged
  <2>2. MasterInv'
    <3>1. mode \in {"work", "tty", "change"}
      BY DEF TypeOK, Mode, RaceFreeInv, MasterInv
    <3> QED BY <3>1 DEF MasterInv
  <2>3. mpc' \in {"idle", "tty", "set"} /\ (mpc' = "idle" <=> mode = "work")
    OBVIOUS
  <2>4. Participant' = Participant BY <2>3 DEF Participant, ActiveWorker
  <2>5. \A w \in Participant : Reached(w) = mjob
    <3>1. Cardinality(Unfinished) = 0 BY DEF RaceFreeInv, BusyInv
    <3>2. Unfinished = {} BY <3>1, UnfinishedFinite, FS_EmptySet
    <3> QED BY <3>2 DEF Unfinished
  <2>6. JobInv' BY <2>1, <2>3, <2>4, <2>5 DEF JobInv
  <2>7. \A w \in Worker : w < active => Reached(w) = mjob
    BY <2>5 DEF Participant, ActiveWorker
  <2>8. \A w \in Worker : wpc[w] \notin {"call", "work", "dec"}
    BY <2>7 DEF RaceFreeInv, WorkInv
  <2>9. WorkInv' BY <2>8 DEF WorkInv
  <2>10. ParkInv'
    <3>1. ASSUME NEW w \in Worker, mode # "work" \/ w >= active
          PROVE  Parking(w)' /\ sema'[w] = 0
      BY <2>1, <2>7, <3>1 DEF RaceFreeInv, ParkInv, Locked
    <3>2. \A w \in Worker : sema'[w] \in {0, 1} /\ (sema'[w] = 1 => Parking(w)')
      BY <2>1 DEF RaceFreeInv, ParkInv, Locked
    <3> QED BY <2>3, <3>1, <3>2 DEF ParkInv, Locked
  <2>11. BusyInv'
    <3>1. Unfinished' = Unfinished BY <2>1, <2>4 DEF Unfinished
    <3> QED BY <2>3, <3>1 DEF RaceFreeInv, BusyInv
  <2>12. SharesInv' BY <2>1, <2>3, <2>7, <2>8 DEF RaceFreeInv, SharesInv
  <2> QED BY <2>2, <2>6, <2>9, <2>10, <2>11, <2>12 DEF RaceFreeInv
<1> QED BY <1>1, <1>2, <1>3, <1>4, <1>5

(* Unlocking the pool and changing the core count.                         *)
LEMMA UnlockKeepsInv ==
  ASSUME TypeOK, RaceFreeInv, ~raced',
         MInput \/ MSetCount \/ MSync \/ MPost
  PROVE  RaceFreeInv'
<1> USE WorkerIsPositive DEF masterVars, workerVars
<1>q. ASSUME mpc \in {"tty", "set", "sync"}
      PROVE  \A w \in Worker : Parking(w) /\ sema[w] = 0
  BY <1>q DEF RaceFreeInv, ParkInv, Locked
<1>b. ASSUME mpc \in {"tty", "set", "sync", "post"}
      PROVE  busy = 0
  BY <1>b, NobodyUnfinished DEF RaceFreeInv, BusyInv, JobInv
<1>c. ASSUME \A w \in Participant' : Reached(w)' = mjob', mpc' # "bump", busy' = 0
      PROVE  BusyInv'
  <2>1. Unfinished' = {} BY <1>c DEF Unfinished
  <2>2. Cardinality(Unfinished') = 0 BY <2>1, FS_EmptySet
  <2> QED BY <1>c, <2>2 DEF BusyInv
<1>n. newCount \in Int /\ active >= 1 BY PoolAssumption DEF TypeOK
<1>1. CASE MInput
  <2> USE <1>1 DEF MInput, UnlockPool
  <2>1. \A w \in Worker : Reached(w)' = Reached(w) /\ (Parking(w)' <=> Parking(w))
    BY WorkersUnchanged
  <2>2. /\ mode = "tty" /\ mpc' \in {"idle", "post"}
        /\ mpc' = "post" => idx' = 1 /\ active > 1
    BY DEF RaceFreeInv, MasterInv
  <2>3. MasterInv' BY <2>2 DEF MasterInv
  <2>4. Participant' = Participant BY <2>2 DEF Participant, ActiveWorker
  <2>5. JobInv' BY <2>1, <2>2, <2>4 DEF RaceFreeInv, JobInv
  <2>6. WorkInv' BY DEF RaceFreeInv, WorkInv
  <2>7. ParkInv' BY <1>q, <2>1, <2>2 DEF ParkInv, Locked
  <2>8. BusyInv' BY <1>b, <1>c, <2>2, <2>5 DEF JobInv
  <2>9. SharesInv' BY <2>2 DEF SharesInv
  <2> QED BY <2>3, <2>5, <2>6, <2>7, <2>8, <2>9 DEF RaceFreeInv
<1>2. CASE MSetCount
  <2> USE <1>2 DEF MSetCount, UnlockPool
  <2>1. \A w \in Worker : Reached(w)' = Reached(w) /\ (Parking(w)' <=> Parking(w))
    BY WorkersUnchanged
  <2>2. /\ mode = "change" /\ mpc' \in {"idle", "post", "sync"}
        /\ mpc' \in {"sync", "post"} => idx' = 1 /\ active' > 1
        /\ active' = newCount /\ newCount' = newCount
        /\ mpc' # "sync" => newCount <= active
    BY <1>n DEF RaceFreeInv, MasterInv
  <2>3. MasterInv' BY <2>2 DEF MasterInv
  <2>4. Participant' \subseteq Participant
    <3>1. CASE mpc' = "sync"
      BY <2>2, <3>1 DEF Participant, ActiveWorker
    <3>2. CASE mpc' # "sync"
      BY <1>n, <2>2, <3>2 DEF Participant, ActiveWorker
    <3> QED BY <3>1, <3>2
  <2>5. JobInv' BY <2>1, <2>2, <2>4 DEF RaceFreeInv, JobInv
  <2>6. WorkInv' BY <1>q, <2>2 DEF WorkInv, Parking
  <2>7. ParkInv' BY <1>q, <2>1 DEF ParkInv, Locked
  <2>8. BusyInv' BY <1>b, <1>c, <2>2, <2>5 DEF JobInv
  <2>9. SharesInv' BY <2>2 DEF SharesInv
  <2> QED BY <2>3, <2>5, <2>6, <2>7, <2>8, <2>9 DEF RaceFreeInv
<1>3. CASE MSync
  <2> USE <1>3 DEF MSync, UnlockPool
  <2>1. /\ active = newCount /\ idx < active /\ active' = active
        /\ mode = "change" /\ mode' = mode /\ newCount' = newCount
    BY DEF RaceFreeInv, MasterInv
  <2>2. idx \in Worker BY <2>1, PoolAssumption DEF Worker, TypeOK
  <2>3. /\ wpc[idx] # "load"
        /\ wpc[idx] = "store" => Succ(wreg[idx]) = mjob
    OBVIOUS
  <2>4. ASSUME NEW w \in Worker, w = idx \/ Reached(w) = mjob
        PROVE  Reached(w)' = mjob'
    BY <2>2, <2>3, <2>4 DEF Reached, Succ, TypeOK
  <2>5. \A w \in Worker : Parking(w)' <=> Parking(w)
    BY DEF Parking
  <2>6. \/ /\ mpc' = "sync" /\ idx' = idx + 1 /\ idx + 1 < active
        \/ /\ mpc' \in {"idle", "post"} /\ idx + 1 >= active /\ idx' = 1
           /\ mpc' = "post" => active > 1
    BY <1>n, <2>1
  <2>7. MasterInv' BY <2>1, <2>6 DEF MasterInv
  <2>8. \A w \in Participant' : w \in Worker /\ (w = idx \/ Reached(w) = mjob)
    <3>1. ASSUME NEW w \in Participant' PROVE w \in Worker /\ w < idx + 1
      BY <2>1, <2>2, <2>6 DEF Participant, ActiveWorker, Worker
    <3>2. ASSUME NEW w \in Worker, w < idx PROVE Reached(w) = mjob
      BY <3>2 DEF RaceFreeInv, JobInv, Participant, ActiveWorker
    <3> QED BY <3>1, <3>2
  <2>9. \A w \in Participant' : Reached(w)' = mjob'
    BY <2>4, <2>8
  <2>10. JobInv' BY <2>6, <2>9 DEF JobInv
  <2>11. WorkInv' BY <1>q DEF WorkInv, Parking
  <2>12. ParkInv' BY <1>q, <2>5 DEF ParkInv, Locked
  <2>13. BusyInv' BY <1>b, <1>c, <2>6, <2>9
  <2>14. SharesInv' BY <2>1 DEF SharesInv
  <2> QED BY <2>7, <2>10, <2>11, <2>12, <2>13, <2>14 DEF RaceFreeInv
<1>4. CASE MPost
  <2> USE <1>4 DEF MPost
  <2>1. \A w \in Worker : Reached(w)' = Reached(w) /\ (Parking(w)' <=> Parking(w))
    BY WorkersUnchanged
  <2>2. /\ mode \in {"tty", "change"} /\ mode' = mode /\ active' = active
        /\ idx < active /\ mpc' \in {"idle", "post"}
        /\ mpc' = "post" => idx' = idx + 1 /\ idx' < active
    BY DEF RaceFreeInv, MasterInv
  <2>3. MasterInv' BY <2>2 DEF MasterInv
  <2>4. Participant' = Participant BY <2>2 DEF Participant, ActiveWorker
  <2>5. JobInv' BY <2>1, <2>2, <2>4 DEF RaceFreeInv, JobInv
  <2>6. WorkInv' BY DEF RaceFreeInv, WorkInv
  <2>7. ParkInv'
    <3> SUFFICES ASSUME NEW w \in Worker PROVE ParkInv!(w)'
      BY DEF ParkInv, Locked
    <3>1. CASE w = idx
      <4>1. Parking(w) /\ sema[w] = 0 BY <3>1 DEF RaceFreeInv, ParkInv, Locked
      <4>2. sema'[w] = 1 BY <3>1, <4>1 DEF TypeOK
      <4> QED BY <2>1, <2>2, <3>1, <4>1, <4>2 DEF Locked
    <3>2. CASE w # idx
      <4>1. sema'[w] = sema[w] BY <3>2 DEF TypeOK
      <4> QED BY <2>1, <2>2, <3>2, <4>1 DEF RaceFreeInv, ParkInv, Locked
    <3> QED BY <3>1, <3>2
  <2>8. BusyInv' BY <1>b, <1>c, <2>2, <2>5 DEF JobInv
  <2>9. SharesInv' BY <2>2 DEF SharesInv
  <2> QED BY <2>3, <2>5, <2>6, <2>7, <2>8, <2>9 DEF RaceFreeInv
<1> QED BY <1>1, <1>2, <1>3, <1>4

(* What has raced stays raced.                                             *)
LEMMA RacedStays == raced /\ [Next]_vars => raced'
BY DEF Next, MasterStep, UserStep, WorkerStep, vars, MCreate, MCreateFails,
   MCreated, MStartWork, MStartInput, MStartChange, MForkAdd, MForkBump,
   MShare, MJoin, MInput, MSetCount, MSync, MPost, WWake, WFork, WCall,
   WWork, WDec, WLoad, WStore, WJoined

(* The steps of all threads.                                               *)
LEMMA PoolInvStep == PoolInv /\ [Next]_vars => PoolInv'
<1> SUFFICES ASSUME PoolInv, [Next]_vars PROVE PoolInv'
  OBVIOUS
<1> USE DEF PoolInv
<1>1. TypeOK' BY TypeInvariant
<1> SUFFICES ASSUME ~raced' PROVE RaceFreeInv'
  BY <1>1
<1>2. RaceFreeInv BY RacedStays
<1>3. ASSUME NEW n, BeginChange(n)
      PROVE  \/ mpc' = "idle" /\ UNCHANGED <<mode, doWork>>
             \/ LockPool("change", "set")
  BY <1>3 DEF BeginChange
<1>4. CASE MCreated \/ MStartInput \/ MStartChange
  BY <1>2, <1>3, <1>4, LockKeepsInv DEF MCreated, MStartInput, MStartChange
<1>5. CASE UNCHANGED vars
  BY <1>2, <1>5 DEF vars, masterVars, workerVars, RaceFreeInv, MasterInv, JobInv,
     WorkInv, ParkInv, Locked, BusyInv, SharesInv, Parking, Unfinished, Participant,
     Reached, Succ
<1> QED
  BY <1>2, <1>4, <1>5, CreateKeepsInv, ForkJoinKeepsInv, UnlockKeepsInv,
     WorkerKeepsInv DEF Next, MasterStep, UserStep

-----------------------------------------------------------------------------
(* What follows from it.                                                   *)

LEMMA PoolInvariant == Spec => []PoolInv
BY PoolInvInit, PoolInvStep, PTL DEF Spec

(* busy_worker_count is the number of workers that have not joined, until  *)
(* a core count is increased over a worker that is still joining.          *)
THEOREM BusyIsUnfinished == Spec => []BusyCountsUnfinished
<1>1. PoolInv => BusyCountsUnfinished
  BY DEF PoolInv, RaceFreeInv, BusyInv, BusyCountsUnfinished
<1> QED BY <1>1, PoolInvariant, PTL

(* When M_join() returns, every active thread did its share exactly once.  *)
THEOREM JobComplete == Spec => []JoinedJobIsComplete
<1>1. PoolInv => JoinedJobIsComplete
  <2> SUFFICES ASSUME PoolInv, ~raced, mode = "work", mpc = "idle"
               PROVE  shares = [t \in Thread |-> IF t < active THEN 1 ELSE 0]
    BY DEF JoinedJobIsComplete
  <2>1. shares[0] = 1 /\ 0 < active /\ shares \in [Thread -> Nat]
    BY PoolAssumption DEF PoolInv, TypeOK, RaceFreeInv, SharesInv
  <2>2. \A w \in Worker : shares[w] = IF w < active THEN 1 ELSE 0
    BY DEF PoolInv, RaceFreeInv, SharesInv
  <2>3. Thread = Worker \cup {0}
    BY PoolAssumption DEF Thread, Worker
  <2> QED BY <2>1, <2>2, <2>3
<1> QED BY <1>1, PoolInvariant, PTL

(* No worker runs a job, or could start one, while the pool is locked.     *)
THEOREM LockedIsQuiet == Spec => []LockedPoolIsQuiet
<1>1. PoolInv => LockedPoolIsQuiet
  BY DEF PoolInv, RaceFreeInv, ParkInv, Locked, LockedPoolIsQuiet, ParkingOnly,
     Parking
<1> QED BY <1>1, PoolInvariant, PTL

(* A worker that is blocked on its semaphore, or about to, and not locked  *)
(* out has been posted: no wakeup is lost.                                 *)
WakeInv ==
  \A w \in Worker : Parking(w) => Locked(w) \/ sema[w] = 1

(* A worker parks only in the job that locks the pool, and only by joining *)
(* it, which locks it; and it takes a post only when it leaves.            *)
LEMMA WorkerKeepsWake ==
  ASSUME TypeOK, RaceFreeInv, WakeInv, NEW w \in Worker, WorkerStep(w)
  PROVE  WakeInv'
<1> USE OtherWorkers
<1>1. ASSUME NEW v \in Worker \ {w}, Parking(v)'
      PROVE  Locked(v)' \/ sema'[v] = 1
  BY <1>1 DEF WakeInv, Parking, Locked
<1>2. ASSUME Parking(w)' PROVE Locked(w)' \/ sema'[w] = 1
  <2>1. CASE WDec(w)
    <3>1. /\ wpc[w] = "dec" /\ wpc'[w] = "load" /\ wfun'[w] = wfun[w]
          /\ wjob'[w] = wjob[w]
      BY <2>1 DEF WDec, WGoto, TypeOK
    <3>2. /\ w < active /\ mpc \in {"share", "join"} /\ Reached(w) # mjob
          /\ wfun[w] = doWork
      BY <3>1 DEF RaceFreeInv, WorkInv
    <3>3. ~Parking(w) BY <3>1 DEF Parking
    <3>4. w \in Participant BY <3>2, <3>3, ForkedWorker
    <3>5. Reached(w)' = mjob
      BY <3>1, <3>2, <3>4 DEF RaceFreeInv, JobInv, Reached, Succ
    <3>6. doWork = "lock" BY <1>2, <3>1, <3>2 DEF Parking
    <3>7. mode # "work" /\ mpc = "join"
      BY <3>2, <3>6 DEF RaceFreeInv, MasterInv
    <3> QED BY <3>5, <3>7 DEF Locked
  <2>2. CASE WLoad(w) \/ WStore(w) \/ WJoined(w)
    <3>1. /\ Parking(w) /\ sema'[w] = sema[w]
          /\ ~WDec(w)
      BY <1>2, <2>2 DEF WLoad, WStore, WJoined, WDec, WGoto, TypeOK, Parking
    <3>2. Reached(w)' = Reached(w) BY <3>1, SameReached
    <3> QED BY <3>1, <3>2 DEF WakeInv, Locked
  <2>3. CASE WWake(w) \/ WFork(w) \/ WCall(w) \/ WWork(w)
    BY <1>2, <2>3 DEF WWake, WFork, WCall, WWork, WGoto, TypeOK, Parking
  <2> QED BY <2>1, <2>2, <2>3 DEF WorkerStep
<1> QED BY <1>1, <1>2 DEF WakeInv

(* The master unlocks a worker only by posting it.                         *)
LEMMA MasterKeepsWake ==
  ASSUME TypeOK, RaceFreeInv, WakeInv, MasterStep \/ UserStep
  PROVE  WakeInv'
<1> USE WorkerIsPositive DEF masterVars, workerVars
<1>s. ASSUME NEW w \in Worker, Parking(w)' => Parking(w), sema'[w] = sema[w],
             Locked(w) => Locked(w)', Parking(w)'
      PROVE  Locked(w)' \/ sema'[w] = 1
  BY <1>s DEF WakeInv
<1>1. CASE MCreate \/ MCreateFails
  <2>1. active' = 1 BY <1>1 DEF MCreate, MCreateFails, RaceFreeInv, MasterInv
  <2> QED BY <2>1 DEF WakeInv, Locked
<1>2. CASE \/ MCreated \/ MStartInput \/ MStartChange \/ MStartWork
           \/ MForkAdd \/ MShare
  <2>1. /\ UNCHANGED <<active, mjob, workerVars, sema>>
        /\ mpc \notin {"tty", "set", "sync", "post", "join"}
    BY <1>2 DEF MCreated, MStartInput, MStartChange, MStartWork, MForkAdd, MShare
  <2>2. \A w \in Worker : Locked(w) => Locked(w)'
    BY <2>1 DEF Locked
  <2> QED BY <1>s, <2>1, <2>2, WorkersUnchanged DEF WakeInv
<1>3. CASE MForkBump
  <2>1. \A w \in Worker : (Parking(w)' <=> Parking(w)) /\ sema'[w] = sema[w]
    BY <1>3 DEF MForkBump, Parking
  <2>2. \A w \in Worker : Locked(w) => Locked(w)'
    BY <1>3 DEF MForkBump, Locked
  <2> QED BY <1>s, <2>1, <2>2 DEF WakeInv
<1>4. CASE MJoin
  <2>1. mode \in {"work", "tty", "change"}
    BY <1>4 DEF MJoin, TypeOK, Mode, RaceFreeInv, MasterInv
  <2>2. \A w \in Worker : Locked(w) => Locked(w)'
    BY <1>4, <2>1 DEF MJoin, Locked
  <2> QED BY <1>4, <1>s, <2>2, WorkersUnchanged DEF MJoin, WakeInv
<1>5. CASE MInput \/ MSetCount \/ MSync
  <2>1. ASSUME NEW w \in Worker PROVE Locked(w)'
    <3>1. newCount \in Int BY PoolAssumption DEF TypeOK
    <3>2. CASE mpc' \in {"sync", "post"}
      <4>1. mpc' = "post" => idx' = 1
        BY <1>5 DEF MInput, MSetCount, MSync, UnlockPool
      <4> QED BY <3>2, <4>1 DEF Locked
    <3>3. CASE mpc' \notin {"sync", "post"}
      <4>1. active' \in Int /\ active' <= 1
        BY <1>5, <3>1, <3>3
           DEF MInput, MSetCount, MSync, UnlockPool, RaceFreeInv, MasterInv
      <4> QED BY <4>1 DEF Locked
    <3> QED BY <3>2, <3>3
  <2> QED BY <2>1 DEF WakeInv
<1>6. CASE MPost
  <2>1. /\ idx < active /\ active' = active
        /\ IF idx + 1 < active THEN mpc' = "post" /\ idx' = idx + 1
                               ELSE mpc' = "idle"
    BY <1>6 DEF MPost, RaceFreeInv, MasterInv
  <2>2. ASSUME NEW w \in Worker, Parking(w)' PROVE Locked(w)' \/ sema'[w] = 1
    <3>1. CASE w = idx
      <4>1. sema[w] = 0
        BY <1>6, <3>1 DEF MPost, RaceFreeInv, ParkInv, Locked
      <4> QED BY <1>6, <3>1, <4>1 DEF MPost, TypeOK
    <3>2. CASE w # idx
      <4>1. sema'[w] = sema[w] BY <1>6, <3>2 DEF MPost, TypeOK
      <4>2. Parking(w) BY <1>6, <2>2, WorkersUnchanged DEF MPost
      <4>3. Locked(w) => Locked(w)'
        BY <1>6, <2>1, <3>2 DEF MPost, Locked
      <4> QED BY <1>s, <2>2, <4>1, <4>2, <4>3
    <3> QED BY <3>1, <3>2
  <2> QED BY <2>2 DEF WakeInv
<1> QED BY <1>1, <1>2, <1>3, <1>4, <1>5, <1>6 DEF MasterStep, UserStep

(* No worker that the master waits for sleeps without a post or waits for  *)
(* anything else that has already come: a join that has not ended is never *)
(* deadlocked by a thread that exists.                                     *)
THEOREM NobodyAwaitedIsBlocked == Spec => []NoBlockedWorkerIsAwaited
<1> DEFINE Woken == ~raced => WakeInv
<1>1. Init => Woken
  BY PoolAssumption DEF Init, WakeInv, Locked, Worker
<1>2. PoolInv /\ Woken /\ [Next]_vars => Woken'
  <2> SUFFICES ASSUME PoolInv, Woken, [Next]_vars, ~raced' PROVE WakeInv'
    OBVIOUS
  <2>1. TypeOK /\ RaceFreeInv /\ WakeInv
    BY RacedStays DEF PoolInv
  <2>2. CASE UNCHANGED vars
    BY <2>1, <2>2 DEF vars, masterVars, workerVars, WakeInv, Parking, Locked,
       Reached, Succ
  <2> QED BY <2>1, <2>2, WorkerKeepsWake, MasterKeepsWake DEF Next
<1>3. PoolInv /\ Woken => NoBlockedWorkerIsAwaited
  <2> SUFFICES ASSUME PoolInv, Woken, ~raced, mpc = "join",
                      NEW w \in Unfinished, Blocked(w)
               PROVE  FALSE
    BY DEF NoBlockedWorkerIsAwaited
  <2>1. w \in Worker /\ w < active /\ Reached(w) # mjob
    BY PoolAssumption
       DEF PoolInv, TypeOK, Unfinished, Participant, ActiveWorker, Worker
  <2>2. CASE wpc[w] = "sem"
    <3>1. Parking(w) /\ sema[w] = 0 BY <2>2 DEF Blocked, Parking
    <3> QED BY <2>1, <3>1, WorkerIsPositive DEF PoolInv, WakeInv, Locked
  <2>3. CASE wpc[w] # "sem"
    BY <2>1, <2>3 DEF Blocked, Reached
  <2> QED BY <2>2, <2>3
<1> HIDE DEF Woken
<1> QED BY <1>1, <1>2, <1>3, PoolInvariant, PTL DEF Spec

(* The steps of the pool are steps of ForkJoin, or stutter.                *)
LEMMA SameTeam ==
  ASSUME UNCHANGED <<active, shares>>,
         (mode = "work" /\ mpc # "idle") <=> (mode' = "work" /\ mpc' # "idle")
  PROVE  UNCHANGED FJ!vars
BY DEF FJ!vars

LEMMA ForkJoinStep ==
  PoolInv /\ PoolInv' /\ [Next]_vars => [~raced' => FJ!Next]_(FJ!vars)
<1> SUFFICES ASSUME PoolInv, PoolInv', [Next]_vars, ~raced'
             PROVE  FJ!Next \/ UNCHANGED FJ!vars
  OBVIOUS
<1> USE DEF masterVars, workerVars
<1>0. TypeOK /\ MasterInv /\ WorkInv /\ SharesInv /\ SharesInv'
  <2>1. raced => raced'
    BY DEF Next, MasterStep, UserStep, WorkerStep, vars, MCreate, MCreateFails,
       MCreated, MStartWork, MStartInput, MStartChange, MForkAdd, MForkBump,
       MShare, MJoin, MInput, MSetCount, MSync, MPost, WWake, WFork, WCall,
       WWork, WDec, WLoad, WStore, WJoined
  <2> QED BY <2>1 DEF PoolInv, RaceFreeInv
<1>1. CASE MCreated \/ MStartInput \/ MStartChange
  <2>1. \/ mpc' = "idle" /\ mode' = mode
        \/ mode' \in {"tty", "change"}
    BY <1>1 DEF MCreated, MStartInput, MStartChange, BeginChange, LockPool
  <2>2. mpc \in {"create", "idle"} /\ UNCHANGED <<active, shares>>
    BY <1>1 DEF MCreated, MStartInput, MStartChange
  <2>3. mpc = "create" => mode # "work" BY <1>0 DEF MasterInv
  <2> QED BY <2>1, <2>2, <2>3, SameTeam
<1>2. CASE MCreate \/ MCreateFails
  <2>1. mode = "none" /\ active = 1 BY <1>0, <1>2 DEF MCreate, MCreateFails, MasterInv
  <2> QED BY <1>2, <2>1, SameTeam DEF MCreate, MCreateFails
<1>3. CASE MStartWork
  BY <1>3 DEF MStartWork, FJ!Next, FJ!Fork, FJ!NoShares, NoShares, FJ!Thread, Thread
<1>4. CASE MForkAdd \/ MForkBump
  BY <1>4, SameTeam DEF MForkAdd, MForkBump
<1>5. CASE MShare
  <2>1. mode = "work" /\ shares[0] = 0 /\ active > 0 /\ 0 \in Thread
    <3>1. mode = "work" BY <1>0, <1>5 DEF MShare, MasterInv
    <3>2. shares[0] = 0 BY <1>0, <1>5, <3>1 DEF MShare, SharesInv
    <3>3. active > 0 /\ 0 \in Thread BY <1>0, PoolAssumption DEF TypeOK, Thread
    <3> QED BY <3>1, <3>2, <3>3
  <2>2. FJ!Share(0)
    BY <1>5, <2>1 DEF MShare, FJ!Share
  <2> QED BY <2>1, <2>2 DEF FJ!Next, FJ!Thread, Thread
<1>6. CASE MJoin
  <2>1. CASE mode = "work"
    <3>1. mpc' = "idle" /\ mode' = "work" /\ UNCHANGED <<active, shares>>
      BY <1>6, <2>1 DEF MJoin
    <3>2. ASSUME NEW t \in 0 .. active-1 PROVE shares[t] = 1
      BY <1>0, <3>1, PoolAssumption DEF SharesInv, Worker, TypeOK
    <3>3. FJ!Join BY <1>6, <2>1, <3>1, <3>2 DEF MJoin, FJ!Join
    <3> QED BY <3>3 DEF FJ!Next
  <2>2. CASE mode # "work" BY <1>6, <2>2, SameTeam DEF MJoin
  <2> QED BY <2>1, <2>2
<1>7. CASE MSetCount
  <2>1. mode = "change" /\ mode' = "change" /\ newCount \in 1..MaxCores
    BY <1>0, <1>7 DEF MSetCount, MasterInv, TypeOK
  <2>2. FJ!Resize BY <1>7, <2>1 DEF MSetCount, FJ!Resize
  <2> QED BY <2>2 DEF FJ!Next
<1>8. CASE MInput \/ MSync \/ MPost
  <2>1. mode # "work" /\ mode' = mode
    BY <1>0, <1>8 DEF MInput, MSync, MPost, MasterInv
  <2> QED BY <1>8, <2>1, SameTeam DEF MInput, MSync, MPost
<1>9. ASSUME NEW w \in Worker, WorkerStep(w)
      PROVE  FJ!Next \/ UNCHANGED FJ!vars
  <2>1. CASE WWork(w)
    <3>1. wpc[w] = "work" /\ wpc'[w] = "dec" BY <2>1 DEF WWork, WGoto, PoolInv, TypeOK
    <3>2. w < active /\ mpc \in {"share", "join"} /\ Reached(w) # mjob /\ mode = "work"
      BY <1>0, <3>1 DEF WorkInv
    <3>3. shares[w] = 0 BY <1>0, <3>1, <3>2 DEF SharesInv
    <3>4. w \in Thread BY PoolAssumption DEF Worker, Thread
    <3>5. shares' = [shares EXCEPT ![w] = 1]
      BY <1>0, <2>1, <3>3, <3>4 DEF WWork, TypeOK
    <3>6. FJ!Share(w) BY <2>1, <3>2, <3>3, <3>5 DEF WWork, FJ!Share
    <3> QED BY <3>4, <3>6 DEF FJ!Next, FJ!Thread, Thread
  <2>2. CASE ~WWork(w)
    BY <1>9, <2>2, SameTeam DEF WorkerStep, WWake, WFork, WCall, WDec, WLoad,
       WStore, WJoined
  <2> QED BY <2>1, <2>2
<1>10. CASE UNCHANGED vars BY <1>10, SameTeam DEF vars
<1> QED BY <1>1, <1>2, <1>3, <1>4, <1>5, <1>6, <1>7, <1>8, <1>9, <1>10
        DEF Next, MasterStep, UserStep

(* Every step of a pool that has not raced is a step of ForkJoin.          *)
THEOREM PoolForksAndJoins == Spec => ImplementsForkJoin
BY PoolInvariant, ForkJoinStep, PTL DEF Spec, ImplementsForkJoin

(* A pool that never races implements ForkJoin.                            *)
THEOREM PoolImplementsForkJoin == Spec /\ []~raced => ForkJoinSpec
<1>1. Init => FJ!Init
  BY DEF Init, FJ!Init, NoShares, FJ!NoShares, Thread, FJ!Thread
<1>2. PoolInv /\ PoolInv' /\ [Next]_vars /\ ~raced' => [FJ!Next]_(FJ!vars)
  BY ForkJoinStep
<1> QED BY <1>1, <1>2, PoolInvariant, PTL DEF Spec, ForkJoinSpec, FJ!Spec

=============================================================================
