# A verification of GNU APL

This directory holds TLA+ models of parts of GNU APL (the C++ sources are in
`src/src/`), the configurations that model-check them with TLC, and proofs about
them for TLAPS. GNU APL interprets one program at a time, but not alone: the
master shares large scalar operations with worker threads, interpreters share
variables with each other through a server process, connections from Emacs use
the interpreter between two input lines, and workspaces are written to files that
outlive a crash. Those are the places where the order of steps decides whether
the program is right and where the test cases of `src/src/testcases` (one APL
session each) cannot choose the order. They are what is modelled.

## Inventory

| component | state | operations | hard behaviour | correct means |
|---|---|---|---|---|
| **Worker pool** (`Thread_context`, `Parallel`, `CPU_pool`) | `busy_worker_count`, a `job_number` per thread, `do_work`, `active_core_count`, a semaphore per worker | `init`, `M_fork`, `PF_…`, `M_join`, `lock_pool`, `unlock_pool`, `change_core_count` | busy-waiting threads without locks; wrap-around of job numbers; threads parked for a long time; creation fails | every active thread does its share of a job once, between fork and join; a locked pool does nothing; `M_join` returns |
| **Monadic scalar functions** (`ScalarFunction`, `PJob`) | the current job and its error, a job list per thread, `jobs_lock` | `eval_scalar_B`, `do_scalar_B`, `PF_scalar_B`, `acquire_lock` | threads compute slices of one job and add jobs for nested items | every cell of the result is computed once, errors are reported, nothing is left in the lists |
| **Dyadic scalar functions** (same files) | as above, and the shapes and cells of the result | `eval_scalar_AB`, `do_scalar_AB`, `PF_scalar_AB` | two code paths, sequential and parallel, that must agree | the result is what the definition of a pervasive function says |
| **Shared variables** (`Svar_DB`, `Svar_record`, `Quad_SVx`, `APserver`) | a record per offer: two partners, control flags, state, events; the key in each symbol | ⎕SVO, ⎕SVC, ⎕SVR, ⎕SVE, setting, using | several processes; permission and access are two requests; processes die | two partners only; holders of keys are partners; offers meet; permissions stay valid; events are not lost |
| **Names, functions, SI** (`Symbol`, `SymbolTable`, `UserFunction`, `StateIndicator`, `Workspace`) | a value stack per name, the SI stack, expunged functions | call, return, →, ⎕FX, ⎕EX, )ERASE, )SIC | functions are replaced, erased and localised while they execute | what is executing or waiting is not deleted; value stacks follow the SI |
| **Command loop, execution** (`Command`, `Executable`, `Prefix`, `QuadFunction`) | the contexts on the SI, the parser stacks, attention flags | `finish_context`, ⍎, ⎕EA, ⎕EC, ⎕ES | an error, branch or escape leaves several contexts at once | a result goes to the context that waits for it |
| **Workspace files** (`Workspace`, `Archive`, `InputFile`, `Command`) | workspace name, files, backups, list of input files | )SAVE, )LOAD, )COPY, )DUMP, )WSID, )DROP | a crash or full disk between two steps | a saved workspace is never lost; a name is not overwritten by another workspace |
| **Emacs mode** (`emacs_mode`, `LineInput`, `NativeFunction`) | `apl_active`, listeners, traced variables | connect, command, trace, disconnect | connection threads use the interpreter | at most one thread is in the interpreter; nobody waits for ever |
| **Products in parallel** (`Bif_OPER2_OUTER`, `Bif_OPER2_INNER`) | `job.ec`, slices | fork, compute, join | threads share `job.ec` | as for scalar functions |
| **File handles of ⎕FIO** (`Quad_FIO`) | `open_files`, descriptors of the process | open, close, `clear` | descriptors are closed twice | table and descriptors agree |
| **Sorting, searching** (`Heapsort.hh`, `Bif_F12_SORT`) | – | heap sort, binary search | boundaries | a sorted permutation |
| values, primitives, tokenizer, editor, system functions, auxiliary processors, signals, printing, other front ends | – | – | sequential computation, or I/O | not modelled, see below |

How they interact. The command loop executes statements on the SI; a scalar
function that meets a large value uses the **pool** through fork and join; input of
a line and a change of ⎕SYL lock the pool. A **name** may hold a shared variable:
setting and using it and ⎕SVR of it become requests to the **server**, which answers
one at a time; ⎕EX only forgets the key, and the server is not told. )LOAD and )COPY replace **names** and read
the **files** that )SAVE and )DUMP write. The hooks `start_input` and `end_input`
of the line input give the interpreter to the connections of the **Emacs mode**.

The list "hazards" in `PROJECT.json` says, at the line where it bites, what can go
wrong in each component and which property would notice.

## Plan

The order puts first what is concurrent and used by everything else.

1. `ForkJoin`, `ThreadPool`, `ThreadPoolProofs` – done. The pool, and the contract
   that its users rely on, with a refinement between them.
2. `Slices` and `ScalarB`, then `Pervasion` and `ScalarAB` – done. Users of `ForkJoin`.
   `SlicesProofs`, `ScalarBProofs` – done: every invariant of the run, for every value.
   `ScalarABProofs` – done: every invariant of the run, for every value; the comparison with
   the recursion of `Pervasion` for the calls in which the code meets none of its mistakes.
3. `SharedVariables`, `SharedVariablesProofs` – done: every property of the run, for any
   number of processors and keys.
4. `Library`, `LibraryProofs` – done. Saving and loading when calls fail and the process
   dies. Its contract is five properties, which are proved, instead of an abstract
   specification: a library that changed atomically would promise more than the code holds
   (two failed attempts lose the work, and )DROP brings no backup back).
5. `Scopes`, `Names`, `NamesProofs`, `ScopesProofs` – done. Dynamic scope as the abstract
   specification, and the names, functions and contexts that implement it, with the command
   loop's ways out of a context as actions; the invariants and the refinement are proved.
6. What would come next: the Emacs mode's lock and the input hooks, composed with the
   input action of the pool; the products, which are `ScalarB` without lists; operands of
   defined operators and )COPY in `Names`. None of it is begun.

## Modules and how they correspond to the code

`map` in `PROJECT.json` gives the lines for each definition.

**ThreadPool.** Thread 0 is the interpreter, the others are workers. One action is one
access to memory that threads share: `M_fork` is `MForkAdd` (raise
`busy_worker_count`) and `MForkBump` (publish the job number), a worker's loop is
`WFork`, `WCall`, `WWork`, `WDec`, `WLoad`/`WStore` (the two halves of `++job_number`,
which is volatile but not atomic) and `WJoined`. `lock_pool` and `unlock_pool` are the
same fork with a function that sends workers to their semaphores, and the posts that
release them; `change_core_count` sets the job numbers of workers that it adds. The
users of the pool are the actions `MStartWork`, `MStartInput`, `MStartChange`
in any order, and `MCreateFails` lets `pthread_create` fail. The history variable
`shares` counts the work done for a job, `raced` becomes true at the one data race
of the protocol (below).

**ForkJoin** is the promise: a job runs between fork and join, every member of the
team does its share once, and the team changes only between jobs.

**ScalarB.** A value is a tree of nodes; a node has simple items, which carry the error
code that the cell function returns for them, and nested ones. The master picks jobs from
the lists (`PickJob`), does them alone (`SeqNested`, `SeqSimple`, `SeqEnd`) or with
the team (`PF…`, `Join`). A step of a thread in `PF_scalar_B` is one access to
`job_B->error`, to `jobs_lock` or to what the lock protects. The pointer `job_B`, which `Join` leaves
behind after an error, is reset in the model, since it is set again before it is read. **Slices** has the few lines
with which `PF_scalar_B` and `PF_scalar_AB` both begin: which items a thread computes.

**Pervasion** defines, recursively and independently of the job lists, what a dyadic
scalar function of nested arrays is: shapes that conform, one-element arrays that are
extended, fills of empty results. **ScalarAB** is the code: a heap of values under
construction, cells that are raw until written, jobs that refer to them. Its runs compare
the result with `Pervasion`. `jobs_lock` is one step here because `ScalarB` models it.
Each value of the heap remembers (fields `A` and `B`, history) the arguments that it is
computed from, so that a property can say what each of its cells should be (`Right`), and
where the code is known to get that wrong: `Misplaced` (an empty result, stored at
`next_ravel`), `Mishandled` (pairs of nested items, and errors, in a shared job) and
`Exchanged` (a pair of nested items whose common shape depends on the order of the two). The constant
`Values` is the set of values that arguments and their items are; it is the domain of
the recursive functions of `Pervasion`, which are functions and not RECURSIVE operators for the
sake of the proofs. `Pervade` is `PervadeBy(Pervade, …)`: the recursion and the step that it
repeats have names of their own, and so have `Built`, the value at the first address of the
heap, and `ValueBy`. `Depth` is `compute_depth()`; `DepthAssumption`, that items are less deep than
what they are items of, says that values are trees, and TLC evaluates it for the values of the runs.

**SharedVariables.** `db` is what `APserver` knows for every key. Each request of an
interpreter is one action, because the server handles one at a time, and what an
interpreter does between two requests is its `pc`: an offer is `Offer` (MATCH_OR_MAKE) and
`Share` (the symbol gets the key and the old value is assigned), setting is `MaySet`
and `Set`, using is `MayUse` and `Use`. `Disconnect` is the death of a process at
any time, `Connect` its return. Event bits are abstracted to whether there are any.

**Library.** A library is a function from paths (library number, name, `.xml` or `.apl`) to
files, and another one to the files with `.bak` appended; a file is absent, empty, torn or
whole. The commands that write (`Save`, `SaveWsid`, `Dump`, `DumpWsid`, `Continue`) begin
with the check of the name and go on, one system call at a time, with `NoBackup` or
`UnlinkBackup` and `RenameToBackup`, then `Open` and `Write`. `GiveUp` is a call that fails
and is noticed, `WriteFails` one that is not, `WriteThrows` the WS FULL of
`XML_Saving_Archive::save`, `Stop` is )OFF or a crash at any time, `Start` the next session
with or without CONTINUE. The others (`Load`, `Drop`, `SetWsid`, `ClearWS`, `Edit`) are one
step each. The history variables count attempts since the last complete write and remember
what it wrote. `MCLibraryWsid` adds the file that )WSID has named.

**Names.** `vs` is the value stack of each `Symbol`, the innermost binding last. `fn` has
the function object at each address: its text, the lambda in its body (`part`) and, for a
lambda, the references counted (`owners`); None is an address whose object was deleted.
`si` has the contexts of the `StateIndicator`: what each executes, the lambda in the body
of a statement, the function on its parser stack that was read and waits for its
arguments (`held`), and its `safe_execution_count`. `running` tells whether the
interpreter executes or waits for a line, and the history variable `stranded` how many contexts, from
the bottom of the stack, an interrupt or a →N without a function has left there while in ⎕EC. Contexts come with `Type` (a line), `Execute`
(⍎ and ⎕EC), `Call` and `CallHeld`; they go with `Return`, `Attention` (an interrupt),
`Error`, `Branch` (→N), `Retry` (→⍬ typed by the user), `Escape` (→), `ClearSI` ()SIC) and
`ClearWS` ()CLEAR). Names change with `Assign`, `AssignLambda`, `Expunge` (⎕EX), `Erase`
()ERASE) and `Fix` (⎕FX and the editor); `Check` ()CHECK) deletes what was expunged
while it executed. Which functions are in use is asked as the code asks it, by searching the
contexts (`Executing`, `Called`, with the mistake of `uses_function`), and not by looking
at what the model knows to be referred to. An action that follows a reference to an
object that was deleted is a use after free, and is what the invariants exclude.

**Scopes** is dynamic scope, as the language defines it: a list of scopes, each of which
binds some names; a name means its innermost binding, and a scope that leaves takes its
bindings with it.

## Runs

| run | instance | what it shows |
|---|---|---|
| pool | 3 threads, 4 job numbers, creation may fail, core counts −1 to 4 in any order with jobs and input; 86 088 states | type, `BusyCountsUnfinished`, `JoinedJobIsComplete`, `LockedPoolIsQuiet`, `NoBlockedWorkerIsAwaited`, refinement of `ForkJoin`, `JoinReturns`, `InputBlocksWorkers` |
| pool_race | 3 threads, counts 2 and 3 | a counterexample: `busy_worker_count` becomes negative |
| scalarb | 3 threads, thresholds 1 and 5, 77 values; 99 447 states | nothing is computed twice or forgotten, lists are clean, the lock excludes, error codes are real, evaluations end |
| scalarb_lost | 2 threads, one flat value with a failing item | a counterexample: a success erases the error, an incomplete value is returned |
| scalarab | 2 threads, 1100 calls; about 19 000 states | `ResultIsPervasive`; `ItemsAreComputed`: each cell of each value is the result for its two items; `OneOwner`: a value has one cell that points to it and at most one job |
| scalarab_nested | 2 threads, one call | a counterexample: in parallel, nested×nested items are enclosed once too often |
| svar | 3 interpreters, 2 keys, two control vectors, symmetric; 288 310 states | `HolderIsPartner`, `TwoParties`, `OffersMeet`, `PermissionLasts`, `EventsAreKept` |
| svar_refused | 2 interpreters, 1 key | a counterexample: an interpreter that never set the variable may not set it |
| svar_informed | 2 interpreters, 1 key | a counterexample: the event of an access goes to the one who made it |
| library | library 0, names FOO and CONTINUE, two contents, three commands that write; 388 682 states | `SavedWorkIsKept`, `BackupIsPrevious`, `FileKnowsItsName`, `ContinueBringsBack` |
| library_wsid | libraries 0 and 3, two commands | a counterexample: the second )SAVE after )WSID 3 FOO writes library 0 |
| names | two names, two functions and a lambda, three addresses, three contexts, symmetric; 246 525 states | `ScopesFollowSI`, `FunctionsInUseExist`, `LambdasAreOwned`, `InputIsNotSafe`, refinement of `Scopes` |

Bounds and why they suffice.

- *Threads*: with three there are two workers, so one can be late with every step while
  the other is early, and a change of the core count can drop one and keep the other.
  Two slices of different length and an empty slice occur with 3 threads and up to
  5 items.
- *Job numbers* (`JobMod`): 4 instead of 256; a worker that is parked sees the number
  come round. The proofs are for every modulus of at least 2.
- *BeforeRace*: the run stops exploring at the data race; what can happen then is not
  a property of the protocol (`pool_race` shows the first step of it).
- *Values*: the 77 trees of `MCScalarB` are all values of three items with one nested one,
  good or failing, and five deeper ones. The 1100 calls of `MCScalarAB` are all pairs of
  arguments of up to two items (three in parallel) that are simple, character, enclosed
  vectors of one or two items, nested twice, or enclosed and empty, with the exception of
  combinations that the code gets wrong; these are listed with the findings below.
- *MaxKeys, FewKeys*: offers made in one life of the server. With one key everything is
  explored; a second key is for how offers meet, and is explored while no control or
  access has happened. A third processor is an intruder, or one that comes back.
- *MaxWrites*: three commands that write, with as many others between them as one likes. Two
  that fail and one that does not, or the other way around, is what the properties
  tell apart; the proofs are for any number. One library is enough for the passing run, since
  the library is only a part of the path there; the other run needs two.
  `BackupIsPrevious` is about every file but CONTINUE.xml, of which the documentation promises no
  backup (see the findings).
- *Names*: one function localises another name, to which it assigns its lambda, the other
  one has a label with its own name and may not be suspended. Three addresses are
  a function, its lambda and a replacement; three contexts are a statement, a function and
  what it calls or executes. The proofs are for all of these bounds.
- *Care*: the run and the theorems assume that programs avoid three cases, each a
  disjunct of a guard that names it: to expunge a function that was read and waits for its
  arguments ("waiting"), to expunge a lambda that is executing ("executing"), and to redefine a
  name that shares its lambda with a body ("shared"). Each is necessary: without it TLC finds a
  counterexample (below). Interrupts and branches are not restricted.
- *stranded*: an interrupt, or a →N without a function, in ⎕EC leaves contexts of ⎕EC on the stack,
  which is a finding (below). `InputIsNotSafe` excepts these contexts until they are popped, and no
  others: what is called, fails, returns or is escaped from on top of them is in the run.

Fairness. The pool and the scalar functions assume weak fairness of each thread: the kernel
schedules every runnable thread. Users owe nothing: no input line, job or core count
need ever come. `JoinReturns` therefore asks that the threads exist, and
`EvaluationEnds` excuses threads that collide on `jobs_lock` for ever
(`acquire_lock` undoes a failed attempt, and two attempts may fail because of each other).
The shared variables have no liveness property: an interpreter polls until its partner acts,
and no partner has to. Neither has the library: nobody is obliged to save. Nor have the
names: an APL program need not end.

Memory model. Reads and writes are taken to be sequentially consistent. `_atomic_add`
and its relatives are full barriers on the platforms the code supports, the
counters and job numbers are volatile, and what a job computes is separated from the join
by such an atomic.

## Proofs

`ThreadPoolProofs.tla` proves, for every number of threads, modulus, initial core count and
set of requests that satisfy `PoolAssumption`:

- `TypeCorrect`: `Spec => []TypeOK`;
- `BusyIsUnfinished`, `JobComplete`, `LockedIsQuiet`, `NobodyAwaitedIsBlocked`: the
  invariants of the run. The last one is the safety half of `JoinReturns`, deadlock freedom:
  while M_join() waits, every worker that is behind and whose thread exists can take
  a step, and by `BusyIsUnfinished` the wait is over when there is none;
- `PoolForksAndJoins`: every step of a pool that has not raced is a step of `ForkJoin` or
  leaves its variables alone, and `PoolImplementsForkJoin`: if it never races, it
  implements `ForkJoin`.

The invariants are not inductive. `PoolInv` strengthens them, as long as nothing raced, by:
where the master is determines mode and `do_work` (`MasterInv`); the job a worker
has reached is the master's or the one before, and it is the one before only
between fork and join (`JobInv`); a worker that is inside a job runs the
function that was forked (`WorkInv`); a parked worker was parked by a lock, and is not
counted (`ParkInv`); the counter is the cardinality of the set of workers that are
behind (`BusyInv`); and shares are done exactly by those who are past their work
(`SharesInv`). The lemmas that matter are that the set of those behind loses one worker
exactly when the counter is lowered, and that a job number differs from its successor,
which is all that the modulus is needed for.

`ParkInv` says that no post is pending that should not be; `NobodyAwaitedIsBlocked` needs the
converse, that none is lost (`WakeInv`): a parked worker that is not locked out (`Locked`: dropped,
or joined to the job that locks the pool and not posted since) has its post pending. A worker
parks only by joining the job that locks the pool, so it is locked out from its first step on
(`WorkerKeepsWake`), and the master ends that state of a worker only by posting it
(`MasterKeepsWake`).

`ScalarB` and `ScalarAB` rely on `ForkJoin` as an assumption: between fork and join each
thread below `Cores` runs the function once.

`LibraryProofs.tla` proves the five properties of the run *library* (`TypeCorrect`,
`SavedWorkSurvives`, `BackupIsOneBehind`, `NamesAgree`, `WorkContinues`), for all libraries,
names and contents, and any bound on the number of commands, from `LibraryAssumption`.
`SafeInv` says where the last version of a path is while a command replaces it: in the file
until the file is renamed, in the backup from then on, and in one of the two after one
failed attempt. What makes it inductive is that a command under way counts as an
attempt on its own path (so no other path is at risk), and that an attempt that finds
no file leaves the backup alone. `NameInv` adds that a workspace being written has the name
of its file, `LeftInv` that nothing happens to the file of )CONTINUE until the next start.

`ScalarBProofs.tla` proves all invariants of the run *scalarb* (`TypeCorrect`,
`LockExcludes`, `NothingIsComputedTwice`, `JobsAreFresh`, `ListsAreEmptied`, `ErrorsAreReal`,
`FlawlessResults`, `SequentialResults`) for every tree of values, any number of threads and all
thresholds that satisfy `ScalarAssumption`, which says what a tree is: every node but the first
belongs to exactly one item, of an earlier node. `IInv` says that a cell is computed at most once and a
value is queued or computed only after the item that points to it (`Stored`); that the lock is
the number of threads that believe to have it (`Locked`); that the master, or each
thread in its slice, has nothing computed ahead of it (`MasterAhead`, `ThreadsAhead`); and that
an error has an item that causes it (`ErrorHasCause`). `CInv` adds what completeness needs, as long as no
item fails or nothing was shared: behind the master or thread everything is computed, and
each value is finished, current, queued, or waits for its item to be met
(`NoneForgotten`). The arithmetic is in `SlicesDisjoint` and `SlicesCover`: the slices that
`PF_scalar_B` cuts are a partition of the items for every length and number of cores. At the
end, when the lists are empty, a value that is not finished has an item that points to it in an
earlier value that is not finished; `Least` (the natural numbers are well-ordered)
ends that descent.

`SharedVariablesProofs.tla` proves all properties of the run *svar* (`TypeCorrect`,
`HoldersArePartners`, `NoOfferIsMissed`, `AnswersStayValid`, `NoThirdParty`, and the action property
`EventsWait`) from `SharedAssumption` only. What makes it short enough is `Effect`: what a
request of a processor may do to a record, whichever request it is; there is a lemma for each
operation of `Svar_record`, and preservation is then about `Effect`. The invariant
adds that records are whole and only two were ever their partners (`Records`), that partners
are connected (`Reached`), that a key to come has no record (`Unused`), that a variable with
a value has a state (`StateKnown`), and what an interpreter holds between two requests (`Places`). Offers meet since `Matches` is symmetric: an offer that
would have matched an older one was given its key.

`NamesProofs.tla` proves the five invariants of the run *names* (`TypeCorrect`, `ScopesFollow`,
`NothingDangles`, `OwnersAreCounted`, `NoInputInSafeExecution`) for all names, functions,
addresses and bounds, under `Careful`: the care "waiting", "executing" and "shared".
`ScopesFollowSI` holds only because functions in use exist: a context pops the names of its
function's header, which it finds through the pointer. That in turn needs the counts of lambdas, and
these count what value stacks and bodies refer to. So the invariant is one: `ScopesIn`, `AliveIn`
and `OwnedIn` are the three properties; `PartsIn` says that lambdas are in bodies, and have no
lambda in theirs; `InUse` that a lambda which is executing or was read is in the body that
has called or read it, or has an owner beside bodies; `BoundOnce` that a defined function is
bound at one place of one value stack, and nowhere once it was expunged. `Stacked` orders
the counts of ⎕EC along the stack. `InputIsNotSafe` has a second invariant, `Quiet`, that is kept relative
to the first one: where a statement list begins or the interpreter waits, the contexts below
are stranded or have started no safe execution. An error in ⎕EC pops down to the
context that started it, which by `Stacked` is the last one with that count, and a line is only ever
typed on top of contexts that `Quiet` speaks of. The theorem assumes nothing of interrupts and branches.

`ScopesProofs.tla` proves `NamesImplementScopes`: under `Careful`, `Spec => DynamicScope`, for all
names, functions, addresses and bounds. The mapping is `ScopesOfSI`: the workspace is the bottom of
every value stack, and the scope of a context has, for each name that it localises, the
entry at the position which is the number of contexts up to it that localise the name. So the
refinement needs what the invariant of `NamesProofs` says of the length of value stacks, before
and after each step. `Positions` says that positions grow with the contexts, `InnerScope` that
the top of a value stack is the binding in the innermost scope that has the name
(`Owner`), and `ScopesLeave`, `ScopesEnter` and `ScopesBind` what popping and pushing contexts and
changing the top of a stack do to the scopes. Then there is one lemma per action: it is `Enter`,
`Leave`, `Bind` or `Clear` of `Scopes`, or changes no scope. That ⎕FX or )ERASE deletes a function
does not disturb a scope, because a function whose names are bound is in use.

`SlicesProofs.tla` has the two facts about slices, `SlicesDisjoint` and `SlicesCover`, and
`Least`, that both proofs about scalar functions cite.

`ScalarABProofs.tla` proves the four properties of the run *scalarab* (`TypeCorrect`,
`ComputedItems`, `OneOwnerEach`, `PervasiveResults`), for all values and calls, any number of
threads and any threshold. The assumptions are `ValuesAssumption` (a value has as many items as
its shape says but at least one, and its items are values), `DepthAssumption` (values are trees),
`ABAssumption` (calls are calls of values) and `CoresAssumption` (there is a thread). A job is nothing but a value of the heap with its
arguments, so the invariant `Inv` is about the heap: jobs refer to different values, none is the
current one (`JobsInv`); each cell is either `Waiting` – its value is queued, or current and the cell is
ahead of the master or of the thread in whose slice it is – and then raw, or it is
`Right` (`PointInv`, `ResultInv`); pointers go to later values, and each value but the
first has exactly one; an error code has its reason in a pair of items
(`ErrorInv`). `ErrorInv` also is why a shared job that ends without error is complete: a thread that
stops early has seen an error, and some cell function must then fail. The six actions that compute a
cell have one lemma each that says which new value, job and cell come out of it (`…Effect`), and
the conjuncts of the invariant are proved from these effects.
`PointInv` holds while no empty result was misplaced (`NoneMisplaced`), `ResultInv`
while in addition nothing was mishandled (`NoneMistaken`): these two name the cases
that the code gets wrong, and are given with the findings below. They are conditions on the values
that occur, not on the schedule.

`PervasiveResults` is about the whole result: `ResultIsPervasive` holds when, in addition to
`NoneMistaken`, no pair of nested items has a common shape that depends on their order
(`NoneExchanged`). Both are what the code is known to get wrong, and the run *scalarab_nested* shows that
without them the property is false; *scalarab* checks it without the conditions, for calls that avoid
these cases or are right in spite of them. `ErrorsArePervasive` needs less: what is thrown has its reason in
the recursion unless the threads compute a pair of nested items (`NoneEnclosed`). Three descents take
the place of an induction over the nesting, each a set of natural numbers with a `Least` element:

- *`Pervade` is what its definition says* (`PervadeIs`). The result for two values depends on results
  for pairs of items only, which are less deep (`ItemRank`, `PervadeBelow`). So functions that satisfy the
  definition below some depth agree (`SameBelow`) and exist for every depth (`Approximation`), and
  the function made of them satisfies it everywhere.
- *Errors.* `ChainInv` says that the arguments of every value of the heap conform to as many items as it
  has cells, and that if the function fails for them then it does for those of the call. It is
  inductive because a new value is computed from a pair of items of the current one
  (`ComputesAdds`, `ItemsChained`); which two shapes conform does not depend on their order
  (`ConformingEither`).
- *Results.* Behind a pointer is a value at a later address. If all values after address h are the
  results for their arguments then so is the one at h (`CellBuilt`, `ValueBuilt`); the value that is
  not, if there were one, would have no last address (`AllHaveResults`, `BuiltIs`). That a
  value has the shape that its arguments conform to (`ShapeOf`) follows from the one cell that points to
  it.

The model was wrong in one place that TLC could not see: the cases of `Conforming` overlapped, and TLA+ does
not say which one a CASE takes. It is the order of the tests in `conforming_shape()` that
decides for one-element arrays, and `Conforming` has that order now.

Only model-checked: liveness (`JoinReturns`, `InputBlocksWorkers`, `EvaluationEnds`), which the
prover cannot do. That the steps which `NobodyAwaitedIsBlocked` leaves possible are taken, and
that they are enough, is for TLC.

## Where code and documentation disagree

The runs that end in a counterexample, each with its lines under "findings" in `PROJECT.json`:
the race for `job_number` (`Parallel.cc` 159, which needs a change of the core
count right after a job), the shared error of a parallel job (`ScalarFunction.cc` 276), the
additional enclosure in parallel (632), the state that is not mirrored when the offering
partner leaves (`Svar_record.cc` 95), the event that goes to the wrong partner (231), and the library number
that )SAVE forgets (`Workspace.cc` 666).

Two more findings concern runs that pass, because their properties except exactly what the finding is
about; without the exception TLC finds a counterexample to the first one.

- `InputIsNotSafe`, run *names*: an interrupt while ⎕EC passes its result on, or a →N in an ⍎ within ⎕EC that
  finds no function, is thrown past the unrolling in `finish_context` (`Command.cc` 421, 446): the
  interpreter returns to the input line with the contexts of ⎕EC on the stack, and the next line
  inherits their `safe_execution_count`, so that its errors are not reported. The comment at
  494 promises to unroll all of them, and `testcases/Quad_EC.tc` 24 expects the stack unchanged.
- `BackupIsPrevious`, run *library*: `README-9-post-installation` 571 says that the workspace saved by
  )CONTINUE is "not backed up"; `cmd_CONTINUE` (`Command.cc` 790) calls `save_WS`, which makes a
  backup of every file. `BackupsArePrevious`, a conjunct of the
  invariant proved in `LibraryProofs`, says so of all files, CONTINUE.xml included.

Noticed while reading, and listed as hazards: for two nested items the sequential code
computes the common shape with the arguments exchanged (`ScalarFunction.cc` 441) and
appends an empty result at the position of `next_ravel` instead of its own cell (450); both are
modelled as they are, and the instance of *scalarab* leaves out the arguments that meet
them. A workspace file that may not be written counts as absent (`Workspace.cc` 631), so that )SAVE
skips the check of the name, and with backups enabled moves the file of another workspace
to its backup; after )WSID 3 FOO, a FOO that exists in library 3 can not be saved,
since "FOO" is compared with "3 FOO" (635). Both are modelled (`BeginSave`). A full
disk is not noticed (671), and )CONTINUE goes on to )OFF however its )SAVE ended.

In `Names`, each element of Care is a case that the code gets wrong, and TLC shows it when the
element is left out. ⎕EX deletes a function that is not executing, although a parser
stack holds it and will call it (`Symbol.cc` 797; "waiting", a counterexample of
`FunctionsInUseExist`); for a lambda it does not even ask whether that is
executing, takes its owner away, and the context then pops names through a
pointer to nothing (791; "executing", `ScopesFollowSI`). `UserFunction::fix` deletes the old
function of a name without looking whether it is a lambda with other owners
(`UserFunction.cc` 1114; "shared", `FunctionsInUseExist`).
`uses_function` overwrites the function it looks for with the one of each context
(`StateIndicator.cc` 121), so that in a direct recursion any function counts as
called; this errs on the safe side for )ERASE and ⎕FX. The branch of `assign_named_lambda` that
re-assigns a lambda (`Symbol.cc` 357) cannot be reached, since `Prefix.cc` 546 has
rejected the assignment before.

In parts without a model: `expand_nested` ignores the error of a cell function with axis (344),
`--emacs_arg` starts connections without the lock (`emacs.cc` 155), and `kill_pool` ends the
process before `cmd_OFF` can clean up.

## Not modelled

- *Values, cells, primitives, numerical algorithms*: functions from arrays to arrays. Their
  correctness is about floating-point and data, not about steps.
- *Tokenizer, parser, the reductions of `Prefix.cc`, editor, printing, formats (XML, CDR,
  JSON)*: sequential text processing.
- *Owner counts of values*: each change of a count is the construction or destruction of
  one smart pointer; C++ scopes pair them.
- *)COPY, input files, SETUP, several interpreters with one library*: in `Library` )COPY is a
  change of the workspace (`Edit`), a dump is loaded in one step although its lines are
  executed one by one, and SETUP is one more name that the start may load. What a crash
  leaves is decided by the file system; the model assumes that completed calls
  are not undone (the code calls no `fsync`, and a power failure may undo them).
- *Of names and contexts*: the operands of defined operators, native functions, )COPY into a
  function that is in use, member access, the depth limit of ⎕SYL and a WS FULL while a
  context is pushed; counts of lambdas that are too high (a name that is popped while it
  has a lambda, and )CLEAR, keep its share: a leak, which `LambdasAreOwned` allows); and the
  token that remains on the parser stack when →⍬ retries a context.
- *Emacs mode*: a lock, hooks that take and release it, and some twenty commands that format
  text. The places where the lock is forgotten or taken twice are listed as hazards.
- *Products in parallel*: they share the pool and the slices, which are modelled and proved, and
  `job.ec`, which loses errors in the way that *scalarb_lost* shows.
- *File handles of ⎕FIO*: one table, used by one thread, around calls of the C library.
- *Sorting and searching*: sequential algorithms without state, which test cases reach.
- *Auxiliary processors*: AP100 and AP210 use the shared variables as any interpreter may;
  their services are I/O.
- *Signals*: a handler may run between any two instructions, and what the handlers
  call is not safe there; a model would have to go down to the allocator.
- *Generated, vendored and packaging files*, which are most of the repository.
