# servicelib: a TLA+ verification of its concurrency

servicelib registers named services and calls them synchronously or on a pool
of worker threads. The code is about 650 lines of C++11; nearly all of what can
go wrong in it is concurrency: a hand-written queue with a condition variable,
a pool with a load balancer, a recursive lock held over callbacks, a lazily
created singleton. This directory models that, checks it with TLC, and proves
with TLAPS, for every size of the system, all its safety properties and refinements.

Paths below are those of the repository (`src/Worker.cpp` and so on).

## 1. The system

| component | state | operations | who calls it |
|---|---|---|---|
| **AsyncWorker** (`src/Worker.h`, `src/Worker.cpp`) | `calls_` (a vector of contexts), `queueLock_`/`queueCond_`, `executingLock_`/`executing_`/`executingCond_`, atomics `active_`, `ready_`, `outstandingJobs_`, `thread_` | `doJob`, `doSyncJob`, `cancelJobsFor`, `stop`, `blockUntilReady`, `getLoad`; `run` on its own thread | the dispatcher, from any thread, and so the code of its own jobs |
| **SyncWorker** (same files) | none | `doJob` runs the action at once | the scheduler |
| **AsyncDispatcher** (`src/AsyncDispatcher.*`) | `asyncWorkers_`, `strands_` under `strandsLock_` | `start`, `stop`, `scheduleJob`, `cancelJobsFor`, statistics | the scheduler |
| **InterfaceScheduler** (`src/InterfaceScheduler.cpp`, `include/InterfaceScheduler.hpp`) | `actionMapping_`, `notifyMapping_` under the recursive `mappingLock_`; `started_`; a dispatcher and a SyncWorker | `start`, `stop`, `registerInterface`, `unRegiterInterface`, `subscribeForRegistration`, `isServiceRegistered`, `interfaceCall` | the application's threads, watchers, and the actions of services |
| **typed calls** (`include/ArgDefs.hpp`, templates in `Helper.hpp`) | none | bind arguments into a closure, compare the type names | the application |
| **global scheduler** (`src/Helper.cpp`) | `theScheduler`, `created`, `sharedMutex`, `defaultForTesting` | `getGlobalScheduler`, `releaseGlobalScheduler`, `setGlobalSchedulerAsMocked` | the application; test fixtures (`include/InterfaceSchedulerMock.hpp`) |

Interactions. `interfaceCall` copies the registered action under
`mappingLock_`, releases it, and gives the closure to the SyncWorker or to
`AsyncDispatcher::scheduleJob`, which picks a worker by load or by strand and
calls `doJob` or `doSyncJob` on it. `unRegiterInterface` calls `cancelJobsFor`
on every worker *with `mappingLock_` held*. Registration calls watchers back
*with `mappingLock_` held*. A job's code may call anything again.

What is hard, and what makes each part correct:

* *AsyncWorker*: notification outside the lock, the lock released around the
  job, `stop` polling the queue, cancellation waiting for the executing job with
  the queue locked, a wake-up through pointers to a caller's stack. Correct: no
  lost wakeup; every job accepted is run once, alone and in order, or is
  cancelled; `stop` drains; the blocked caller outlives its job; the counter
  stays near the length of the queue.
* *AsyncDispatcher*: loads read without a lock while they change; a strand bound
  by two threads at once; walks over the pool that are not atomic. Correct: a
  strand stays on one worker and is sequential; a walk misses nothing that was
  there before it; after `stop` nothing runs any more, so that destruction is safe.
* *InterfaceScheduler*: re-entrant watchers, exceptions, look-up and scheduling
  in different critical sections. Correct: no registration is missed or
  reported twice; iterators stay valid; arguments have the type of the action.
* *global scheduler*: an unlocked check. Correct: one object, deleted once, alive
  when it is handed out.

`PROJECT.json` lists each of these hazards at its line with the properties that
cover it.

## 2. Modules

| module | content |
|---|---|
| `JobQueue` | abstract specification: a first-in first-out queue served one job at a time, whose waiting jobs may be dropped |
| `AsyncWorker` | one worker, its thread, any number of calling threads; properties; the inductive invariant `IInv`; the refinement `Queue == INSTANCE JobQueue WITH ...` |
| `AsyncWorkerProofs` | `Spec => []IInv` and the safety properties that follow; the load |
| `AsyncWorkerRefinement` | the action properties, and `Spec => Queue!Spec` |
| `AsyncDispatcher` | the pool from start to destruction, the choice of a worker, strands, walks over the pool; the refinement of one `JobQueue` per worker |
| `AsyncDispatcherProofs` | the inductive invariant of the pool, its safety and action properties |
| `AsyncDispatcherRefinement` | `Spec => ImplementsQueues` |
| `ServiceDirectory` | abstract specification: what the registry promises to the watchers of a service |
| `InterfaceScheduler` | registry, watchers, calls in all their forms, and the pool behind them; the refinement of `ServiceDirectory` |
| `InterfaceSchedulerProofs` | the inductive invariant of the scheduler, and what follows from it; what more holds while watchers unregister nothing |
| `InterfaceSchedulerRefinement` | the accounts of the watchers, and `Spec => ImplementsDirectory` |
| `GlobalScheduler` | creation and release of the singleton, test fixtures |
| `GlobalSchedulerProofs` | its inductive invariant and safety properties |
| `MC...` | values of the constants for the runs; all formulas stay in the modules above |

### AsyncWorker

A step is one critical section of `queueLock_`, or one access to an atomic or a
condition variable outside of it; merging the statements of a section is exact,
as all of them touch only what the lock protects. In particular

* `doJob` is three steps: `Push` (the section), `Notify`, `Count`: the code
  notifies and counts after releasing the lock.
* `cancelJobsFor` is the one section that blocks in the middle, so it is a step
  per visited context (`CancelVisit`, guarded by the wait for `executing_`)
  between `CancelLock` and `CancelErase`, and `queueLock` records its holder.
  The wait is enabled when `executingLock_` is free and `executing_` false. A
  job that cancels its own service locks a mutex that its thread holds: the
  outcome of that build is a thread blocked for ever, and so it is here.
* `stop` polls the queue; the last poll, `active_ = false` and the notification
  are one section (`WaitForOutstandingJobsToFinish`); polls that fail are
  stutters. A second `join`, or a join by the worker's own thread, throws
  `std::system_error` to the caller of `stop`, which is assumed to catch it: its
  call is over and it goes on (`Join`).
* `run`'s wait is `"waiting"`, left by a notification or `SpuriousWakeup`; its
  predicate is evaluated at `"acquire"`. `"relock"` is the inner loop's
  `while(!calls_.empty())` after a job.
* `doSyncJob` keeps its locals in `flag[t]`; `WaitFinished` is its wait.
  `RunOnDone` is the caller's `onDone` followed by the wake-up. The section of
  `flagMutex` is merged into it: nothing else is written under that mutex.
* `jobs` is a history of contexts (`queued`, `taken`, `ran`, `done`,
  `cancelled`); the code has no such list and no guard reads more of it than
  the name of a queued context.
* `outstanding` is a `size_t`: arithmetic modulo `LoadMod`.

The worker's thread is a calling thread as well (`Threads`), so jobs call the
worker from within `"action"` and `"onDone"`. `May` says which operations which
thread may call.

The members used by the thread before the constructor ends (`ready_`,
`active_`, the queue) are declared before `thread_` and so initialised before it
starts; those declared after it (`outstandingJobs_`, `executing_`) are touched
only for a job, which nobody can post before the constructor has returned. So
`Init` is the state after construction.

### AsyncDispatcher

`Start`, `CreateWorker` and `BlockUntilReady` are `start` and
`createWorkersIfNotInitialized`, a step per worker; a worker becomes ready when
its thread runs. `phase` is how far the scheduler's owner has come; a `start`
after the first does nothing (`started_` stays set), also after a `stop`, and
jobs posted then are `late`. `Destroy` walks like `stop` and frees
each worker after its join; `Freed` guards every access, and `UsesFreed` marks
the threads whose behaviour would be undefined, which go no further.

`scheduleJob` is a step per load read (`ReadLoad`, `CompareLoad`: `min_element`
reads both loads of each comparison anew, the candidate's first and then that of
the best so far), then the strand look-up under `strandsLock_`, then the push and
the count on the chosen worker. `call[t]` is the call a thread is in with its
locals. A worker is what `AsyncWorker` shows it to be, with fewer steps: become
ready, take, begin executing, end, exit. `ImplementsQueues` checks that
it is still the `JobQueue` that `AsyncWorker` is proved to implement: `Rank`
numbers the jobs of one worker by themselves. `CancelPass` merges the waits of
one `cancelJobsFor` into the last of them. Notifications are left out:
`NoLostWakeup` is proved of the worker.

One client owns the scheduler (starts, stops, destroys it) and others call from
the return of `start` to its destruction (`DispatcherAssumption`, `Enter`): two
racing owners, or a call before `start`, are undefined behaviour at their first
step. The owner does not destroy the scheduler while a client is inside of it.

### InterfaceScheduler

`stack[t]` holds the calls in progress on a thread, because `mappingLock_` is
recursive and watchers run inside of it. A thread holds the lock while a frame
of its stack is notifying, calling back or cancelling. `regs` records the type
of every registration, so that a queued job can be compared with the
registration it was made for. `broken` records that the vector of
`notifyMapping_` has changed under the loop that iterates over it; the program's
behaviour is undefined from there and the model stops.

Calls come in three forms (`Invocations`, from `CallProperty`): asynchronous,
asynchronous and blocking, synchronous on the caller's thread. The pool behind
them is a queue, the job taken and `executing_` per worker; which worker gets a
job is any choice. `unRegiterInterface` visits the workers with `mappingLock_`
held (`CancelLock`, `CancelJobsFor`), and keeps a worker's `queueLock_` while it
waits for the job executed there, so that posters, the worker and other callers
can be seen to wait for it. `late` marks a job whose registration was gone
already when it was queued.

`Directory` maps the registry to `ServiceDirectory`: a watcher waits from its
subscription until it is called back. The clearing of the vector after the loop,
the recursive calls and the lock do not show there.

### GlobalScheduler

Each access of `created` and `theScheduler` is a step, as both are read without the
lock: the unlocked check; under `sharedMutex` the construction (with the locking), the
store of the pointer and the store of `created` (with the unlocking); the unlocked
dereference; and for a release the check, the deletion, the clearing of the pointer and
of `created`. Constructions and deletions take time, so the lock is a variable. A fixture
(`SetUp`, `SetGlobalSchedulerAsMocked`, a get, `TearDown`) makes the same calls
among the other threads. `overlapped` is a history variable, read by properties
only: which calls of other threads overlapped the last call of a thread.

## 3. Runs

Passing runs (`PROJECT.json` names the properties of each):

| run | question | bounds |
|---|---|---|
| `worker_safety` | is one worker safe under all operations, from clients and from jobs, and does it implement `JobQueue`? | 2 clients, 2 names, 3 jobs, 1 cancellation |
| `worker_live` | is everything accepted before `stop` run or cancelled, and does every call return? | 2 clients and the jobs call everything, 1 name; 2 jobs, 1 cancellation |
| `dispatcher_walks` | do a cancellation and a stop of the pool miss anything, is it quiet after `stop`, and is each worker a `JobQueue`? | 2 workers, a poster, an owner that starts, cancels, stops and destroys, jobs that post; 3 jobs, 2 walks |
| `dispatcher_live` | are strands sequential, do all jobs run and all calls return, cancelled and stopped ones included? | 2 workers, an owner that makes every call, jobs with blocking calls, 1 strand, 4 jobs, 1 cancellation or stop before the destruction |
| `scheduler_registry` | watchers, registration, unregistration and calls racing; does the registry implement `ServiceDirectory`? | 2 clients, 2 workers, 1 service, 2 types, 6 calls |
| `scheduler_throwing` | the same with watchers that throw and services that unregister, query and block; do calls return? | 2 clients, 2 workers, 1 service, 5 calls |
| `global_release` | creation against release, and a test fixture | 3 threads, 2 of which release, 1 fixture, 6 calls |

Why the bounds are enough. Two clients and the worker's thread give every pair of
racing operations and a third party; three jobs give one executing, one queued,
one being posted, and every order of them; two names are needed only where a
cancellation distinguishes services. The liveness runs make do with two jobs of
one worker (a job whose code calls, and the one it posts) and four of the pool, which is what two jobs on two
workers that block on each other take. Two workers make a choice, and two threads
disagree about it. Six registry calls allow subscribe, register, call,
unregister and register again with one more in between; five allow a
registration, two jobs on two workers, and what each of them calls. Six calls of
the singleton let a fixture be set up twice around a creation of another thread. `LoadMod = 16` is far
above the number of jobs, so a wrapped counter is a large value as in the
program. The bounds `MaxJobs`, `MaxCancels`, `MaxWalks` and `MaxCalls` limit
only the start of operations, never a step of one in progress.

Deadlock is checked, also where the code can block for ever: `AtRest` describes
the states in which nothing more is to happen, and those are the ones in which
each thread is outside of the code or `Doomed`. `Doomed` says that a thread is in, or
behind, a circle of threads that wait for each other, computed from who waits for
what (`WaitsFor`); a thread that waits in vain, because the job it waits for was
cancelled or came too late, waits for itself. A thread stuck for any
other reason, such as a wake-up that was lost, is reported. Only the violation
`scheduler_unregister` leaves the check out. Symmetry is used in safety runs, of
clients with the same operations and of service names.

Runs that end in a violation show where the code does not do what the
repository says; the finding in `PROJECT.json` quotes the line:

| run | what TLC finds |
|---|---|
| `worker_cancel_scope` | cancelling one service erases the jobs of all (`Worker.cpp:120` returns true) |
| `worker_load_wrap` | the load wraps below zero when the worker is faster than the poster |
| `worker_sync_cancelled` | a blocking caller whose job is cancelled never returns |
| `scheduler_unregister` | unregistering waits, with the lock, for a job that needs the lock |
| `global_singleton` | two first calls create two schedulers |

What holds in spite of them is part of the result: the load is off by at most one
per thread at any time (`LoadDriftBounded`), a cancellation passes a context of
its service only while no job's code runs, and under *any* mixture of these
calls no job runs twice, out of order, or after it was cancelled.

Known divergences without a run of their own. They are behaviours of the models
above, met while writing them, which the properties are worded to allow:

* `cancelJobsFor` returns while a job of its service is still executing, unless
  another one is queued (`test/WorkerTest.cpp:12` expects it to wait);
  `CancelPassesNoRunningJob` is what is left of that promise.
* A cancellation between the push and the count of a job leaves the load one too
  high for good (`Worker.cpp:122` against `Worker.h:47`): `LoadDriftBounded`
  has its upper limit.
* A canceller holding `queueLock_` waits for a job that posts to the same worker:
  both block, and all later posters with them (against the comment at
  `Worker.cpp:43`). `CallsReturn` says that only those do.
* A job posted after `stop` has cleared `active_` is accepted and may never run
  (`docs/crc.pu:30`); `late` marks those jobs in `StopDrains`, `JobsSettle`,
  `JobsRun` and `StopDrainsThePool`. If such a job arrives after the thread has left `run`,
  a second `stop` that had passed the check of `active_` polls for ever.
* `start` after `stop` does nothing (`InterfaceScheduler.cpp:13`): the pool stays
  without threads, jobs are accepted and never run.
* Destroying a scheduler that was not stopped, while its jobs schedule others, lets
  these jobs use workers that are gone (`UsesFreed`); `QuietAfterStop` is the
  guarantee that `stop` before the destruction buys.
* A job being executed is not part of the load: jobs pile up behind it while a
  worker is idle (`test/SchedulePoolTest.cpp:22` expects an even distribution,
  with a mocked load).
* A blocking call made by a job may be queued behind that job, and two jobs may
  block on each other's workers.
* `waitForDone` decides whether an asynchronous call blocks and is ignored for a
  synchronous one (`InterfaceScheduler.cpp:72`); `ArgDefs.hpp:28` has it the other
  way round.
* A watcher that throws leaves the watchers in place (`README.md:92`).
* A watcher that unregisters its service, or makes a synchronous call whose action
  does, takes the service from the watchers after it, and by subscribing again
  changes the vector being iterated over. The runs leave those calls out.

## 4. Fairness

Weak fairness for each thread inside an operation (`Continue(t)`) and for each
worker's loop (`Run`): the operating system schedules every thread, mutexes and
condition variables let a waiter go on when nothing prevents it for ever, and
the code of a job, a watcher or a service returns. No fairness is assumed of the start of an operation,
of a spurious wakeup, or of an exception. Weak fairness is enough because the
bounds end all contention; `CallsReturn` therefore says that `stop` returns once
the others stop posting, not that it wins against posters without end (it does
not: it only polls).

`CallsReturn` reads "each thread is idle again and again, or is doomed from some
time on". With `Doomed` in it the property holds for every mixture of calls, those
that block for ever included, and says exactly who pays: a caller outside of the
circle always returns. The
mutants show that it is not satisfied by everything: they drop the notification of
`doJob` and `stop` or of `stop` alone, or invert the predicate that `cancelJobsFor`
waits for, and each leaves a thread stuck that is not doomed. `JobsRun` is written with
`[]<>`, which says the same as a leads-to for each job, since a job that has settled
stays so, and which TLC checks in half the time.

## 5. Proofs

Every safety invariant, every safety action property and every refinement that a
passing run checks is also a theorem. The runs show them on the instances of
section 3, the theorems for every set of clients, services, names, types and
strands, every pool size, every `May` and every value of the bounds. Where to find
what (`PROJECT.json` lists the theorems with the property each one states):

| module | theorems |
|---|---|
| `AsyncWorkerProofs` | `InductiveInvariant`, `TypeCorrect`, `NoWakeupIsLost`, `JobsRunInOrder`, `StopDrainsTheQueue`, `WakeUpFindsItsCaller`, `LoadIsCounted`, `LoadDriftIsBounded`, `LoadIsExact` |
| `AsyncWorkerRefinement` | `JobsLiveInOrder`, `CancelWaitsForRunningJob`, `WorkerImplementsQueue` |
| `AsyncDispatcherProofs` | `PoolInvariant`, `PoolTypeCorrect`, `StrandsKeepTheirWorker`, `StrandsAreSequential`, `PoolIsQuietAfterStop`, `CancellationReachesAllWorkers`, `StopDrainsAllWorkers` |
| `AsyncDispatcherRefinement` | `PoolImplementsQueues` |
| `InterfaceSchedulerProofs` | `SchedulerInvariant`, `SchedulerTypeCorrect`, `MappingLockIsExclusive`, `ArgumentsFitTheirAction`, `UnregistrationCancelsJobs`; with a hypothesis `WatchedServicesStay`, `WatchersSeeTheirService`, `IteratorsStayValid` |
| `InterfaceSchedulerRefinement` | with a hypothesis `WatchersAreCounted`, `WatchersAreToldOnce`, `NoWatcherIsForgotten`, `SchedulerImplementsDirectory` |
| `GlobalSchedulerProofs` | `InvariantHolds`, `GlobalTypeCorrect`, `CreatedTellsTheTruth`, `NoSchedulerDeletedTwice`, `UndisturbedGetIsAlive`, `LoneCreationLeaksNothing`, `UndisturbedFixtureGetsMock` |

### What is assumed

The assumptions on the constants, which TLC evaluates in every run: the sentinels
differ from threads and names, clients differ from workers, bounds are natural
numbers, a pool has a worker and a counter a value, there is a type of arguments.
Two say something about the program: `DispatcherAssumption` gives the scheduler
one owner (see section 2), and `ThreadsAssumption` gives a process finitely many
threads, so that those that post at a time can be counted.

Two hypotheses stand in the theorems that need them, and nowhere else:

* `WatchersKeepServices`: no watcher unregisters a service, nor calls one
  synchronously whose action may. Without it the theorems about watchers are false:
  the loop of `InterfaceScheduler.cpp:49` calls the next watcher for a service that
  is gone, and iterates over a vector that changes if the watcher subscribes again.
* `WatchersBehave`: nor does a watcher throw. A watcher that throws leaves those
  after it uncalled and all of them in place, to be called a second time
  (`InterfaceScheduler.cpp:50`).

The runs satisfy them: `scheduler_throwing` the first, with watchers that throw, and
`scheduler_registry` both. Clients and services may do anything.

### AsyncWorker

None of the safety properties is inductive. `IInv` adds to them

* `QueueIsSuffix`: `calls_` is a suffix of the history and exactly what is
  queued; this is what makes `NoOvertaking` follow;
* `CurrentIsTaken`: the one context that is neither queued nor settled is the
  worker's local `ctx`; with it the queue of the abstract specification runs at
  most one job;
* `LocksHeld`: what `executing_`, `executingLock_` and `queueLock_` say about
  the places where threads are; `CancelPassesNoRunningJob` follows;
* `WaitersMatch`: every unfinished job of `doSyncJob` has a caller of its own,
  still inside; needed since one thread may have several blocking jobs in the
  history;
* `StopInProgress`: once `active_` is clear only late jobs are queued, and the
  thread leaves `run` only then; with `CurrentIsTaken` it gives `StopDrains`.

The proof has a lemma for each action that does more than move a program
counter (`PushStep`, `CancelEraseStep`, `TakeFirstJobStep` and so on), with a step per
conjunct that the action can disturb; `BeginStep`, `ContinueStep` and `RunStep`
collect them, and `SetState` and `JobFields` say what an update or an append does to
the records in `jobs`. In `AsyncWorkerRefinement`, `JobsChange` says that five
actions change a context at all, and the `...Effect` lemmas what each of them does;
the action properties and the refinement share them.

The load is a second invariant, `LoadInv`, inductive with `IInv`:
`Len(calls) + d = outstanding + |Posters| + k * LoadMod`, where `Posters` are the
threads that have pushed and not yet counted, `k` counts the turns of the wrapped
counter, and `d` is the number of jobs that were uncounted when the last cancellation
reset it: between 0 and the number of threads, and 0 before any cancellation.
`WrapAround` and `WholeTurns` are the arithmetic of the `size_t`; `PushLoad`,
`CountLoad`, `TakeLoad` and `EraseLoad` are the four actions that move a term. Both
properties of the load are its remainder modulo `LoadMod`.

### AsyncDispatcher

`IInv` says what the locals of a call in progress still mean while all others go on:

* `CallInv`, per call: a job about to be pushed has its strand bound to the worker
  chosen (`BoundOK`, from which `StrandAffinity` is kept); a cancellation has left
  nothing queued, up to its mark, on the workers it has passed (`PassedOK`); a stop has
  ended the threads of those it has passed, and clears `active_` before it joins
  (`StoppedOK`); only the owner is in `start`, `stop` or the destructor (`OwnerOK`);
* `OrderInv`: the jobs of one worker leave its queue in order, one at a time;
  `StrandSequential` is this and `StrandAffinity`;
* `ThreadInv`: a thread that has ended executes nothing, and a worker is inside of a
  call only while a job of it runs;
* `PoolInv`: an inactive worker has ended or is being joined, and what is queued on it
  was late; with `StoppedOK` it gives `StopDrainsThePool` and `QuietAfterStop`.

`MinIsLeast` (the first job of a queue, by well-founded induction as a theorem of the
library) is what the order of a worker's jobs rests on. In the refinement a job's
number is its rank among those pushed to its worker; `RankProperties` says that ranks
keep the order, and `PushRefines`, `TakeRefines` and so on take an action each.

### InterfaceScheduler

The state is a stack of frames per thread, so the invariant speaks of all frames and
not only of the top. `IInv` holds whatever the code calls and throws:

* `MutexInv`: one thread at most has frames in a section of `mappingLock_`;
* `StackInv`: a frame that has looked a registration up has arguments of its type
  (`regs` only grows, so this survives an unregistration), and a watcher's frame stands
  on the loop or subscription that called it back;
* `JobInv`: the same of queued and taken jobs; with `StackInv` it gives `ArgumentsFit`;
* `WaitInv`: the caller of a blocking job waits for that one alone, so that the end of
  a job wakes one frame, and the right one;
* `CancelInv`: a queued job whose registration is gone was late, or a thread with
  `mappingLock_` is on its way to its worker (`WillCancel`); `UnregisterCancels` is the
  case in which nobody holds the lock.

`KeptInv`, relative to `IInv` and under `WatchersKeepServices`: above a frame that
calls back there is only what a watcher may call, no two loops on a stack are over the
same service, and each of them is over a service that is registered. That is why the
recursive lock does no harm. `ToldInv`, under `WatchersBehave`, keeps the accounts of
the watchers: the loop runs over those that wait; who waits does so once, for one
service, and has been called only if the loop has passed it; who does not wait was called; and
watchers of a registered service wait only while its loop goes on. A watcher of the abstract
directory waits until it is called back, so the accounts are also the refinement
mapping of `ImplementsDirectory`.

### GlobalScheduler

`Inv`: `sharedMutex` is held exactly in the middle of a creation or a release, and
`created` and `theScheduler` agree but for what its holder has still to do (`MutexInv`); a
get that no release has overlapped is alone with other gets, and past its check `created`
is set (`GetInv`); a get that no other get has overlapped is the only one that creates,
and until it stores the pointer finds nullptr there (`LoneGetInv`); a fixture goes
through `SetUp` in order (`ScriptInv`), and if nothing overlaps it finds `created` reset by its own
release and creates a mock (`FixtureInv`). That no call of the kind named overlaps is part of
`GetIsAlive`, `OnlyRacesLeak` and `FixtureGetsMock`, and needed: a release between the
unlocked check and the dereference leaves a null pointer, a get that overlaps another
creates a second scheduler over the first, and a get before the fixture's own leaves a
scheduler that is no mock.

### Only model-checked

Liveness: `JobsSettle`, `JobsRun` and `CallsReturn` of the three modules. They hold
under weak fairness, and fairness (`ENABLED`) is out of the prover's reach. So is the
absence of deadlocks other than those of doomed threads, checked through `AtRest`. The
violations are counterexamples and need no proof.

## 6. Not modelled

* Two owners that start or stop one scheduler at once, and calls before `start` or
  during the destructor: undefined behaviour at the first step, so that nothing the code
  keeps could be stated. `PROJECT.json` lists them as hazards without a property.
* Exceptions thrown by a job: they leave `run` and end the process.
* Empty actions: `registerInterface` and `registerInterfaceFor` throw before they
  touch any state.
* `getStatistics`, `dumpWorkersLoad`, `getId`, `profileFor`: they only read.
* The template machinery of `ArgDefs.hpp` and `Helper.hpp` beyond the type name and
  the closure: it is resolved by the compiler.
* The methods of the mocks (they record calls for gmock), the tests and the demo
  (an example of use).
* The vendored gtest and gmock (48,435 of the repository's 49,194 lines of C++).
  The library's own sources under `src/` and `include/` have 651 lines, of which
  the map of `PROJECT.json` covers about three quarters; the rest is includes,
  declarations, blank lines and what this list names.

## 7. Plan

Written so far, in this order: the worker and its abstract queue, the proofs
about it, the pool with its life cycle, the registry composed with the pool, the
abstract directory, the singleton with its fixtures, and the proofs of all
safety properties and refinements. What is left:

1. The stable part of the liveness arguments: that a thread in a circle of waiting
   threads stays there, as an action property of `WaitsFor`, for the worker, the pool
   and the scheduler. `CallsReturn` reads "doomed from some time on" and TLC checks it,
   but no theorem says that the circle is permanent.
2. Lemmas on who may wait for whom (a canceller with `queueLock_` waits for the
   executing job only, a registry call for the holder of `mappingLock_` only).

The handshake of `doSyncJob` stays one step: `finished` is set and `cond` notified in one section of
`flagMutex`, and the caller destroys both only after it has locked that mutex
again.
