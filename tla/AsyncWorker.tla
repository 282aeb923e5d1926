----------------------------- MODULE AsyncWorker -----------------------------
(***************************************************************************)
(* One AsyncWorker (src/Worker.h, src/Worker.cpp): a queue of jobs, the    *)
(* thread that runs them one by one, and the threads that call doJob,      *)
(* doSyncJob, cancelJobsFor, stop and blockUntilReady on it.  The jobs'    *)
(* own code runs on the worker's thread and may call the same operations:  *)
(* the worker is a calling thread too.                                     *)
(*                                                                         *)
(* A step is a critical section of queueLock_, or one access to an atomic  *)
(* or to a condition variable outside of it.  queueLock_ and executingLock_*)
(* are variables only where a thread keeps them over a blocking call.      *)
(***************************************************************************)
EXTENDS Naturals, Sequences, FiniteSets

CONSTANTS
  Clients,      \* threads that call the worker, its own thread excluded
  Worker,       \* the worker's own thread (thread_)
  Names,        \* service names (JobContext::id)
  None,         \* no thread, no name
  May,          \* May[t]: the operations thread t (a job, for Worker) may call
  MaxJobs,      \* bound: jobs posted in a behaviour
  MaxCancels,   \* bound: calls of cancelJobsFor in a behaviour
  LoadMod       \* outstandingJobs_ is a size_t: it counts modulo LoadMod

Threads == Clients \cup {Worker}
Ops == {"doJob", "doSyncJob", "cancelJobsFor", "stop"}

ASSUME ConstantsAssumption ==
  /\ Worker \notin Clients
  /\ None \notin Threads
  /\ None \notin Names
  /\ May \in [Threads -> SUBSET Ops]
  /\ MaxJobs \in Nat
  /\ MaxCancels \in Nat
  /\ LoadMod \in Nat \ {0}

\* A process has finitely many threads: those that post at a time can be counted.
ASSUME ThreadsAssumption == IsFiniteSet(Clients)

VARIABLES
  jobs,           \* every context pushed so far, in order; never read by the code
  calls,          \* calls_: the positions in jobs of the queued contexts
  outstanding,    \* outstandingJobs_
  active,         \* active_
  ready,          \* ready_
  queueLock,      \* holder of queueLock_ between two steps
  executingLock,  \* holder of executingLock_ between two steps
  executing,      \* executing_
  wpc,            \* where the worker's thread is in run()
  current,        \* position in jobs of the context the worker's thread copied out, or 0
  pc,             \* where each thread is in the operation it called
  name,           \* the service name that operation was given
  flag,           \* doSyncJob's local: "none" (not in it), "pending", "finished"
  scan,           \* position of cancelJobsFor's remove_if in calls_
  joiner,         \* the thread that called thread_.join()
  cancels         \* calls of cancelJobsFor so far

workerVars == <<ready, executingLock, executing, wpc, current>>
callerVars == <<pc, name, flag, scan, joiner, cancels>>
vars == <<jobs, calls, outstanding, active, queueLock, workerVars, callerVars>>

(***************************************************************************)
(* A context is pushed as queued; the worker takes it, runs its action,    *)
(* then its onDone; or it is erased by cancelJobsFor.  late records that   *)
(* stop had already cleared active_ when it was pushed.                    *)
(***************************************************************************)
JobStates == {"queued", "taken", "ran", "done", "cancelled"}
Job == [name: Names, waiter: Threads \cup {None}, state: JobStates, late: BOOLEAN]

Init ==
  /\ jobs = <<>> /\ calls = <<>>
  /\ outstanding = 0 /\ active = TRUE /\ ready = FALSE
  /\ queueLock = None /\ executingLock = None /\ executing = FALSE
  /\ wpc = "start" /\ current = 0
  /\ pc \in [Threads -> {"idle", "blockUntilReady"}] /\ pc[Worker] = "idle"
  /\ name = [t \in Threads |-> None]
  /\ flag = [t \in Threads |-> "none"]
  /\ scan = 0 /\ joiner = None /\ cancels = 0

Goto(t, label) == pc' = [pc EXCEPT ![t] = label]
InState(S) == {i \in DOMAIN jobs : jobs[i].state \in S}

NobodyWoken == wpc   \* mutant: queueCond_ is not notified
Woken == IF wpc = "waiting" THEN "acquire" ELSE wpc   \* queueCond_.notify_all()

PendingAndOngoing == InState({"queued", "taken", "ran"})   \* mutant: the ongoing job, too
Pending == {i \in DOMAIN jobs : jobs[i].state = "queued"}

(***************************************************************************)
(* The operations.  A thread starts one when it is in none; the worker's   *)
(* thread only from within the code of a job.                              *)
(***************************************************************************)
Enter(t, op, label) ==
  /\ op \in May[t]
  /\ pc[t] = "idle"
  /\ t = Worker => wpc \in {"action", "onDone"}
  /\ Goto(t, label)
  /\ UNCHANGED <<jobs, calls, outstanding, active, queueLock, workerVars, scan, joiner>>

RoomForAJob ==
  Len(jobs) + Cardinality({t \in Threads : pc[t] = "push"}) < MaxJobs

DoJob(t, n) ==
  /\ RoomForAJob
  /\ Enter(t, "doJob", "push")
  /\ name' = [name EXCEPT ![t] = n]
  /\ UNCHANGED <<flag, cancels>>

DoSyncJob(t, n) ==
  /\ RoomForAJob
  /\ Enter(t, "doSyncJob", "push")
  /\ name' = [name EXCEPT ![t] = n]
  /\ flag' = [flag EXCEPT ![t] = "pending"]
  /\ UNCHANGED cancels

Push(t) ==
  /\ pc[t] = "push"
  /\ queueLock = None
  /\ jobs' = Append(jobs, [name |-> name[t], state |-> "queued", late |-> ~active,
                           waiter |-> IF flag[t] = "none" THEN None ELSE t])
  /\ calls' = Append(calls, Len(jobs) + 1)
  /\ name' = [name EXCEPT ![t] = None]
  /\ Goto(t, "notify")
  /\ UNCHANGED <<outstanding, active, queueLock, workerVars, flag, scan, joiner, cancels>>

Notify(t) ==
  /\ pc[t] = "notify"
  /\ wpc' = Woken
  /\ Goto(t, "count")
  /\ UNCHANGED <<jobs, calls, outstanding, active, queueLock, ready, executingLock,
                 executing, current, name, flag, scan, joiner, cancels>>

Count(t) ==
  /\ pc[t] = "count"
  /\ outstanding' = (outstanding + 1) % LoadMod
  /\ Goto(t, IF flag[t] = "none" THEN "idle" ELSE "wait")
  /\ UNCHANGED <<jobs, calls, active, queueLock, workerVars, name, flag, scan, joiner, cancels>>

\* Mutant of WaitFinished: cond.wait without its predicate.
WaitOnce(t) ==
  /\ pc[t] = "wait"
  /\ flag' = [flag EXCEPT ![t] = "none"]
  /\ Goto(t, "idle")
  /\ UNCHANGED <<jobs, calls, outstanding, active, queueLock, workerVars, name, scan, joiner, cancels>>

WaitFinished(t) ==
  /\ pc[t] = "wait"
  /\ flag[t] = "finished"
  /\ flag' = [flag EXCEPT ![t] = "none"]
  /\ Goto(t, "idle")
  /\ UNCHANGED <<jobs, calls, outstanding, active, queueLock, workerVars, name, scan, joiner, cancels>>

(***************************************************************************)
(* cancelJobsFor keeps queueLock_ while remove_if visits every context.  A *)
(* context of the given name is passed only once executingLock_ is free    *)
(* and executing_ false; the predicate returns true for every context, so  *)
(* all of them are erased.                                                 *)
(***************************************************************************)
CancelJobsFor(t, n) ==
  /\ cancels < MaxCancels
  /\ Enter(t, "cancelJobsFor", "lock")
  /\ name' = [name EXCEPT ![t] = n]
  /\ cancels' = cancels + 1
  /\ UNCHANGED flag

CancelLock(t) ==
  /\ pc[t] = "lock"
  /\ queueLock = None
  /\ queueLock' = t
  /\ scan' = 1
  /\ Goto(t, "scan")
  /\ UNCHANGED <<jobs, calls, outstanding, active, workerVars, name, flag, joiner, cancels>>

AssumedNotExecuting == TRUE   \* mutant: executingCond_ is not waited on
NotExecuting == executingLock = None /\ ~executing

CancelVisit(t) ==
  /\ pc[t] = "scan"
  /\ scan <= Len(calls)
  /\ jobs[calls[scan]].name = name[t] => NotExecuting
  /\ scan' = scan + 1
  /\ UNCHANGED <<jobs, calls, outstanding, active, queueLock, workerVars, pc, name, flag, joiner, cancels>>

CancelErase(t) ==
  /\ pc[t] = "scan"
  /\ scan > Len(calls)
  /\ jobs' = [i \in DOMAIN jobs |->
                IF i \in Pending THEN [jobs[i] EXCEPT !.state = "cancelled"] ELSE jobs[i]]
  /\ calls' = <<>>
  /\ outstanding' = 0
  /\ queueLock' = None
  /\ scan' = 0
  /\ name' = [name EXCEPT ![t] = None]
  /\ Goto(t, "idle")
  /\ UNCHANGED <<active, workerVars, flag, joiner, cancels>>

(***************************************************************************)
(* stop: wait until the queue is empty, clear active_, wake the worker and *)
(* join it.  A second join, or a join by the worker itself, throws         *)
(* std::system_error out of stop, to a caller that catches it.             *)
(***************************************************************************)
Stop(t) ==
  /\ active
  /\ Enter(t, "stop", "drain")
  /\ UNCHANGED <<name, flag, cancels>>

AssumedDrained == TRUE   \* mutant: stop does not wait
Drained == calls = <<>>

WaitForOutstandingJobsToFinish(t) ==
  /\ pc[t] = "drain"
  /\ queueLock = None
  /\ Drained
  /\ active' = FALSE
  /\ wpc' = Woken
  /\ Goto(t, "join")
  /\ UNCHANGED <<jobs, calls, outstanding, queueLock, ready, executingLock, executing,
                 current, name, flag, scan, joiner, cancels>>

Join(t) ==
  /\ pc[t] = "join"
  /\ IF joiner = None /\ t # Worker
       THEN joiner' = t /\ Goto(t, "joining")
       ELSE UNCHANGED joiner /\ Goto(t, "idle")
  /\ UNCHANGED <<jobs, calls, outstanding, active, queueLock, workerVars, name, flag, scan, cancels>>

Joined(t) ==
  /\ pc[t] = "joining"
  /\ wpc = "exited"
  /\ Goto(t, "idle")
  /\ UNCHANGED <<jobs, calls, outstanding, active, queueLock, workerVars, name, flag, scan, joiner, cancels>>

BlockUntilReady(t) ==
  /\ pc[t] = "blockUntilReady"
  /\ ready
  /\ Goto(t, "idle")
  /\ UNCHANGED <<jobs, calls, outstanding, active, queueLock, workerVars, name, flag, scan, joiner, cancels>>

(***************************************************************************)
(* The worker's thread: run() and scheduleFirstOutstandingJob().           *)
(***************************************************************************)
SetReady ==
  /\ wpc = "start"
  /\ ready' = TRUE
  /\ wpc' = "check"
  /\ UNCHANGED <<jobs, calls, outstanding, active, queueLock, executingLock, executing, current, callerVars>>

CheckActive ==
  /\ wpc = "check"
  /\ wpc' = IF active THEN "acquire" ELSE "exited"
  /\ UNCHANGED <<jobs, calls, outstanding, active, queueLock, ready, executingLock,
                 executing, current, callerVars>>

\* Under the lock with nothing queued: from the top of the loop it waits
\* unless active_ is false, after a job it goes back to the top of the loop.
NothingQueued ==
  /\ wpc \in {"acquire", "relock"}
  /\ queueLock = None
  /\ calls = <<>>
  /\ wpc' = IF wpc = "acquire" /\ active THEN "waiting" ELSE "check"
  /\ UNCHANGED <<jobs, calls, outstanding, active, queueLock, ready, executingLock,
                 executing, current, callerVars>>

SpuriousWakeup ==
  /\ wpc = "waiting"
  /\ wpc' = "acquire"
  /\ UNCHANGED <<jobs, calls, outstanding, active, queueLock, ready, executingLock,
                 executing, current, callerVars>>

LastJob == calls[Len(calls)]   \* mutant: the copy is made from the back
FirstJob == Head(calls)

NotDiscounted == outstanding                                    \* mutants: not decremented,
SignedDiscounted == outstanding - 1                             \* a signed counter,
TwiceDiscounted == (outstanding + (LoadMod - 2)) % LoadMod      \* decremented twice
Discounted == (outstanding + (LoadMod - 1)) % LoadMod

TakeFirstJob ==
  /\ wpc \in {"acquire", "relock"}
  /\ queueLock = None
  /\ calls # <<>>
  /\ current' = FirstJob
  /\ calls' = Tail(calls)
  /\ jobs' = [jobs EXCEPT ![FirstJob].state = "taken"]
  /\ outstanding' = Discounted
  /\ wpc' = "taken"
  /\ UNCHANGED <<active, queueLock, ready, executingLock, executing, callerVars>>

BeginExecuting ==
  /\ wpc = "taken"
  /\ executingLock = None
  /\ executingLock' = Worker
  /\ executing' = TRUE
  /\ wpc' = "action"
  /\ UNCHANGED <<jobs, calls, outstanding, active, queueLock, ready, current, callerVars>>

RunAction ==
  /\ wpc = "action"
  /\ pc[Worker] = "idle"
  /\ jobs' = [jobs EXCEPT ![current].state = "ran"]
  /\ wpc' = "onDone"
  /\ UNCHANGED <<calls, outstanding, active, queueLock, ready, executingLock, executing,
                 current, callerVars>>

FlagsSet == [t \in Threads |-> IF t = jobs[current].waiter THEN "finished" ELSE flag[t]]

\* The caller's onDone, then, for a job of doSyncJob, the wake-up of its waiter.
RunOnDone ==
  /\ wpc = "onDone"
  /\ pc[Worker] = "idle"
  /\ jobs' = [jobs EXCEPT ![current].state = "done"]
  /\ flag' = FlagsSet
  /\ wpc' = "finish"
  /\ UNCHANGED <<calls, outstanding, active, queueLock, ready, executingLock, executing,
                 current, pc, name, scan, joiner, cancels>>

EndExecuting ==
  /\ wpc = "finish"
  /\ executing' = FALSE
  /\ executingLock' = None
  /\ current' = 0
  /\ wpc' = "relock"
  /\ UNCHANGED <<jobs, calls, outstanding, active, queueLock, ready, callerVars>>

-----------------------------------------------------------------------------
\* A thread inside an operation, and the worker's loop, keep running; nothing
\* makes a client start an operation, or the C++ library wake up a waiter.
Continue(t) ==
  \/ Push(t) \/ Notify(t) \/ Count(t) \/ WaitFinished(t)
  \/ CancelLock(t) \/ CancelVisit(t) \/ CancelErase(t)
  \/ WaitForOutstandingJobsToFinish(t) \/ Join(t) \/ Joined(t)
  \/ BlockUntilReady(t)

Begin(t) ==
  \/ \E n \in Names : DoJob(t, n) \/ DoSyncJob(t, n) \/ CancelJobsFor(t, n)
  \/ Stop(t)

Run ==
  \/ SetReady \/ CheckActive \/ NothingQueued \/ TakeFirstJob
  \/ BeginExecuting \/ RunAction \/ RunOnDone \/ EndExecuting

\* t waits for a job that was cancelled, or for what the thread that has left
\* run() will not do: run the job of a blocking call, empty the queue for stop.
WaitsInVain(t) ==
  \/ pc[t] = "wait" /\ \E i \in InState({"cancelled"}) : jobs[i].waiter = t /\ flag[t] = "pending"
  \/ pc[t] = "wait" /\ wpc = "exited" /\ \E i \in Pending : jobs[i].waiter = t
  \/ pc[t] = "drain" /\ wpc = "exited" /\ calls # <<>>

\* What t is in cannot go on before u does something.
WaitsFor(t, u) ==
  \/ /\ u = queueLock
     /\ pc[t] \in {"push", "lock", "drain"} \/ (t = Worker /\ wpc \in {"acquire", "relock"})
  \/ /\ u = Worker
     /\ \/ pc[t] = "drain" /\ calls # <<>>
        \/ pc[t] = "scan" /\ scan <= Len(calls) /\ jobs[calls[scan]].name = name[t] /\ ~NotExecuting
        \/ pc[t] = "joining" /\ wpc # "exited"
        \/ pc[t] = "wait" /\ flag[t] = "pending"
  \/ u = t /\ WaitsInVain(t)

\* t waits, through others or not, for a circle of threads that wait for each other.
Doomed(t) ==
  \E S \in SUBSET Threads : t \in S /\ \A x \in S : \E u \in S : WaitsFor(x, u)

\* Every call that can has returned, and the worker's thread has nothing left to do.
AtRest ==
  /\ \A t \in Threads : pc[t] = "idle" \/ Doomed(t)
  /\ wpc \in {"waiting", "exited"} \/ Doomed(Worker)
  /\ UNCHANGED vars

Next ==
  \/ \E t \in Threads : Begin(t) \/ Continue(t)
  \/ Run
  \/ SpuriousWakeup
  \/ AtRest

Spec == Init /\ [][Next]_vars

\* Threads are scheduled, and the code of the jobs terminates.
Fairness ==
  /\ \A t \in Threads : WF_vars(Continue(t))
  /\ WF_vars(Run)

FairSpec == Spec /\ Fairness

-----------------------------------------------------------------------------
\* Every variable has its type; a thread about to push has a name for the job.
TypeOK ==
  /\ jobs \in Seq(Job)
  /\ calls \in Seq(Nat)
  /\ outstanding \in 0..(LoadMod - 1)
  /\ active \in BOOLEAN /\ ready \in BOOLEAN /\ executing \in BOOLEAN
  /\ queueLock \in Threads \cup {None}
  /\ executingLock \in {Worker, None}
  /\ wpc \in {"start", "check", "acquire", "waiting", "taken", "action", "onDone",
              "finish", "relock", "exited"}
  /\ current \in 0..Len(jobs)
  /\ pc \in [Threads -> {"idle", "blockUntilReady", "push", "notify", "count", "wait",
                         "lock", "scan", "drain", "join", "joining"}]
  /\ name \in [Threads -> Names \cup {None}]
  /\ \A t \in Threads : pc[t] = "push" => name[t] \in Names
  /\ flag \in [Threads -> {"none", "pending", "finished"}]
  /\ scan \in Nat /\ cancels \in Nat
  /\ joiner \in Threads \cup {None}

\* No lost wakeup: the worker's thread never sleeps in queueCond_.wait with
\* work queued or active_ cleared, unless a poster that has pushed has still
\* to call notify_all (doJob notifies after it released queueLock_).
NoLostWakeup ==
  wpc = "waiting" =>
    /\ active
    /\ calls # <<>> => \E t \in Threads : pc[t] = "notify"

\* No overtaking: while a context is queued no context pushed after it has
\* been taken from calls_, whatever was cancelled in between.
NoOvertaking ==
  \A i, j \in DOMAIN jobs :
    i < j /\ jobs[i].state = "queued" => jobs[j].state \notin {"taken", "ran", "done"}

\* stop loses nothing accepted before it: when the thread has left run(),
\* every job pushed while active_ was set has run to its end or was cancelled.
StopDrains ==
  wpc = "exited" =>
    \A i \in DOMAIN jobs : jobs[i].late \/ jobs[i].state \in {"done", "cancelled"}

\* A blocking call outlives its job: until the action and the onDone of a job
\* of doSyncJob have returned, its caller is still inside doSyncJob, so that the
\* wake-up writes to locals (finished, flagMutex, cond) that still exist; a caller
\* never returns for an earlier job, nor when its job was cancelled.
BlockingCallOutlivesJob ==
  \A i \in DOMAIN jobs :
    LET w == jobs[i].waiter
    IN  w # None /\ jobs[i].state # "done" =>
          flag[w] = "pending" /\ pc[w] \in {"notify", "count", "wait"}

\* The load seen by the dispatcher is off by at most one per thread: with
\* every job pushed but not yet counted added, outstandingJobs_ exceeds the
\* length of the queue by 0..|Threads| (modulo the size of size_t), however many
\* cancellations reset it under the feet of posters.
Uncounted == Cardinality({t \in Threads : pc[t] \in {"notify", "count"}})
LoadDriftBounded ==
  \E d \in 0..Cardinality(Threads) :
    (outstanding + Uncounted) % LoadMod = (Len(calls) + d) % LoadMod

\* Until the first cancellation outstandingJobs_ is exactly the length of the
\* queue less the jobs still to be counted: no increment or decrement is lost.
LoadExact ==
  cancels = 0 => (outstanding + Uncounted) % LoadMod = Len(calls) % LoadMod

\* A job is run at most once, in full, and never after it was cancelled:
\* the only steps of a context are queued -> taken -> ran -> done and
\* queued -> cancelled.
JobProgress == {<<"queued", "taken">>, <<"queued", "cancelled">>,
                <<"taken", "ran">>, <<"ran", "done">>}
JobsProgress ==
  \A i \in DOMAIN jobs :
    \/ jobs'[i].state = jobs[i].state
    \/ <<jobs[i].state, jobs'[i].state>> \in JobProgress
JobLifecycle == [][JobsProgress]_vars

\* cancelJobsFor steps over a context of its service only while no code of
\* a job is running on the worker (this is all that is left of the promise that it
\* waits for an ongoing job).
PassesNoRunningJob ==
  \A t \in Threads :
    pc[t] = "scan" /\ scan' = scan + 1 /\ jobs[calls[scan]].name = name[t]
      => wpc \notin {"action", "onDone", "finish"}
CancelPassesNoRunningJob == [][PassesNoRunningJob]_vars

\* Every job accepted before stop is eventually run or cancelled, unless the
\* worker's thread is caught in a circle of waiting threads, which takes a job
\* that blocks on its own worker, or a canceller waiting for a job that needs
\* the lock it holds.
JobsSettle ==
  \A i \in 1..MaxJobs :
    (i \in DOMAIN jobs /\ ~jobs[i].late) ~>
      Doomed(Worker) \/ (i \in DOMAIN jobs /\ jobs[i].state \in {"done", "cancelled"})

\* Every call on the worker returns, whatever the others and the jobs call,
\* concurrent stops and a stop by a job included: the only calls that do not are
\* for ever part of, or behind, a circle of threads that wait for each other or a
\* blocking call whose job was cancelled or came too late.
CallsReturn == \A t \in Threads : []<>(pc[t] = "idle") \/ <>[]Doomed(t)

-----------------------------------------------------------------------------
(***************************************************************************)
(* The inductive invariant behind the safety properties.                   *)
(***************************************************************************)

\* calls_ is always the tail of everything pushed: only its front leaves.
QueueIsSuffix ==
  /\ Len(calls) <= Len(jobs)
  /\ \A k \in DOMAIN calls : calls[k] = Len(jobs) - Len(calls) + k
  /\ \A i \in DOMAIN jobs : jobs[i].state = "queued" <=> i > Len(jobs) - Len(calls)

\* The one context that is neither queued nor settled is the worker's local ctx.
CurrentIsTaken ==
  /\ wpc \in {"taken", "action"} => current # 0 /\ jobs[current].state = "taken"
  /\ wpc = "onDone" => current # 0 /\ jobs[current].state = "ran"
  /\ \A i \in DOMAIN jobs :
       jobs[i].state \in {"taken", "ran"} => i = current /\ wpc \in {"taken", "action", "onDone"}

\* executing_ is set exactly while the worker holds executingLock_, and only
\* a thread in the middle of cancelJobsFor keeps queueLock_.
LocksHeld ==
  /\ executing <=> wpc \in {"action", "onDone", "finish"}
  /\ executing <=> executingLock = Worker
  /\ \A t \in Threads : queueLock = t <=> pc[t] = "scan"

\* Each unfinished job of doSyncJob has a caller of its own, still waiting.
WaitersMatch ==
  /\ BlockingCallOutlivesJob
  /\ \A i, j \in DOMAIN jobs :
       /\ jobs[i].waiter # None /\ jobs[i].waiter = jobs[j].waiter
       /\ jobs[i].state # "done" /\ jobs[j].state # "done"
       => i = j
  /\ \A t \in Threads :
       /\ flag[t] # "none" => pc[t] \in {"push", "notify", "count", "wait"}
       /\ pc[t] = "push" => flag[t] # "finished"

\* Once active_ is cleared only late jobs are queued, and the thread leaves
\* run() only then.
StopInProgress ==
  /\ wpc = "exited" => ~active
  /\ \A i \in DOMAIN jobs : jobs[i].state = "queued" /\ ~jobs[i].late => active

\* The inductive invariant: it implies NoLostWakeup, NoOvertaking, StopDrains
\* and BlockingCallOutlivesJob, none of which is inductive by itself.
IInv ==
  /\ TypeOK
  /\ QueueIsSuffix
  /\ CurrentIsTaken
  /\ LocksHeld
  /\ WaitersMatch
  /\ StopInProgress
  /\ NoLostWakeup

-----------------------------------------------------------------------------
(***************************************************************************)
(* The abstract queue that a worker implements: the contexts in calls_     *)
(* wait, the one in run()'s local ctx runs until its onDone has returned.  *)
(***************************************************************************)
Queue == INSTANCE JobQueue WITH
  posted <- Len(jobs),
  waiting <- Pending,
  running <- InState({"taken", "ran"}),
  done <- InState({"done"}),
  dropped <- InState({"cancelled"})

\* A worker is a first-in first-out queue served one job at a time, whose
\* waiting jobs may be dropped: no interleaving of posters, cancellers, stoppers
\* and the worker's thread loses, repeats, reorders or overlaps jobs.
ImplementsQueue == Queue!Spec

-----------------------------------------------------------------------------
(* What the documentation says and the code does not do. *)

\* AsyncDispatcher.h: "Cancel all outstanding jobs for give service".
CancelsOnlyItsService ==
  [][\A t \in Threads, i \in DOMAIN jobs :
       pc[t] = "scan" /\ pc'[t] = "idle" /\ jobs[i].state # jobs'[i].state
         => jobs[i].name = name[t]]_vars

\* Worker.h: outstandingJobs_ will "keep track of undone jobs": it never exceeds
\* the number of jobs not yet done.
LoadNotAboveUndone ==
  outstanding <= Cardinality({i \in DOMAIN jobs : jobs[i].state # "done"})

\* README.md: a blocking caller is "suspended until actual call is handled".
BlockingCallReturns == \A t \in Threads : pc[t] = "wait" ~> pc[t] = "idle"

=============================================================================
