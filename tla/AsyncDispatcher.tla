--------------------------- MODULE AsyncDispatcher ---------------------------
(***************************************************************************)
(* The AsyncDispatcher (src/AsyncDispatcher.cpp): a pool of workers from   *)
(* its start to its destruction, the choice of the worker that gets a job, *)
(* the binding of strands to workers, and the operations that walk over    *)
(* the whole pool.  start, stop and destroy are InterfaceScheduler's,      *)
(* which only adds started_.                                               *)
(*                                                                         *)
(* A worker is what module AsyncWorker shows it to be: a first-in          *)
(* first-out queue served one job at a time, a load counted up after the   *)
(* push and reset by cancellations, a queueLock_ kept while cancelJobsFor  *)
(* waits for the job being executed.                                       *)
(***************************************************************************)
EXTENDS Naturals, Sequences, FiniteSets, FiniteSetsExt

CONSTANTS
  Clients,   \* threads that call the dispatcher, the workers' own excluded
  PoolSize,  \* the argument of start
  Services,  \* service names
  Strands,   \* strand names, without the empty one
  None,      \* no thread, no worker; as a strand: the empty name
  May,       \* May[t]: the operations that thread t (a job, for a worker) may call
  MaxJobs,   \* bound: jobs scheduled in a behaviour
  MaxWalks,  \* bound: calls of cancelJobsFor and stop in a behaviour
  LoadMod    \* outstandingJobs_ counts modulo LoadMod

Workers == 1..PoolSize        \* by position in asyncWorkers_; also their threads
Threads == Clients \cup Workers
LifeOps == {"start", "stop", "destroy"}
Ops == {"scheduleJob", "scheduleSyncJob", "cancelJobsFor"} \cup LifeOps

\* The scheduler has one owner: one client starts, stops and destroys it.
ASSUME DispatcherAssumption ==
  /\ PoolSize \in Nat \ {0}
  /\ Clients \cap Workers = {}
  /\ None \notin Threads /\ None \notin Strands
  /\ May \in [Threads -> SUBSET Ops]
  /\ \A t, u \in Threads : May[t] \cap LifeOps # {} /\ May[u] \cap LifeOps # {} => t = u /\ t \in Clients
  /\ MaxJobs \in Nat /\ MaxWalks \in Nat
  /\ LoadMod \in Nat \ {0}

VARIABLES
  jobs,       \* every job pushed, in the order of the pushes
  load,       \* load[w]: getLoad() of worker w
  queueLock,  \* queueLock[w]: who keeps its queueLock_ in cancelJobsFor
  strands,    \* strands_: the worker a strand is bound to
  active,     \* active[w]: active_ of worker w
  life,       \* life[w]: how far worker w and its thread have come
  phase,      \* how far the owner has come; started_ is phase # "new"
  call,       \* call[t]: the call thread t is in, with its locals
  walks       \* calls of cancelJobsFor and stop so far

queueVars == <<jobs, load, queueLock>>
poolVars == <<strands, active, life, phase>>
vars == <<queueVars, poolVars, call, walks>>

JobStates == {"queued", "taken", "running", "done", "cancelled"}
Job == [name: Services, strand: Strands \cup {None}, worker: Workers, late: BOOLEAN,
        state: JobStates]   \* late: pushed after active_ was cleared
Lives == {"none", "created", "ready", "exited", "freed"}
Phases == {"new", "started", "stopped", "destroyed", "destroyedUnstopped"}

\* step: where the call is; at: the position of its loop over asyncWorkers_; best,
\* seen: min_element's worker so far and the load of the one at position at; mark:
\* the jobs pushed when it was called, for scheduleJob the job it pushed.
NoCall == [step |-> "idle", name |-> None, strand |-> None, sync |-> FALSE,
           at |-> 0, best |-> 0, seen |-> 0, mark |-> 0]

Init ==
  /\ jobs = <<>>
  /\ load = [w \in Workers |-> 0]
  /\ queueLock = [w \in Workers |-> None]
  /\ strands = [s \in Strands |-> None]
  /\ active = [w \in Workers |-> TRUE]
  /\ life = [w \in Workers |-> "none"] /\ phase = "new"
  /\ call = [t \in Threads |-> NoCall]
  /\ walks = 0

On(w, S) == {i \in DOMAIN jobs : jobs[i].worker = w /\ jobs[i].state \in S}
SetState(I, s) ==
  jobs' = [i \in DOMAIN jobs |-> IF i \in I THEN [jobs[i] EXCEPT !.state = s] ELSE jobs[i]]

In(t, step) == call[t].step = step
Idle(t) == In(t, "idle")
Become(t, c) == call' = [call EXCEPT ![t] = c]
Goto(t, step) == call' = [call EXCEPT ![t].step = step]
Return(t) == call' = [call EXCEPT ![t] = NoCall]

\* Clients call from the return of start until the owner destroys the scheduler;
\* a job's own code calls while its worker executes it.
Enter(t, op, c) ==
  /\ op \in May[t]
  /\ Idle(t)
  /\ IF t \in Workers THEN On(t, {"running"}) # {} ELSE phase \in {"started", "stopped"}
  /\ Become(t, c)
  /\ UNCHANGED <<queueVars, strands, active, life>>

(***************************************************************************)
(* start: creates the workers, then waits until each is ready.  A start of *)
(* a scheduler that was started, also one since stopped, does nothing.     *)
(***************************************************************************)
Start(t) ==
  /\ "start" \in May[t]
  /\ Idle(t) /\ phase = "new"
  /\ Become(t, [NoCall EXCEPT !.step = "create", !.at = 1])
  /\ UNCHANGED <<queueVars, poolVars, walks>>

CreateWorker(t) ==
  LET w == call[t].at
  IN  /\ In(t, "create")
      /\ life' = [life EXCEPT ![w] = "created"]
      /\ Become(t, IF w < PoolSize THEN [call[t] EXCEPT !.at = w + 1]
                                   ELSE [call[t] EXCEPT !.step = "await", !.at = 1])
      /\ UNCHANGED <<queueVars, strands, active, phase, walks>>

BlockUntilReady(t) ==
  LET w == call[t].at
  IN  /\ In(t, "await")
      /\ life[w] = "ready"
      /\ IF w < PoolSize
           THEN UNCHANGED phase /\ Become(t, [call[t] EXCEPT !.at = w + 1])
           ELSE phase' = "started" /\ Return(t)
      /\ UNCHANGED <<queueVars, strands, active, life, walks>>

(***************************************************************************)
(* scheduleJob: min_element over the loads, each of them read when it is   *)
(* compared; the strand's worker, if it has one already, in its place.     *)
(***************************************************************************)
RoomForAJob ==
  Len(jobs) + Cardinality({t \in Threads : call[t].step \in {"least", "compare", "push"}}) < MaxJobs

Destroying == phase \in {"destroyed", "destroyedUnstopped"}   \* strands_ is gone
Freed(w) == life[w] = "freed"   \* what the program does with it is undefined

ScheduleJob(t, n, s, sync) ==
  /\ RoomForAJob
  /\ Enter(t, IF sync THEN "scheduleSyncJob" ELSE "scheduleJob",
           [NoCall EXCEPT !.step = "least", !.name = n, !.strand = s, !.sync = sync,
                          !.at = 2, !.best = 1])
  /\ UNCHANGED <<phase, walks>>

ReadLoad(t) ==
  /\ In(t, "least")
  /\ call[t].at <= PoolSize
  /\ ~Freed(call[t].at)
  /\ Become(t, [call[t] EXCEPT !.step = "compare", !.seen = load[call[t].at]])
  /\ UNCHANGED <<queueVars, poolVars, walks>>

Lighter(c) == IF c.seen < load[c.best] THEN c.at ELSE c.best

CompareLoad(t) ==
  /\ In(t, "compare")
  /\ ~Freed(call[t].best)
  /\ Become(t, [call[t] EXCEPT !.step = "least", !.best = Lighter(call[t]), !.seen = 0, !.at = @ + 1])
  /\ UNCHANGED <<queueVars, poolVars, walks>>

GetWorkerForSchedule(t) ==
  /\ In(t, "least")
  /\ call[t].at > PoolSize
  /\ call[t].strand = None
  /\ Goto(t, "push")
  /\ UNCHANGED <<queueVars, poolVars, walks>>

BoundAnew(s, idle) == idle   \* mutant: a binding is not looked up
Bound(s, idle) == IF strands[s] = None THEN idle ELSE strands[s]

\* Under strandsLock_.
GetStrandWorkerForSchedule(t) ==
  LET c == call[t]
      w == Bound(c.strand, c.best)
  IN  /\ In(t, "least")
      /\ c.at > PoolSize
      /\ c.strand # None
      /\ ~Destroying
      /\ strands' = [strands EXCEPT ![c.strand] = w]
      /\ Become(t, [c EXCEPT !.step = "push", !.best = w])
      /\ UNCHANGED <<queueVars, active, life, phase, walks>>

Push(t) ==
  LET c == call[t]
  IN  /\ In(t, "push")
      /\ ~Freed(c.best)
      /\ queueLock[c.best] = None
      /\ jobs' = Append(jobs, [name |-> c.name, strand |-> c.strand, worker |-> c.best,
                               late |-> ~active[c.best], state |-> "queued"])
      /\ Become(t, [c EXCEPT !.step = "count", !.mark = Len(jobs')])
      /\ UNCHANGED <<load, queueLock, poolVars, walks>>

Count(t) ==
  /\ In(t, "count")
  /\ ~Freed(call[t].best)
  /\ load' = [load EXCEPT ![call[t].best] = (@ + 1) % LoadMod]
  /\ IF call[t].sync THEN Goto(t, "wait") ELSE Return(t)
  /\ UNCHANGED <<jobs, queueLock, poolVars, walks>>

WaitForDone(t) ==
  /\ In(t, "wait")
  /\ jobs[call[t].mark].state = "done"
  /\ Return(t)
  /\ UNCHANGED <<queueVars, poolVars, walks>>

(***************************************************************************)
(* cancelJobsFor visits the workers in turn.  At each it keeps queueLock_, *)
(* waits until no job is being executed if one of its service is queued,   *)
(* and erases the whole queue.                                             *)
(***************************************************************************)
Walk(t, op, n, step) ==
  Enter(t, op, [NoCall EXCEPT !.step = step, !.name = n, !.at = 1, !.mark = Len(jobs)])

\* Mutant of NextWorker: the loop ends before the last worker.
NextWorkerButLast(t, step) ==
  IF call[t].at + 1 < PoolSize
    THEN Become(t, [call[t] EXCEPT !.step = step, !.at = @ + 1])
    ELSE Return(t)

NextWorker(t, step) ==
  IF call[t].at < PoolSize
    THEN Become(t, [call[t] EXCEPT !.step = step, !.at = @ + 1])
    ELSE Return(t)

CancelJobsFor(t, n) ==
  /\ walks < MaxWalks
  /\ walks' = walks + 1
  /\ Walk(t, "cancelJobsFor", n, "cancel")
  /\ UNCHANGED phase

CancelLock(t) ==
  LET w == call[t].at
  IN  /\ In(t, "cancel")
      /\ ~Freed(w)
      /\ queueLock[w] = None
      /\ queueLock' = [queueLock EXCEPT ![w] = t]
      /\ Goto(t, "pass")
      /\ UNCHANGED <<jobs, load, poolVars, walks>>

MayPass(t) ==
  LET w == call[t].at
  IN  (\E i \in On(w, {"queued"}) : jobs[i].name = call[t].name) => On(w, {"running"}) = {}

CancelPass(t) ==
  /\ In(t, "pass")
  /\ MayPass(t)
  /\ Goto(t, "erase")
  /\ UNCHANGED <<queueVars, poolVars, walks>>

CancelErase(t) ==
  LET w == call[t].at
  IN  /\ In(t, "erase")
      /\ SetState(On(w, {"queued"}), "cancelled")
      /\ load' = [load EXCEPT ![w] = 0]
      /\ queueLock' = [queueLock EXCEPT ![w] = None]
      /\ NextWorker(t, "cancel")
      /\ UNCHANGED <<poolVars, walks>>

(***************************************************************************)
(* stop drains and joins the workers one after the other.  The destructors *)
(* do the same and free each worker; what is posted to a freed worker, or  *)
(* read of it, by a job that still runs on another one is undefined.       *)
(***************************************************************************)
Stop(t) ==
  /\ walks < MaxWalks
  /\ walks' = walks + 1
  /\ Walk(t, "stop", None, "drain")
  /\ UNCHANGED phase

\* The application has no call of its own in progress.
Destroy(t) ==
  /\ \A c \in Clients : Idle(c)
  /\ Walk(t, "destroy", None, "drain")
  /\ phase' = IF phase = "stopped" THEN "destroyed" ELSE "destroyedUnstopped"
  /\ UNCHANGED walks

AssumedDrained(w) == TRUE   \* mutant: the queue is not waited on
Drained(w) == On(w, {"queued"}) = {}

StopWorker(t) ==
  LET w == call[t].at
  IN  /\ In(t, "drain")
      /\ active[w]
      /\ queueLock[w] = None
      /\ Drained(w)
      /\ active' = [active EXCEPT ![w] = FALSE]
      /\ Goto(t, "join")
      /\ UNCHANGED <<queueVars, strands, life, phase, walks>>

Stopped(t) ==
  LET w == call[t].at
  IN  /\ life' = IF Destroying THEN [life EXCEPT ![w] = "freed"] ELSE life
      /\ phase' = IF w = PoolSize /\ ~Destroying THEN "stopped" ELSE phase
      /\ NextWorker(t, "drain")
      /\ UNCHANGED <<queueVars, strands, active, walks>>

AlreadyStopped(t) == In(t, "drain") /\ ~active[call[t].at] /\ Stopped(t)

JoinAtOnce(t) == In(t, "join") /\ Stopped(t)   \* mutant: the thread is detached
Join(t) == In(t, "join") /\ life[call[t].at] = "exited" /\ Stopped(t)

(***************************************************************************)
(* The thread of worker w.                                                 *)
(***************************************************************************)
BecomeReady(w) ==
  /\ life[w] = "created"
  /\ life' = [life EXCEPT ![w] = "ready"]
  /\ UNCHANGED <<queueVars, strands, active, phase, call, walks>>

SignedDiscounted(w) == load[w] - 1   \* mutant: a signed counter
Discounted(w) == (load[w] + (LoadMod - 1)) % LoadMod

Between(w) == life[w] = "ready" /\ On(w, {"taken", "running"}) = {}   \* two jobs

LastQueued(w) == {Max(On(w, {"queued"}))}   \* mutant: taken from the back
FirstQueued(w) == {Min(On(w, {"queued"}))}

Take(w) ==
  /\ Between(w)
  /\ queueLock[w] = None
  /\ On(w, {"queued"}) # {}
  /\ SetState(FirstQueued(w), "taken")
  /\ load' = [load EXCEPT ![w] = Discounted(w)]
  /\ UNCHANGED <<queueLock, poolVars, call, walks>>

BeginExecuting(w) ==
  /\ On(w, {"taken"}) # {}
  /\ SetState(On(w, {"taken"}), "running")
  /\ UNCHANGED <<load, queueLock, poolVars, call, walks>>

EndExecuting(w) ==
  /\ On(w, {"running"}) # {}
  /\ Idle(w)
  /\ SetState(On(w, {"running"}), "done")
  /\ UNCHANGED <<load, queueLock, poolVars, call, walks>>

\* Mutant of Exit: stop does not notify, and the thread sleeps until another job
\* is posted.
ExitWhenPosted(w) ==
  /\ Between(w)
  /\ ~active[w]
  /\ \E i \in On(w, JobStates) : jobs[i].late
  /\ life' = [life EXCEPT ![w] = "exited"]
  /\ UNCHANGED <<queueVars, strands, active, phase, call, walks>>

\* A job pushed after active_ was cleared may stay behind.
Exit(w) ==
  /\ Between(w)
  /\ ~active[w]
  /\ life' = [life EXCEPT ![w] = "exited"]
  /\ UNCHANGED <<queueVars, strands, active, phase, call, walks>>

-----------------------------------------------------------------------------
Begin(t) ==
  \/ \E n \in Services, s \in Strands \cup {None}, sync \in BOOLEAN : ScheduleJob(t, n, s, sync)
  \/ \E n \in Services : CancelJobsFor(t, n)
  \/ Start(t) \/ Stop(t) \/ Destroy(t)

Continue(t) ==
  \/ CreateWorker(t) \/ BlockUntilReady(t)
  \/ ReadLoad(t) \/ CompareLoad(t) \/ GetWorkerForSchedule(t) \/ GetStrandWorkerForSchedule(t)
  \/ Push(t) \/ Count(t) \/ WaitForDone(t)
  \/ CancelLock(t) \/ CancelPass(t) \/ CancelErase(t)
  \/ StopWorker(t) \/ AlreadyStopped(t) \/ Join(t)

Run(w) == BecomeReady(w) \/ Take(w) \/ BeginExecuting(w) \/ EndExecuting(w) \/ Exit(w)

\* The next step of t's call would touch a worker, or strands_, that is gone.
UsesFreed(t) ==
  \/ call[t].step \in {"compare", "push", "count"} /\ Freed(call[t].best)
  \/ call[t].step \in {"least", "cancel"} /\ call[t].at <= PoolSize /\ Freed(call[t].at)
  \/ In(t, "least") /\ call[t].at > PoolSize /\ call[t].strand # None /\ Destroying

\* t waits for a job that was cancelled, or left behind by a stopped worker.
WaitsInVain(t) ==
  In(t, "wait") /\ LET j == jobs[call[t].mark]
                   IN  \/ j.state = "cancelled"
                       \/ j.state = "queued" /\ life[j.worker] \in {"exited", "freed"}

\* What t is in, or the loop of worker t, cannot go on before u does something.
WaitsForLock(t, u) ==
  \E w \in Workers :
    /\ queueLock[w] = u
    /\ \/ In(t, "push") /\ call[t].best = w
       \/ In(t, "cancel") /\ call[t].at = w
       \/ In(t, "drain") /\ call[t].at = w /\ active[w]
       \/ t = w /\ Between(w)

WaitsForWorker(t, u) ==
  \/ In(t, "wait") /\ jobs[call[t].mark].worker = u /\ jobs[call[t].mark].state # "done"
  \/ In(t, "drain") /\ call[t].at = u /\ active[u] /\ ~Drained(u)
  \/ In(t, "pass") /\ call[t].at = u /\ ~MayPass(t)
  \/ In(t, "join") /\ call[t].at = u /\ life[u] # "exited"

WaitsFor(t, u) ==
  \/ WaitsForLock(t, u)
  \/ u \in Workers /\ WaitsForWorker(t, u)
  \/ u = t /\ (WaitsInVain(t) \/ UsesFreed(t))

\* t is part of, or behind, a circle of threads that wait for each other.
Doomed(t) ==
  \E S \in SUBSET Threads : t \in S /\ \A x \in S : \E u \in S : WaitsFor(x, u)

\* Every call that can has returned and no worker has anything left to do.
AtRest ==
  /\ \A t \in Threads : Idle(t) \/ Doomed(t)
  /\ \A w \in Workers :
       \/ life[w] \in {"none", "exited", "freed"} \/ Doomed(w)
       \/ active[w] /\ On(w, {"queued", "taken", "running"}) = {}
  /\ UNCHANGED vars

Next ==
  \/ \E t \in Threads : Begin(t) \/ Continue(t)
  \/ \E w \in Workers : Run(w)
  \/ AtRest

Spec == Init /\ [][Next]_vars

\* Threads are scheduled, and the code of the jobs terminates.
Fairness ==
  /\ \A t \in Threads : WF_vars(Continue(t))
  /\ \A w \in Workers : WF_vars(Run(w))

FairSpec == Spec /\ Fairness

-----------------------------------------------------------------------------
Call == [step: {"idle", "create", "await", "least", "compare", "push", "count", "wait",
                "cancel", "pass", "erase", "drain", "join"},
         name: Services \cup {None}, strand: Strands \cup {None}, sync: BOOLEAN,
         at: Nat, best: Nat, seen: Nat, mark: Nat]

\* Every variable has its type.
TypeOK ==
  /\ jobs \in Seq(Job)
  /\ load \in [Workers -> 0..(LoadMod - 1)]
  /\ queueLock \in [Workers -> Threads \cup {None}]
  /\ strands \in [Strands -> Workers \cup {None}]
  /\ active \in [Workers -> BOOLEAN] /\ life \in [Workers -> Lives] /\ phase \in Phases
  /\ call \in [Threads -> Call]
  /\ walks \in Nat

\* Strand affinity: two first calls of a strand that chose different idle
\* workers, in any interleaving, still agree on one, and every job of the strand
\* is on it.
StrandAffinity ==
  \A i \in DOMAIN jobs : jobs[i].strand # None => jobs[i].worker = strands[jobs[i].strand]

\* Jobs of one strand, whoever schedules them, run one after the other in
\* the order in which they were accepted.
StrandSequential ==
  \A i, j \in DOMAIN jobs :
    i < j /\ jobs[i].strand = jobs[j].strand /\ jobs[i].strand # None
      => jobs[j].state \in {"queued", "cancelled"} \/ jobs[i].state \in {"done", "cancelled"}

\* When cancelJobsFor returns, no job of the service accepted before the call
\* is still queued on any worker, although workers and posters went on meanwhile.
CancelReachesAllWorkers ==
  [][\A t \in Threads :
       In(t, "erase") /\ call'[t] = NoCall =>
         \A i \in 1..call[t].mark : jobs[i].name = call[t].name => jobs'[i].state # "queued"]_vars

\* When stop returns, or the destruction ends, every job accepted before it (and
\* not after an earlier stop) has been run or cancelled, on whichever worker it was.
StopDrainsThePool ==
  [][\A t \in Threads :
       call[t].step \in {"drain", "join"} /\ call'[t] = NoCall =>
         \A i \in 1..call[t].mark : jobs[i].late \/ jobs'[i].state \in {"done", "cancelled"}]_vars

\* Once stop has returned no code of a job runs or will run on the pool, so that
\* a scheduler stopped before it is destroyed is out of everybody's hands: no job,
\* not even one that schedules others, meets a worker that is gone.
QuietAfterStop ==
  phase \in {"stopped", "destroyed"} =>
    \A w \in Workers : On(w, {"taken", "running"}) = {} /\ Idle(w)

\* Every job accepted before stop is run in the end, or cancelled, on whichever
\* worker it was queued, unless that worker is behind a circle of waiting threads.
JobsRun ==
  []<>(\A i \in DOMAIN jobs :
         jobs[i].late \/ jobs[i].state \in {"done", "cancelled"} \/ Doomed(jobs[i].worker))

\* Every call of the dispatcher returns, blocking calls of clients and of jobs
\* included: the only ones that do not are for ever part of, or behind, a circle
\* of blocking calls (a job on its own worker, two jobs on each other's), or wait
\* for a job that was cancelled or came after stop.
CallsReturn == \A t \in Threads : []<>Idle(t) \/ <>[]Doomed(t)

-----------------------------------------------------------------------------
(***************************************************************************)
(* The pool as a set of abstract queues, one per worker, each with its own *)
(* numbering of the jobs posted to it.                                     *)
(***************************************************************************)
Rank(i) == Cardinality({j \in On(jobs[i].worker, JobStates) : j <= i})
Ranks(w, S) == {Rank(i) : i \in On(w, S)}

Queue(w) == INSTANCE JobQueue WITH
  posted <- Cardinality(On(w, JobStates)),
  waiting <- Ranks(w, {"queued"}),
  running <- Ranks(w, {"taken", "running"}),
  done <- Ranks(w, {"done"}),
  dropped <- Ranks(w, {"cancelled"})

\* Each worker of the pool is the first-in first-out queue that AsyncWorker is
\* proved to implement: this is what the coarser workers of this module rest on.
ImplementsQueues ==
  /\ \A w \in Workers : Queue(w)!Init
  /\ [][UNCHANGED jobs \/ \A w \in Workers : Queue(w)!Next \/ UNCHANGED Queue(w)!vars]_vars

=============================================================================
