-------------------------- MODULE InterfaceScheduler --------------------------
(***************************************************************************)
(* The InterfaceScheduler (src/InterfaceScheduler.cpp and the call path of *)
(* InterfaceScheduler.hpp, ArgDefs.hpp and Helper.hpp) together with its   *)
(* pool of workers: registration, its watchers, unregistration, and typed  *)
(* calls, synchronous, asynchronous and blocking.  mappingLock_ is         *)
(* recursive and is kept while watchers are called back and while          *)
(* unRegiterInterface cancels jobs, so the code that runs on a thread is a *)
(* stack of calls.                                                         *)
(*                                                                         *)
(* Of a worker there is its queue, the job taken from it, and the two      *)
(* locks that a canceller keeps or waits for; which worker gets a job is   *)
(* any choice (modules AsyncDispatcher and AsyncWorker have the details).  *)
(***************************************************************************)
EXTENDS Naturals, Sequences, SequencesExt

CONSTANTS
  Clients,        \* the application's threads
  PoolSize,       \* workers of the started dispatcher
  Services,       \* service names
  Types,          \* argument types (ParamArgs::getType)
  None,           \* no thread, no job
  May,            \* May[code]: what the code of a client, a watcher, a service calls
  WatchersThrow,  \* whether a watcher may throw
  MaxCalls        \* bound: calls of the scheduler in a behaviour

Workers == 1..PoolSize
Threads == Clients \cup Workers

\* asyncCall is that of Helper.hpp (createAsyncNonBlockProp); blockingCall and
\* syncCall are interfaceCall with waitForDone, and with async unset.
Invocations == {"asyncCall", "blockingCall", "syncCall"}
Ops == {"register", "unregister", "subscribe", "isRegistered"} \cup Invocations

ASSUME SchedulerAssumption ==
  /\ PoolSize \in Nat \ {0}
  /\ Workers \cap Clients = {}
  /\ None \notin Threads
  /\ Types # {}
  /\ May \in [{"client", "watcher", "service"} -> SUBSET Ops]
  /\ WatchersThrow \in BOOLEAN
  /\ MaxCalls \in Nat

VARIABLES
  regs,        \* the argument type of every registration made so far
  registered,  \* actionMapping_: the registration a service has, or 0
  waiting,     \* notifyMapping_: the watchers of a service, by number
  told,        \* told[w]: how often watcher w has been called back
  broken,      \* notifyMapping_'s vector changed under the loop that iterates over it
  stack,       \* stack[t]: the calls in progress on thread t, innermost last
  queue,       \* queue[w]: the jobs scheduled on worker w (calls_)
  taken,       \* taken[w]: the job its thread has copied out of the queue
  executing,   \* executing[w]: executing_
  calls        \* calls so far

registryVars == <<regs, registered, waiting, told, broken>>
poolVars == <<queue, taken, executing>>
vars == <<registryVars, poolVars, stack, calls>>

NewFrame(op, s, ty) == [op |-> op, name |-> s, type |-> ty, step |-> "lock",
                        pos |-> 0, len |-> 0, reg |-> 0]

Init ==
  /\ regs = <<>> /\ told = <<>>
  /\ registered = [s \in Services |-> 0]
  /\ waiting = [s \in Services |-> <<>>]
  /\ broken = FALSE
  /\ stack = [t \in Threads |-> <<>>]
  /\ queue = [w \in Workers |-> <<>>]
  /\ taken = [w \in Workers |-> None]
  /\ executing = [w \in Workers |-> FALSE]
  /\ calls = 0

Top(t) == Last(stack[t])
At(t, ops, step) == stack[t] # <<>> /\ Top(t).op \in ops /\ Top(t).step = step

\* Thread t is in a section of mappingLock_.
Holds(t) == \E k \in DOMAIN stack[t] : stack[t][k].step \in {"notify", "callback", "cancel", "visit"}
MayLockAlways(t) == TRUE   \* mutant: no lock
MayLock(t) == \A u \in Threads \ {t} : ~Holds(u)

Replace(t, frame) == stack' = [stack EXCEPT ![t] = Append(Front(@), frame)]
Return(t) == stack' = [stack EXCEPT ![t] = Front(@)]
CallBack(t, frame) ==
  stack' = [stack EXCEPT ![t] = Front(@) \o <<frame, [frame EXCEPT !.op = "watcher", !.step = "code"]>>]

\* A loop of notifySubscribersOnRegistration is in the middle of waiting[s].
Iterating(s) ==
  \E t \in Threads : \E k \in DOMAIN stack[t] :
    stack[t][k].step = "notify" /\ stack[t][k].name = s /\ k < Len(stack[t])

(***************************************************************************)
(* The application's code: a client's, a watcher's, a service's action     *)
(* (and the onDone of its caller, which runs right after it).              *)
(***************************************************************************)
Runs(t, code) ==
  \/ code = "client" /\ t \in Clients /\ stack[t] = <<>>
  \/ code = "service" /\ t \in Workers /\ stack[t] = <<>> /\ executing[t]
  \/ code = "service" /\ At(t, {"action"}, "code")
  \/ code = "watcher" /\ At(t, {"watcher"}, "code")

Call(t, op, s, ty) ==
  /\ ~broken
  /\ calls < MaxCalls
  /\ \E code \in DOMAIN May : Runs(t, code) /\ op \in May[code]
  /\ stack' = [stack EXCEPT ![t] = Append(@, NewFrame(op, s, ty))]
  /\ calls' = calls + 1
  /\ UNCHANGED <<registryVars, poolVars>>

CodeReturns(t) ==
  /\ At(t, {"watcher", "action"}, "code")
  /\ Return(t)
  /\ UNCHANGED <<registryVars, poolVars, calls>>

\* The exception leaves the operation that called the watcher; its guard unlocks.
WatcherThrows(t) ==
  /\ WatchersThrow
  /\ At(t, {"watcher"}, "code")
  /\ stack' = [stack EXCEPT ![t] = Front(Front(@))]
  /\ UNCHANGED <<registryVars, poolVars, calls>>

(***************************************************************************)
(* registerInterface and notifySubscribersOnRegistration.                  *)
(***************************************************************************)
StartNotifying(t) ==
  Replace(t, [Top(t) EXCEPT !.step = "notify", !.pos = 1, !.len = Len(waiting[Top(t).name])])

\* Mutant of RegisterInterface: the type is not stored.
RegisterUntyped(t) ==
  /\ At(t, {"register"}, "lock")
  /\ MayLock(t)
  /\ registered[Top(t).name] = 0
  /\ registered' = [registered EXCEPT ![Top(t).name] = Len(regs) + 1]
  /\ StartNotifying(t)
  /\ UNCHANGED <<regs, waiting, told, broken, poolVars, calls>>

RegisterInterface(t) ==
  /\ At(t, {"register"}, "lock")
  /\ MayLock(t)
  /\ registered[Top(t).name] = 0
  /\ regs' = Append(regs, Top(t).type)
  /\ registered' = [registered EXCEPT ![Top(t).name] = Len(regs')]
  /\ StartNotifying(t)
  /\ UNCHANGED <<waiting, told, broken, poolVars, calls>>

\* Throws std::logic_error.
DuplicatedRegistration(t) ==
  /\ At(t, {"register"}, "lock")
  /\ MayLock(t)
  /\ registered[Top(t).name] # 0
  /\ Return(t)
  /\ UNCHANGED <<registryVars, poolVars, calls>>

NotifyWatcher(t) ==
  LET f == Top(t)
  IN  /\ At(t, {"register"}, "notify")
      /\ ~broken
      /\ f.pos <= f.len
      /\ told' = [told EXCEPT ![waiting[f.name][f.pos]] = @ + 1]
      /\ CallBack(t, [f EXCEPT !.pos = f.pos + 1])
      /\ UNCHANGED <<regs, registered, waiting, broken, poolVars, calls>>

NotErased(s) == waiting   \* mutant: notifyMapping_.erase is dropped
Erased(s) == [waiting EXCEPT ![s] = <<>>]

ClearWatchers(t) ==
  LET f == Top(t)
  IN  /\ At(t, {"register"}, "notify")
      /\ ~broken
      /\ f.pos > f.len
      /\ waiting' = Erased(f.name)
      /\ broken' = (waiting[f.name] # <<>> /\ Iterating(f.name))
      /\ Return(t)
      /\ UNCHANGED <<regs, registered, told, poolVars, calls>>

(***************************************************************************)
(* subscribeForRegistration, isServiceRegistered.                          *)
(***************************************************************************)
SubscribeRegistered(t) ==
  /\ At(t, {"subscribe"}, "lock")
  /\ MayLock(t)
  /\ registered[Top(t).name] # 0
  /\ told' = Append(told, 1)
  /\ CallBack(t, [Top(t) EXCEPT !.step = "callback"])
  /\ UNCHANGED <<regs, registered, waiting, broken, poolVars, calls>>

\* Mutant of SubscribeLater: the watcher is stored even if its service is registered.
SubscribeAlways(t) ==
  LET s == Top(t).name
  IN  /\ At(t, {"subscribe"}, "lock")
      /\ MayLock(t)
      /\ told' = Append(told, 0)
      /\ waiting' = [waiting EXCEPT ![s] = Append(@, Len(told'))]
      /\ broken' = Iterating(s)
      /\ Return(t)
      /\ UNCHANGED <<regs, registered, poolVars, calls>>

SubscribeLater(t) ==
  LET s == Top(t).name
  IN  /\ At(t, {"subscribe"}, "lock")
      /\ MayLock(t)
      /\ registered[s] = 0
      /\ told' = Append(told, 0)
      /\ waiting' = [waiting EXCEPT ![s] = Append(@, Len(told'))]
      /\ broken' = Iterating(s)
      /\ Return(t)
      /\ UNCHANGED <<regs, registered, poolVars, calls>>

CalledBack(t) ==
  /\ At(t, {"subscribe"}, "callback")
  /\ Return(t)
  /\ UNCHANGED <<registryVars, poolVars, calls>>

IsServiceRegistered(t) ==
  /\ At(t, {"isRegistered"}, "lock")
  /\ MayLock(t)
  /\ Return(t)
  /\ UNCHANGED <<registryVars, poolVars, calls>>

(***************************************************************************)
(* unRegiterInterface: the dispatcher's cancelJobsFor locks the queue of   *)
(* one worker after the other, with mappingLock_ held.                     *)
(***************************************************************************)
UnRegiterInterface(t) ==
  LET s == Top(t).name
  IN  /\ At(t, {"unregister"}, "lock")
      /\ MayLock(t)
      /\ registered' = [registered EXCEPT ![s] = 0]
      /\ IF registered[s] # 0
           THEN Replace(t, [Top(t) EXCEPT !.step = "cancel", !.pos = 1])
           ELSE Return(t)
      /\ UNCHANGED <<regs, waiting, told, broken, poolVars, calls>>

CancelLock(t) ==
  /\ At(t, {"unregister"}, "cancel")
  /\ Replace(t, [Top(t) EXCEPT !.step = "visit"])
  /\ UNCHANGED <<registryVars, poolVars, calls>>

\* t keeps queueLock_ of worker w.
LocksQueue(t, w) == At(t, {"unregister"}, "visit") /\ Top(t).pos = w

\* Mutant of MayPass: the predicate says what its name, isExecuting, does.
PassExecuting(t, w) == (\E k \in DOMAIN queue[w] : queue[w][k].name = Top(t).name) => executing[w]
MayPass(t, w) == (\E k \in DOMAIN queue[w] : queue[w][k].name = Top(t).name) => ~executing[w]

NothingCancelled(w) == queue   \* mutant: the jobs are not cancelled
AllCancelled(w) == [queue EXCEPT ![w] = <<>>]

CancelJobsFor(t) ==
  \E w \in Workers :
    /\ LocksQueue(t, w)
    /\ MayPass(t, w)
    /\ queue' = AllCancelled(w)
    /\ IF w < PoolSize THEN Replace(t, [Top(t) EXCEPT !.step = "cancel", !.pos = w + 1]) ELSE Return(t)
    /\ UNCHANGED <<registryVars, taken, executing, calls>>

(***************************************************************************)
(* interfaceCall: the stored callback is copied under mappingLock_ and     *)
(* scheduled, or run, after it was released.                               *)
(***************************************************************************)
FetchStoredCallback(t) ==
  LET f == Top(t)
      r == registered[f.name]
  IN  /\ At(t, Invocations, "lock")
      /\ MayLock(t)
      /\ r # 0 /\ regs[r] = f.type
      /\ Replace(t, [f EXCEPT !.step = "invoke", !.reg = r])
      /\ UNCHANGED <<registryVars, poolVars, calls>>

\* Returns false, or throws std::invalid_argument.
CallRefused(t) ==
  LET r == registered[Top(t).name]
  IN  /\ At(t, Invocations, "lock")
      /\ MayLock(t)
      /\ r # 0 => regs[r] # Top(t).type
      /\ Return(t)
      /\ UNCHANGED <<registryVars, poolVars, calls>>

GetWorker(t) ==
  /\ At(t, {"asyncCall", "blockingCall"}, "invoke")
  /\ \E w \in Workers : Replace(t, [Top(t) EXCEPT !.step = "push", !.pos = w])
  /\ UNCHANGED <<registryVars, poolVars, calls>>

Job(t, f, r) == [name |-> f.name, reg |-> r, type |-> f.type, late |-> registered[f.name] # r,
                 waiter |-> IF f.op = "blockingCall" THEN t ELSE None]

\* Mutant of ScheduledJob: the action is looked up again when it is scheduled.
LatestJob(t, f) == Job(t, f, IF registered[f.name] # 0 THEN registered[f.name] ELSE f.reg)
ScheduledJob(t, f) == Job(t, f, f.reg)

ScheduleJob(t) ==
  LET w == Top(t).pos
  IN  /\ At(t, {"asyncCall", "blockingCall"}, "push")
      /\ \A u \in Threads : ~LocksQueue(u, w)
      /\ queue' = [queue EXCEPT ![w] = Append(@, ScheduledJob(t, Top(t)))]
      /\ IF Top(t).op = "asyncCall" THEN Return(t) ELSE Replace(t, [Top(t) EXCEPT !.step = "wait"])
      /\ UNCHANGED <<registryVars, taken, executing, calls>>

\* The SyncWorker runs the action on the caller's thread.
DoJob(t) ==
  /\ At(t, {"syncCall"}, "invoke")
  /\ Replace(t, [Top(t) EXCEPT !.op = "action", !.step = "code"])
  /\ UNCHANGED <<registryVars, poolVars, calls>>

(***************************************************************************)
(* The thread of worker w.                                                 *)
(***************************************************************************)
Take(w) ==
  /\ taken[w] = None
  /\ queue[w] # <<>>
  /\ \A t \in Threads : ~LocksQueue(t, w)
  /\ taken' = [taken EXCEPT ![w] = Head(queue[w])]
  /\ queue' = [queue EXCEPT ![w] = Tail(@)]
  /\ UNCHANGED <<registryVars, stack, executing, calls>>

Execute(w) ==
  /\ taken[w] # None /\ ~executing[w]
  /\ executing' = [executing EXCEPT ![w] = TRUE]
  /\ UNCHANGED <<registryVars, stack, queue, taken, calls>>

\* The waiter of a blocking call, if it has one, is woken up and returns.
Executed(w) ==
  /\ executing[w]
  /\ stack[w] = <<>>
  /\ executing' = [executing EXCEPT ![w] = FALSE]
  /\ taken' = [taken EXCEPT ![w] = None]
  /\ stack' = [t \in Threads |-> IF t = taken[w].waiter THEN Front(stack[t]) ELSE stack[t]]
  /\ UNCHANGED <<registryVars, queue, calls>>

-----------------------------------------------------------------------------
Begin(t) ==
  \E s \in Services :
    \/ \E op \in {"register"} \cup Invocations, ty \in Types : Call(t, op, s, ty)
    \/ \E op \in {"unregister", "subscribe", "isRegistered"} : Call(t, op, s, CHOOSE ty \in Types : TRUE)

Continue(t) ==
  \/ CodeReturns(t) \/ RegisterInterface(t) \/ DuplicatedRegistration(t)
  \/ NotifyWatcher(t) \/ ClearWatchers(t)
  \/ SubscribeRegistered(t) \/ SubscribeLater(t) \/ CalledBack(t) \/ IsServiceRegistered(t)
  \/ UnRegiterInterface(t) \/ CancelLock(t) \/ CancelJobsFor(t)
  \/ FetchStoredCallback(t) \/ CallRefused(t) \/ GetWorker(t) \/ ScheduleJob(t) \/ DoJob(t)

Run(w) == Take(w) \/ Execute(w) \/ Executed(w)

\* Worker w has the job that t waits for; a cancelled job is nowhere.
HasJobOf(w, t) ==
  \/ taken[w] # None /\ taken[w].waiter = t
  \/ \E k \in DOMAIN queue[w] : queue[w][k].waiter = t

\* The innermost call of t cannot go on before u does something.
WaitsFor(t, u) ==
  stack[t] # <<>> /\
    \/ Top(t).step = "lock" /\ u # t /\ Holds(u)
    \/ Top(t).step = "push" /\ LocksQueue(u, Top(t).pos)
    \/ u \in Workers /\ LocksQueue(t, u) /\ ~MayPass(t, u)
    \/ u \in Workers /\ Top(t).step = "wait" /\ HasJobOf(u, t)
    \/ u = t /\ Top(t).step = "wait" /\ \A w \in Workers : ~HasJobOf(w, t)

\* t is part of, or behind, a circle of threads that wait for each other.
Doomed(t) ==
  \E S \in SUBSET Threads : t \in S /\ \A x \in S : \E u \in S : WaitsFor(x, u)

\* Nothing more can happen, or the program's behaviour is undefined from here on.
AtRest ==
  /\ \/ broken
     \/ /\ \A t \in Threads : stack[t] = <<>> \/ Doomed(t)
        /\ \A w \in Workers : (queue[w] = <<>> /\ taken[w] = None) \/ Doomed(w)
  /\ UNCHANGED vars

Next ==
  \/ \E t \in Threads : Begin(t) \/ Continue(t) \/ WatcherThrows(t)
  \/ \E w \in Workers : Run(w)
  \/ AtRest

Spec == Init /\ [][Next]_vars

\* Threads are scheduled, and the code of clients, watchers and services returns.
Fairness ==
  /\ \A t \in Threads : WF_vars(Continue(t))
  /\ \A w \in Workers : WF_vars(Run(w))

FairSpec == Spec /\ Fairness

-----------------------------------------------------------------------------
Frame == [op: Ops \cup {"watcher", "action"}, name: Services, type: Types,
          step: {"lock", "notify", "callback", "cancel", "visit", "invoke", "push", "wait", "code"},
          pos: Nat, len: Nat, reg: Nat]
Jobs == [name: Services, reg: Nat, type: Types, late: BOOLEAN, waiter: Threads \cup {None}]

\* Every variable has its type.
TypeOK ==
  /\ regs \in Seq(Types) /\ told \in Seq(Nat)
  /\ registered \in [Services -> 0..Len(regs)]
  /\ waiting \in [Services -> Seq(1..Len(told))]
  /\ broken \in BOOLEAN
  /\ stack \in [Threads -> Seq(Frame)]
  /\ queue \in [Workers -> Seq(Jobs)]
  /\ taken \in [Workers -> Jobs \cup {None}] /\ executing \in [Workers -> BOOLEAN]
  /\ calls \in 0..MaxCalls

\* No registration is missed and none is reported twice: a watcher is called
\* back at most once, and, outside of the sections of mappingLock_, one that
\* was not called back waits for a service; subscribing races with registering.
WatcherToldOnce ==
  \A w \in DOMAIN told :
    /\ told[w] <= 1
    /\ (\A t \in Threads : ~Holds(t)) =>
         (told[w] = 0 <=> \E s \in Services : Contains(waiting[s], w))

\* All watchers set up before a registration are cleared by it: outside of the
\* sections of mappingLock_ nobody waits for a service that is registered.
NoForgottenWatcher ==
  (\A t \in Threads : ~Holds(t)) => \A s \in Services : registered[s] # 0 => waiting[s] = <<>>

\* A watcher is called back only while its service is registered, although
\* other threads unregister it and other watchers use the scheduler.
WatcherSeesService ==
  \A t \in Threads : At(t, {"watcher"}, "code") => registered[Top(t).name] # 0

\* The recursive lock lets watchers subscribe and register in the middle of the
\* notification: that never changes the vector being iterated over.
IteratorsValid == ~broken

\* An action only ever gets arguments of the type it was registered with, even
\* if its service has been registered anew since the call looked it up.
ArgumentsFit ==
  /\ \A w \in Workers :
       /\ \A k \in DOMAIN queue[w] : regs[queue[w][k].reg] = queue[w][k].type
       /\ taken[w] # None => regs[taken[w].reg] = taken[w].type
  /\ \A t \in Threads : At(t, {"action"}, "code") => regs[Top(t).reg] = Top(t).type

\* unRegiterInterface leaves no job of the service behind that was scheduled
\* before it, on any worker: when a registration is gone, and nobody is still
\* unregistering, a job of it is queued only if its caller had looked it up
\* earlier but scheduled it later.
UnregisterCancels ==
  (\A t \in Threads : ~Holds(t)) =>
    \A w \in Workers : \A k \in DOMAIN queue[w] :
      queue[w][k].late \/ queue[w][k].reg = registered[queue[w][k].name]

\* Every call returns, whatever clients, watchers and services call: the only
\* ones that do not are for ever part of, or behind, a circle of threads that wait
\* for each other (unregistration against a job that needs mappingLock_ or the
\* queue, blocking calls of jobs), or wait for a job that was cancelled.
CallsReturn == \A t \in Threads : []<>(stack[t] = <<>>) \/ <>[]Doomed(t)

-----------------------------------------------------------------------------
(***************************************************************************)
(* What the registry promises to watchers, in one atomic step each.        *)
(***************************************************************************)
Directory == INSTANCE ServiceDirectory WITH
  registered <- {s \in Services : registered[s] # 0},
  awaits <- [s \in Services |-> {w \in ToSet(waiting[s]) : told[w] = 0}],
  told <- told

\* The registry implements the directory: through all interleavings of
\* subscriptions, registrations, re-entrant watchers and unregistrations every
\* watcher hears of its service once, and before the service is unregistered.
ImplementsDirectory == Directory!Spec

-----------------------------------------------------------------------------
(* What the documentation says and the code does not do. *)

\* README.md: "thread safety is guaranteed in interfaceScheduler level so
\* concurrent registration/unregistration is possible".
UnregistrationReturns ==
  \A t \in Clients : stack[t] # <<>> ~> stack[t] = <<>>

=============================================================================
