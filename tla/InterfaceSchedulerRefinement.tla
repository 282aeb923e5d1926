--------------------- MODULE InterfaceSchedulerRefinement ---------------------
(***************************************************************************)
(* What the registry of InterfaceScheduler promises to the watchers, while *)
(* none unregisters a service and none throws: each hears of its service   *)
(* exactly once, and the registry implements ServiceDirectory.  ToldInv    *)
(* relates the counts of the calls to the loops in progress; it is         *)
(* inductive relative to the invariants of InterfaceSchedulerProofs.       *)
(***************************************************************************)
EXTENDS InterfaceSchedulerProofs

USE SchedulerAssumption

WatchersBehave == WatchersKeepServices /\ ~WatchersThrow

-----------------------------------------------------------------------------
(* The loops of notifySubscribersOnRegistration, and who waits.            *)

\* Call k of thread t is in the loop over the watchers of s, and has called back
\* those before its position.
Loops(t, k, s) == k \in DOMAIN stack[t] /\ stack[t][k].step = "notify" /\ stack[t][k].name = s
Notified(s, p) == \E t \in Threads : \E k \in DOMAIN stack[t] : Loops(t, k, s) /\ p < stack[t][k].pos

\* The loop runs over the watchers that wait.
LoopInv ==
  \A t \in Threads : \A k \in DOMAIN stack[t] : stack[t][k].step = "notify" =>
    /\ stack[t][k].len = Len(waiting[stack[t][k].name])
    /\ stack[t][k].pos \in 1..stack[t][k].len + 1

\* Who waits does so once, for one service, and was called back only if the loop
\* over the watchers of that service has passed it; who does not was called back.
WatcherInv ==
  /\ \A s, r \in Services : \A p \in DOMAIN waiting[s], q \in DOMAIN waiting[r] :
       waiting[s][p] = waiting[r][q] => s = r /\ p = q
  /\ \A s \in Services : \A p \in DOMAIN waiting[s] : told[waiting[s][p]] = 1 <=> Notified(s, p)
  /\ \A v \in DOMAIN told :
       /\ told[v] <= 1
       /\ told[v] = 0 => \E s \in Services : \E p \in DOMAIN waiting[s] : waiting[s][p] = v

\* Watchers wait for a registered service only while its loop is going on.
ForgottenInv ==
  \A s \in Services : registered[s] # 0 /\ waiting[s] # <<>> =>
    \E t \in Threads : \E k \in DOMAIN stack[t] : Loops(t, k, s)

ToldInv == LoopInv /\ WatcherInv /\ ForgottenInv

\* What the registry looks like in the directory, and what a step is there.
Registered == {s \in Services : registered[s] # 0}
Awaits == [s \in Services |-> {v \in ToSet(waiting[s]) : told[v] = 0}]
DirectoryStep == [Directory!Next]_(Directory!vars)

-----------------------------------------------------------------------------
(* Steps that leave the loops alone.                                       *)

\* The same frames of a stack are loops, at the same positions.
SameLoops(r, s) ==
  /\ \A k \in DOMAIN s : s[k].step = "notify" => k \in DOMAIN r /\ r[k] = s[k]
  /\ \A k \in DOMAIN r : r[k].step = "notify" => k \in DOMAIN s /\ r[k] = s[k]

AllLoopsSame == \A t \in Threads : SameLoops(stack'[t], stack[t])

\* Then the same watchers have been notified.
LEMMA NotifiedSame ==
  ASSUME AllLoopsSame
  PROVE  /\ \A t \in Threads : \A k, s : Loops(t, k, s)' <=> Loops(t, k, s)
         /\ \A s, p : Notified(s, p)' <=> Notified(s, p)
<1>1. ASSUME NEW t \in Threads, NEW k, NEW s
      PROVE  Loops(t, k, s)' <=> Loops(t, k, s) /\ stack'[t][k] = stack[t][k]
  BY DEF AllLoopsSame, SameLoops, Loops
<1>2. ASSUME NEW t \in Threads, NEW k, NEW s, Loops(t, k, s)
      PROVE  stack'[t][k] = stack[t][k] /\ k \in DOMAIN stack'[t] /\ k \in DOMAIN stack[t]
  BY <1>2 DEF AllLoopsSame, SameLoops, Loops
<1>3. \A t \in Threads : \A k, s : Loops(t, k, s)' <=> Loops(t, k, s)
  BY <1>1, <1>2
<1>4. ASSUME NEW s, NEW p
      PROVE  Notified(s, p)' <=> Notified(s, p)
  <2>1. ASSUME Notified(s, p) PROVE Notified(s, p)'
    BY <1>2, <1>3, <2>1 DEF Notified
  <2>2. ASSUME Notified(s, p)' PROVE Notified(s, p)
    <3>1. PICK t \in Threads : \E k \in DOMAIN stack'[t] : Loops(t, k, s)' /\ p < stack'[t][k].pos
      BY <2>2 DEF Notified
    <3>2. PICK k \in DOMAIN stack'[t] : Loops(t, k, s)' /\ p < stack'[t][k].pos
      BY <3>1
    <3>3. Loops(t, k, s)
      BY <1>3, <3>2
    <3>. QED
      BY <1>2, <3>2, <3>3 DEF Notified
  <2>. QED
    BY <2>1, <2>2
<1>. QED
  BY <1>3, <1>4

\* So a step that changes neither who waits nor who was told, and registers nothing,
\* keeps ToldInv.
LEMMA ToldSame ==
  ASSUME ToldInv, AllLoopsSame, UNCHANGED <<waiting, told>>,
         \A s \in Services : registered'[s] # 0 => registered[s] # 0
  PROVE  ToldInv'
<1>1. LoopInv'
  BY DEF LoopInv, ToldInv, AllLoopsSame, SameLoops
<1>2. WatcherInv'
  BY NotifiedSame DEF WatcherInv, ToldInv
<1>3. ForgottenInv'
  <2>. SUFFICES ASSUME NEW s \in Services, registered'[s] # 0, waiting[s] # <<>>
                PROVE  \E t \in Threads : \E k \in DOMAIN stack'[t] : Loops(t, k, s)'
    BY DEF ForgottenInv
  <2>1. PICK t \in Threads : \E k \in DOMAIN stack[t] : Loops(t, k, s)
    BY DEF ForgottenInv, ToldInv
  <2>2. PICK k \in DOMAIN stack[t] : Loops(t, k, s)
    BY <2>1
  <2>3. Loops(t, k, s)'
    BY <2>2, NotifiedSame
  <2>4. k \in DOMAIN stack'[t]
    BY <2>3 DEF Loops
  <2>. QED
    BY <2>3, <2>4
<1>. QED
  BY <1>1, <1>2, <1>3 DEF ToldInv

\* In the directory it does nothing, if it does not unregister, either.
LEMMA DirectorySame ==
  ASSUME UNCHANGED <<registered, waiting, told>>
  PROVE  DirectoryStep
BY DEF DirectoryStep, Directory!vars

\* No two loops are for the same service.
LEMMA OneLoop ==
  ASSUME IInv, KeptInv, NEW s, NEW t \in Threads, NEW k, Loops(t, k, s),
         NEW u \in Threads, NEW j, Loops(u, j, s)
  PROVE  t = u /\ k = j
<1>1. Holds(t) /\ Holds(u)
  BY DEF Loops, Holds
<1>2. t = u
  BY <1>1 DEF IInv, MutexInv
<1>3. stack[t] \in Seq(Frame) /\ k \in Nat /\ j \in Nat
  <2>1. stack[t] \in Seq(Frame)
    BY DEF IInv, TypeOK
  <2>. QED
    BY <1>2, <2>1 DEF Loops
<1>4. ~(k < j) /\ ~(j < k)
  BY <1>2 DEF KeptInv, KeptStack, LoopsDiffer, Loops
<1>. QED
  BY <1>2, <1>3, <1>4

\* Nor for one that is not registered.
LEMMA LoopRegistered ==
  ASSUME KeptInv, NEW s, NEW t \in Threads, NEW k, Loops(t, k, s)
  PROVE  registered[s] # 0
BY DEF KeptInv, KeptStack, Loops, Calling

\* A frame that is no loop is taken away.
LEMMA PopLoops ==
  ASSUME NEW s, NEW r, NEW n \in Nat \ {0}, DOMAIN s = 1..n, s[n].step # "notify",
         DOMAIN r = 1..n - 1, \A k \in 1..n - 1 : r[k] = s[k]
  PROVE  SameLoops(r, s)
<1>1. \A k \in 1..n : k \in 1..n - 1 \/ k = n
  OBVIOUS
<1>. QED
  BY <1>1 DEF SameLoops

\* A frame that is no loop is replaced by another.
LEMMA ReplaceLoops ==
  ASSUME NEW s, NEW r, NEW n \in Nat \ {0}, DOMAIN s = 1..n, s[n].step # "notify",
         DOMAIN r = 1..n, \A k \in 1..n - 1 : r[k] = s[k], r[n].step # "notify"
  PROVE  SameLoops(r, s)
<1>1. \A k \in 1..n : k \in 1..n - 1 \/ k = n
  OBVIOUS
<1>. QED
  BY <1>1 DEF SameLoops

\* A frame that is no loop is put on top.
LEMMA PushLoops ==
  ASSUME NEW s, NEW r, NEW n \in Nat, DOMAIN s = 1..n,
         DOMAIN r = 1..n + 1, \A k \in 1..n : r[k] = s[k], r[n + 1].step # "notify"
  PROVE  SameLoops(r, s)
<1>1. \A k \in 1..n + 1 : k \in 1..n \/ k = n + 1
  OBVIOUS
<1>. QED
  BY <1>1 DEF SameLoops

\* The steps of operations that read the registry at most.
LEMMA QuietStep ==
  ASSUME WatchersBehave, IInv, ToldInv, NEW t \in Threads,
         \/ CodeReturns(t) \/ DuplicatedRegistration(t) \/ CalledBack(t)
         \/ IsServiceRegistered(t) \/ CallRefused(t) \/ WatcherThrows(t)
         \/ FetchStoredCallback(t) \/ GetWorker(t) \/ DoJob(t)
         \/ CancelLock(t) \/ CancelJobsFor(t) \/ ScheduleJob(t)
  PROVE  ToldInv' /\ DirectoryStep
<1> DEFINE n == Len(stack[t])
<1>1. /\ stack[t] # <<>> /\ Top(t).step # "notify" /\ UNCHANGED <<registered, waiting, told>>
      /\ ~WatcherThrows(t)
  BY DEF CodeReturns, DuplicatedRegistration, CalledBack, IsServiceRegistered, CallRefused,
         WatcherThrows, FetchStoredCallback, GetWorker, DoJob, CancelLock, CancelJobsFor,
         LocksQueue, ScheduleJob, At, registryVars, WatchersBehave
<1>2. /\ n \in Nat \ {0} /\ DOMAIN stack[t] = 1..n /\ Top(t) = stack[t][n] /\ Top(t) \in Frame
  BY <1>1, TopOfStack DEF IInv
<1>3. \/ Return(t)
      \/ \E f \in Frame : Replace(t, f) /\ f.step # "notify"
  <2> DEFINE P(f) == f \in Frame /\ f.step # "notify"
  <2>1. \A w \in Workers : w \in Nat /\ w + 1 \in Nat
    BY DEF Workers
  <2>2. CASE FetchStoredCallback(t)
    <3>1. registered[Top(t).name] \in Nat
      <4>1. Top(t).name \in Services /\ Len(regs) \in Nat
        BY <1>1, TopFrame DEF IInv, TypeOK
      <4>. QED
        BY <4>1 DEF IInv, TypeOK
    <3>2. P([Top(t) EXCEPT !.step = "invoke", !.reg = registered[Top(t).name]])
      BY <1>2, <3>1 DEF Frame
    <3>. QED
      BY <2>2, <3>2 DEF FetchStoredCallback
  <2>3. CASE GetWorker(t)
    <3>1. PICK w \in Workers : Replace(t, [Top(t) EXCEPT !.step = "push", !.pos = w])
      BY <2>3 DEF GetWorker
    <3>2. P([Top(t) EXCEPT !.step = "push", !.pos = w])
      BY <1>2, <2>1 DEF Frame
    <3>. QED
      BY <3>1, <3>2
  <2>4. CASE DoJob(t)
    <3>1. P([Top(t) EXCEPT !.op = "action", !.step = "code"])
      BY <1>2 DEF Frame
    <3>. QED
      BY <2>4, <3>1 DEF DoJob
  <2>5. CASE CancelLock(t)
    <3>1. P([Top(t) EXCEPT !.step = "visit"])
      BY <1>2 DEF Frame
    <3>. QED
      BY <2>5, <3>1 DEF CancelLock
  <2>6. CASE CancelJobsFor(t)
    <3>1. PICK w \in Workers :
            IF w < PoolSize THEN Replace(t, [Top(t) EXCEPT !.step = "cancel", !.pos = w + 1]) ELSE Return(t)
      BY <2>6 DEF CancelJobsFor
    <3>2. P([Top(t) EXCEPT !.step = "cancel", !.pos = w + 1])
      BY <1>2, <2>1 DEF Frame
    <3>. QED
      BY <3>1, <3>2
  <2>7. CASE ScheduleJob(t)
    <3>1. P([Top(t) EXCEPT !.step = "wait"])
      BY <1>2 DEF Frame
    <3>. QED
      BY <2>7, <3>1 DEF ScheduleJob
  <2>. QED
    BY <1>1, <2>2, <2>3, <2>4, <2>5, <2>6, <2>7
       DEF CodeReturns, DuplicatedRegistration, CalledBack, IsServiceRegistered, CallRefused
<1>4. SameLoops(stack'[t], stack[t]) /\ \A u \in Threads \ {t} : stack'[u] = stack[u]
  <2>1. CASE Return(t)
    BY <1>1, <1>2, <2>1, ReturnStack, PopLoops DEF IInv
  <2>2. ASSUME NEW f \in Frame, Replace(t, f), f.step # "notify"
        PROVE  SameLoops(stack'[t], stack[t]) /\ \A u \in Threads \ {t} : stack'[u] = stack[u]
    <3>1. /\ DOMAIN stack'[t] = 1..n /\ stack'[t][n] = f
          /\ \A k \in 1..n - 1 : stack'[t][k] = stack[t][k]
          /\ \A u \in Threads \ {t} : stack'[u] = stack[u]
      BY <1>1, <2>2, ReplaceStack DEF IInv
    <3>. QED
      BY <1>1, <1>2, <2>2, <3>1, ReplaceLoops
  <2>. QED
    BY <1>3, <2>1, <2>2
<1>5. AllLoopsSame
  BY <1>4 DEF AllLoopsSame, SameLoops
<1>. QED
  BY <1>1, <1>5, ToldSame, DirectorySame

\* Call begins an operation.
LEMMA CallTold ==
  ASSUME IInv, ToldInv, NEW t \in Threads, NEW op \in Ops, NEW s \in Services, NEW ty \in Types,
         Call(t, op, s, ty)
  PROVE  ToldInv' /\ DirectoryStep
<1> DEFINE f == NewFrame(op, s, ty)
<1>1. f \in Frame /\ f.step = "lock"
  BY DEF NewFrame, Frame
<1>2. /\ stack[t] \in Seq(Frame) /\ stack'[t] = Append(stack[t], f)
      /\ \A u \in Threads \ {t} : stack'[u] = stack[u]
      /\ UNCHANGED <<registered, waiting, told>>
  BY DEF Call, IInv, TypeOK, registryVars
<1> HIDE DEF f
<1>3. SameLoops(stack'[t], stack[t])
  <2> DEFINE n == Len(stack[t])
  <2>1. /\ n \in Nat /\ DOMAIN stack[t] = 1..n /\ DOMAIN stack'[t] = 1..n + 1
        /\ \A k \in 1..n : stack'[t][k] = stack[t][k]
        /\ stack'[t][n + 1] = f
    BY <1>1, <1>2, Pushing
  <2>. QED
    BY <1>1, <2>1, PushLoops
<1>4. AllLoopsSame
  BY <1>2, <1>3 DEF AllLoopsSame, SameLoops
<1>. QED
  BY <1>2, <1>4, ToldSame, DirectorySame

\* The steps of the workers' threads.
LEMMA RunTold ==
  ASSUME IInv, KeptInv, ToldInv, NEW w \in Workers, Run(w)
  PROVE  ToldInv' /\ DirectoryStep
<1>1. UNCHANGED <<registered, waiting, told>>
  BY DEF Run, Take, Execute, Executed, registryVars
<1>2. AllLoopsSame
  BY RunKept DEF AllLoopsSame, SameLoops, Popped
<1>. QED
  BY <1>1, <1>2, ToldSame, DirectorySame

-----------------------------------------------------------------------------
(* Registration.                                                           *)

\* registerInterface starts the loop at the first of those who wait.
LEMMA RegisterTold ==
  ASSUME IInv, KeptInv, ToldInv, NEW t \in Threads, RegisterInterface(t)
  PROVE  ToldInv' /\ DirectoryStep
<1> DEFINE s == Top(t).name
           f == [Top(t) EXCEPT !.step = "notify", !.pos = 1, !.len = Len(waiting[s])]
           n == Len(stack[t])
<1>1. /\ stack[t] # <<>> /\ Top(t).step = "lock"
      /\ registered[s] = 0 /\ regs' = Append(regs, Top(t).type)
      /\ registered' = [registered EXCEPT ![s] = Len(regs')] /\ Replace(t, f)
      /\ UNCHANGED <<waiting, told>>
  BY DEF RegisterInterface, At, StartNotifying
<1>2. /\ n \in Nat \ {0} /\ DOMAIN stack[t] = 1..n /\ Top(t) = stack[t][n]
  BY <1>1, TopOfStack DEF IInv
<1>3. Top(t) \in Frame /\ s \in Services /\ Top(t).type \in Types
  BY <1>1, TopFrame
<1>4. Len(waiting[s]) \in Nat /\ registered \in [Services -> 0..Len(regs)] /\ Len(regs) \in Nat
  BY <1>3 DEF IInv, TypeOK
<1>5. Len(regs') = Len(regs) + 1
  BY <1>1, <1>3 DEF IInv, TypeOK
<1>6. registered'[s] # 0 /\ \A r \in Services : r # s => registered'[r] = registered[r]
  BY <1>1, <1>3, <1>4, <1>5
<1> HIDE DEF s
<1>7. f \in Frame /\ f.step = "notify" /\ f.name = s /\ f.pos = 1 /\ f.len = Len(waiting[s])
  BY <1>1, <1>3, <1>4 DEF Frame, s
<1> HIDE DEF f
<1>8. /\ DOMAIN stack'[t] = 1..n /\ stack'[t][n] = f
      /\ \A k \in 1..n - 1 : stack'[t][k] = stack[t][k]
      /\ \A u \in Threads \ {t} : stack'[u] = stack[u]
  BY <1>1, <1>7, ReplaceStack DEF IInv
<1> HIDE DEF n
\* The frames that are loops are those that were, and the new one.
<1>9. ASSUME NEW u \in Threads, NEW k \in DOMAIN stack'[u], stack'[u][k].step = "notify"
      PROVE  \/ u = t /\ k = n /\ stack'[u][k] = f
             \/ k \in DOMAIN stack[u] /\ stack'[u][k] = stack[u][k]
  <2>1. \A i \in 1..n : i \in 1..n - 1 \/ i = n
    BY <1>2
  <2>. QED
    BY <1>2, <1>8, <2>1
<1>10. ASSUME NEW u \in Threads, NEW k \in DOMAIN stack[u], stack[u][k].step = "notify"
       PROVE  k \in DOMAIN stack'[u] /\ stack'[u][k] = stack[u][k]
  <2>1. \A i \in 1..n : i \in 1..n - 1 \/ i = n
    BY <1>2
  <2>. QED
    BY <1>1, <1>2, <1>8, <1>10, <2>1
<1>11. \A u \in Threads : \A k : ~Loops(u, k, s)
  BY <1>1, LoopRegistered
<1>12. LoopInv'
  <2>. SUFFICES ASSUME NEW u \in Threads, NEW k \in DOMAIN stack'[u], stack'[u][k].step = "notify"
                PROVE  /\ stack'[u][k].len = Len(waiting[stack'[u][k].name])
                       /\ stack'[u][k].pos \in 1..stack'[u][k].len + 1
    BY <1>1 DEF LoopInv
  <2>1. CASE stack'[u][k] = f
    BY <1>4, <1>7, <2>1
  <2>2. CASE k \in DOMAIN stack[u] /\ stack'[u][k] = stack[u][k]
    BY <2>2 DEF LoopInv, ToldInv
  <2>. QED
    BY <1>9, <2>1, <2>2
<1>13. WatcherInv'
  <2>1. ASSUME NEW r \in Services, NEW p \in DOMAIN waiting[r]
        PROVE  Notified(r, p)' <=> Notified(r, p)
    <3>1. ASSUME Notified(r, p)
          PROVE  Notified(r, p)'
      <4>1. PICK u \in Threads : \E k \in DOMAIN stack[u] : Loops(u, k, r) /\ p < stack[u][k].pos
        BY <3>1 DEF Notified
      <4>2. PICK k \in DOMAIN stack[u] : Loops(u, k, r) /\ p < stack[u][k].pos
        BY <4>1
      <4>3. k \in DOMAIN stack'[u] /\ stack'[u][k] = stack[u][k]
        BY <1>10, <4>2 DEF Loops
      <4>. QED
        BY <4>2, <4>3 DEF Notified, Loops
    <3>2. ASSUME Notified(r, p)'
          PROVE  Notified(r, p)
      <4>1. PICK u \in Threads : \E k \in DOMAIN stack'[u] : Loops(u, k, r)' /\ p < stack'[u][k].pos
        BY <3>2 DEF Notified
      <4>2. PICK k \in DOMAIN stack'[u] : Loops(u, k, r)' /\ p < stack'[u][k].pos
        BY <4>1
      <4>3. stack'[u][k] # f
        <5>1. p \in Nat \ {0}
          BY DEF IInv, TypeOK
        <5>. QED
          BY <1>7, <4>2, <5>1
      <4>4. k \in DOMAIN stack[u] /\ stack'[u][k] = stack[u][k]
        BY <1>9, <4>2, <4>3 DEF Loops
      <4>. QED
        BY <4>2, <4>4 DEF Notified, Loops
    <3>. QED
      BY <3>1, <3>2
  <2>. QED
    BY <1>1, <2>1 DEF WatcherInv, ToldInv
<1>14. ForgottenInv'
  <2>. SUFFICES ASSUME NEW r \in Services, registered'[r] # 0, waiting[r] # <<>>
                PROVE  \E u \in Threads : \E k \in DOMAIN stack'[u] : Loops(u, k, r)'
    BY <1>1 DEF ForgottenInv
  <2>1. CASE r = s
    <3>1. n \in DOMAIN stack'[t]
      BY <1>2, <1>8
    <3>. QED
      BY <1>7, <1>8, <2>1, <3>1 DEF Loops
  <2>2. CASE r # s
    <3>1. PICK u \in Threads : \E k \in DOMAIN stack[u] : Loops(u, k, r)
      BY <1>6, <2>2 DEF ForgottenInv, ToldInv
    <3>2. PICK k \in DOMAIN stack[u] : Loops(u, k, r)
      BY <3>1
    <3>. QED
      BY <1>10, <3>2 DEF Loops
  <2>. QED
    BY <2>1, <2>2
<1>15. DirectoryStep
  <2>1. Registered' = Registered \cup {s} /\ s \notin Registered
    BY <1>1, <1>3, <1>6 DEF Registered
  <2>2. Awaits' = Awaits /\ told' = told
    BY <1>1 DEF Awaits
  <2>. QED
    BY <1>3, <2>1, <2>2 DEF DirectoryStep, Directory!Next, Directory!Register, Registered, Awaits
<1>. QED
  BY <1>12, <1>13, <1>14, <1>15 DEF ToldInv

-----------------------------------------------------------------------------
(* The loop over the watchers.                                             *)

\* The values of waiting[s] are watchers.
LEMMA WaitingTyped ==
  ASSUME TypeOK, NEW s \in Services
  PROVE  /\ waiting[s] \in Seq(1..Len(told)) /\ Len(told) \in Nat /\ DOMAIN told = 1..Len(told)
         /\ Len(waiting[s]) \in Nat /\ DOMAIN waiting[s] = 1..Len(waiting[s])
         /\ \A p \in DOMAIN waiting[s] : waiting[s][p] \in DOMAIN told
         /\ \A v \in DOMAIN told : told[v] \in Nat
BY DEF TypeOK

\* The loop calls back the watcher at its position, which had not been called before.
LEMMA NotifyTold ==
  ASSUME IInv, KeptInv, ToldInv, NEW t \in Threads, NotifyWatcher(t)
  PROVE  ToldInv' /\ DirectoryStep
<1> DEFINE s == Top(t).name
           i == Top(t).pos
           v == waiting[s][i]
           f == [Top(t) EXCEPT !.pos = i + 1]
           n == Len(stack[t])
<1>1. /\ stack[t] # <<>> /\ Top(t).step = "notify" /\ i <= Top(t).len
      /\ told' = [told EXCEPT ![v] = @ + 1]
      /\ CallBack(t, f) /\ UNCHANGED <<registered, waiting>>
  BY DEF NotifyWatcher, At
<1>2. /\ n \in Nat \ {0} /\ DOMAIN stack[t] = 1..n /\ n \in DOMAIN stack[t] /\ Top(t) = stack[t][n]
  BY <1>1, TopOfStack DEF IInv
<1>3. Top(t) \in Frame /\ s \in Services /\ i \in Nat
  BY <1>1, TopFrame
<1>4. Loops(t, n, s) /\ stack[t][n].pos = i
  BY <1>1, <1>2 DEF Loops
<1>5. Top(t).len = Len(waiting[s]) /\ i \in DOMAIN waiting[s]
  <2>1. Top(t).len = Len(waiting[s]) /\ i \in 1..Top(t).len + 1
    BY <1>1, <1>2 DEF LoopInv, ToldInv
  <2>. QED
    BY <1>1, <1>3, <2>1, WaitingTyped DEF IInv
<1>6. v \in DOMAIN told /\ told \in Seq(Nat) /\ DOMAIN told = 1..Len(told)
  BY <1>3, <1>5, WaitingTyped DEF IInv, TypeOK
<1>7. told[v] = 0
  <2>1. ~Notified(s, i)
    <3>. SUFFICES ASSUME NEW u \in Threads, NEW k \in DOMAIN stack[u], Loops(u, k, s), i < stack[u][k].pos
                  PROVE  FALSE
      BY DEF Notified
    <3>1. u = t /\ k = n
      BY <1>4, OneLoop
    <3>. QED
      BY <1>3, <1>4, <3>1
  <2>2. told[v] # 1 /\ told[v] <= 1 /\ told[v] \in Nat
    BY <1>3, <1>5, <1>6, <2>1, WaitingTyped DEF WatcherInv, ToldInv, IInv
  <2>. QED
    BY <2>2
<1>8. f \in Frame /\ f.step = "notify" /\ f.name = s /\ f.pos = i + 1 /\ f.len = Top(t).len
  BY <1>1, <1>3 DEF Frame
<1> HIDE DEF f
<1>9. /\ DOMAIN stack'[t] = 1..n + 1 /\ stack'[t][n] = f
      /\ \A k \in 1..n - 1 : stack'[t][k] = stack[t][k]
      /\ stack'[t][n + 1].step = "code"
      /\ \A u \in Threads \ {t} : stack'[u] = stack[u]
  BY <1>1, <1>8, CallBackStack DEF IInv
<1>10. /\ DOMAIN told' = DOMAIN told /\ told'[v] = 1
       /\ \A x \in DOMAIN told : x # v => told'[x] = told[x]
       /\ told' = [told EXCEPT ![v] = 1]
  BY <1>1, <1>6, <1>7
<1> HIDE DEF n, v, s, i
\* The loops are those that were; that of t is one further.
<1>11. ASSUME NEW u \in Threads, NEW k \in DOMAIN stack'[u], stack'[u][k].step = "notify"
       PROVE  \/ u = t /\ k = n /\ stack'[u][k] = f
              \/ k \in DOMAIN stack[u] /\ stack'[u][k] = stack[u][k] /\ ~(u = t /\ k = n)
  <2>1. \A j \in 1..n + 1 : j \in 1..n - 1 \/ j = n \/ j = n + 1
    BY <1>2
  <2>2. CASE u = t
    <3>1. k \in 1..n - 1 \/ k = n
      BY <1>9, <1>11, <2>1, <2>2
    <3>2. k \in 1..n - 1 => k \in 1..n /\ k # n
      BY <1>2
    <3>. QED
      BY <1>2, <1>9, <2>2, <3>1, <3>2
  <2>. QED
    BY <1>9, <2>2
<1>12. ASSUME NEW u \in Threads, NEW k \in DOMAIN stack[u], stack[u][k].step = "notify"
       PROVE  \/ u = t /\ k = n /\ k \in DOMAIN stack'[u] /\ stack'[u][k] = f
              \/ k \in DOMAIN stack'[u] /\ stack'[u][k] = stack[u][k]
  <2>1. \A j \in 1..n : j \in 1..n + 1 /\ (j \in 1..n - 1 \/ j = n)
    BY <1>2
  <2>. QED
    BY <1>2, <1>9, <2>1
<1>13. LoopInv'
  <2>. SUFFICES ASSUME NEW u \in Threads, NEW k \in DOMAIN stack'[u], stack'[u][k].step = "notify"
                PROVE  /\ stack'[u][k].len = Len(waiting[stack'[u][k].name])
                       /\ stack'[u][k].pos \in 1..stack'[u][k].len + 1
    BY <1>1 DEF LoopInv
  <2>1. CASE stack'[u][k] = f
    <3>1. f.len = Len(waiting[s]) /\ i <= f.len /\ f.len \in Nat
      BY <1>1, <1>3, <1>5, <1>8, WaitingTyped DEF IInv, i
    <3>. QED
      BY <1>3, <1>8, <2>1, <3>1
  <2>2. CASE k \in DOMAIN stack[u] /\ stack'[u][k] = stack[u][k]
    BY <2>2 DEF LoopInv, ToldInv
  <2>. QED
    BY <1>11, <2>1, <2>2
<1>14. ASSUME NEW r \in Services, NEW p \in DOMAIN waiting[r]
       PROVE  Notified(r, p)' <=> (Notified(r, p) \/ (r = s /\ p = i))
  <2>1. p \in Nat
    BY WaitingTyped DEF IInv
  <2>2. ASSUME Notified(r, p)
        PROVE  Notified(r, p)'
    <3>1. PICK u \in Threads : \E k \in DOMAIN stack[u] : Loops(u, k, r) /\ p < stack[u][k].pos
      BY <2>2 DEF Notified
    <3>2. PICK k \in DOMAIN stack[u] : Loops(u, k, r) /\ p < stack[u][k].pos
      BY <3>1
    <3>3. CASE u = t /\ k = n
      <4>1. k \in DOMAIN stack'[u] /\ stack'[u][k] = f
        BY <1>9, <1>2, <3>3
      <4>2. r = s /\ p < i
        BY <1>4, <3>2, <3>3 DEF Loops
      <4>3. Loops(u, k, r)' /\ p < stack'[u][k].pos
        BY <1>3, <1>8, <2>1, <4>1, <4>2 DEF Loops
      <4>. QED
        BY <4>1, <4>3 DEF Notified
    <3>4. CASE ~(u = t /\ k = n)
      <4>1. k \in DOMAIN stack'[u] /\ stack'[u][k] = stack[u][k]
        BY <1>12, <3>2, <3>4 DEF Loops
      <4>. QED
        BY <3>2, <4>1 DEF Notified, Loops
    <3>. QED
      BY <3>3, <3>4
  <2>3. ASSUME r = s, p = i
        PROVE  Notified(r, p)'
    <3>1. PICK m \in DOMAIN stack'[t] : m = n
      BY <1>2, <1>9
    <3>2. stack'[t][m].step = "notify" /\ stack'[t][m].name = r /\ stack'[t][m].pos = i + 1
      BY <1>8, <1>9, <2>3, <3>1
    <3>3. p < i + 1
      BY <1>3, <2>1, <2>3
    <3>4. p < stack'[t][m].pos
      BY <3>2, <3>3
    <3>. QED
      BY <3>2, <3>4 DEF Notified, Loops
  <2>4. ASSUME Notified(r, p)'
        PROVE  Notified(r, p) \/ (r = s /\ p = i)
    <3>1. PICK u \in Threads : \E k \in DOMAIN stack'[u] : Loops(u, k, r)' /\ p < stack'[u][k].pos
      BY <2>4 DEF Notified
    <3>2. PICK k \in DOMAIN stack'[u] : Loops(u, k, r)' /\ p < stack'[u][k].pos
      BY <3>1
    <3>3. CASE u = t /\ k = n /\ stack'[u][k] = f
      <4>1. r = s /\ p < i + 1
        BY <1>8, <3>2, <3>3 DEF Loops
      <4>2. p < i => Notified(r, p)
        BY <1>2, <1>4, <4>1 DEF Notified
      <4>. QED
        BY <1>3, <2>1, <4>1, <4>2
    <3>4. CASE k \in DOMAIN stack[u] /\ stack'[u][k] = stack[u][k]
      BY <3>2, <3>4 DEF Notified, Loops
    <3>. QED
      BY <1>11, <3>2, <3>3, <3>4 DEF Loops
  <2>. QED
    BY <2>2, <2>3, <2>4
<1>15. WatcherInv'
  <2>1. \A r, q \in Services : \A p \in DOMAIN waiting[r], j \in DOMAIN waiting[q] :
          waiting[r][p] = waiting[q][j] => r = q /\ p = j
    BY DEF WatcherInv, ToldInv
  <2>2. ASSUME NEW r \in Services, NEW p \in DOMAIN waiting[r]
        PROVE  told'[waiting[r][p]] = 1 <=> Notified(r, p)'
    <3>1. waiting[r][p] \in DOMAIN told
      BY WaitingTyped DEF IInv
    <3>2. waiting[r][p] = v <=> (r = s /\ p = i)
      BY <1>3, <1>5, <2>1 DEF v
    <3>3. told[waiting[r][p]] = 1 <=> Notified(r, p)
      BY DEF WatcherInv, ToldInv
    <3>4. CASE r = s /\ p = i
      BY <1>10, <1>14, <3>2, <3>4
    <3>5. CASE ~(r = s /\ p = i)
      BY <1>10, <1>14, <3>1, <3>2, <3>3, <3>5
    <3>. QED
      BY <3>4, <3>5
  <2>3. \A x \in DOMAIN told' :
          /\ told'[x] <= 1
          /\ told'[x] = 0 => \E r \in Services : \E p \in DOMAIN waiting[r] : waiting[r][p] = x
    BY <1>10 DEF WatcherInv, ToldInv
  <2>. QED
    BY <1>1, <2>1, <2>2, <2>3 DEF WatcherInv
<1>16. ForgottenInv'
  <2>. SUFFICES ASSUME NEW r \in Services, registered[r] # 0, waiting[r] # <<>>
                PROVE  \E u \in Threads : \E k \in DOMAIN stack'[u] : Loops(u, k, r)'
    BY <1>1 DEF ForgottenInv
  <2>1. PICK u \in Threads : \E k \in DOMAIN stack[u] : Loops(u, k, r)
    BY DEF ForgottenInv, ToldInv
  <2>2. PICK k \in DOMAIN stack[u] : Loops(u, k, r)
    BY <2>1
  <2>3. CASE u = t /\ k = n /\ k \in DOMAIN stack'[u] /\ stack'[u][k] = f
    BY <1>4, <1>8, <2>2, <2>3 DEF Loops
  <2>4. CASE k \in DOMAIN stack'[u] /\ stack'[u][k] = stack[u][k]
    BY <2>2, <2>4 DEF Loops
  <2>. QED
    BY <1>12, <2>2, <2>3, <2>4 DEF Loops
<1>17. DirectoryStep
  <2>1. s \in Registered /\ Registered' = Registered
    BY <1>1, <1>3, <1>4, LoopRegistered DEF Registered
  <2>2. v \in Awaits[s]
    BY <1>3, <1>5, <1>7 DEF Awaits, ToSet, v
  <2>3. Awaits' = [Awaits EXCEPT ![s] = @ \ {v}]
    <3>1. \A r \in Services : Awaits'[r] = IF r = s THEN Awaits[s] \ {v} ELSE Awaits[r]
      <4>. SUFFICES ASSUME NEW r \in Services
                    PROVE  Awaits'[r] = IF r = s THEN Awaits[s] \ {v} ELSE Awaits[r]
        OBVIOUS
      <4>1. Awaits'[r] = {x \in ToSet(waiting[r]) : told'[x] = 0} /\ Awaits[r] = {x \in ToSet(waiting[r]) : told[x] = 0}
        BY <1>1 DEF Awaits
      <4>2. \A x \in ToSet(waiting[r]) : x \in DOMAIN told
        BY WaitingTyped DEF ToSet, IInv
      <4>3. \A x \in ToSet(waiting[r]) : told'[x] = 0 <=> told[x] = 0 /\ x # v
        BY <1>10, <4>2
      <4>4. r # s => v \notin ToSet(waiting[r])
        BY <1>3, <1>5 DEF ToSet, WatcherInv, ToldInv, v
      <4>. QED
        BY <4>1, <4>3, <4>4
    <3>2. Awaits = [r \in Services |-> Awaits[r]] /\ Awaits' = [r \in Services |-> Awaits'[r]]
      BY DEF Awaits
    <3>. QED
      BY <1>3, <3>1, <3>2
  <2>. QED
    BY <1>3, <1>10, <2>1, <2>2, <2>3 DEF DirectoryStep, Directory!Next, Directory!Hear, Registered, Awaits
<1>. QED
  BY <1>13, <1>15, <1>16, <1>17 DEF ToldInv

\* When the loop ends, all of those who wait have been called back.
LEMMA ClearTold ==
  ASSUME IInv, KeptInv, ToldInv, NEW t \in Threads, ClearWatchers(t)
  PROVE  ToldInv' /\ DirectoryStep
<1> DEFINE s == Top(t).name
           n == Len(stack[t])
<1>1. /\ stack[t] # <<>> /\ Top(t).step = "notify" /\ Top(t).pos > Top(t).len
      /\ waiting' = [waiting EXCEPT ![s] = <<>>] /\ Return(t)
      /\ UNCHANGED <<registered, told>>
  BY DEF ClearWatchers, At, Erased
<1>2. /\ n \in Nat \ {0} /\ DOMAIN stack[t] = 1..n /\ n \in DOMAIN stack[t] /\ Top(t) = stack[t][n]
  BY <1>1, TopOfStack DEF IInv
<1>3. Top(t) \in Frame /\ s \in Services /\ Top(t).pos \in Nat
  BY <1>1, TopFrame
<1>4. Loops(t, n, s)
  BY <1>1, <1>2 DEF Loops
<1>5. Top(t).len = Len(waiting[s])
  BY <1>1, <1>2 DEF LoopInv, ToldInv
<1>6. waiting'[s] = <<>> /\ \A r \in Services : r # s => waiting'[r] = waiting[r]
  BY <1>1, <1>3 DEF IInv, TypeOK
<1>7. \A p \in DOMAIN waiting[s] : told[waiting[s][p]] = 1
  <2>. SUFFICES ASSUME NEW p \in DOMAIN waiting[s] PROVE Notified(s, p)
    BY <1>3 DEF WatcherInv, ToldInv
  <2>1. p < stack[t][n].pos
    BY <1>1, <1>2, <1>3, <1>5, WaitingTyped DEF IInv
  <2>. QED
    BY <1>2, <1>4, <2>1 DEF Notified
<1>8. /\ DOMAIN stack'[t] = 1..n - 1 /\ \A k \in 1..n - 1 : stack'[t][k] = stack[t][k]
      /\ \A u \in Threads \ {t} : stack'[u] = stack[u]
  BY <1>1, ReturnStack DEF IInv
<1> HIDE DEF n, s
\* The loops are those that were, but for the one that ended.
<1>9. ASSUME NEW u \in Threads, NEW k \in DOMAIN stack'[u], stack'[u][k].step = "notify"
      PROVE  k \in DOMAIN stack[u] /\ stack'[u][k] = stack[u][k] /\ stack[u][k].name # s
  <2>1. k \in DOMAIN stack[u] /\ stack'[u][k] = stack[u][k] /\ ~(u = t /\ k = n)
    BY <1>2, <1>8
  <2>. QED
    BY <1>4, <1>9, <2>1, OneLoop DEF Loops
<1>10. ASSUME NEW u \in Threads, NEW k \in DOMAIN stack[u], stack[u][k].step = "notify",
              stack[u][k].name # s
       PROVE  k \in DOMAIN stack'[u] /\ stack'[u][k] = stack[u][k]
  <2>1. ~(u = t /\ k = n)
    BY <1>4, <1>10 DEF Loops
  <2>2. \A j \in 1..n : j \in 1..n - 1 \/ j = n
    BY <1>2
  <2>. QED
    BY <1>2, <1>8, <2>1, <2>2
<1>11. LoopInv'
  <2>. SUFFICES ASSUME NEW u \in Threads, NEW k \in DOMAIN stack'[u], stack'[u][k].step = "notify"
                PROVE  /\ stack'[u][k].len = Len(waiting'[stack'[u][k].name])
                       /\ stack'[u][k].pos \in 1..stack'[u][k].len + 1
    BY DEF LoopInv
  <2>1. k \in DOMAIN stack[u] /\ stack'[u][k] = stack[u][k] /\ stack[u][k].name # s
    BY <1>9
  <2>2. stack[u][k].name \in Services
    <3>1. stack[u] \in Seq(Frame)
      BY DEF IInv, TypeOK
    <3>2. stack[u][k] \in Frame
      BY <2>1, <3>1
    <3>. QED
      BY <3>2 DEF Frame
  <2>. QED
    BY <1>6, <2>1, <2>2 DEF LoopInv, ToldInv
<1>12. WatcherInv'
  <2>1. ASSUME NEW r \in Services, r # s, NEW p
        PROVE  Notified(r, p)' <=> Notified(r, p)
    <3>1. ASSUME Notified(r, p)
          PROVE  Notified(r, p)'
      <4>1. PICK u \in Threads : \E k \in DOMAIN stack[u] : Loops(u, k, r) /\ p < stack[u][k].pos
        BY <3>1 DEF Notified
      <4>2. PICK k \in DOMAIN stack[u] : Loops(u, k, r) /\ p < stack[u][k].pos
        BY <4>1
      <4>3. k \in DOMAIN stack'[u] /\ stack'[u][k] = stack[u][k]
        BY <1>10, <2>1, <4>2 DEF Loops
      <4>. QED
        BY <4>2, <4>3 DEF Notified, Loops
    <3>2. ASSUME Notified(r, p)'
          PROVE  Notified(r, p)
      <4>1. PICK u \in Threads : \E k \in DOMAIN stack'[u] : Loops(u, k, r)' /\ p < stack'[u][k].pos
        BY <3>2 DEF Notified
      <4>2. PICK k \in DOMAIN stack'[u] : Loops(u, k, r)' /\ p < stack'[u][k].pos
        BY <4>1
      <4>3. k \in DOMAIN stack[u] /\ stack'[u][k] = stack[u][k]
        BY <1>9, <4>2 DEF Loops
      <4>. QED
        BY <4>2, <4>3 DEF Notified, Loops
    <3>. QED
      BY <3>1, <3>2
  <2>2. \A r, q \in Services : \A p \in DOMAIN waiting'[r], j \in DOMAIN waiting'[q] :
          waiting'[r][p] = waiting'[q][j] => r = q /\ p = j
    <3>1. DOMAIN waiting'[s] = {}
      BY <1>6
    <3>. QED
      BY <1>6, <3>1 DEF WatcherInv, ToldInv
  <2>3. ASSUME NEW r \in Services, NEW p \in DOMAIN waiting'[r]
        PROVE  told'[waiting'[r][p]] = 1 <=> Notified(r, p)'
    <3>1. r # s
      BY <1>6
    <3>2. waiting'[r] = waiting[r] /\ p \in DOMAIN waiting[r]
      BY <1>6, <3>1
    <3>3. told[waiting[r][p]] = 1 <=> Notified(r, p)
      BY <3>2 DEF WatcherInv, ToldInv
    <3>. QED
      BY <1>1, <2>1, <3>1, <3>2, <3>3
  <2>4. ASSUME NEW v \in DOMAIN told'
        PROVE  /\ told'[v] <= 1
               /\ told'[v] = 0 => \E r \in Services : \E p \in DOMAIN waiting'[r] : waiting'[r][p] = v
    <3>1. /\ told[v] <= 1
          /\ told[v] = 0 => \E r \in Services : \E p \in DOMAIN waiting[r] : waiting[r][p] = v
      BY <1>1 DEF WatcherInv, ToldInv
    <3>. QED
      BY <1>1, <1>6, <1>7, <3>1
  <2>. QED
    BY <2>2, <2>3, <2>4 DEF WatcherInv
<1>13. ForgottenInv'
  <2>. SUFFICES ASSUME NEW r \in Services, registered'[r] # 0, waiting'[r] # <<>>
                PROVE  \E u \in Threads : \E k \in DOMAIN stack'[u] : Loops(u, k, r)'
    BY DEF ForgottenInv
  <2>1. r # s /\ registered[r] # 0 /\ waiting[r] # <<>>
    BY <1>1, <1>6
  <2>2. PICK u \in Threads : \E k \in DOMAIN stack[u] : Loops(u, k, r)
    BY <2>1 DEF ForgottenInv, ToldInv
  <2>3. PICK k \in DOMAIN stack[u] : Loops(u, k, r)
    BY <2>2
  <2>4. k \in DOMAIN stack'[u] /\ stack'[u][k] = stack[u][k]
    BY <1>10, <2>1, <2>3 DEF Loops
  <2>. QED
    BY <2>3, <2>4 DEF Loops
<1>14. DirectoryStep
  <2>1. ASSUME NEW r \in Services
        PROVE  {v \in ToSet(waiting'[r]) : told'[v] = 0} = {v \in ToSet(waiting[r]) : told[v] = 0}
    <3>1. CASE r = s
      <4>1. {v \in ToSet(waiting'[s]) : told'[v] = 0} = {}
        BY <1>6 DEF ToSet
      <4>2. {v \in ToSet(waiting[s]) : told[v] = 0} = {}
        BY <1>7 DEF ToSet
      <4>. QED
        BY <3>1, <4>1, <4>2
    <3>2. CASE r # s
      BY <1>1, <1>6, <3>2
    <3>. QED
      BY <3>1, <3>2
  <2>2. Awaits' = Awaits
    BY <2>1 DEF Awaits
  <2>. QED
    BY <1>1, <2>2 DEF DirectoryStep, Directory!vars, Awaits
<1>. QED
  BY <1>11, <1>12, <1>13, <1>14 DEF ToldInv

-----------------------------------------------------------------------------
(* Subscription.                                                           *)

\* A watcher of a registered service is called back at once.
LEMMA SubscribeRegisteredTold ==
  ASSUME IInv, KeptInv, ToldInv, NEW t \in Threads, SubscribeRegistered(t)
  PROVE  ToldInv' /\ DirectoryStep
<1> DEFINE s == Top(t).name
           f == [Top(t) EXCEPT !.step = "callback"]
           n == Len(stack[t])
<1>1. /\ stack[t] # <<>> /\ Top(t).step = "lock" /\ registered[s] # 0
      /\ told' = Append(told, 1) /\ CallBack(t, f) /\ UNCHANGED <<registered, waiting>>
  BY DEF SubscribeRegistered, At
<1>2. /\ n \in Nat \ {0} /\ DOMAIN stack[t] = 1..n /\ Top(t) = stack[t][n]
  BY <1>1, TopOfStack DEF IInv
<1>3. Top(t) \in Frame /\ s \in Services
  BY <1>1, TopFrame
<1>4. f \in Frame /\ f.step = "callback"
  BY <1>3 DEF Frame
<1> HIDE DEF f
<1>5. /\ DOMAIN stack'[t] = 1..n + 1 /\ stack'[t][n].step = "callback"
      /\ \A k \in 1..n - 1 : stack'[t][k] = stack[t][k]
      /\ stack'[t][n + 1].step = "code"
      /\ \A u \in Threads \ {t} : stack'[u] = stack[u]
  BY <1>1, <1>4, CallBackStack DEF IInv
<1> HIDE DEF n, s
<1>6. AllLoopsSame
  <2>1. \A k \in 1..n + 1 : k \in 1..n - 1 \/ k = n \/ k = n + 1
    BY <1>2
  <2>2. \A k \in 1..n - 1 : k \in 1..n /\ k \in 1..n + 1
    BY <1>2
  <2>3. \A k \in 1..n : k \in 1..n - 1 \/ k = n
    BY <1>2
  <2>4. SameLoops(stack'[t], stack[t])
    BY <1>1, <1>2, <1>5, <2>1, <2>2, <2>3 DEF SameLoops
  <2>. QED
    BY <1>5, <2>4 DEF AllLoopsSame, SameLoops
<1> DEFINE m == Len(told) + 1
<1>7. /\ DOMAIN told' = DOMAIN told \cup {m} /\ told'[m] = 1
      /\ \A v \in DOMAIN told : told'[v] = told[v]
  BY <1>1 DEF IInv, TypeOK
<1> HIDE DEF m
<1>8. LoopInv'
  BY <1>1, <1>6 DEF LoopInv, ToldInv, AllLoopsSame, SameLoops
<1>9. WatcherInv'
  <2>1. \A r, q \in Services : \A p \in DOMAIN waiting[r], j \in DOMAIN waiting[q] :
          waiting[r][p] = waiting[q][j] => r = q /\ p = j
    BY DEF WatcherInv, ToldInv
  <2>2. ASSUME NEW r \in Services, NEW p \in DOMAIN waiting[r]
        PROVE  told'[waiting[r][p]] = 1 <=> Notified(r, p)'
    <3>1. told'[waiting[r][p]] = told[waiting[r][p]]
      BY <1>7, WaitingTyped DEF IInv
    <3>2. told[waiting[r][p]] = 1 <=> Notified(r, p)
      BY DEF WatcherInv, ToldInv
    <3>3. Notified(r, p)' <=> Notified(r, p)
      BY <1>6, NotifiedSame
    <3>. QED
      BY <3>1, <3>2, <3>3
  <2>3. \A v \in DOMAIN told' :
          /\ told'[v] <= 1
          /\ told'[v] = 0 => \E r \in Services : \E p \in DOMAIN waiting[r] : waiting[r][p] = v
    BY <1>7 DEF WatcherInv, ToldInv
  <2>4. waiting' = waiting
    BY <1>1
  <2>. QED
    BY <2>1, <2>2, <2>3, <2>4 DEF WatcherInv
<1>10. ForgottenInv'
  <2>. SUFFICES ASSUME NEW r \in Services, registered[r] # 0, waiting[r] # <<>>
                PROVE  \E u \in Threads : \E k \in DOMAIN stack'[u] : Loops(u, k, r)'
    BY <1>1 DEF ForgottenInv
  <2>1. PICK u \in Threads : \E k \in DOMAIN stack[u] : Loops(u, k, r)
    BY DEF ForgottenInv, ToldInv
  <2>2. PICK k \in DOMAIN stack[u] : Loops(u, k, r)
    BY <2>1
  <2>3. Loops(u, k, r)'
    BY <1>6, <2>2, NotifiedSame
  <2>4. k \in DOMAIN stack'[u]
    BY <2>3 DEF Loops
  <2>. QED
    BY <2>3, <2>4
<1>11. DirectoryStep
  <2>1. s \in Registered /\ Registered' = Registered
    BY <1>1, <1>3 DEF Registered, s
  <2>2. Awaits' = Awaits
    <3>1. ASSUME NEW r \in Services
          PROVE  {v \in ToSet(waiting'[r]) : told'[v] = 0} = {v \in ToSet(waiting[r]) : told[v] = 0}
      <4>1. \A v \in ToSet(waiting[r]) : v \in DOMAIN told
        BY WaitingTyped DEF ToSet, IInv
      <4>. QED
        BY <1>1, <1>7, <4>1
    <3>. QED
      BY <3>1 DEF Awaits
  <2>. QED
    BY <1>1, <1>3, <2>1, <2>2 DEF DirectoryStep, Directory!Next, Directory!HearAtOnce, Registered, Awaits
<1>. QED
  BY <1>8, <1>9, <1>10, <1>11 DEF ToldInv

\* A watcher of another waits: no loop is going on for that service.
LEMMA SubscribeLaterTold ==
  ASSUME IInv, KeptInv, ToldInv, NEW t \in Threads, SubscribeLater(t)
  PROVE  ToldInv' /\ DirectoryStep
<1> DEFINE s == Top(t).name
           n == Len(stack[t])
           m == Len(told) + 1
           e == Len(waiting[s]) + 1
<1>1. /\ stack[t] # <<>> /\ Top(t).step = "lock" /\ registered[s] = 0
      /\ told' = Append(told, 0) /\ waiting' = [waiting EXCEPT ![s] = Append(@, Len(told'))]
      /\ Return(t) /\ UNCHANGED registered
  BY DEF SubscribeLater, At
<1>2. /\ n \in Nat \ {0} /\ DOMAIN stack[t] = 1..n /\ Top(t) = stack[t][n]
  BY <1>1, TopOfStack DEF IInv
<1>3. s \in Services
  BY <1>1, TopFrame
<1>4. /\ told \in Seq(Nat) /\ Len(told') = m
      /\ DOMAIN told' = DOMAIN told \cup {m} /\ m \notin DOMAIN told /\ told'[m] = 0
      /\ \A v \in DOMAIN told : told'[v] = told[v]
  BY <1>1 DEF IInv, TypeOK
<1>5. waiting'[s] = Append(waiting[s], m) /\ \A r \in Services : r # s => waiting'[r] = waiting[r]
  BY <1>1, <1>3, <1>4 DEF IInv, TypeOK
<1>6. /\ waiting[s] \in Seq(1..Len(told)) /\ DOMAIN waiting'[s] = DOMAIN waiting[s] \cup {e}
      /\ \A p \in DOMAIN waiting[s] : waiting'[s][p] = waiting[s][p]
      /\ waiting'[s][e] = m
  <2>1. waiting[s] \in Seq(1..Len(told))
    BY <1>3, WaitingTyped DEF IInv
  <2> HIDE DEF s, m
  <2>. QED
    BY <1>5, <2>1
<1> HIDE DEF e
<1>7. AllLoopsSame
  <2>1. SameLoops(stack'[t], stack[t]) /\ \A u \in Threads \ {t} : stack'[u] = stack[u]
    BY <1>1, <1>2, ReturnStack, PopLoops DEF IInv
  <2>. QED
    BY <2>1 DEF AllLoopsSame, SameLoops
<1> HIDE DEF m, n
<1>8. \A u \in Threads : \A k : ~Loops(u, k, s)
  BY <1>1, LoopRegistered
<1> HIDE DEF s
<1>9. LoopInv'
  <2>. SUFFICES ASSUME NEW u \in Threads, NEW k \in DOMAIN stack'[u], stack'[u][k].step = "notify"
                PROVE  /\ stack'[u][k].len = Len(waiting'[stack'[u][k].name])
                       /\ stack'[u][k].pos \in 1..stack'[u][k].len + 1
    BY DEF LoopInv
  <2>1. k \in DOMAIN stack[u] /\ stack'[u][k] = stack[u][k]
    BY <1>7 DEF AllLoopsSame, SameLoops
  <2>2. stack[u][k].name # s
    BY <1>8, <2>1 DEF Loops
  <2>3. stack[u][k].name \in Services
    <3>1. stack[u] \in Seq(Frame)
      BY DEF IInv, TypeOK
    <3>2. stack[u][k] \in Frame
      BY <2>1, <3>1
    <3>. QED
      BY <3>2 DEF Frame
  <2>. QED
    BY <1>5, <2>1, <2>2, <2>3 DEF LoopInv, ToldInv
\* Who waits is who did, and the new watcher, which is none of them.
<1>10. ASSUME NEW r \in Services, NEW p \in DOMAIN waiting'[r]
       PROVE  \/ p \in DOMAIN waiting[r] /\ waiting'[r][p] = waiting[r][p] /\ waiting[r][p] \in DOMAIN told
              \/ r = s /\ p = e /\ waiting'[r][p] = m
  <2>1. p \in DOMAIN waiting[r] => waiting[r][p] \in DOMAIN told
    BY WaitingTyped DEF IInv
  <2>. QED
    BY <1>5, <1>6, <2>1
<1>11. WatcherInv'
  <2>1. ASSUME NEW r \in Services, NEW q \in Services, NEW p \in DOMAIN waiting'[r],
               NEW j \in DOMAIN waiting'[q], waiting'[r][p] = waiting'[q][j]
        PROVE  r = q /\ p = j
    <3>1. CASE p \in DOMAIN waiting[r] /\ waiting'[r][p] = waiting[r][p] /\ waiting[r][p] \in DOMAIN told
      <4>1. j \in DOMAIN waiting[q] /\ waiting'[q][j] = waiting[q][j]
        BY <1>4, <1>10, <2>1, <3>1
      <4>2. waiting[r][p] = waiting[q][j]
        BY <2>1, <3>1, <4>1
      <4>. QED
        BY <3>1, <4>1, <4>2 DEF WatcherInv, ToldInv
    <3>2. CASE r = s /\ p = e /\ waiting'[r][p] = m
      BY <1>4, <1>10, <2>1, <3>2
    <3>. QED
      BY <1>10, <3>1, <3>2
  <2>2. ASSUME NEW r \in Services, NEW p \in DOMAIN waiting'[r]
        PROVE  told'[waiting'[r][p]] = 1 <=> Notified(r, p)'
    <3>1. Notified(r, p)' <=> Notified(r, p)
      BY <1>7, NotifiedSame
    <3>2. CASE p \in DOMAIN waiting[r] /\ waiting'[r][p] = waiting[r][p] /\ waiting[r][p] \in DOMAIN told
      <4>1. told[waiting[r][p]] = 1 <=> Notified(r, p)
        BY <3>2 DEF WatcherInv, ToldInv
      <4>. QED
        BY <1>4, <3>1, <3>2, <4>1
    <3>3. CASE r = s /\ p = e /\ waiting'[r][p] = m
      <4>1. ~Notified(r, p)
        BY <1>8, <3>3 DEF Notified
      <4>. QED
        BY <1>4, <3>1, <3>3, <4>1
    <3>. QED
      BY <1>10, <3>2, <3>3
  <2>3. ASSUME NEW v \in DOMAIN told'
        PROVE  /\ told'[v] <= 1
               /\ told'[v] = 0 => \E r \in Services : \E p \in DOMAIN waiting'[r] : waiting'[r][p] = v
    <3>1. CASE v \in DOMAIN told
      <4>1. /\ told[v] <= 1
            /\ told[v] = 0 => \E r \in Services : \E p \in DOMAIN waiting[r] : waiting[r][p] = v
        BY <3>1 DEF WatcherInv, ToldInv
      <4>2. \A r \in Services : \A p \in DOMAIN waiting[r] :
              p \in DOMAIN waiting'[r] /\ waiting'[r][p] = waiting[r][p]
        BY <1>5, <1>6
      <4>. QED
        BY <1>4, <3>1, <4>1, <4>2
    <3>2. CASE v = m
      BY <1>3, <1>4, <1>6, <3>2
    <3>. QED
      BY <1>4, <3>1, <3>2
  <2>. QED
    BY <2>1, <2>2, <2>3 DEF WatcherInv
<1>12. ForgottenInv'
  <2>. SUFFICES ASSUME NEW r \in Services, registered'[r] # 0, waiting'[r] # <<>>
                PROVE  \E u \in Threads : \E k \in DOMAIN stack'[u] : Loops(u, k, r)'
    BY DEF ForgottenInv
  <2>1. r # s /\ registered[r] # 0 /\ waiting[r] # <<>>
    BY <1>1, <1>5 DEF s
  <2>2. PICK u \in Threads : \E k \in DOMAIN stack[u] : Loops(u, k, r)
    BY <2>1 DEF ForgottenInv, ToldInv
  <2>3. PICK k \in DOMAIN stack[u] : Loops(u, k, r)
    BY <2>2
  <2>4. Loops(u, k, r)'
    BY <1>7, <2>3, NotifiedSame
  <2>5. k \in DOMAIN stack'[u]
    BY <2>4 DEF Loops
  <2>. QED
    BY <2>4, <2>5
<1>13. DirectoryStep
  <2>1. s \notin Registered /\ Registered' = Registered
    BY <1>1 DEF Registered, s
  <2>2. Awaits' = [Awaits EXCEPT ![s] = @ \cup {m}]
    <3>1. \A r \in Services : \A v \in ToSet(waiting[r]) : v \in DOMAIN told
      BY WaitingTyped DEF ToSet, IInv
    <3>2. ToSet(waiting'[s]) = ToSet(waiting[s]) \cup {m}
      BY <1>6 DEF ToSet
    <3>3. {v \in ToSet(waiting'[s]) : told'[v] = 0} = {v \in ToSet(waiting[s]) : told[v] = 0} \cup {m}
      BY <1>3, <1>4, <3>1, <3>2
    <3>4. ASSUME NEW r \in Services, r # s
          PROVE  {v \in ToSet(waiting'[r]) : told'[v] = 0} = {v \in ToSet(waiting[r]) : told[v] = 0}
      BY <1>4, <1>5, <3>1, <3>4
    <3>. QED
      BY <1>3, <3>3, <3>4 DEF Awaits
  <2>. QED
    BY <1>1, <1>3, <1>4, <2>1, <2>2 DEF DirectoryStep, Directory!Next, Directory!Subscribe, Registered, Awaits
<1>. QED
  BY <1>9, <1>11, <1>12, <1>13 DEF ToldInv

-----------------------------------------------------------------------------
(* Unregistration.                                                         *)

\* No watcher is being called back then, so that nobody waits for a registered service.
LEMMA UnregisterTold ==
  ASSUME WatchersBehave, IInv, KeptInv, ToldInv, NEW t \in Threads, UnRegiterInterface(t)
  PROVE  ToldInv' /\ DirectoryStep
<1> DEFINE s == Top(t).name
           f == [Top(t) EXCEPT !.step = "cancel", !.pos = 1]
           n == Len(stack[t])
<1>1. /\ stack[t] # <<>> /\ Top(t).step = "lock" /\ registered' = [registered EXCEPT ![s] = 0]
      /\ IF registered[s] # 0 THEN Replace(t, f) ELSE Return(t)
      /\ UNCHANGED <<waiting, told>>
  BY DEF UnRegiterInterface, At
<1>2. /\ n \in Nat \ {0} /\ DOMAIN stack[t] = 1..n /\ Top(t) = stack[t][n]
  BY <1>1, TopOfStack DEF IInv
<1>3. Top(t) \in Frame /\ s \in Services
  BY <1>1, TopFrame
<1>4. f \in Frame /\ f.step = "cancel"
  BY <1>3 DEF Frame
<1>5. registered'[s] = 0 /\ \A r \in Services : r # s => registered'[r] = registered[r]
  BY <1>1, <1>3 DEF IInv, TypeOK
<1> HIDE DEF f, s
<1>6. SameLoops(stack'[t], stack[t]) /\ \A u \in Threads \ {t} : stack'[u] = stack[u]
  <2>1. CASE Return(t)
    BY <1>1, <1>2, <2>1, ReturnStack, PopLoops DEF IInv
  <2>2. CASE Replace(t, f)
    <3>1. /\ DOMAIN stack'[t] = 1..n /\ stack'[t][n] = f
          /\ \A k \in 1..n - 1 : stack'[t][k] = stack[t][k]
          /\ \A u \in Threads \ {t} : stack'[u] = stack[u]
      BY <1>1, <1>4, <2>2, ReplaceStack DEF IInv
    <3>. QED
      BY <1>1, <1>2, <1>4, <3>1, ReplaceLoops
  <2>. QED
    BY <1>1, <2>1, <2>2
<1>7. AllLoopsSame
  BY <1>6 DEF AllLoopsSame, SameLoops
<1>8. ToldInv'
  BY <1>1, <1>5, <1>7, ToldSame
<1>9. registered[s] # 0 => waiting[s] = <<>>
  <2>1. \A u \in Threads : \A k : ~Loops(u, k, s)
    BY UnregisterKept DEF WatchersBehave, Loops, Calling
  <2>. QED
    BY <1>3, <2>1 DEF ForgottenInv, ToldInv
<1>10. DirectoryStep
  <2>1. Awaits' = Awaits
    BY <1>1 DEF Awaits
  <2>2. CASE registered[s] = 0
    <3>1. Registered' = Registered
      BY <1>5, <2>2 DEF Registered
    <3>. QED
      BY <1>1, <2>1, <3>1 DEF DirectoryStep, Directory!vars, Registered, Awaits
  <2>3. CASE registered[s] # 0
    <3>1. s \in Registered /\ Registered' = Registered \ {s}
      BY <1>3, <1>5, <2>3 DEF Registered
    <3>2. Awaits[s] = {}
      BY <1>3, <1>9, <2>3 DEF Awaits, ToSet
    <3>. QED
      BY <1>1, <1>3, <2>1, <3>1, <3>2
         DEF DirectoryStep, Directory!Next, Directory!Unregister, Registered, Awaits
  <2>. QED
    BY <2>2, <2>3
<1>. QED
  BY <1>8, <1>10

-----------------------------------------------------------------------------
(* The theorems.                                                           *)

\* At first nobody waits.
LEMMA InitTold == Init => ToldInv /\ Directory!Init
<1>. SUFFICES ASSUME Init PROVE ToldInv /\ Directory!Init
  OBVIOUS
<1>1. \A t \in Threads : DOMAIN stack[t] = {}
  BY DEF Init
<1>2. \A s \in Services : waiting[s] = <<>> /\ DOMAIN waiting[s] = {} /\ registered[s] = 0
  BY DEF Init
<1>3. told = <<>> /\ DOMAIN told = {}
  BY DEF Init
<1>4. ToldInv
  BY <1>1, <1>2, <1>3 DEF ToldInv, LoopInv, WatcherInv, ForgottenInv
<1>5. Registered = {}
  BY <1>2 DEF Registered
<1>6. Awaits = [s \in Services |-> {}]
  BY <1>2 DEF Awaits, ToSet
<1>. QED
  BY <1>3, <1>4, <1>5, <1>6 DEF Directory!Init, Registered, Awaits

\* Every step keeps ToldInv, and is one of the directory or none.
LEMMA NextTold == WatchersBehave /\ IInv /\ KeptInv /\ ToldInv /\ [Next]_vars => ToldInv' /\ DirectoryStep
<1>. SUFFICES ASSUME WatchersBehave, IInv, KeptInv, ToldInv, [Next]_vars
              PROVE  ToldInv' /\ DirectoryStep
  OBVIOUS
<1>1. ASSUME NEW t \in Threads, Begin(t)
      PROVE  ToldInv' /\ DirectoryStep
  <2>1. (CHOOSE ty \in Types : TRUE) \in Types
    OBVIOUS
  <2>2. PICK op \in Ops, s \in Services, ty \in Types : Call(t, op, s, ty)
    BY <1>1, <2>1 DEF Begin, Ops
  <2>. QED
    BY <2>2, CallTold
<1>2. ASSUME NEW t \in Threads, Continue(t) \/ WatcherThrows(t)
      PROVE  ToldInv' /\ DirectoryStep
  BY <1>2, QuietStep, RegisterTold, NotifyTold, ClearTold, SubscribeRegisteredTold,
     SubscribeLaterTold, UnregisterTold DEF Continue
<1>3. ASSUME NEW w \in Workers, Run(w)
      PROVE  ToldInv' /\ DirectoryStep
  BY <1>3, RunTold
<1>4. CASE UNCHANGED vars
  <2>1. stack' = stack /\ UNCHANGED <<registered, waiting, told>>
    BY <1>4 DEF vars, registryVars
  <2>2. AllLoopsSame
    BY <2>1 DEF AllLoopsSame, SameLoops
  <2>. QED
    BY <2>1, <2>2, ToldSame, DirectorySame
<1>5. AtRest => UNCHANGED vars
  BY DEF AtRest
<1>. QED
  BY <1>1, <1>2, <1>3, <1>4, <1>5 DEF Next

\* If no watcher unregisters a service or throws: the counts of the calls fit the loops
\* that are going on.
THEOREM WatchersAreCounted == ASSUME WatchersBehave PROVE Spec => []ToldInv
<1>1. WatchersKeepServices
  BY DEF WatchersBehave
<1>2. ToldInv /\ IInv /\ KeptInv /\ [Next]_vars => ToldInv'
  BY NextTold
<1>3. Init => ToldInv
  BY InitTold
<1>. QED
  BY <1>1, <1>2, <1>3, SchedulerInvariant, WatchedServicesStay, PTL DEF Spec

\* Subscribing races with registering, and the watchers called back subscribe and register:
\* none is told twice, and outside of the sections of mappingLock_ one that was not told
\* waits for its service.
THEOREM WatchersAreToldOnce == ASSUME WatchersBehave PROVE Spec => []WatcherToldOnce
<1>1. TypeOK /\ ToldInv => WatcherToldOnce
  <2>. SUFFICES ASSUME TypeOK, ToldInv, NEW w \in DOMAIN told
                PROVE  /\ told[w] <= 1
                       /\ (\A t \in Threads : ~Holds(t)) =>
                            (told[w] = 0 <=> \E s \in Services : Contains(waiting[s], w))
    BY DEF WatcherToldOnce
  <2>1. told[w] <= 1 /\ (told[w] = 0 => \E s \in Services : Contains(waiting[s], w))
    BY DEF ToldInv, WatcherInv, Contains, ToSet
  <2>2. ASSUME \A t \in Threads : ~Holds(t), NEW s \in Services, Contains(waiting[s], w)
        PROVE  told[w] = 0
    <3>1. PICK p \in DOMAIN waiting[s] : waiting[s][p] = w
      BY <2>2 DEF Contains, ToSet
    <3>2. ~Notified(s, p)
      BY <2>2 DEF Notified, Loops, Holds
    <3>3. told[w] # 1 /\ told[w] <= 1 /\ told[w] \in Nat
      BY <2>1, <3>1, <3>2, WaitingTyped DEF ToldInv, WatcherInv
    <3>. QED
      BY <3>3
  <2>. QED
    BY <2>1, <2>2
<1>2. IInv => TypeOK
  BY DEF IInv
<1>. QED
  BY <1>1, <1>2, SchedulerInvariant, WatchersAreCounted, PTL

\* A registration calls back and clears all watchers that were set up before it, however
\* they race with it: afterwards nobody waits for a service that is registered.
THEOREM NoWatcherIsForgotten == ASSUME WatchersBehave PROVE Spec => []NoForgottenWatcher
<1>1. ToldInv => NoForgottenWatcher
  BY DEF ToldInv, ForgottenInv, NoForgottenWatcher, Loops, Holds
<1>. QED
  BY <1>1, WatchersAreCounted, PTL

\* The registry implements the directory: each watcher hears of its service once, while it
\* is registered, and no service is unregistered before all of its watchers have heard.
THEOREM SchedulerImplementsDirectory == ASSUME WatchersBehave PROVE Spec => ImplementsDirectory
<1>1. WatchersKeepServices
  BY DEF WatchersBehave
<1>2. IInv /\ KeptInv /\ ToldInv /\ [Next]_vars => [Directory!Next]_(Directory!vars)
  BY NextTold DEF DirectoryStep
<1>3. Init => Directory!Init
  BY InitTold
<1>. QED
  BY <1>1, <1>2, <1>3, SchedulerInvariant, WatchedServicesStay, WatchersAreCounted, PTL
     DEF Spec, ImplementsDirectory, Directory!Spec

=============================================================================
