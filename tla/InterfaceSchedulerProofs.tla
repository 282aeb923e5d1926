----------------------- MODULE InterfaceSchedulerProofs -----------------------
(***************************************************************************)
(* The safety properties of InterfaceScheduler, proved for any number of   *)
(* clients, workers, services and types.  IInv is inductive whatever the   *)
(* code of clients, watchers and services calls.  What the loop over the   *)
(* watchers needs, KeptInv, is inductive relative to IInv while no watcher *)
(* unregisters a service.                                                  *)
(***************************************************************************)
EXTENDS InterfaceScheduler, SequenceTheorems, TLAPS

USE SchedulerAssumption

-----------------------------------------------------------------------------
(* Whatever the application does.                                          *)

Section == {"notify", "callback", "cancel", "visit"}   \* steps with mappingLock_ locked
Calling == {"notify", "callback"}                      \* a watcher is being called back

\* mappingLock_ belongs to at most one thread.
MutexInv == \A t, u \in Threads : Holds(t) /\ Holds(u) => t = u

\* What the steps of a frame f mean, with the registrations r made so far: a
\* registration that has been looked up has the type of the arguments.
FrameOK(f, r) ==
  /\ f.step = "notify" => f.op = "register"
  /\ f.step = "code" <=> f.op \in {"watcher", "action"}
  /\ (f.op \in Invocations /\ f.step # "lock") \/ f.op = "action" =>
       f.reg \in DOMAIN r /\ r[f.reg] = f.type
  /\ f.step \in {"cancel", "visit", "push"} => f.pos \in Workers

\* A watcher runs on top of the section that calls it back.
StackOK(s, r) ==
  \A k \in DOMAIN s :
    /\ FrameOK(s[k], r)
    /\ s[k].op = "watcher" =>
         k > 1 /\ s[k-1].step \in Calling /\ s[k-1].name = s[k].name

StackInv == \A t \in Threads : StackOK(stack[t], regs)

\* A job will run a registration that has the type of its arguments.
JobInv ==
  \A w \in Workers :
    /\ \A k \in DOMAIN queue[w] :
         queue[w][k].reg \in DOMAIN regs /\ regs[queue[w][k].reg] = queue[w][k].type
    /\ taken[w] # None => taken[w].reg \in DOMAIN regs /\ regs[taken[w].reg] = taken[w].type

Waits(t) == stack[t] # <<>> /\ Top(t).step = "wait"

\* The thread whose job is queued or taken waits for it, and for no other job.
WaitInv ==
  /\ \A w \in Workers :
       /\ \A k \in DOMAIN queue[w] : queue[w][k].waiter \in Threads => Waits(queue[w][k].waiter)
       /\ taken[w] # None /\ taken[w].waiter \in Threads => Waits(taken[w].waiter)
       /\ executing[w] => taken[w] # None
  /\ \A v, w \in Workers :
       /\ \A i \in DOMAIN queue[v], k \in DOMAIN queue[w] :
            queue[v][i].waiter = queue[w][k].waiter /\ queue[w][k].waiter \in Threads => v = w /\ i = k
       /\ \A i \in DOMAIN queue[v] :
            taken[w] # None /\ taken[w].waiter \in Threads => queue[v][i].waiter # taken[w].waiter
       /\ taken[v] # None /\ taken[w] # None /\ taken[w].waiter \in Threads
            /\ taken[v].waiter = taken[w].waiter => v = w

\* Some thread unregisters a service and has still to cancel the jobs of worker w.
WillCancel(w) ==
  \E t \in Threads :
    /\ At(t, {"unregister"}, "cancel") \/ At(t, {"unregister"}, "visit")
    /\ Top(t).pos <= w

\* A queued job of a registration that is gone was late, or will be cancelled.
CancelInv ==
  \A w \in Workers : \A k \in DOMAIN queue[w] :
    queue[w][k].late \/ queue[w][k].reg = registered[queue[w][k].name] \/ WillCancel(w)

IInv == TypeOK /\ MutexInv /\ StackInv /\ JobInv /\ WaitInv /\ CancelInv

-----------------------------------------------------------------------------
(* While no watcher unregisters a service.                                 *)

\* What a watcher may call, itself or in an action that it calls synchronously.
WatcherCalls ==
  May["watcher"] \cup (IF "syncCall" \in May["watcher"] THEN May["service"] ELSE {})

WatchersKeepServices == "unregister" \notin WatcherCalls

\* Above a section that calls back there is only what a watcher may call.
AboveOK(s) ==
  \A j, k \in DOMAIN s : j < k /\ s[j].step \in Calling =>
    /\ s[k].op \in WatcherCalls \cup {"watcher", "action"}
    /\ s[k].op = "action" => "syncCall" \in May["watcher"]

\* The watchers of each service are notified by one loop at a time.
LoopsDiffer(s) ==
  \A j, k \in DOMAIN s :
    j < k /\ s[j].step = "notify" /\ s[k].step = "notify" => s[j].name # s[k].name

\* A service stays registered as long as one of its watchers is called back.
KeptStack(s, reg) ==
  /\ AboveOK(s) /\ LoopsDiffer(s)
  /\ \A k \in DOMAIN s : s[k].step \in Calling => reg[s[k].name] # 0

KeptInv == ~broken /\ \A t \in Threads : KeptStack(stack[t], registered)

-----------------------------------------------------------------------------
(* What the changes of a stack return.                                     *)

\* Append puts one frame on top.
LEMMA Pushing ==
  ASSUME NEW S, NEW s \in Seq(S), NEW f \in S, NEW r, r = Append(s, f)
  PROVE  /\ r \in Seq(S) /\ Len(s) \in Nat /\ Len(r) = Len(s) + 1 /\ r # <<>>
         /\ DOMAIN s = 1..Len(s) /\ DOMAIN r = 1..Len(s) + 1
         /\ \A k \in 1..Len(s) : r[k] = s[k] /\ s[k] \in S
         /\ r[Len(s) + 1] = f
OBVIOUS

\* Front takes the frame on top away.
LEMMA Popping ==
  ASSUME NEW S, NEW s \in Seq(S), s # <<>>, NEW r, r = Front(s)
  PROVE  /\ r \in Seq(S) /\ Len(s) \in Nat \ {0} /\ Len(r) = Len(s) - 1
         /\ DOMAIN s = 1..Len(s) /\ DOMAIN r = 1..Len(s) - 1
         /\ \A k \in 1..Len(s) : s[k] \in S
         /\ \A k \in 1..Len(s) - 1 : r[k] = s[k]
<1>1. Len(s) \in Nat \ {0} /\ DOMAIN s = 1..Len(s) /\ \A k \in 1..Len(s) : s[k] \in S
  OBVIOUS
<1> DEFINE n == Len(s) - 1
<1>2. n \in Int /\ \A k \in 1..n : s[k] \in S
  BY <1>1
<1>3. /\ SubSeq(s, 1, n) \in Seq(S)
      /\ Len(SubSeq(s, 1, n)) = IF 1 <= n THEN n - 1 + 1 ELSE 0
      /\ \A k \in 1..n - 1 + 1 : SubSeq(s, 1, n)[k] = s[1 + k - 1]
  BY <1>2, SubSeqProperties
<1>4. r = SubSeq(s, 1, n)
  BY DEF Front
<1>5. r \in Seq(S) /\ Len(r) = n /\ \A k \in 1..n : r[k] = s[k]
  BY <1>1, <1>3, <1>4
<1>. QED
  BY <1>1, <1>5

\* The stacks after Replace and CallBack.
TopReplaced(s, f) == Append(Front(s), f)
CalledBackOn(s, f, g) == Front(s) \o <<f, g>>

\* Both are stacks.
LEMMA ChangedStacks ==
  ASSUME NEW S, NEW s \in Seq(S), s # <<>>, NEW f \in S, NEW g \in S
  PROVE  TopReplaced(s, f) \in Seq(S) /\ CalledBackOn(s, f, g) \in Seq(S)
<1> DEFINE p == Front(s)
<1>1. p \in Seq(S)
  BY Popping
<1> HIDE DEF p
<1>2. Append(p, f) \in Seq(S) /\ p \o <<f, g>> \in Seq(S)
  BY <1>1
<1>. QED
  BY <1>2 DEF TopReplaced, CalledBackOn, p

\* Replacing the frame on top changes no other.
LEMMA Replacing ==
  ASSUME NEW S, NEW s \in Seq(S), s # <<>>, NEW f \in S, NEW r, r = TopReplaced(s, f)
  PROVE  /\ Len(s) \in Nat \ {0} /\ Len(r) = Len(s) /\ r # <<>>
         /\ DOMAIN s = 1..Len(s) /\ DOMAIN r = 1..Len(s)
         /\ \A k \in 1..Len(s) - 1 : r[k] = s[k]
         /\ r[Len(s)] = f
<1> DEFINE p == Front(s)
<1>1. /\ p \in Seq(S) /\ Len(s) \in Nat \ {0} /\ Len(p) = Len(s) - 1
      /\ DOMAIN s = 1..Len(s) /\ \A k \in 1..Len(s) : s[k] \in S
      /\ \A k \in 1..Len(s) - 1 : p[k] = s[k]
  BY Popping
<1>2. r = Append(p, f)
  BY DEF TopReplaced
<1> HIDE DEF p
<1>3. /\ r \in Seq(S) /\ Len(r) = Len(p) + 1 /\ r # <<>>
      /\ \A k \in 1..Len(p) : r[k] = p[k]
      /\ r[Len(p) + 1] = f
  BY <1>1, <1>2, Pushing
<1>. QED
  BY <1>1, <1>3

\* A watcher's frame goes on top of that of the operation that calls it back.
LEMMA CallingBack ==
  ASSUME NEW S, NEW s \in Seq(S), s # <<>>, NEW f \in S, NEW g \in S,
         NEW r, r = CalledBackOn(s, f, g)
  PROVE  /\ Len(s) \in Nat \ {0} /\ Len(r) = Len(s) + 1 /\ r # <<>>
         /\ DOMAIN s = 1..Len(s) /\ DOMAIN r = 1..Len(s) + 1
         /\ \A k \in 1..Len(s) - 1 : r[k] = s[k]
         /\ r[Len(s)] = f /\ r[Len(s) + 1] = g
<1> DEFINE p == Front(s)
<1>1. /\ p \in Seq(S) /\ Len(s) \in Nat \ {0} /\ Len(p) = Len(s) - 1
      /\ DOMAIN s = 1..Len(s) /\ \A k \in 1..Len(s) : s[k] \in S
      /\ \A k \in 1..Len(s) - 1 : p[k] = s[k]
  BY Popping
<1>2. <<f, g>> \in Seq(S) /\ Len(<<f, g>>) = 2 /\ <<f, g>>[1] = f /\ <<f, g>>[2] = g
  OBVIOUS
<1>3. r = p \o <<f, g>>
  BY DEF CalledBackOn
<1> HIDE DEF p
<1> DEFINE q == <<f, g>>
<1>4. q \in Seq(S) /\ Len(q) = 2 /\ q[1] = f /\ q[2] = g /\ r = p \o q
  BY <1>2, <1>3
<1> HIDE DEF q
<1>5. /\ r \in Seq(S) /\ Len(r) = Len(p) + Len(q)
      /\ \A k \in 1..Len(p) + Len(q) : r[k] = IF k <= Len(p) THEN p[k] ELSE q[k - Len(p)]
  <2>1. p \in Seq(S) /\ q \in Seq(S)
    BY <1>1, <1>4
  <2>2. /\ p \o q \in Seq(S) /\ Len(p \o q) = Len(p) + Len(q)
        /\ \A k \in 1..Len(p) + Len(q) : (p \o q)[k] = IF k <= Len(p) THEN p[k] ELSE q[k - Len(p)]
    BY <2>1, ConcatProperties, Zenon
  <2>. QED
    BY <2>2, <1>4, Zenon
<1>6. \A k \in 1..Len(s) - 1 : r[k] = s[k]
  BY <1>1, <1>4, <1>5
<1>7. r[Len(s)] = f /\ r[Len(s) + 1] = g
  <2>1. PICK n \in Nat : n = Len(p) /\ n + 1 = Len(s)
    BY <1>1
  <2>2. \A k \in 1..n + 2 : r[k] = IF k <= n THEN p[k] ELSE q[k - n]
    BY <1>4, <1>5, <2>1
  <2>3. ASSUME NEW i \in 1..2
        PROVE  r[n + i] = q[i]
    <3>1. PICK k \in 1..n + 2 : k = n + i /\ ~(k <= n) /\ k - n = i
      OBVIOUS
    <3>2. r[k] = q[k - n]
      BY <2>2, <3>1, Zenon
    <3>. QED
      BY <3>1, <3>2, Zenon
  <2>4. r[n + 1] = q[1] /\ r[n + 2] = q[2]
    <3>1. 1 \in 1..2 /\ 2 \in 1..2
      OBVIOUS
    <3>. QED
      BY <3>1, <2>3, Zenon
  <2>5. Len(s) + 1 = n + 2
    BY <2>1
  <2>. QED
    BY <2>1, <2>4, <2>5, <1>4
<1>. QED
  BY <1>1, <1>4, <1>5, <1>6, <1>7

\* A stack that is not empty has a top.
LEMMA TopOfStack ==
  ASSUME TypeOK, NEW t \in Threads, stack[t] # <<>>
  PROVE  /\ stack[t] \in Seq(Frame) /\ Len(stack[t]) \in Nat \ {0}
         /\ DOMAIN stack[t] = 1..Len(stack[t]) /\ Len(stack[t]) \in DOMAIN stack[t]
         /\ Top(t) = stack[t][Len(stack[t])] /\ Top(t) \in Frame
BY DEF TypeOK, Top, Last

-----------------------------------------------------------------------------
(* What one thread's steps do to the stacks.                               *)

RegsGrow ==
  /\ regs' \in Seq(Types) /\ Len(regs') >= Len(regs)
  /\ \A k \in DOMAIN regs : regs'[k] = regs[k]

\* Only the stack of t changes; if t comes to hold mappingLock_, it was free or t's.
Moves(t) ==
  /\ stack' \in [Threads -> Seq(Frame)]
  /\ \A u \in Threads \ {t} : stack'[u] = stack[u]
  /\ Holds(t)' => Holds(t) \/ MayLock(t)
  /\ StackOK(stack'[t], regs')

\* A frame that is right stays right when registrations are added.
LEMMA FrameKept ==
  ASSUME TypeOK, RegsGrow, NEW f, FrameOK(f, regs)
  PROVE  FrameOK(f, regs')
<1>1. DOMAIN regs \subseteq DOMAIN regs' /\ \A k \in DOMAIN regs : regs'[k] = regs[k]
  BY DEF TypeOK, RegsGrow
<1>. QED
  BY <1>1 DEF FrameOK

\* A call of the scheduler begins.
LEMMA PushMoves ==
  ASSUME TypeOK, StackInv, NEW t \in Threads, NEW f \in Frame,
         f.step \notin Section, f.op # "watcher", FrameOK(f, regs),
         stack' = [stack EXCEPT ![t] = Append(@, f)], regs' = regs
  PROVE  Moves(t)
<1> DEFINE s == stack[t]
           r == stack'[t]
<1>1. s \in Seq(Frame) /\ r = Append(s, f) /\ stack' = [stack EXCEPT ![t] = Append(s, f)]
  BY DEF TypeOK
<1>2. StackOK(s, regs)
  BY DEF StackInv
<1> HIDE DEF s, r
<1>3. /\ r \in Seq(Frame) /\ Len(s) \in Nat
      /\ DOMAIN s = 1..Len(s) /\ DOMAIN r = 1..Len(s) + 1
      /\ \A k \in 1..Len(s) : r[k] = s[k]
      /\ r[Len(s) + 1] = f
  BY <1>1, Pushing
<1>4. stack' \in [Threads -> Seq(Frame)] /\ \A u \in Threads \ {t} : stack'[u] = stack[u]
  BY <1>1, <1>3 DEF TypeOK, r
<1>5. Holds(t)' => Holds(t)
  BY <1>3 DEF Holds, Section, s, r
<1>6. StackOK(r, regs')
  BY <1>2, <1>3 DEF StackOK
<1>. QED
  BY <1>4, <1>5, <1>6 DEF Moves, r

\* The innermost call goes on.
LEMMA ReplaceMoves ==
  ASSUME TypeOK, StackInv, NEW t \in Threads, stack[t] # <<>>, NEW f \in Frame,
         f.step \in Section => Top(t).step \in Section \/ MayLock(t),
         f.op # "watcher", FrameOK(f, regs'),
         Replace(t, f), RegsGrow
  PROVE  Moves(t)
<1> DEFINE s == stack[t]
           r == stack'[t]
<1>1. s \in Seq(Frame) /\ s # <<>> /\ r = TopReplaced(s, f)
      /\ stack' = [stack EXCEPT ![t] = TopReplaced(s, f)]
  BY DEF TypeOK, Replace, TopReplaced
<1>2. StackOK(s, regs')
  BY FrameKept DEF StackInv, StackOK
<1>3. Top(t) = s[Len(s)]
  BY DEF Top, Last
<1> HIDE DEF s, r
<1>4. /\ r \in Seq(Frame) /\ Len(s) \in Nat \ {0}
      /\ DOMAIN s = 1..Len(s) /\ DOMAIN r = 1..Len(s)
      /\ \A k \in 1..Len(s) - 1 : r[k] = s[k]
      /\ r[Len(s)] = f
  <2>1. r \in Seq(Frame)
    BY <1>1, ChangedStacks
  <2>. QED
    BY <2>1, <1>1, Replacing
<1>5. stack' \in [Threads -> Seq(Frame)] /\ \A u \in Threads \ {t} : stack'[u] = stack[u]
  BY <1>1, <1>4 DEF TypeOK, r
<1>6. Holds(t)' => Holds(t) \/ MayLock(t)
  <2>1. \A k \in DOMAIN r : r[k].step \in Section => (k < Len(s) /\ r[k] = s[k]) \/ f.step \in Section
    BY <1>4
  <2>2. (\E k \in DOMAIN r : r[k].step \in Section) => (\E k \in DOMAIN s : s[k].step \in Section) \/ MayLock(t)
    BY <1>3, <1>4, <2>1
  <2>. QED
    BY <2>2 DEF Holds, Section, s, r
<1>7. StackOK(r, regs')
  <2>. SUFFICES ASSUME NEW k \in DOMAIN r
                PROVE  /\ FrameOK(r[k], regs')
                       /\ r[k].op = "watcher" =>
                            k > 1 /\ r[k-1].step \in Calling /\ r[k-1].name = r[k].name
    BY DEF StackOK
  <2>1. CASE k = Len(s)
    BY <2>1, <1>4
  <2>2. CASE k < Len(s)
    <3>1. k \in DOMAIN s /\ r[k] = s[k] /\ (k > 1 => r[k-1] = s[k-1])
      BY <1>4, <2>2
    <3>. QED
      BY <3>1, <1>2 DEF StackOK
  <2>. QED
    BY <1>4, <2>1, <2>2
<1>. QED
  BY <1>5, <1>6, <1>7 DEF Moves, r

\* The innermost call returns.
LEMMA ReturnMoves ==
  ASSUME TypeOK, StackInv, NEW t \in Threads, stack[t] # <<>>, Return(t), RegsGrow
  PROVE  Moves(t)
<1> DEFINE s == stack[t]
           r == stack'[t]
<1>1. s \in Seq(Frame) /\ s # <<>> /\ r = Front(s) /\ stack' = [stack EXCEPT ![t] = Front(s)]
  BY DEF TypeOK, Return
<1>2. StackOK(s, regs')
  BY FrameKept DEF StackInv, StackOK
<1> HIDE DEF s, r
<1>4. /\ r \in Seq(Frame) /\ Len(s) \in Nat \ {0}
      /\ DOMAIN s = 1..Len(s) /\ DOMAIN r = 1..Len(s) - 1
      /\ \A k \in 1..Len(s) - 1 : r[k] = s[k]
  BY <1>1, Popping
<1>5. stack' \in [Threads -> Seq(Frame)] /\ \A u \in Threads \ {t} : stack'[u] = stack[u]
  BY <1>1, <1>4 DEF TypeOK, r
<1>6. Holds(t)' => Holds(t)
  BY <1>4 DEF Holds, Section, s, r
<1>7. StackOK(r, regs')
  BY <1>2, <1>4 DEF StackOK
<1>. QED
  BY <1>5, <1>6, <1>7 DEF Moves, r

\* A watcher is called back.
LEMMA CallBackMoves ==
  ASSUME TypeOK, StackInv, NEW t \in Threads, stack[t] # <<>>, NEW f \in Frame,
         f.step \in Calling, Top(t).step \in Section \/ MayLock(t),
         f.op # "watcher", FrameOK(f, regs'),
         CallBack(t, f), RegsGrow
  PROVE  Moves(t)
<1> DEFINE s == stack[t]
           r == stack'[t]
           g == [f EXCEPT !.op = "watcher", !.step = "code"]
<1>1. s \in Seq(Frame) /\ s # <<>> /\ r = CalledBackOn(s, f, g)
      /\ stack' = [stack EXCEPT ![t] = CalledBackOn(s, f, g)]
  BY DEF TypeOK, CallBack, CalledBackOn
<1>2. StackOK(s, regs')
  BY FrameKept DEF StackInv, StackOK
<1>3. Top(t) = s[Len(s)]
  BY DEF Top, Last
<1>4. g \in Frame /\ g.op = "watcher" /\ g.step = "code" /\ g.name = f.name
  BY DEF Frame
<1>5. FrameOK(g, regs')
  BY <1>4 DEF FrameOK, Invocations
<1> HIDE DEF s, g, r
<1>6. /\ r \in Seq(Frame) /\ Len(s) \in Nat \ {0}
      /\ DOMAIN s = 1..Len(s) /\ DOMAIN r = 1..Len(s) + 1
      /\ \A k \in 1..Len(s) - 1 : r[k] = s[k]
      /\ r[Len(s)] = f /\ r[Len(s) + 1] = g
  <2>1. r \in Seq(Frame)
    BY <1>1, <1>4, ChangedStacks
  <2>. QED
    BY <2>1, <1>1, <1>4, CallingBack
<1>7. stack' \in [Threads -> Seq(Frame)] /\ \A u \in Threads \ {t} : stack'[u] = stack[u]
  BY <1>1, <1>6 DEF TypeOK, r
<1>8. Holds(t)' => Holds(t) \/ MayLock(t)
  <2>1. Top(t).step \in Section => Holds(t)
    BY <1>3, <1>6 DEF Holds, Section, s, r
  <2>. QED
    BY <2>1
<1>9. StackOK(r, regs')
  <2>. SUFFICES ASSUME NEW k \in DOMAIN r
                PROVE  /\ FrameOK(r[k], regs')
                       /\ r[k].op = "watcher" =>
                            k > 1 /\ r[k-1].step \in Calling /\ r[k-1].name = r[k].name
    BY DEF StackOK
  <2>1. CASE k = Len(s)
    BY <2>1, <1>6
  <2>2. CASE k < Len(s)
    <3>1. k \in DOMAIN s /\ r[k] = s[k] /\ (k > 1 => r[k-1] = s[k-1])
      BY <1>6, <2>2
    <3>. QED
      BY <3>1, <1>2 DEF StackOK
  <2>3. CASE k = Len(s) + 1
    <3>1. k > 1 /\ r[k-1] = f /\ r[k] = g
      BY <1>6, <2>3
    <3>. QED
      BY <3>1, <1>4, <1>5
  <2>. QED
    BY <1>6, <2>1, <2>2, <2>3
<1>. QED
  BY <1>7, <1>8, <1>9 DEF Moves, r

\* The exception of a watcher leaves the operation that called it back, too.
LEMMA ThrowMoves ==
  ASSUME TypeOK, StackInv, NEW t \in Threads, At(t, {"watcher"}, "code"),
         stack' = [stack EXCEPT ![t] = Front(Front(@))], regs' = regs
  PROVE  /\ Moves(t) /\ Len(stack[t]) \in Nat \ {0, 1}
         /\ DOMAIN stack'[t] = 1..Len(stack[t]) - 2
         /\ \A k \in 1..Len(stack[t]) - 2 : stack'[t][k] = stack[t][k]
<1> DEFINE s == stack[t]
           p == Front(s)
           r == stack'[t]
<1>1. /\ s \in Seq(Frame) /\ s # <<>> /\ s[Len(s)].op = "watcher" /\ r = Front(p)
      /\ stack' = [stack EXCEPT ![t] = Front(p)] /\ StackOK(s, regs)
  BY DEF TypeOK, At, Top, Last, StackInv
<1> HIDE DEF s, r
<1>2. /\ p \in Seq(Frame) /\ Len(s) \in Nat \ {0} /\ Len(p) = Len(s) - 1
      /\ DOMAIN s = 1..Len(s) /\ \A k \in 1..Len(s) - 1 : p[k] = s[k]
  BY <1>1, Popping
<1>3. Len(s) > 1
  BY <1>1, <1>2 DEF StackOK
<1>4. p # <<>>
  BY <1>2, <1>3
<1> HIDE DEF p
<1>5. /\ r \in Seq(Frame) /\ DOMAIN r = 1..Len(p) - 1 /\ \A k \in 1..Len(p) - 1 : r[k] = p[k]
  <2>1. p \in Seq(Frame) /\ r = Front(p)
    BY <1>1, <1>2
  <2>. QED
    BY <1>4, <2>1, Popping
<1>6. DOMAIN r = 1..Len(s) - 2 /\ \A k \in 1..Len(s) - 2 : r[k] = s[k]
  <2>1. Len(p) - 1 = Len(s) - 2
    BY <1>2
  <2>2. DOMAIN r = 1..Len(s) - 2 /\ \A k \in 1..Len(s) - 2 : r[k] = p[k]
    BY <1>5, <2>1
  <2>3. \A k \in 1..Len(s) - 2 : k \in 1..Len(s) - 1
    BY <1>2
  <2>. QED
    BY <1>2, <2>2, <2>3
<1>7. stack' \in [Threads -> Seq(Frame)] /\ \A u \in Threads \ {t} : stack'[u] = stack[u]
  BY <1>1, <1>5 DEF TypeOK
<1>8. \A k \in DOMAIN r : k \in DOMAIN s /\ r[k] = s[k] /\ (k > 1 => r[k-1] = s[k-1])
  BY <1>2, <1>3, <1>6
<1>9. Holds(t)' => Holds(t)
  BY <1>8 DEF Holds, Section, s, r
<1>10. StackOK(r, regs')
  BY <1>1, <1>8 DEF StackOK
<1>. QED
  BY <1>2, <1>3, <1>6, <1>7, <1>9, <1>10 DEF Moves, s, r

\* A step of one thread keeps the lock exclusive and all frames right.
LEMMA StacksKept ==
  ASSUME IInv, NEW t \in Threads, Moves(t), RegsGrow
  PROVE  MutexInv' /\ StackInv'
<1>1. /\ \A u \in Threads \ {t} : stack'[u] = stack[u]
      /\ \A u \in Threads \ {t} : Holds(u)' <=> Holds(u)
  BY DEF Moves, Holds
<1>2. MutexInv'
  <2>1. \A u \in Threads \ {t} : Holds(t)' /\ Holds(u)' => FALSE
    BY <1>1 DEF Moves, MayLock, MutexInv, IInv
  <2>2. \A u, v \in Threads \ {t} : Holds(u)' /\ Holds(v)' => u = v
    BY <1>1 DEF MutexInv, IInv
  <2>. QED
    BY <2>1, <2>2 DEF MutexInv
<1>3. StackInv'
  BY <1>1, FrameKept DEF Moves, StackInv, StackOK, IInv
<1>. QED
  BY <1>2, <1>3

\* A thread that does not wait for its job leaves alone those that do.
LEMMA WaitsKept ==
  ASSUME NEW t \in Threads, Moves(t), ~Waits(t)
  PROVE  \A u \in Threads : Waits(u) => Waits(u)'
BY DEF Waits, Top, Moves

\* A step of a thread that does not wait for its job, and leaves the workers alone,
\* keeps all but the types and the promise to cancel.
LEMMA MovesKeep ==
  ASSUME IInv, NEW t \in Threads, Moves(t), RegsGrow, ~Waits(t), UNCHANGED poolVars
  PROVE  MutexInv' /\ StackInv' /\ JobInv' /\ WaitInv'
<1>1. MutexInv' /\ StackInv'
  BY StacksKept
<1>2. JobInv'
  <2>1. DOMAIN regs \subseteq DOMAIN regs' /\ \A k \in DOMAIN regs : regs'[k] = regs[k]
    BY DEF RegsGrow, TypeOK, IInv
  <2>. QED
    BY <2>1 DEF JobInv, IInv, poolVars
<1>3. WaitInv'
  BY WaitsKept DEF WaitInv, IInv, poolVars
<1>. QED
  BY <1>1, <1>2, <1>3

\* Unless t is cancelling, or the registrations change, so is that promise.
LEMMA CancelKept ==
  ASSUME IInv, NEW t \in Threads, Moves(t), UNCHANGED <<queue, registered>>,
         ~At(t, {"unregister"}, "cancel"), ~At(t, {"unregister"}, "visit")
  PROVE  CancelInv'
<1>1. \A w \in Workers : WillCancel(w) => WillCancel(w)'
  BY DEF WillCancel, Moves, At, Top
<1>. QED
  BY <1>1 DEF CancelInv, IInv

-----------------------------------------------------------------------------
(* IInv: the steps of the operations of the scheduler.                     *)

\* The frame on top is a frame, and what it says of the registrations is right.
LEMMA TopFrame ==
  ASSUME IInv, NEW t \in Threads, stack[t] # <<>>
  PROVE  /\ Top(t) \in Frame /\ FrameOK(Top(t), regs)
         /\ Top(t).name \in Services /\ Top(t).type \in Types
         /\ Top(t).pos \in Nat /\ Top(t).len \in Nat /\ Top(t).reg \in Nat
<1>1. Top(t) \in Frame /\ FrameOK(Top(t), regs)
  BY TopOfStack DEF IInv, StackInv, StackOK
<1>. QED
  BY <1>1 DEF Frame

\* Call begins an operation.
LEMMA CallStep ==
  ASSUME IInv, NEW t \in Threads, NEW op \in Ops, NEW s \in Services, NEW ty \in Types,
         Call(t, op, s, ty)
  PROVE  IInv'
<1> DEFINE f == NewFrame(op, s, ty)
<1>1. /\ f \in Frame /\ f.step = "lock" /\ f.op = op
      /\ op # "watcher" /\ op # "action"
  BY DEF NewFrame, Frame, Ops, Invocations
<1>2. FrameOK(f, regs) /\ f.step \notin Section
  BY <1>1 DEF FrameOK, Section
<1>3. RegsGrow /\ UNCHANGED poolVars
  BY DEF Call, registryVars, IInv, TypeOK, RegsGrow
<1>4. ~Waits(t) /\ ~At(t, {"unregister"}, "cancel") /\ ~At(t, {"unregister"}, "visit")
  BY DEF Call, Runs, Waits, At
<1> HIDE DEF f
<1>5. Moves(t)
  BY <1>1, <1>2, PushMoves DEF Call, registryVars, IInv, f
<1>6. MutexInv' /\ StackInv' /\ JobInv' /\ WaitInv'
  BY <1>3, <1>4, <1>5, MovesKeep
<1>7. CancelInv'
  BY <1>4, <1>5, CancelKept DEF Call, registryVars, poolVars
<1>8. TypeOK'
  BY <1>5 DEF Moves, IInv, TypeOK, Call, registryVars, poolVars
<1>. QED
  BY <1>6, <1>7, <1>8 DEF IInv

\* A step that changes one stack only, of a thread that neither waits nor cancels.
LEMMA StackOnly ==
  ASSUME IInv, NEW t \in Threads, Moves(t), ~Waits(t),
         ~At(t, {"unregister"}, "cancel"), ~At(t, {"unregister"}, "visit"),
         UNCHANGED <<registryVars, poolVars, calls>>
  PROVE  IInv'
<1>1. RegsGrow
  BY DEF registryVars, IInv, TypeOK, RegsGrow
<1>2. MutexInv' /\ StackInv' /\ JobInv' /\ WaitInv'
  BY <1>1, MovesKeep
<1>3. CancelInv'
  BY CancelKept DEF registryVars, poolVars
<1>4. TypeOK'
  BY DEF Moves, IInv, TypeOK, registryVars, poolVars
<1>. QED
  BY <1>2, <1>3, <1>4 DEF IInv

\* The steps that only return: a refused call, a query, code that returns.
LEMMA ReturnStep ==
  ASSUME IInv, NEW t \in Threads,
         \/ CodeReturns(t) \/ DuplicatedRegistration(t) \/ CalledBack(t)
         \/ IsServiceRegistered(t) \/ CallRefused(t)
  PROVE  IInv'
<1>1. /\ stack[t] # <<>> /\ Return(t) /\ UNCHANGED <<registryVars, poolVars, calls>>
      /\ Top(t).step \in {"code", "lock", "callback"}
  BY DEF CodeReturns, DuplicatedRegistration, CalledBack, IsServiceRegistered, CallRefused, At
<1>2. RegsGrow
  BY <1>1 DEF registryVars, IInv, TypeOK, RegsGrow
<1>3. Moves(t)
  BY <1>1, <1>2, ReturnMoves DEF IInv
<1>. QED
  BY <1>1, <1>3, StackOnly DEF Waits, At

\* The exception of a watcher.
LEMMA ThrowStep ==
  ASSUME IInv, NEW t \in Threads, WatcherThrows(t)
  PROVE  IInv'
<1>1. /\ At(t, {"watcher"}, "code") /\ UNCHANGED <<registryVars, poolVars, calls>>
      /\ stack' = [stack EXCEPT ![t] = Front(Front(@))]
  BY DEF WatcherThrows
<1>2. Moves(t)
  BY <1>1, ThrowMoves DEF IInv, registryVars
<1>. QED
  BY <1>1, <1>2, StackOnly DEF Waits, At

\* The steps of a call up to its job, which change the frame on top only.
LEMMA ReplaceStep ==
  ASSUME IInv, NEW t \in Threads, FetchStoredCallback(t) \/ GetWorker(t) \/ DoJob(t)
  PROVE  IInv'
<1>1. /\ stack[t] # <<>> /\ Top(t).step \in {"lock", "invoke"} /\ Top(t).op \in Invocations
      /\ UNCHANGED <<registryVars, poolVars, calls>>
  BY DEF FetchStoredCallback, GetWorker, DoJob, At, Invocations
<1>2. /\ Top(t) \in Frame /\ FrameOK(Top(t), regs) /\ Top(t).name \in Services
      /\ regs' = regs /\ RegsGrow
  BY <1>1, TopFrame DEF registryVars, IInv, TypeOK, RegsGrow
<1>3. PICK f \in Frame : Replace(t, f) /\ FrameOK(f, regs') /\ f.step \notin Section /\ f.op # "watcher"
  <2>1. CASE FetchStoredCallback(t)
    <3> DEFINE r == registered[Top(t).name]
               f == [Top(t) EXCEPT !.step = "invoke", !.reg = r]
    <3>1. Replace(t, f) /\ r # 0 /\ regs[r] = Top(t).type
      BY <2>1 DEF FetchStoredCallback
    <3>2. r \in DOMAIN regs /\ r \in Nat
      BY <1>2, <3>1 DEF IInv, TypeOK
    <3> HIDE DEF r
    <3>3. f \in Frame /\ f.step = "invoke" /\ f.op = Top(t).op /\ f.reg = r /\ f.type = Top(t).type
      BY <1>2, <3>2 DEF Frame
    <3> HIDE DEF f
    <3>4. FrameOK(f, regs')
      BY <1>1, <1>2, <3>1, <3>2, <3>3 DEF FrameOK, Invocations
    <3>. QED
      BY <1>1, <3>1, <3>3, <3>4 DEF Section, Invocations
  <2>2. CASE GetWorker(t)
    <3>1. PICK w \in Workers : Replace(t, [Top(t) EXCEPT !.step = "push", !.pos = w])
      BY <2>2 DEF GetWorker
    <3>2. Top(t).step = "invoke" /\ w \in Nat
      <4>1. w \in Nat
        BY DEF Workers
      <4>. QED
        BY <2>2, <4>1 DEF GetWorker, At
    <3> DEFINE f == [Top(t) EXCEPT !.step = "push", !.pos = w]
    <3>3. f \in Frame /\ f.step = "push" /\ f.op = Top(t).op /\ f.reg = Top(t).reg
          /\ f.type = Top(t).type /\ f.pos = w
      BY <1>2, <3>2 DEF Frame
    <3> HIDE DEF f
    <3>4. FrameOK(f, regs')
      BY <1>1, <1>2, <3>2, <3>3 DEF FrameOK, Invocations
    <3>5. Replace(t, f)
      BY <3>1 DEF f
    <3>. QED
      BY <1>1, <3>3, <3>4, <3>5 DEF Section, Invocations
  <2>3. CASE DoJob(t)
    <3> DEFINE f == [Top(t) EXCEPT !.op = "action", !.step = "code"]
    <3>1. Replace(t, f) /\ Top(t).step = "invoke"
      BY <2>3 DEF DoJob, At
    <3>2. f \in Frame /\ f.step = "code" /\ f.op = "action" /\ f.reg = Top(t).reg /\ f.type = Top(t).type
      BY <1>2 DEF Frame
    <3> HIDE DEF f
    <3>3. FrameOK(f, regs')
      BY <1>1, <1>2, <3>1, <3>2 DEF FrameOK, Invocations
    <3>. QED
      BY <3>1, <3>2, <3>3 DEF Section
  <2>. QED
    BY <2>1, <2>2, <2>3
<1>4. Moves(t)
  BY <1>1, <1>2, <1>3, ReplaceMoves DEF IInv
<1>. QED
  BY <1>1, <1>4, StackOnly DEF Waits, At

\* registerInterface adds a registration and starts the loop over the watchers.
LEMMA RegisterStep ==
  ASSUME IInv, NEW t \in Threads, RegisterInterface(t)
  PROVE  IInv'
<1> DEFINE s == Top(t).name
           f == [Top(t) EXCEPT !.step = "notify", !.pos = 1, !.len = Len(waiting[s])]
<1>1. /\ stack[t] # <<>> /\ Top(t).step = "lock" /\ Top(t).op = "register" /\ MayLock(t)
      /\ registered[s] = 0 /\ regs' = Append(regs, Top(t).type)
      /\ registered' = [registered EXCEPT ![s] = Len(regs')] /\ Replace(t, f)
      /\ UNCHANGED <<waiting, told, broken, poolVars, calls>>
  BY DEF RegisterInterface, At, StartNotifying
<1>2. Top(t) \in Frame /\ FrameOK(Top(t), regs) /\ s \in Services /\ Top(t).type \in Types
  BY <1>1, TopFrame
<1>3. /\ regs \in Seq(Types) /\ regs' \in Seq(Types) /\ Len(regs) \in Nat /\ Len(regs') = Len(regs) + 1
      /\ \A k \in DOMAIN regs : regs'[k] = regs[k]
  BY <1>1, <1>2 DEF IInv, TypeOK
<1>4. RegsGrow
  BY <1>3 DEF RegsGrow
<1>5. Len(waiting[s]) \in Nat
  BY <1>2 DEF IInv, TypeOK
<1> HIDE DEF s
<1>6. f \in Frame /\ f.step = "notify" /\ f.op = "register"
  BY <1>1, <1>2, <1>5 DEF Frame
<1> HIDE DEF f
<1>7. FrameOK(f, regs')
  BY <1>6 DEF FrameOK, Invocations
<1>8. Moves(t)
  BY <1>1, <1>4, <1>6, <1>7, ReplaceMoves DEF IInv
<1>9. MutexInv' /\ StackInv' /\ JobInv' /\ WaitInv'
  BY <1>1, <1>4, <1>8, MovesKeep DEF Waits
<1>10. CancelInv'
  <2>1. ASSUME NEW w \in Workers, WillCancel(w)
        PROVE  FALSE
    <3>1. PICK u \in Threads : /\ At(u, {"unregister"}, "cancel") \/ At(u, {"unregister"}, "visit")
                               /\ Top(u).pos <= w
      BY <2>1 DEF WillCancel
    <3>2. Holds(u)
      <4>1. stack[u] # <<>> /\ Top(u).step \in Section
        BY <3>1 DEF At, Section
      <4>. QED
        BY <4>1, TopOfStack DEF IInv, Holds, Section
    <3>3. u # t
      BY <1>1, <3>1 DEF At
    <3>. QED
      BY <1>1, <3>2, <3>3 DEF MayLock
  <2>. SUFFICES ASSUME NEW w \in Workers, NEW k \in DOMAIN queue[w], ~queue[w][k].late
                PROVE  queue[w][k].reg = registered'[queue[w][k].name]
    BY <1>1 DEF CancelInv, poolVars
  <2>2. queue[w][k].reg = registered[queue[w][k].name]
    BY <2>1 DEF CancelInv, IInv
  <2>3. queue[w][k] \in Jobs /\ queue[w][k].name \in Services
    <3>1. queue[w] \in Seq(Jobs)
      BY DEF IInv, TypeOK
    <3>2. queue[w][k] \in Jobs
      BY <3>1
    <3>. QED
      BY <3>2 DEF Jobs
  <2>4. queue[w][k].reg # 0
    BY <1>3 DEF IInv, JobInv
  <2>5. queue[w][k].name # s
    BY <1>1, <2>2, <2>4
  <2>. QED
    BY <1>1, <2>2, <2>3, <2>5 DEF IInv, TypeOK
<1>11. TypeOK'
  <2>1. registered' \in [Services -> 0..Len(regs')]
    BY <1>1, <1>2, <1>3 DEF IInv, TypeOK
  <2>. QED
    BY <1>1, <1>3, <1>8, <2>1 DEF Moves, IInv, TypeOK, poolVars
<1>. QED
  BY <1>9, <1>10, <1>11 DEF IInv

\* The loop calls the next watcher back.
LEMMA NotifyStep ==
  ASSUME IInv, NEW t \in Threads, NotifyWatcher(t)
  PROVE  IInv'
<1> DEFINE f == [Top(t) EXCEPT !.pos = Top(t).pos + 1]
<1>1. /\ stack[t] # <<>> /\ Top(t).step = "notify" /\ Top(t).op = "register"
      /\ told' = [told EXCEPT ![waiting[Top(t).name][Top(t).pos]] = @ + 1]
      /\ CallBack(t, f) /\ UNCHANGED <<regs, registered, waiting, broken, poolVars, calls>>
  BY DEF NotifyWatcher, At
<1>2. Top(t) \in Frame /\ Top(t).pos \in Nat
  BY <1>1, TopFrame
<1>3. f \in Frame /\ f.step = "notify" /\ f.op = "register"
  BY <1>1, <1>2 DEF Frame
<1> HIDE DEF f
<1>4. FrameOK(f, regs') /\ RegsGrow
  BY <1>1, <1>3 DEF FrameOK, Invocations, RegsGrow, IInv, TypeOK
<1>5. Moves(t)
  BY <1>1, <1>3, <1>4, CallBackMoves DEF IInv, Calling, Section
<1>6. MutexInv' /\ StackInv' /\ JobInv' /\ WaitInv'
  BY <1>1, <1>4, <1>5, MovesKeep DEF Waits
<1>7. CancelInv'
  BY <1>1, <1>5, CancelKept DEF At, poolVars
<1>8. TypeOK'
  <2> DEFINE v == waiting[Top(t).name][Top(t).pos]
  <2>1. told' \in Seq(Nat) /\ Len(told') = Len(told)
    <3>1. told \in Seq(Nat) /\ told' = [told EXCEPT ![v] = @ + 1]
      BY <1>1 DEF IInv, TypeOK
    <3> HIDE DEF v
    <3>2. CASE v \in 1..Len(told)
      BY <3>1, <3>2
    <3>3. CASE v \notin 1..Len(told)
      <4>1. told \in [1..Len(told) -> Nat]
        BY <3>1
      <4>2. told' = told
        BY <3>1, <3>3, <4>1
      <4>. QED
        BY <3>1, <4>2
    <3>. QED
      BY <3>2, <3>3
  <2>. QED
    BY <1>1, <1>5, <2>1 DEF Moves, IInv, TypeOK, poolVars
<1>. QED
  BY <1>6, <1>7, <1>8 DEF IInv

\* The loop ends and the watchers are forgotten.
LEMMA ClearStep ==
  ASSUME IInv, NEW t \in Threads, ClearWatchers(t)
  PROVE  IInv'
<1>1. /\ stack[t] # <<>> /\ Top(t).step = "notify" /\ Return(t)
      /\ waiting' = [waiting EXCEPT ![Top(t).name] = <<>>] /\ broken' \in BOOLEAN
      /\ UNCHANGED <<regs, registered, told, poolVars, calls>>
  BY DEF ClearWatchers, At, Erased
<1>2. RegsGrow
  BY <1>1 DEF RegsGrow, IInv, TypeOK
<1>3. Moves(t)
  BY <1>1, <1>2, ReturnMoves DEF IInv
<1>4. MutexInv' /\ StackInv' /\ JobInv' /\ WaitInv'
  BY <1>1, <1>2, <1>3, MovesKeep DEF Waits
<1>5. CancelInv'
  BY <1>1, <1>3, CancelKept DEF At, poolVars
<1>6. TypeOK'
  <2>1. <<>> \in Seq(1..Len(told))
    OBVIOUS
  <2>2. waiting' \in [Services -> Seq(1..Len(told))]
    BY <1>1, <2>1 DEF IInv, TypeOK
  <2>. QED
    BY <1>1, <1>3, <2>2 DEF Moves, IInv, TypeOK, poolVars
<1>. QED
  BY <1>4, <1>5, <1>6 DEF IInv

\* A watcher subscribes: it is called back at once, or it waits.
LEMMA SubscribeStep ==
  ASSUME IInv, NEW t \in Threads, SubscribeRegistered(t) \/ SubscribeLater(t)
  PROVE  IInv'
<1>1. /\ stack[t] # <<>> /\ Top(t).step = "lock" /\ Top(t).op = "subscribe" /\ MayLock(t)
      /\ UNCHANGED <<regs, registered, poolVars, calls>> /\ RegsGrow
  BY DEF SubscribeRegistered, SubscribeLater, At, RegsGrow, IInv, TypeOK
<1>2. Top(t) \in Frame /\ FrameOK(Top(t), regs) /\ Top(t).name \in Services
  BY <1>1, TopFrame
<1>3. Moves(t)
  <2>1. CASE SubscribeRegistered(t)
    <3> DEFINE f == [Top(t) EXCEPT !.step = "callback"]
    <3>1. CallBack(t, f)
      BY <2>1 DEF SubscribeRegistered
    <3>2. f \in Frame /\ f.step = "callback" /\ f.op = "subscribe"
      BY <1>1, <1>2 DEF Frame
    <3> HIDE DEF f
    <3>3. FrameOK(f, regs')
      BY <3>2 DEF FrameOK, Invocations
    <3>. QED
      BY <1>1, <3>1, <3>2, <3>3, CallBackMoves DEF IInv, Calling
  <2>2. CASE SubscribeLater(t)
    BY <1>1, <2>2, ReturnMoves DEF SubscribeLater, IInv
  <2>. QED
    BY <2>1, <2>2
<1>4. MutexInv' /\ StackInv' /\ JobInv' /\ WaitInv'
  BY <1>1, <1>3, MovesKeep DEF Waits
<1>5. CancelInv'
  BY <1>1, <1>3, CancelKept DEF At, poolVars
<1>6. PICK v \in Nat : told' = Append(told, v)
  BY DEF SubscribeRegistered, SubscribeLater
<1>7. told' \in Seq(Nat) /\ Len(told') = Len(told) + 1 /\ Len(told) \in Nat
  BY <1>6 DEF IInv, TypeOK
<1>8. waiting' \in [Services -> Seq(1..Len(told'))] /\ broken' \in BOOLEAN
  <2>1. \A q \in Seq(1..Len(told)) : q \in Seq(1..Len(told')) /\ Append(q, Len(told')) \in Seq(1..Len(told'))
    <3>1. 1..Len(told) \subseteq 1..Len(told') /\ Len(told') \in 1..Len(told')
      BY <1>7
    <3>2. \A q \in Seq(1..Len(told)) : q \in Seq(1..Len(told'))
      BY <3>1, SeqMonotonic
    <3>. QED
      BY <3>1, <3>2, AppendProperties
  <2>2. CASE SubscribeRegistered(t)
    BY <2>1, <2>2 DEF SubscribeRegistered, IInv, TypeOK
  <2>3. CASE SubscribeLater(t)
    <3>1. waiting' = [waiting EXCEPT ![Top(t).name] = Append(@, Len(told'))] /\ broken' \in BOOLEAN
      BY <2>3 DEF SubscribeLater, Iterating
    <3>. QED
      BY <1>2, <2>1, <3>1 DEF IInv, TypeOK
  <2>. QED
    BY <2>2, <2>3
<1>9. TypeOK'
  BY <1>1, <1>3, <1>7, <1>8 DEF Moves, IInv, TypeOK, poolVars
<1>. QED
  BY <1>4, <1>5, <1>9 DEF IInv

-----------------------------------------------------------------------------
(* IInv: unregistration.                                                   *)

\* unRegiterInterface removes the registration and will cancel on all workers.
LEMMA UnregisterStep ==
  ASSUME IInv, NEW t \in Threads, UnRegiterInterface(t)
  PROVE  IInv'
<1> DEFINE s == Top(t).name
           f == [Top(t) EXCEPT !.step = "cancel", !.pos = 1]
<1>1. /\ stack[t] # <<>> /\ Top(t).step = "lock" /\ Top(t).op = "unregister" /\ MayLock(t)
      /\ registered' = [registered EXCEPT ![s] = 0]
      /\ registered[s] # 0 => Replace(t, f)
      /\ registered[s] = 0 => Return(t)
      /\ UNCHANGED <<regs, waiting, told, broken, poolVars, calls>>
  BY DEF UnRegiterInterface, At
<1>2. Top(t) \in Frame /\ FrameOK(Top(t), regs) /\ s \in Services
  BY <1>1, TopFrame
<1>3. f \in Frame /\ f.step = "cancel" /\ f.op = "unregister" /\ f.pos = 1
  BY <1>1, <1>2 DEF Frame
<1> HIDE DEF f, s
<1>4. FrameOK(f, regs') /\ RegsGrow
  BY <1>1, <1>3 DEF FrameOK, Invocations, RegsGrow, IInv, TypeOK, Workers
<1>5. Moves(t)
  <2>1. CASE registered[s] # 0
    BY <1>1, <1>3, <1>4, <2>1, ReplaceMoves DEF IInv
  <2>2. CASE registered[s] = 0
    BY <1>1, <1>4, <2>2, ReturnMoves DEF IInv
  <2>. QED
    BY <2>1, <2>2
<1>6. MutexInv' /\ StackInv' /\ JobInv' /\ WaitInv'
  BY <1>1, <1>4, <1>5, MovesKeep DEF Waits
<1>7. TypeOK'
  <2>1. registered' \in [Services -> 0..Len(regs)]
    <3>1. Len(regs) \in Nat /\ registered \in [Services -> 0..Len(regs)]
      BY DEF IInv, TypeOK
    <3>. QED
      BY <1>1, <1>2, <3>1
  <2>. QED
    BY <1>1, <1>5, <2>1 DEF Moves, IInv, TypeOK, poolVars
<1>8. CancelInv'
  <2>1. CASE registered[s] = 0
    <3>1. registered' = registered
      BY <1>1, <1>2, <2>1 DEF IInv, TypeOK
    <3>. QED
      BY <1>1, <1>5, <3>1, CancelKept DEF At, poolVars
  <2>2. CASE registered[s] # 0
    <3>1. stack'[t] # <<>> /\ Top(t)' = f
      <4>1. /\ stack[t] \in Seq(Frame) /\ stack[t] # <<>>
            /\ stack'[t] = TopReplaced(stack[t], f)
        BY <1>1, <2>2 DEF Replace, TopReplaced, IInv, TypeOK
      <4>. QED
        BY <4>1, <1>3, Replacing DEF Top, Last
    <3>2. At(t, {"unregister"}, "cancel")' /\ Top(t)'.pos = 1
      BY <1>3, <3>1 DEF At
    <3>3. \A w \in Workers : WillCancel(w)'
      BY <3>2 DEF WillCancel, Workers
    <3>. QED
      BY <3>3 DEF CancelInv
  <2>. QED
    BY <2>1, <2>2
<1>. QED
  BY <1>6, <1>7, <1>8 DEF IInv

\* cancelJobsFor locks the queue of the next worker.
LEMMA CancelLockStep ==
  ASSUME IInv, NEW t \in Threads, CancelLock(t)
  PROVE  IInv'
<1> DEFINE f == [Top(t) EXCEPT !.step = "visit"]
<1>1. /\ stack[t] # <<>> /\ Top(t).step = "cancel" /\ Top(t).op = "unregister" /\ Replace(t, f)
      /\ UNCHANGED <<registryVars, poolVars, calls>>
  BY DEF CancelLock, At
<1>2. Top(t) \in Frame /\ FrameOK(Top(t), regs)
  BY <1>1, TopFrame
<1>3. f \in Frame /\ f.step = "visit" /\ f.op = "unregister" /\ f.pos = Top(t).pos
  BY <1>1, <1>2 DEF Frame
<1> HIDE DEF f
<1>4. FrameOK(f, regs') /\ RegsGrow
  BY <1>1, <1>2, <1>3 DEF FrameOK, Invocations, RegsGrow, IInv, TypeOK, registryVars
<1>5. Moves(t)
  BY <1>1, <1>3, <1>4, ReplaceMoves DEF IInv, Section
<1>6. MutexInv' /\ StackInv' /\ JobInv' /\ WaitInv'
  BY <1>1, <1>4, <1>5, MovesKeep DEF Waits
<1>7. CancelInv'
  <2>1. stack'[t] # <<>> /\ Top(t)' = f
    <3>1. /\ stack[t] \in Seq(Frame) /\ stack'[t] = TopReplaced(stack[t], f)
      BY <1>1 DEF Replace, TopReplaced, IInv, TypeOK
    <3>. QED
      BY <3>1, <1>1, <1>3, Replacing DEF Top, Last
  <2>2. At(t, {"unregister"}, "visit")' /\ Top(t)'.pos = Top(t).pos
    BY <1>3, <2>1 DEF At
  <2>3. \A u \in Threads \ {t} : stack'[u] = stack[u]
    BY <1>5 DEF Moves
  <2>4. ASSUME NEW w \in Workers, WillCancel(w)
        PROVE  WillCancel(w)'
    <3>1. PICK u \in Threads : /\ At(u, {"unregister"}, "cancel") \/ At(u, {"unregister"}, "visit")
                               /\ Top(u).pos <= w
      BY <2>4 DEF WillCancel
    <3>2. CASE u = t
      BY <2>2, <3>1, <3>2 DEF WillCancel
    <3>3. CASE u # t
      BY <2>3, <3>1, <3>3 DEF WillCancel, At, Top
    <3>. QED
      BY <3>2, <3>3
  <2>. QED
    BY <1>1, <2>4 DEF CancelInv, IInv, registryVars, poolVars
<1>8. TypeOK'
  BY <1>1, <1>5 DEF Moves, IInv, TypeOK, registryVars, poolVars
<1>. QED
  BY <1>6, <1>7, <1>8 DEF IInv

\* cancelJobsFor empties the queue of a worker and goes on to the next.
LEMMA CancelJobsForStep ==
  ASSUME IInv, NEW t \in Threads, CancelJobsFor(t)
  PROVE  IInv'
<1>1. PICK w \in Workers :
        /\ At(t, {"unregister"}, "visit") /\ Top(t).pos = w
        /\ queue' = [queue EXCEPT ![w] = <<>>]
        /\ IF w < PoolSize THEN Replace(t, [Top(t) EXCEPT !.step = "cancel", !.pos = w + 1]) ELSE Return(t)
        /\ UNCHANGED <<registryVars, taken, executing, calls>>
  BY DEF CancelJobsFor, LocksQueue, AllCancelled
<1> DEFINE f == [Top(t) EXCEPT !.step = "cancel", !.pos = w + 1]
<1>2. /\ stack[t] # <<>> /\ Top(t).step = "visit" /\ Top(t).op = "unregister"
      /\ w \in Nat /\ w + 1 \in Nat
  BY <1>1 DEF At, Workers
<1>3. Top(t) \in Frame /\ FrameOK(Top(t), regs)
  BY <1>2, TopFrame
<1>4. f \in Frame /\ f.step = "cancel" /\ f.op = "unregister" /\ f.pos = w + 1
  BY <1>2, <1>3 DEF Frame
<1>5. w < PoolSize => Replace(t, f)
  BY <1>1
<1>6. ~(w < PoolSize) => Return(t)
  BY <1>1
<1> HIDE DEF f
<1>7. RegsGrow
  BY <1>1 DEF RegsGrow, IInv, TypeOK, registryVars
<1>8. w < PoolSize => FrameOK(f, regs')
  BY <1>2, <1>4 DEF FrameOK, Invocations, Workers
<1>9. Moves(t)
  <2>1. CASE w < PoolSize
    BY <1>2, <1>4, <1>5, <1>7, <1>8, <2>1, ReplaceMoves DEF IInv, Section
  <2>2. CASE ~(w < PoolSize)
    BY <1>2, <1>6, <1>7, <2>2, ReturnMoves DEF IInv
  <2>. QED
    BY <2>1, <2>2
<1>10. MutexInv' /\ StackInv'
  BY <1>7, <1>9, StacksKept
<1>11. \A v \in Workers : DOMAIN queue'[v] \subseteq DOMAIN queue[v] /\ \A k \in DOMAIN queue'[v] : v # w /\ queue'[v][k] = queue[v][k]
  BY <1>1 DEF IInv, TypeOK
<1>12. JobInv'
  BY <1>1, <1>11 DEF JobInv, IInv, registryVars
<1>13. WaitInv'
  <2>1. \A u \in Threads : Waits(u) => Waits(u)'
    BY <1>2, <1>9, WaitsKept DEF Waits
  <2>. QED
    BY <1>1, <1>11, <2>1 DEF WaitInv, IInv
<1>14. CancelInv'
  <2>1. \A u \in Threads \ {t} : stack'[u] = stack[u]
    BY <1>9 DEF Moves
  <2>2. w < PoolSize => At(t, {"unregister"}, "cancel")' /\ Top(t)'.pos = w + 1
    <3>. SUFFICES ASSUME w < PoolSize PROVE At(t, {"unregister"}, "cancel")' /\ Top(t)'.pos = w + 1
      OBVIOUS
    <3>1. stack[t] \in Seq(Frame) /\ stack'[t] = TopReplaced(stack[t], f)
      BY <1>5 DEF Replace, TopReplaced, IInv, TypeOK
    <3>2. stack'[t] # <<>> /\ Top(t)' = f
      BY <3>1, <1>2, <1>4, Replacing DEF Top, Last
    <3>. QED
      BY <1>4, <3>2 DEF At
  <2>3. ASSUME NEW v \in Workers, v # w, WillCancel(v)
        PROVE  WillCancel(v)'
    <3>1. PICK u \in Threads : /\ At(u, {"unregister"}, "cancel") \/ At(u, {"unregister"}, "visit")
                               /\ Top(u).pos <= v
      BY <2>3 DEF WillCancel
    <3>2. CASE u = t
      <4>1. w < PoolSize /\ w + 1 <= v
        BY <1>1, <2>3, <3>1, <3>2 DEF Workers
      <4>. QED
        BY <2>2, <4>1 DEF WillCancel
    <3>3. CASE u # t
      BY <2>1, <3>1, <3>3 DEF WillCancel, At, Top
    <3>. QED
      BY <3>2, <3>3
  <2>. QED
    BY <1>1, <1>11, <2>3 DEF CancelInv, IInv, registryVars
<1>15. TypeOK'
  <2>1. queue' \in [Workers -> Seq(Jobs)]
    BY <1>1 DEF IInv, TypeOK
  <2>. QED
    BY <1>1, <1>9, <2>1 DEF Moves, IInv, TypeOK, registryVars
<1>. QED
  BY <1>10, <1>12, <1>13, <1>14, <1>15 DEF IInv

-----------------------------------------------------------------------------
(* IInv: jobs.                                                             *)

\* The caller schedules its job, and goes on or waits for it.
LEMMA ScheduleJobStep ==
  ASSUME IInv, NEW t \in Threads, ScheduleJob(t)
  PROVE  IInv'
<1> DEFINE w == Top(t).pos
           j == Job(t, Top(t), Top(t).reg)
           f == [Top(t) EXCEPT !.step = "wait"]
<1>1. /\ stack[t] # <<>> /\ Top(t).step = "push" /\ Top(t).op \in {"asyncCall", "blockingCall"}
      /\ queue' = [queue EXCEPT ![w] = Append(@, j)]
      /\ Top(t).op = "asyncCall" => Return(t)
      /\ Top(t).op = "blockingCall" => Replace(t, f)
      /\ UNCHANGED <<registryVars, taken, executing, calls>>
  BY DEF ScheduleJob, ScheduledJob, At
<1>2. Top(t) \in Frame /\ FrameOK(Top(t), regs) /\ Top(t).name \in Services /\ Top(t).type \in Types
      /\ Top(t).reg \in Nat
  BY <1>1, TopFrame
<1>3. w \in Workers /\ Top(t).reg \in DOMAIN regs /\ regs[Top(t).reg] = Top(t).type
  BY <1>1, <1>2 DEF FrameOK, Invocations
<1>4. f \in Frame /\ f.step = "wait" /\ f.op = Top(t).op /\ f.reg = Top(t).reg /\ f.type = Top(t).type
  BY <1>2 DEF Frame
<1>5. RegsGrow /\ regs' = regs
  BY <1>1 DEF RegsGrow, IInv, TypeOK, registryVars
<1> HIDE DEF f
<1>6. FrameOK(f, regs')
  BY <1>1, <1>3, <1>4, <1>5 DEF FrameOK, Invocations
<1>7. Moves(t)
  <2>1. CASE Top(t).op = "asyncCall"
    BY <1>1, <1>5, <2>1, ReturnMoves DEF IInv
  <2>2. CASE Top(t).op = "blockingCall"
    BY <1>1, <1>4, <1>5, <1>6, <2>2, ReplaceMoves DEF IInv, Section
  <2>. QED
    BY <1>1, <2>1, <2>2
<1>8. MutexInv' /\ StackInv'
  BY <1>5, <1>7, StacksKept
<1>9. /\ j \in Jobs /\ j.reg = Top(t).reg /\ j.type = Top(t).type /\ j.name = Top(t).name
      /\ j.late = (registered[j.name] # j.reg)
      /\ j.waiter = IF Top(t).op = "blockingCall" THEN t ELSE None
  BY <1>2 DEF Job, Jobs
<1> HIDE DEF j, w
<1>10. /\ queue' \in [Workers -> Seq(Jobs)]
       /\ \A v \in Workers : \A k \in DOMAIN queue'[v] :
            \/ k \in DOMAIN queue[v] /\ queue'[v][k] = queue[v][k]
            \/ v = w /\ k = Len(queue[w]) + 1 /\ queue'[v][k] = j
  <2>1. queue \in [Workers -> Seq(Jobs)] /\ queue[w] \in Seq(Jobs)
    BY <1>3 DEF IInv, TypeOK
  <2>2. queue'[w] = Append(queue[w], j) /\ \A v \in Workers \ {w} : queue'[v] = queue[v]
    BY <1>1, <1>3, <2>1
  <2>3. /\ queue'[w] \in Seq(Jobs) /\ Len(queue[w]) \in Nat
        /\ DOMAIN queue[w] = 1..Len(queue[w]) /\ DOMAIN queue'[w] = 1..Len(queue[w]) + 1
        /\ \A k \in 1..Len(queue[w]) : queue'[w][k] = queue[w][k]
        /\ queue'[w][Len(queue[w]) + 1] = j
    BY <1>9, <2>1, <2>2
  <2>4. queue' \in [Workers -> Seq(Jobs)]
    BY <1>1, <1>3, <2>1, <2>2, <2>3
  <2>5. \A k \in DOMAIN queue'[w] : k \in DOMAIN queue[w] \/ k = Len(queue[w]) + 1
    BY <2>3
  <2>. QED
    BY <2>2, <2>3, <2>4, <2>5
<1>11. JobInv'
  BY <1>1, <1>3, <1>5, <1>9, <1>10 DEF JobInv, IInv
<1>12. CancelInv'
  <2>1. \A v \in Workers : WillCancel(v) => WillCancel(v)'
    BY <1>1, <1>7 DEF WillCancel, Moves, At, Top
  <2>2. j.late \/ j.reg = registered[j.name]
    BY <1>9, Zenon
  <2>. QED
    BY <1>1, <1>10, <2>1, <2>2 DEF CancelInv, IInv, registryVars
<1>13. WaitInv'
  <2>1. \A u \in Threads : Waits(u) => Waits(u)'
    BY <1>1, <1>7, WaitsKept DEF Waits
  <2>2. j.waiter \in Threads => j.waiter = t /\ Waits(t)'
    <3>. SUFFICES ASSUME j.waiter \in Threads PROVE j.waiter = t /\ Waits(t)'
      OBVIOUS
    <3>1. j.waiter = t /\ Replace(t, f)
      BY <1>1, <1>9
    <3>2. stack[t] \in Seq(Frame) /\ stack'[t] = TopReplaced(stack[t], f)
      BY <3>1 DEF Replace, TopReplaced, IInv, TypeOK
    <3>3. stack'[t] # <<>> /\ Top(t)' = f
      BY <3>2, <1>1, <1>4, Replacing DEF Top, Last
    <3>. QED
      BY <1>4, <3>1, <3>3 DEF Waits
  <2>3. ~Waits(t)
    BY <1>1 DEF Waits
  <2>4. \A v \in Workers : \A k \in DOMAIN queue[v] : queue[v][k].waiter # t
    BY <2>3 DEF WaitInv, IInv
  <2>5. \A v \in Workers : taken[v] # None => taken[v].waiter # t
    BY <2>3 DEF WaitInv, IInv
  <2>. QED
    BY <1>1, <1>10, <2>1, <2>2, <2>4, <2>5 DEF WaitInv, IInv
<1>14. TypeOK'
  BY <1>1, <1>7, <1>10 DEF Moves, IInv, TypeOK, registryVars
<1>. QED
  BY <1>8, <1>11, <1>12, <1>13, <1>14 DEF IInv

\* A worker takes the first job of its queue.
LEMMA TakeStep ==
  ASSUME IInv, NEW w \in Workers, Take(w)
  PROVE  IInv'
<1> DEFINE j == Head(queue[w])
           q == Tail(queue[w])
<1>1. /\ taken[w] = None /\ queue[w] # <<>>
      /\ taken' = [taken EXCEPT ![w] = j] /\ queue' = [queue EXCEPT ![w] = q]
      /\ UNCHANGED <<registryVars, stack, executing, calls>>
  BY DEF Take
<1>2. queue \in [Workers -> Seq(Jobs)] /\ queue[w] \in Seq(Jobs) /\ taken \in [Workers -> Jobs \cup {None}]
  BY DEF IInv, TypeOK
<1>3. /\ j \in Jobs /\ j = queue[w][1] /\ 1 \in DOMAIN queue[w]
      /\ q \in Seq(Jobs) /\ DOMAIN q \subseteq Nat \ {0}
      /\ \A k \in DOMAIN q : k + 1 \in DOMAIN queue[w] /\ q[k] = queue[w][k + 1] /\ k + 1 # 1
  BY <1>1, <1>2
<1> HIDE DEF j, q
<1>4. /\ queue'[w] = q /\ taken'[w] = j
      /\ \A v \in Workers : v # w => queue'[v] = queue[v] /\ taken'[v] = taken[v]
  BY <1>1, <1>2
<1>5. TypeOK'
  <2>1. queue' \in [Workers -> Seq(Jobs)] /\ taken' \in [Workers -> Jobs \cup {None}]
    BY <1>1, <1>2, <1>3
  <2>. QED
    BY <1>1, <2>1 DEF IInv, TypeOK, registryVars
<1>6. MutexInv' /\ StackInv'
  BY <1>1 DEF IInv, MutexInv, StackInv, StackOK, FrameOK, Holds, registryVars
<1>7. JobInv'
  BY <1>1, <1>3, <1>4 DEF IInv, JobInv, registryVars
<1>8. CancelInv'
  <2>1. \A v \in Workers : WillCancel(v) => WillCancel(v)'
    BY <1>1 DEF WillCancel, At, Top
  <2>. QED
    BY <1>1, <1>3, <1>4, <2>1 DEF IInv, CancelInv, registryVars
<1>9. WaitInv'
  <2>1. \A u \in Threads : Waits(u) <=> Waits(u)'
    BY <1>1 DEF Waits, Top
  <2>2. \A v \in Workers :
          /\ \A k \in DOMAIN queue'[v] : queue'[v][k].waiter \in Threads => Waits(queue'[v][k].waiter)
          /\ taken'[v] # None /\ taken'[v].waiter \in Threads => Waits(taken'[v].waiter)
          /\ executing'[v] => taken'[v] # None
    <3>1. ~executing[w]
      BY <1>1 DEF WaitInv, IInv
    <3>. QED
      BY <1>1, <1>3, <1>4, <3>1 DEF WaitInv, IInv
  <2>3. ASSUME NEW u \in Workers, NEW v \in Workers
        PROVE  \A i \in DOMAIN queue'[u], k \in DOMAIN queue'[v] :
                 queue'[u][i].waiter = queue'[v][k].waiter /\ queue'[v][k].waiter \in Threads => u = v /\ i = k
    <3>. SUFFICES ASSUME NEW i \in DOMAIN queue'[u], NEW k \in DOMAIN queue'[v],
                         queue'[u][i].waiter = queue'[v][k].waiter, queue'[v][k].waiter \in Threads
                  PROVE  u = v /\ i = k
      OBVIOUS
    <3>1. PICK a \in DOMAIN queue[u] : queue'[u][i] = queue[u][a] /\ a = IF u = w THEN i + 1 ELSE i
      BY <1>3, <1>4
    <3>2. PICK b \in DOMAIN queue[v] : queue'[v][k] = queue[v][b] /\ b = IF v = w THEN k + 1 ELSE k
      BY <1>3, <1>4
    <3>3. u = v /\ a = b
      BY <3>1, <3>2 DEF WaitInv, IInv
    <3>4. u = w => i \in Nat /\ k \in Nat
      BY <1>3, <1>4, <3>3
    <3>. QED
      BY <3>1, <3>2, <3>3, <3>4
  <2>4. ASSUME NEW u \in Workers, NEW v \in Workers, NEW i \in DOMAIN queue'[u],
               taken'[v] # None, taken'[v].waiter \in Threads
        PROVE  queue'[u][i].waiter # taken'[v].waiter
    <3>1. PICK a \in DOMAIN queue[u] : queue'[u][i] = queue[u][a] /\ (u = w => a # 1)
      BY <1>3, <1>4
    <3>2. CASE v = w
      BY <1>3, <1>4, <2>4, <3>1, <3>2 DEF WaitInv, IInv
    <3>3. CASE v # w
      BY <1>4, <2>4, <3>1, <3>3 DEF WaitInv, IInv
    <3>. QED
      BY <3>2, <3>3
  <2>5. ASSUME NEW u \in Workers, NEW v \in Workers, taken'[u] # None, taken'[v] # None,
               taken'[v].waiter \in Threads, taken'[u].waiter = taken'[v].waiter
        PROVE  u = v
    <3>1. CASE u # w /\ v # w
      BY <1>4, <2>5, <3>1 DEF WaitInv, IInv
    <3>2. CASE u = w /\ v # w
      BY <1>3, <1>4, <2>5, <3>2 DEF WaitInv, IInv
    <3>3. CASE u # w /\ v = w
      BY <1>3, <1>4, <2>5, <3>3 DEF WaitInv, IInv
    <3>. QED
      BY <3>1, <3>2, <3>3
  <2>. QED
    BY <2>1, <2>2, <2>3, <2>4, <2>5 DEF WaitInv
<1>. QED
  BY <1>5, <1>6, <1>7, <1>8, <1>9 DEF IInv

\* A worker starts to execute the job that it has taken.
LEMMA ExecuteStep ==
  ASSUME IInv, NEW w \in Workers, Execute(w)
  PROVE  IInv'
<1>1. /\ taken[w] # None /\ executing' = [executing EXCEPT ![w] = TRUE]
      /\ UNCHANGED <<registryVars, stack, queue, taken, calls>>
  BY DEF Execute
<1>2. TypeOK'
  BY <1>1 DEF IInv, TypeOK, registryVars
<1>3. MutexInv' /\ StackInv' /\ JobInv' /\ CancelInv'
  BY <1>1 DEF IInv, MutexInv, StackInv, StackOK, FrameOK, JobInv, CancelInv, WillCancel, At, Top, Holds, registryVars
<1>4. WaitInv'
  <2>1. \A v \in Workers : executing'[v] => v = w \/ executing[v]
    BY <1>1 DEF IInv, TypeOK
  <2>2. \A v \in Workers : executing'[v] => taken[v] # None
    BY <1>1, <2>1 DEF WaitInv, IInv
  <2>3. \A u \in Threads : Waits(u) => Waits(u)'
    BY <1>1 DEF Waits, Top
  <2>. QED
    BY <1>1, <2>2, <2>3 DEF WaitInv, IInv
<1>. QED
  BY <1>2, <1>3, <1>4 DEF IInv

\* A worker has executed its job; the thread that waits for it goes on.
LEMMA ExecutedStep ==
  ASSUME IInv, NEW w \in Workers, Executed(w)
  PROVE  IInv'
<1> DEFINE u == taken[w].waiter
<1>1. /\ executing[w] /\ taken[w] # None
      /\ executing' = [executing EXCEPT ![w] = FALSE] /\ taken' = [taken EXCEPT ![w] = None]
      /\ stack' = [t \in Threads |-> IF t = u THEN Front(stack[t]) ELSE stack[t]]
      /\ UNCHANGED <<registryVars, queue, calls>>
  BY DEF Executed, WaitInv, IInv
<1>2. RegsGrow
  BY <1>1 DEF RegsGrow, IInv, TypeOK, registryVars
<1>3. \A v \in Workers : taken'[v] # None => v # w /\ taken'[v] = taken[v]
  BY <1>1 DEF IInv, TypeOK
<1>4. \A v \in Workers : executing'[v] => v # w /\ executing[v]
  BY <1>1 DEF IInv, TypeOK
<1>5. taken' \in [Workers -> Jobs \cup {None}] /\ executing' \in [Workers -> BOOLEAN]
  BY <1>1 DEF IInv, TypeOK
<1>6. JobInv'
  BY <1>1, <1>3 DEF JobInv, IInv, registryVars
<1>7. \A t \in Threads : t # u => stack'[t] = stack[t] /\ (Waits(t) => Waits(t)')
  BY <1>1 DEF Waits, Top
<1>8. WaitInv'
  <2>1. \A v \in Workers : \A k \in DOMAIN queue[v] : queue[v][k].waiter \in Threads => queue[v][k].waiter # u
    BY <1>1 DEF WaitInv, IInv
  <2>2. \A v \in Workers : taken'[v] # None /\ taken'[v].waiter \in Threads => taken'[v].waiter # u
    BY <1>1, <1>3 DEF WaitInv, IInv
  <2>3. \A v \in Workers : executing'[v] => taken'[v] # None
    <3>1. \A v \in Workers : v # w => taken'[v] = taken[v]
      BY <1>1 DEF IInv, TypeOK
    <3>. QED
      BY <1>4, <3>1 DEF WaitInv, IInv
  <2>4. ASSUME NEW t \in Threads, NEW v \in Workers,
               \/ \E k \in DOMAIN queue'[v] : queue'[v][k].waiter = t
               \/ taken'[v] # None /\ taken'[v].waiter = t
        PROVE  Waits(t)'
    <3>1. t # u
      BY <1>1, <2>1, <2>2, <2>4
    <3>2. Waits(t)
      BY <1>1, <1>3, <2>4 DEF WaitInv, IInv
    <3>. QED
      BY <1>7, <3>1, <3>2
  <2>5. \A v \in Workers :
          /\ \A k \in DOMAIN queue'[v] : queue'[v][k].waiter \in Threads => Waits(queue[v][k].waiter)'
          /\ taken'[v] # None /\ taken'[v].waiter \in Threads => Waits(taken[v].waiter)'
    BY <2>4
  <2>. QED
    BY <1>1, <1>3, <2>3, <2>5 DEF WaitInv, IInv
<1>9. MutexInv' /\ StackInv' /\ CancelInv' /\ stack' \in [Threads -> Seq(Frame)]
  <2>1. CASE u \in Threads
    <3>1. /\ stack[u] # <<>> /\ Top(u).step = "wait"
      BY <1>1, <2>1 DEF WaitInv, Waits, IInv
    <3>2. Return(u)
      BY <1>1, <2>1 DEF Return, IInv, TypeOK
    <3>3. Moves(u)
      BY <1>2, <2>1, <3>1, <3>2, ReturnMoves DEF IInv
    <3>4. MutexInv' /\ StackInv'
      BY <1>2, <2>1, <3>3, StacksKept
    <3>5. CancelInv'
      <4>1. ~At(u, {"unregister"}, "cancel") /\ ~At(u, {"unregister"}, "visit")
        BY <3>1 DEF At
      <4>. QED
        BY <1>1, <2>1, <3>3, <4>1, CancelKept DEF registryVars
    <3>. QED
      BY <3>3, <3>4, <3>5 DEF Moves
  <2>2. CASE u \notin Threads
    <3>1. stack' = stack
      BY <1>1, <2>2 DEF IInv, TypeOK
    <3>2. MutexInv' /\ StackInv'
      BY <1>1, <3>1 DEF IInv, MutexInv, StackInv, StackOK, FrameOK, Holds, registryVars
    <3>3. CancelInv'
      BY <1>1, <3>1 DEF IInv, CancelInv, WillCancel, At, Top, registryVars
    <3>. QED
      BY <3>1, <3>2, <3>3 DEF IInv, TypeOK
  <2>. QED
    BY <2>1, <2>2
<1>10. TypeOK'
  BY <1>1, <1>5, <1>9 DEF IInv, TypeOK, registryVars
<1>. QED
  BY <1>6, <1>8, <1>9, <1>10 DEF IInv

-----------------------------------------------------------------------------
(* IInv holds in every reachable state.                                    *)

\* No thread has called anything and no job is scheduled.
LEMMA InitInvariant == Init => IInv
<1>. SUFFICES ASSUME Init PROVE IInv
  OBVIOUS
<1>1. \A S : <<>> \in Seq(S) /\ Len(<<>>) = 0 /\ DOMAIN <<>> = {}
  OBVIOUS
<1>2. TypeOK
  <2>1. regs \in Seq(Types) /\ told \in Seq(Nat) /\ Len(regs) = 0 /\ Len(told) = 0
    BY <1>1 DEF Init
  <2>2. registered \in [Services -> 0..Len(regs)] /\ calls \in 0..MaxCalls
    BY <2>1 DEF Init
  <2>3. waiting \in [Services -> Seq(1..Len(told))] /\ broken \in BOOLEAN
    BY <1>1 DEF Init
  <2>4. stack \in [Threads -> Seq(Frame)] /\ queue \in [Workers -> Seq(Jobs)]
    BY <1>1 DEF Init
  <2>5. taken \in [Workers -> Jobs \cup {None}] /\ executing \in [Workers -> BOOLEAN]
    BY DEF Init
  <2>. QED
    BY <2>1, <2>2, <2>3, <2>4, <2>5 DEF TypeOK
<1>3. \A t \in Threads : ~Holds(t) /\ stack[t] = <<>>
  BY DEF Init, Holds
<1>4. MutexInv /\ StackInv
  BY <1>1, <1>3 DEF MutexInv, StackInv, StackOK
<1>5. \A w \in Workers : DOMAIN queue[w] = {} /\ taken[w] = None /\ ~executing[w]
  BY DEF Init
<1>6. JobInv /\ WaitInv /\ CancelInv
  BY <1>5 DEF JobInv, WaitInv, CancelInv
<1>. QED
  BY <1>2, <1>4, <1>6 DEF IInv

\* A state in which no variable changes.
LEMMA StutterStep ==
  ASSUME IInv, UNCHANGED vars
  PROVE  IInv'
<1>1. UNCHANGED <<registryVars, poolVars, stack, calls>>
  BY DEF vars
<1>2. TypeOK' /\ MutexInv' /\ StackInv' /\ JobInv'
  BY <1>1 DEF IInv, TypeOK, MutexInv, StackInv, StackOK, FrameOK, JobInv, Holds, registryVars, poolVars
<1>3. WaitInv'
  BY <1>1 DEF IInv, WaitInv, Waits, Top, poolVars
<1>4. CancelInv'
  BY <1>1 DEF IInv, CancelInv, WillCancel, At, Top, registryVars, poolVars
<1>. QED
  BY <1>2, <1>3, <1>4 DEF IInv

\* Every step, of any thread, keeps the invariant.
LEMMA NextInvariant == IInv /\ [Next]_vars => IInv'
<1>. SUFFICES ASSUME IInv, [Next]_vars PROVE IInv'
  OBVIOUS
<1>1. ASSUME NEW t \in Threads, Begin(t)
      PROVE  IInv'
  <2>1. (CHOOSE ty \in Types : TRUE) \in Types
    OBVIOUS
  <2>2. PICK op \in Ops, s \in Services, ty \in Types : Call(t, op, s, ty)
    BY <1>1, <2>1 DEF Begin, Ops
  <2>. QED
    BY <2>2, CallStep
<1>2. ASSUME NEW t \in Threads, Continue(t)
      PROVE  IInv'
  BY <1>2, ReturnStep, ReplaceStep, RegisterStep, NotifyStep, ClearStep, SubscribeStep,
     UnregisterStep, CancelLockStep, CancelJobsForStep, ScheduleJobStep DEF Continue
<1>3. ASSUME NEW t \in Threads, WatcherThrows(t)
      PROVE  IInv'
  BY <1>3, ThrowStep
<1>4. ASSUME NEW w \in Workers, Run(w)
      PROVE  IInv'
  BY <1>4, TakeStep, ExecuteStep, ExecutedStep DEF Run
<1>5. AtRest => UNCHANGED vars
  BY DEF AtRest
<1>. QED
  BY <1>1, <1>2, <1>3, <1>4, <1>5, StutterStep DEF Next

\* The invariant behind what holds whatever the application does.
THEOREM SchedulerInvariant == Spec => []IInv
BY InitInvariant, NextInvariant, PTL DEF Spec

\* Every variable keeps its type.
THEOREM SchedulerTypeCorrect == Spec => []TypeOK
<1>1. IInv => TypeOK
  BY DEF IInv
<1>. QED
  BY <1>1, SchedulerInvariant, PTL

\* mappingLock_ is exclusive: of the threads that are in a section of it, back in one
\* after a watcher returned, or cancelling, there is never more than one.
THEOREM MappingLockIsExclusive == Spec => []MutexInv
<1>1. IInv => MutexInv
  BY DEF IInv
<1>. QED
  BY <1>1, SchedulerInvariant, PTL

\* interfaceCall copies the callback under mappingLock_ and schedules it later, while
\* others unregister the service and register it with other types: still no action
\* gets arguments of another type.
THEOREM ArgumentsFitTheirAction == Spec => []ArgumentsFit
<1>1. IInv => ArgumentsFit
  <2>. SUFFICES ASSUME IInv PROVE ArgumentsFit
    OBVIOUS
  <2>1. ASSUME NEW t \in Threads, At(t, {"action"}, "code")
        PROVE  regs[Top(t).reg] = Top(t).type
    BY <2>1, TopFrame DEF At, FrameOK
  <2>. QED
    BY <2>1 DEF ArgumentsFit, IInv, JobInv
<1>. QED
  BY <1>1, SchedulerInvariant, PTL

\* unRegiterInterface visits one worker after the other while others schedule: when it
\* has returned, the jobs of the registration that are queued were late.
THEOREM UnregistrationCancelsJobs == Spec => []UnregisterCancels
<1>1. IInv => UnregisterCancels
  <2>. SUFFICES ASSUME IInv, \A t \in Threads : ~Holds(t),
                       NEW w \in Workers, NEW k \in DOMAIN queue[w]
                PROVE  queue[w][k].late \/ queue[w][k].reg = registered[queue[w][k].name]
    BY DEF UnregisterCancels
  <2>1. ~WillCancel(w)
    <3>. SUFFICES ASSUME NEW t \in Threads, stack[t] # <<>>, Top(t).step \in {"cancel", "visit"}
                  PROVE  FALSE
      BY DEF WillCancel, At
    <3>. QED
      BY TopOfStack DEF Holds, IInv
  <2>. QED
    BY <2>1 DEF IInv, CancelInv
<1>. QED
  BY <1>1, SchedulerInvariant, PTL

-----------------------------------------------------------------------------
(* KeptInv, while no watcher unregisters a service.                        *)

\* The stack of t after Return, Replace and CallBack, frame by frame.
LEMMA ReturnStack ==
  ASSUME TypeOK, NEW t \in Threads, stack[t] # <<>>, Return(t)
  PROVE  /\ \A u \in Threads \ {t} : stack'[u] = stack[u]
         /\ DOMAIN stack'[t] = 1..Len(stack[t]) - 1
         /\ \A k \in 1..Len(stack[t]) - 1 : stack'[t][k] = stack[t][k]
<1>1. stack[t] \in Seq(Frame) /\ stack'[t] = Front(stack[t]) /\ \A u \in Threads \ {t} : stack'[u] = stack[u]
  BY DEF Return, TypeOK
<1>. QED
  BY <1>1, Popping

\* The stacks after Replace.
LEMMA ReplaceStack ==
  ASSUME TypeOK, NEW t \in Threads, stack[t] # <<>>, NEW f \in Frame, Replace(t, f)
  PROVE  /\ \A u \in Threads \ {t} : stack'[u] = stack[u]
         /\ DOMAIN stack'[t] = 1..Len(stack[t])
         /\ \A k \in 1..Len(stack[t]) - 1 : stack'[t][k] = stack[t][k]
         /\ stack'[t][Len(stack[t])] = f
<1>1. /\ stack[t] \in Seq(Frame) /\ stack'[t] = TopReplaced(stack[t], f)
      /\ \A u \in Threads \ {t} : stack'[u] = stack[u]
  BY DEF Replace, TopReplaced, TypeOK
<1>. QED
  BY <1>1, Replacing

\* The stacks after CallBack.
LEMMA CallBackStack ==
  ASSUME TypeOK, NEW t \in Threads, stack[t] # <<>>, NEW f \in Frame, CallBack(t, f)
  PROVE  /\ \A u \in Threads \ {t} : stack'[u] = stack[u]
         /\ DOMAIN stack'[t] = 1..Len(stack[t]) + 1
         /\ \A k \in 1..Len(stack[t]) - 1 : stack'[t][k] = stack[t][k]
         /\ stack'[t][Len(stack[t])] = f
         /\ stack'[t][Len(stack[t]) + 1].op = "watcher"
         /\ stack'[t][Len(stack[t]) + 1].step = "code"
<1> DEFINE g == [f EXCEPT !.op = "watcher", !.step = "code"]
<1>1. g \in Frame /\ g.op = "watcher" /\ g.step = "code"
  BY DEF Frame
<1>2. /\ stack[t] \in Seq(Frame) /\ stack'[t] = CalledBackOn(stack[t], f, g)
      /\ \A u \in Threads \ {t} : stack'[u] = stack[u]
  BY DEF CallBack, CalledBackOn, TypeOK
<1> HIDE DEF g
<1>. QED
  BY <1>1, <1>2, CallingBack

\* The steps that pop frames, on each stack.
Popped(r, s) == DOMAIN r \subseteq DOMAIN s /\ \A k \in DOMAIN r : r[k] = s[k]

\* Taking frames away breaks nothing.
LEMMA PoppedKept ==
  ASSUME NEW s, NEW r, NEW reg, KeptStack(s, reg), Popped(r, s)
  PROVE  KeptStack(r, reg)
BY DEF KeptStack, AboveOK, LoopsDiffer, Popped

\* The frame on top is replaced by one of the same call, or a synchronous call by its
\* action; a loop that starts is the only one of its service.
LEMMA ReplacedKept ==
  ASSUME NEW s, NEW r, NEW f, NEW n \in Nat \ {0}, NEW reg, KeptStack(s, reg),
         DOMAIN s = 1..n, DOMAIN r = 1..n, \A k \in 1..n - 1 : r[k] = s[k], r[n] = f,
         f.op = s[n].op \/ (s[n].op = "syncCall" /\ f.op = "action"),
         f.step \in Calling => reg[f.name] # 0,
         f.step = "notify" => \A j \in 1..n - 1 : s[j].step = "notify" => s[j].name # f.name
  PROVE  KeptStack(r, reg)
<1>1. \A k \in 1..n : k \in 1..n - 1 \/ k = n
  OBVIOUS
<1>2. AboveOK(r)
  <2>. SUFFICES ASSUME NEW j \in 1..n, NEW k \in 1..n, j < k, r[j].step \in Calling
                PROVE  /\ r[k].op \in WatcherCalls \cup {"watcher", "action"}
                       /\ r[k].op = "action" => "syncCall" \in May["watcher"]
    BY DEF AboveOK
  <2>1. r[j] = s[j]
    BY <1>1
  <2>2. /\ s[k].op \in WatcherCalls \cup {"watcher", "action"}
        /\ s[k].op = "action" => "syncCall" \in May["watcher"]
    BY <2>1 DEF KeptStack, AboveOK
  <2>3. CASE k = n /\ s[n].op = "syncCall" /\ f.op = "action"
    <3>1. "syncCall" \in WatcherCalls
      BY <2>2, <2>3
    <3>2. "syncCall" \in May["watcher"]
      BY <3>1 DEF WatcherCalls
    <3>. QED
      BY <2>3, <3>2
  <2>. QED
    BY <1>1, <2>2, <2>3
<1>3. LoopsDiffer(r)
  <2>. SUFFICES ASSUME NEW j \in 1..n, NEW k \in 1..n, j < k, r[j].step = "notify", r[k].step = "notify"
                PROVE  r[j].name # r[k].name
    BY DEF LoopsDiffer
  <2>1. j \in 1..n - 1 /\ r[j] = s[j]
    BY <1>1
  <2>. QED
    BY <1>1, <2>1 DEF KeptStack, LoopsDiffer
<1>4. \A k \in DOMAIN r : r[k].step \in Calling => reg[r[k].name] # 0
  BY <1>1 DEF KeptStack
<1>. QED
  BY <1>2, <1>3, <1>4 DEF KeptStack

\* A frame is pushed that is not in a section, and may run where it is.
LEMMA PushedKept ==
  ASSUME NEW s, NEW r, NEW n \in Nat, NEW reg, KeptStack(s, reg),
         DOMAIN s = 1..n, DOMAIN r = 1..n + 1, \A k \in 1..n : r[k] = s[k],
         r[n + 1].step \notin Calling,
         \A j \in 1..n : s[j].step \in Calling =>
           r[n + 1].op \in WatcherCalls \cup {"watcher"}  /\ r[n + 1].op # "action"
  PROVE  KeptStack(r, reg)
<1>1. \A k \in 1..n + 1 : k \in 1..n \/ k = n + 1
  OBVIOUS
<1>2. AboveOK(r)
  <2>. SUFFICES ASSUME NEW j \in 1..n + 1, NEW k \in 1..n + 1, j < k, r[j].step \in Calling
                PROVE  /\ r[k].op \in WatcherCalls \cup {"watcher", "action"}
                       /\ r[k].op = "action" => "syncCall" \in May["watcher"]
    BY DEF AboveOK
  <2>1. j \in 1..n /\ r[j] = s[j]
    BY <1>1
  <2>2. CASE k \in 1..n
    BY <2>1, <2>2 DEF KeptStack, AboveOK
  <2>3. CASE k = n + 1
    BY <2>1, <2>3
  <2>. QED
    BY <1>1, <2>2, <2>3
<1>3. LoopsDiffer(r)
  BY <1>1 DEF LoopsDiffer, KeptStack, Calling
<1>4. \A k \in DOMAIN r : r[k].step \in Calling => reg[r[k].name] # 0
  BY <1>1 DEF KeptStack
<1>. QED
  BY <1>2, <1>3, <1>4 DEF KeptStack

\* A step of one thread that unregisters nothing keeps the invariant if its own stack does.
LEMMA KeptMove ==
  ASSUME TypeOK, KeptInv, NEW t \in Threads, \A u \in Threads \ {t} : stack'[u] = stack[u],
         KeptStack(stack'[t], registered'), ~broken',
         \A s \in Services : registered[s] # 0 => registered'[s] # 0
  PROVE  KeptInv'
<1>1. ASSUME NEW u \in Threads \ {t}
      PROVE  KeptStack(stack[u], registered')
  <2>1. \A k \in DOMAIN stack[u] : stack[u][k].name \in Services
    <3>1. \A k \in DOMAIN stack[u] : stack[u][k] \in Frame
      BY DEF TypeOK
    <3>. QED
      BY <3>1 DEF Frame
  <2>. QED
    BY <2>1 DEF KeptInv, KeptStack
<1>. QED
  BY <1>1 DEF KeptInv

\* Call begins an operation that the code below it may call.
LEMMA CallKept ==
  ASSUME IInv, KeptInv, NEW t \in Threads, NEW op \in Ops, NEW s \in Services, NEW ty \in Types,
         Call(t, op, s, ty)
  PROVE  KeptInv'
<1> DEFINE f == NewFrame(op, s, ty)
           z == stack[t]
           n == Len(z)
<1>1. /\ f \in Frame /\ f.step = "lock" /\ f.op = op /\ op # "watcher" /\ op # "action"
  BY DEF NewFrame, Frame, Ops, Invocations
<1>2. z \in Seq(Frame) /\ stack'[t] = Append(z, f) /\ \A u \in Threads \ {t} : stack'[u] = stack[u]
  BY DEF Call, IInv, TypeOK
<1>3. registered' = registered /\ ~broken'
  BY DEF Call, registryVars, KeptInv
<1>4. KeptStack(z, registered)
  BY DEF KeptInv
<1>5. PICK code \in DOMAIN May : Runs(t, code) /\ op \in May[code]
  BY DEF Call
<1>6. \A j \in DOMAIN z : z[j].step \in Calling => op \in WatcherCalls
  <2>. SUFFICES ASSUME NEW j \in DOMAIN z, z[j].step \in Calling PROVE op \in WatcherCalls
    OBVIOUS
  <2>1. z # <<>>
    OBVIOUS
  <2>2. n \in DOMAIN z /\ j \in 1..n /\ n \in Nat /\ Top(t) = z[n]
    BY <2>1, <1>2, TopOfStack DEF IInv
  <2>3. \/ code = "service" /\ Top(t).op = "action" /\ Top(t).step = "code"
        \/ code = "watcher" /\ Top(t).op = "watcher" /\ Top(t).step = "code"
    BY <1>5, <2>1 DEF Runs, At
  <2>4. j < n
    BY <2>2, <2>3 DEF Calling
  <2>5. Top(t).op = "action" => "syncCall" \in May["watcher"]
    BY <1>4, <2>2, <2>4 DEF KeptStack, AboveOK
  <2>. QED
    BY <1>5, <2>3, <2>5 DEF WatcherCalls
<1> HIDE DEF f, z
<1>7. /\ n \in Nat /\ DOMAIN z = 1..n /\ DOMAIN stack'[t] = 1..n + 1
      /\ \A k \in 1..n : stack'[t][k] = z[k]
      /\ stack'[t][n + 1] = f
  BY <1>1, <1>2, Pushing
<1> HIDE DEF n
<1>8. KeptStack(stack'[t], registered)
  <2>1. stack'[t][n + 1].step \notin Calling /\ stack'[t][n + 1].op # "action"
    BY <1>1, <1>7 DEF Calling
  <2>2. \A j \in 1..n : z[j].step \in Calling => stack'[t][n + 1].op \in WatcherCalls \cup {"watcher"}
    BY <1>1, <1>6, <1>7
  <2>. QED
    BY <1>4, <1>7, <2>1, <2>2, PushedKept
<1>. QED
  BY <1>2, <1>3, <1>8, KeptMove DEF IInv

\* The steps that pop frames, or wake a waiter up, and change nothing of the registry
\* but what waits.
LEMMA PopKept ==
  ASSUME IInv, KeptInv, NEW t \in Threads,
         \/ CodeReturns(t) \/ DuplicatedRegistration(t) \/ CalledBack(t)
         \/ IsServiceRegistered(t) \/ CallRefused(t) \/ WatcherThrows(t)
         \/ ClearWatchers(t) \/ SubscribeLater(t)
  PROVE  KeptInv'
<1>1. registered' = registered /\ stack[t] # <<>>
  BY DEF CodeReturns, DuplicatedRegistration, CalledBack, IsServiceRegistered, CallRefused,
         WatcherThrows, ClearWatchers, SubscribeLater, At, registryVars
<1>2. /\ stack[t] \in Seq(Frame) /\ Len(stack[t]) \in Nat \ {0}
      /\ DOMAIN stack[t] = 1..Len(stack[t]) /\ Top(t) = stack[t][Len(stack[t])]
  BY <1>1, TopOfStack DEF IInv
<1>3. Popped(stack'[t], stack[t]) /\ \A u \in Threads \ {t} : stack'[u] = stack[u]
  <2>1. CASE WatcherThrows(t)
    <3>1. /\ At(t, {"watcher"}, "code") /\ regs' = regs
          /\ stack' = [stack EXCEPT ![t] = Front(Front(@))]
      BY <2>1 DEF WatcherThrows, registryVars
    <3>2. /\ Moves(t) /\ DOMAIN stack'[t] = 1..Len(stack[t]) - 2
          /\ \A k \in 1..Len(stack[t]) - 2 : stack'[t][k] = stack[t][k]
      BY <3>1, ThrowMoves DEF IInv
    <3>3. 1..Len(stack[t]) - 2 \subseteq DOMAIN stack[t]
      BY <1>2
    <3>. QED
      BY <3>2, <3>3 DEF Popped, Moves
  <2>2. CASE ~WatcherThrows(t)
    <3>1. Return(t)
      BY <2>2 DEF CodeReturns, DuplicatedRegistration, CalledBack, IsServiceRegistered, CallRefused,
         ClearWatchers, SubscribeLater
    <3>. QED
      BY <1>1, <1>2, <3>1, ReturnStack DEF IInv, Popped
  <2>. QED
    BY <2>1, <2>2
<1>4. KeptStack(stack'[t], registered)
  BY <1>3, PoppedKept DEF KeptInv
<1>5. ~broken'
  <2>1. CASE ClearWatchers(t)
    <3>1. /\ broken' = (waiting[Top(t).name] # <<>> /\ Iterating(Top(t).name))
          /\ Top(t).step = "notify"
      BY <2>1 DEF ClearWatchers, At
    <3>2. ASSUME NEW u \in Threads, NEW k \in DOMAIN stack[u], stack[u][k].step = "notify",
                 stack[u][k].name = Top(t).name, k < Len(stack[u])
          PROVE  FALSE
      <4>1. Holds(u) /\ Holds(t)
        BY <1>2, <3>1, <3>2 DEF Holds
      <4>2. u = t
        BY <4>1 DEF IInv, MutexInv
      <4>. QED
        BY <1>2, <3>1, <3>2, <4>2 DEF KeptInv, KeptStack, LoopsDiffer
    <3>3. ~Iterating(Top(t).name)
      BY <3>2 DEF Iterating
    <3>. QED
      BY <3>1, <3>3
  <2>2. CASE SubscribeLater(t)
    <3>1. registered[Top(t).name] = 0 /\ broken' = Iterating(Top(t).name)
      BY <2>2 DEF SubscribeLater
    <3>2. ~Iterating(Top(t).name)
      BY <3>1 DEF KeptInv, KeptStack, Calling, Iterating
    <3>. QED
      BY <3>1, <3>2
  <2>3. CASE ~ClearWatchers(t) /\ ~SubscribeLater(t)
    BY <2>3 DEF CodeReturns, DuplicatedRegistration, CalledBack, IsServiceRegistered, CallRefused,
       WatcherThrows, registryVars, KeptInv
  <2>. QED
    BY <2>1, <2>2, <2>3
<1>. QED
  BY <1>1, <1>3, <1>4, <1>5, KeptMove DEF IInv

\* The steps of a call up to its job, and of cancelJobsFor to the next worker.
LEMMA ReplaceKept ==
  ASSUME IInv, KeptInv, NEW t \in Threads,
         \/ FetchStoredCallback(t) \/ GetWorker(t) \/ DoJob(t)
         \/ CancelLock(t) \/ CancelJobsFor(t) \/ ScheduleJob(t)
  PROVE  KeptInv'
<1>1. /\ stack[t] # <<>> /\ Top(t).step \notin Calling /\ registered' = registered /\ broken' = broken
  BY DEF FetchStoredCallback, GetWorker, DoJob, CancelLock, CancelJobsFor, LocksQueue, ScheduleJob,
         At, registryVars, Calling
<1>2. /\ stack[t] \in Seq(Frame) /\ Len(stack[t]) \in Nat \ {0}
      /\ DOMAIN stack[t] = 1..Len(stack[t]) /\ Top(t) = stack[t][Len(stack[t])]
  BY <1>1, TopOfStack DEF IInv
<1>3. /\ Top(t) \in Frame /\ \A w \in Workers : w \in Nat /\ w + 1 \in Nat
  BY <1>1, TopFrame DEF Workers
<1>4. \/ Return(t)
      \/ \E f \in Frame : /\ Replace(t, f) /\ f.step \notin Calling
                          /\ f.op = Top(t).op \/ (Top(t).op = "syncCall" /\ f.op = "action")
  <2> DEFINE P(f) == /\ f \in Frame /\ f.step \notin Calling
                     /\ f.op = Top(t).op \/ (Top(t).op = "syncCall" /\ f.op = "action")
  <2>1. CASE FetchStoredCallback(t)
    <3>1. registered[Top(t).name] \in Nat
      <4>1. Top(t).name \in Services /\ Len(regs) \in Nat
        BY <1>1, TopFrame DEF IInv, TypeOK
      <4>. QED
        BY <4>1 DEF IInv, TypeOK
    <3>2. P([Top(t) EXCEPT !.step = "invoke", !.reg = registered[Top(t).name]])
      BY <1>3, <3>1 DEF Frame, Calling
    <3>. QED
      BY <2>1, <3>2 DEF FetchStoredCallback
  <2>2. CASE GetWorker(t)
    <3>1. PICK w \in Workers : Replace(t, [Top(t) EXCEPT !.step = "push", !.pos = w])
      BY <2>2 DEF GetWorker
    <3>2. P([Top(t) EXCEPT !.step = "push", !.pos = w])
      BY <1>3 DEF Frame, Calling
    <3>. QED
      BY <3>1, <3>2
  <2>3. CASE DoJob(t)
    <3>1. P([Top(t) EXCEPT !.op = "action", !.step = "code"])
      BY <1>3, <2>3 DEF Frame, Calling, DoJob, At
    <3>. QED
      BY <2>3, <3>1 DEF DoJob
  <2>4. CASE CancelLock(t)
    <3>1. P([Top(t) EXCEPT !.step = "visit"])
      BY <1>3 DEF Frame, Calling
    <3>. QED
      BY <2>4, <3>1 DEF CancelLock
  <2>5. CASE CancelJobsFor(t)
    <3>1. PICK w \in Workers :
            IF w < PoolSize THEN Replace(t, [Top(t) EXCEPT !.step = "cancel", !.pos = w + 1]) ELSE Return(t)
      BY <2>5 DEF CancelJobsFor
    <3>2. P([Top(t) EXCEPT !.step = "cancel", !.pos = w + 1])
      BY <1>3 DEF Frame, Calling
    <3>. QED
      BY <3>1, <3>2
  <2>6. CASE ScheduleJob(t)
    <3>1. P([Top(t) EXCEPT !.step = "wait"])
      BY <1>3 DEF Frame, Calling
    <3>. QED
      BY <2>6, <3>1 DEF ScheduleJob
  <2>. QED
    BY <2>1, <2>2, <2>3, <2>4, <2>5, <2>6
<1>5. KeptStack(stack[t], registered)
  BY DEF KeptInv
<1>6. KeptStack(stack'[t], registered) /\ \A u \in Threads \ {t} : stack'[u] = stack[u]
  <2>1. CASE Return(t)
    <3>1. Popped(stack'[t], stack[t]) /\ \A u \in Threads \ {t} : stack'[u] = stack[u]
      BY <1>1, <1>2, <2>1, ReturnStack DEF IInv, Popped
    <3>. QED
      BY <1>5, <3>1, PoppedKept
  <2>2. CASE ~Return(t)
    <3>1. PICK f \in Frame : /\ Replace(t, f) /\ f.step \notin Calling /\ f.step # "notify"
                             /\ f.op = Top(t).op \/ (Top(t).op = "syncCall" /\ f.op = "action")
      BY <1>4, <2>2 DEF Calling
    <3>2. /\ DOMAIN stack'[t] = 1..Len(stack[t])
          /\ \A k \in 1..Len(stack[t]) - 1 : stack'[t][k] = stack[t][k]
          /\ stack'[t][Len(stack[t])] = f
          /\ \A u \in Threads \ {t} : stack'[u] = stack[u]
      BY <1>1, <3>1, ReplaceStack DEF IInv
    <3>. QED
      BY <1>2, <1>5, <3>1, <3>2, ReplacedKept
  <2>. QED
    BY <2>1, <2>2
<1>. QED
  BY <1>1, <1>6, KeptMove DEF IInv, KeptInv

\* A loop starts for a service that had none.
LEMMA RegisterKept ==
  ASSUME IInv, KeptInv, NEW t \in Threads, RegisterInterface(t)
  PROVE  KeptInv'
<1> DEFINE s == Top(t).name
           f == [Top(t) EXCEPT !.step = "notify", !.pos = 1, !.len = Len(waiting[s])]
           n == Len(stack[t])
<1>1. /\ stack[t] # <<>> /\ Top(t).step = "lock" /\ Top(t).op = "register"
      /\ registered[s] = 0 /\ regs' = Append(regs, Top(t).type)
      /\ registered' = [registered EXCEPT ![s] = Len(regs')] /\ Replace(t, f) /\ ~broken'
  BY DEF RegisterInterface, At, StartNotifying, KeptInv
<1>2. /\ stack[t] \in Seq(Frame) /\ n \in Nat \ {0} /\ DOMAIN stack[t] = 1..n /\ Top(t) = stack[t][n]
  BY <1>1, TopOfStack DEF IInv
<1>3. Top(t) \in Frame /\ s \in Services /\ Top(t).type \in Types
  BY <1>1, TopFrame
<1>4. Len(waiting[s]) \in Nat /\ registered \in [Services -> 0..Len(regs)] /\ Len(regs) \in Nat
  BY <1>3 DEF IInv, TypeOK
<1>5. Len(regs') = Len(regs) + 1
  BY <1>1, <1>3 DEF IInv, TypeOK
<1>6. registered'[s] # 0 /\ \A r \in Services : registered[r] # 0 => registered'[r] # 0
  BY <1>1, <1>3, <1>4, <1>5
<1> HIDE DEF s
<1>7. f \in Frame /\ f.step = "notify" /\ f.op = "register" /\ f.name = s
  BY <1>1, <1>3, <1>4 DEF Frame, s
<1> HIDE DEF f
<1>8. /\ DOMAIN stack'[t] = 1..n /\ stack'[t][n] = f
      /\ \A k \in 1..n - 1 : stack'[t][k] = stack[t][k]
      /\ \A u \in Threads \ {t} : stack'[u] = stack[u]
  BY <1>1, <1>7, ReplaceStack DEF IInv
<1>9. KeptStack(stack[t], registered)
  BY DEF KeptInv
<1>10. KeptStack(stack[t], registered')
  <2>1. \A k \in DOMAIN stack[t] : stack[t][k].name \in Services
    <3>1. \A k \in DOMAIN stack[t] : stack[t][k] \in Frame
      BY <1>2
    <3>. QED
      BY <3>1 DEF Frame
  <2>. QED
    BY <1>6, <1>9, <2>1 DEF KeptStack
<1>11. \A j \in 1..n - 1 : stack[t][j].step = "notify" => stack[t][j].name # s
  BY <1>1, <1>2, <1>9 DEF KeptStack, Calling
<1> HIDE DEF n
<1>12. KeptStack(stack'[t], registered')
  <2>1. /\ f.op = stack[t][n].op /\ registered'[f.name] # 0
        /\ \A j \in 1..n - 1 : stack[t][j].step = "notify" => stack[t][j].name # f.name
    BY <1>1, <1>2, <1>6, <1>7, <1>11
  <2> DEFINE reg == registered'
  <2>2. KeptStack(stack[t], reg) /\ reg[f.name] # 0
    BY <1>10, <2>1
  <2> HIDE DEF reg
  <2>3. KeptStack(stack'[t], reg)
    BY <1>2, <1>8, <2>1, <2>2, ReplacedKept
  <2>. QED
    BY <2>3 DEF reg
<1>. QED
  BY <1>1, <1>6, <1>8, <1>12, KeptMove DEF IInv

\* A watcher is called back while its service is registered.
LEMMA CallBackKept ==
  ASSUME IInv, KeptInv, NEW t \in Threads, NotifyWatcher(t) \/ SubscribeRegistered(t)
  PROVE  KeptInv'
<1> DEFINE n == Len(stack[t])
<1>1. stack[t] # <<>> /\ registered' = registered /\ ~broken'
  BY DEF NotifyWatcher, SubscribeRegistered, At, KeptInv
<1>2. /\ stack[t] \in Seq(Frame) /\ n \in Nat \ {0} /\ DOMAIN stack[t] = 1..n /\ Top(t) = stack[t][n]
  BY <1>1, TopOfStack DEF IInv
<1>3. Top(t) \in Frame /\ Top(t).pos \in Nat /\ Top(t).name \in Services
  BY <1>1, TopFrame
<1>4. KeptStack(stack[t], registered)
  BY DEF KeptInv
<1>5. PICK f \in Frame : /\ CallBack(t, f) /\ f.op = Top(t).op /\ f.name = Top(t).name
                         /\ registered[f.name] # 0
                         /\ f.step = Top(t).step \/ f.step = "callback"
  <2>1. CASE NotifyWatcher(t)
    <3> DEFINE f == [Top(t) EXCEPT !.pos = Top(t).pos + 1]
    <3>1. CallBack(t, f) /\ Top(t).step = "notify"
      BY <2>1 DEF NotifyWatcher, At
    <3>2. f \in Frame /\ f.op = Top(t).op /\ f.name = Top(t).name /\ f.step = Top(t).step
      BY <1>3 DEF Frame
    <3> HIDE DEF f
    <3>. QED
      BY <1>2, <1>4, <3>1, <3>2 DEF KeptStack, Calling
  <2>2. CASE SubscribeRegistered(t)
    <3> DEFINE f == [Top(t) EXCEPT !.step = "callback"]
    <3>1. CallBack(t, f) /\ registered[Top(t).name] # 0
      BY <2>2 DEF SubscribeRegistered
    <3>2. f \in Frame /\ f.op = Top(t).op /\ f.name = Top(t).name /\ f.step = "callback"
      BY <1>3 DEF Frame
    <3> HIDE DEF f
    <3>. QED
      BY <3>1, <3>2
  <2>. QED
    BY <2>1, <2>2
<1>6. /\ DOMAIN stack'[t] = 1..n + 1 /\ stack'[t][n] = f
      /\ \A k \in 1..n - 1 : stack'[t][k] = stack[t][k]
      /\ stack'[t][n + 1].op = "watcher" /\ stack'[t][n + 1].step = "code"
      /\ \A u \in Threads \ {t} : stack'[u] = stack[u]
  BY <1>1, <1>5, CallBackStack DEF IInv
<1> HIDE DEF n
<1> DEFINE r == [k \in 1..n |-> stack'[t][k]]
<1>7. DOMAIN r = 1..n /\ r[n] = f /\ \A k \in 1..n - 1 : r[k] = stack[t][k]
  BY <1>2, <1>6
<1>8. \A k \in 1..n : stack'[t][k] = r[k]
  OBVIOUS
<1>9. f.step = "notify" => \A j \in 1..n - 1 : stack[t][j].step = "notify" => stack[t][j].name # f.name
  BY <1>2, <1>4, <1>5 DEF KeptStack, LoopsDiffer
<1> HIDE DEF r
<1>10. KeptStack(r, registered)
  BY <1>2, <1>4, <1>5, <1>7, <1>9, ReplacedKept
<1>11. KeptStack(stack'[t], registered)
  BY <1>2, <1>6, <1>7, <1>8, <1>10, PushedKept DEF Calling
<1>. QED
  BY <1>1, <1>6, <1>11, KeptMove DEF IInv

\* A service is unregistered only when no watcher is being called back.
LEMMA UnregisterKept ==
  ASSUME WatchersKeepServices, IInv, KeptInv, NEW t \in Threads, UnRegiterInterface(t)
  PROVE  /\ KeptInv'
         /\ \A u \in Threads : \A k \in DOMAIN stack[u] : stack[u][k].step \notin Calling
<1> DEFINE s == Top(t).name
           f == [Top(t) EXCEPT !.step = "cancel", !.pos = 1]
           n == Len(stack[t])
<1>1. /\ stack[t] # <<>> /\ Top(t).step = "lock" /\ Top(t).op = "unregister" /\ MayLock(t)
      /\ Replace(t, f) \/ Return(t)
      /\ ~broken'
  BY DEF UnRegiterInterface, At, KeptInv
<1>2. /\ stack[t] \in Seq(Frame) /\ n \in Nat \ {0} /\ DOMAIN stack[t] = 1..n /\ Top(t) = stack[t][n]
  BY <1>1, TopOfStack DEF IInv
<1>3. Top(t) \in Frame
  BY <1>1, TopFrame
<1>4. f \in Frame /\ f.step = "cancel"
  BY <1>3 DEF Frame
<1>5. ASSUME NEW k \in DOMAIN stack[t], stack[t][k].step \in Calling
      PROVE  FALSE
  <2>1. k < n
    BY <1>1, <1>2, <1>5 DEF Calling
  <2>2. Top(t).op \in WatcherCalls \cup {"watcher", "action"}
    BY <1>2, <1>5, <2>1 DEF KeptInv, KeptStack, AboveOK
  <2>. QED
    BY <1>1, <2>2 DEF WatchersKeepServices
<1>6. ASSUME NEW u \in Threads \ {t}, NEW k \in DOMAIN stack[u], stack[u][k].step \in Calling
      PROVE  FALSE
  BY <1>1, <1>6 DEF MayLock, Holds, Calling
<1>7. \A u \in Threads : \A k \in DOMAIN stack[u] : stack[u][k].step \notin Calling
  BY <1>5, <1>6
<1> HIDE DEF f
<1>8. /\ \A u \in Threads \ {t} : stack'[u] = stack[u]
      /\ \A k \in DOMAIN stack'[t] : stack'[t][k].step \notin Calling
  <2>1. CASE Return(t)
    BY <1>1, <1>2, <1>7, <2>1, ReturnStack DEF IInv
  <2>2. CASE Replace(t, f)
    <3>1. /\ DOMAIN stack'[t] = 1..n /\ stack'[t][n] = f
          /\ \A k \in 1..n - 1 : stack'[t][k] = stack[t][k]
          /\ \A u \in Threads \ {t} : stack'[u] = stack[u]
      BY <1>1, <1>4, <2>2, ReplaceStack DEF IInv
    <3>. QED
      BY <1>2, <1>4, <1>7, <3>1 DEF Calling
  <2>. QED
    BY <1>1, <2>1, <2>2
<1>9. \A u \in Threads : \A k \in DOMAIN stack'[u] : stack'[u][k].step \notin Calling
  BY <1>7, <1>8
<1>10. KeptInv'
  BY <1>1, <1>9 DEF KeptInv, KeptStack, AboveOK, LoopsDiffer, Calling
<1>. QED
  BY <1>7, <1>10

\* The steps of the worker's thread.
LEMMA RunKept ==
  ASSUME IInv, KeptInv, NEW w \in Workers, Run(w)
  PROVE  /\ KeptInv'
         /\ \A u \in Threads : Popped(stack'[u], stack[u])
         /\ \A u \in Threads : \A k \in DOMAIN stack[u] :
              stack[u][k].step = "notify" => k \in DOMAIN stack'[u]
<1>1. UNCHANGED registryVars
  BY DEF Run, Take, Execute, Executed
<1>2. ASSUME NEW u \in Threads
      PROVE  /\ Popped(stack'[u], stack[u])
             /\ \A k \in DOMAIN stack[u] : stack[u][k].step = "notify" => k \in DOMAIN stack'[u]
  <2>1. CASE stack' = stack
    BY <2>1 DEF Popped
  <2>2. CASE Executed(w) /\ u = taken[w].waiter
    <3>1. stack[u] # <<>> /\ Top(u).step = "wait"
      BY <2>2 DEF Executed, WaitInv, Waits, IInv
    <3>2. Return(u)
      BY <2>2 DEF Executed, Return, IInv, TypeOK
    <3>3. /\ Len(stack[u]) \in Nat \ {0}
          /\ DOMAIN stack[u] = 1..Len(stack[u]) /\ Top(u) = stack[u][Len(stack[u])]
      BY <3>1, TopOfStack DEF IInv
    <3>4. /\ DOMAIN stack'[u] = 1..Len(stack[u]) - 1
          /\ \A k \in 1..Len(stack[u]) - 1 : stack'[u][k] = stack[u][k]
      BY <3>1, <3>2, ReturnStack DEF IInv
    <3>. QED
      BY <3>1, <3>3, <3>4 DEF Popped
  <2>3. CASE Executed(w) /\ u # taken[w].waiter
    <3>1. stack'[u] = stack[u]
      BY <2>3 DEF Executed
    <3>. QED
      BY <3>1 DEF Popped
  <2>. QED
    BY <2>1, <2>2, <2>3 DEF Run, Take, Execute
<1>3. KeptInv'
  BY <1>1, <1>2, PoppedKept DEF KeptInv, registryVars
<1>. QED
  BY <1>2, <1>3

\* Every step keeps the services of watchers registered.
LEMMA NextKept == WatchersKeepServices /\ IInv /\ KeptInv /\ [Next]_vars => KeptInv'
<1>. SUFFICES ASSUME WatchersKeepServices, IInv, KeptInv, [Next]_vars PROVE KeptInv'
  OBVIOUS
<1>1. ASSUME NEW t \in Threads, Begin(t)
      PROVE  KeptInv'
  <2>1. (CHOOSE ty \in Types : TRUE) \in Types
    OBVIOUS
  <2>2. PICK op \in Ops, s \in Services, ty \in Types : Call(t, op, s, ty)
    BY <1>1, <2>1 DEF Begin, Ops
  <2>. QED
    BY <2>2, CallKept
<1>2. ASSUME NEW t \in Threads, Continue(t) \/ WatcherThrows(t)
      PROVE  KeptInv'
  BY <1>2, PopKept, ReplaceKept, RegisterKept, CallBackKept, UnregisterKept DEF Continue
<1>3. ASSUME NEW w \in Workers, Run(w)
      PROVE  KeptInv'
  BY <1>3, RunKept
<1>4. CASE UNCHANGED vars
  BY <1>4 DEF vars, registryVars, KeptInv
<1>5. AtRest => UNCHANGED vars
  BY DEF AtRest
<1>. QED
  BY <1>1, <1>2, <1>3, <1>4, <1>5 DEF Next

\* At first no watcher is called back.
LEMMA InitKept == Init => KeptInv
BY DEF Init, KeptInv, KeptStack, AboveOK, LoopsDiffer

\* If no watcher unregisters a service, itself or in an action that it calls: the
\* services of the watchers that are being called back stay registered.
THEOREM WatchedServicesStay == ASSUME WatchersKeepServices PROVE Spec => []KeptInv
BY InitInvariant, NextInvariant, InitKept, NextKept, PTL DEF Spec

\* Other threads unregister services and other watchers register and subscribe: as long
\* as none unregisters, a watcher runs only while its service is registered.
THEOREM WatchersSeeTheirService == ASSUME WatchersKeepServices PROVE Spec => []WatcherSeesService
<1>1. IInv /\ KeptInv => WatcherSeesService
  <2>. SUFFICES ASSUME IInv, KeptInv, NEW t \in Threads, At(t, {"watcher"}, "code")
                PROVE  registered[Top(t).name] # 0
    BY DEF WatcherSeesService
  <2>1. stack[t] # <<>> /\ Top(t).op = "watcher"
    BY DEF At
  <2>2. Len(stack[t]) \in DOMAIN stack[t] /\ Top(t) = stack[t][Len(stack[t])]
        /\ DOMAIN stack[t] = 1..Len(stack[t]) /\ Len(stack[t]) \in Nat
    BY <2>1, TopOfStack DEF IInv
  <2>3. /\ Len(stack[t]) > 1 /\ stack[t][Len(stack[t]) - 1].step \in Calling
        /\ stack[t][Len(stack[t]) - 1].name = Top(t).name
    BY <2>1, <2>2 DEF IInv, StackInv, StackOK
  <2>4. Len(stack[t]) - 1 \in DOMAIN stack[t]
    BY <2>2, <2>3
  <2>. QED
    BY <2>3, <2>4 DEF KeptInv, KeptStack
<1>. QED
  BY <1>1, SchedulerInvariant, WatchedServicesStay, PTL

\* Re-entrant watchers that subscribe and register never change the vector that the loop
\* of notifySubscribersOnRegistration iterates over, as long as none unregisters.
THEOREM IteratorsStayValid == ASSUME WatchersKeepServices PROVE Spec => []IteratorsValid
<1>1. KeptInv => IteratorsValid
  BY DEF KeptInv, IteratorsValid
<1>. QED
  BY <1>1, WatchedServicesStay, PTL

=============================================================================
