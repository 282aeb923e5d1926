------------------------ MODULE AsyncDispatcherProofs ------------------------
(***************************************************************************)
(* The safety properties of AsyncDispatcher, proved for pools of every     *)
(* size, any number of threads, services and strands, and any permitted    *)
(* operations.  IInv is inductive: it says what the locals of a call in    *)
(* progress still mean while workers and other callers go on.              *)
(***************************************************************************)
EXTENDS AsyncDispatcher, SequenceTheorems, WellFoundedInduction, TLAPS

USE DispatcherAssumption

Choosing == {"least", "compare", "push", "count"}   \* inside of scheduleJob
Starting == {"create", "await"}
Cancelling == {"cancel", "pass", "erase"}
Stopping == {"drain", "join"}
Gone == {"exited", "freed"}

-----------------------------------------------------------------------------
(* What is known of a call c in progress.                                  *)

\* The locals are in range: they name a service, workers and jobs.
LocalsOK(c) ==
  /\ c.step \in Choosing => c.name \in Services /\ c.best \in Workers
  /\ c.step = "least" => c.at \in 1..(PoolSize + 1)
  /\ c.step \in {"compare"} \cup Starting \cup Cancelling \cup Stopping => c.at \in Workers
  /\ c.mark <= Len(jobs)

\* The worker chosen for a job of a strand is the one that is bound.
BoundOK(c) == c.step = "push" /\ c.strand # None => strands[c.strand] = c.best

\* cancelJobsFor has left no job behind on the workers it has passed.
PassedOK(c) ==
  c.step \in Cancelling =>
    \A i \in 1..c.mark : jobs[i].worker < c.at => jobs[i].state # "queued"

\* Only the owner starts, stops and destroys the pool, start before the others.
OwnerOK(t, c) ==
  /\ c.step \in Starting \cup Stopping => May[t] \cap LifeOps # {}
  /\ c.step \in Starting => phase = "new"
  /\ c.step \in Stopping => phase # "new"

\* stop has ended the threads of the workers it has passed.
StoppedOK(c) ==
  /\ c.step \in Stopping => \A v \in Workers : v < c.at => life[v] \in Gone
  /\ c.step = "join" => ~active[c.at]

CallOK(t, c) == LocalsOK(c) /\ BoundOK(c) /\ PassedOK(c) /\ OwnerOK(t, c) /\ StoppedOK(c)

CallInv == \A t \in Threads : CallOK(t, call[t])

-----------------------------------------------------------------------------
(* What is known of the workers and their jobs.                            *)

\* On each worker the jobs leave the queue in the order of the pushes, one at a time.
OrderInv ==
  \A i, j \in DOMAIN jobs :
    i < j /\ jobs[i].worker = jobs[j].worker /\ jobs[j].state \notin {"queued", "cancelled"}
      => jobs[i].state \in {"done", "cancelled"}

\* A worker executes jobs until its thread exits, and is inside of a call only
\* while it executes the job that called.
ThreadInv ==
  \A w \in Workers :
    /\ life[w] \in Gone => On(w, {"taken", "running"}) = {}
    /\ ~Idle(w) => On(w, {"running"}) # {}

\* active_ is cleared once and for all: an inactive worker accepts no job that will
\* be run, and its thread has ended or is being joined.
PoolInv ==
  /\ phase = "new" => \A w \in Workers : active[w]
  /\ \A w \in Workers : life[w] \in Gone => ~active[w]
  /\ \A w \in Workers : ~active[w] =>
       \/ life[w] \in Gone
       \/ \E t \in Threads : In(t, "join") /\ call[t].at = w
  /\ \A i \in DOMAIN jobs :
       ~active[jobs[i].worker] => jobs[i].late \/ jobs[i].state # "queued"
  /\ phase \in {"stopped", "destroyed"} => \A w \in Workers : life[w] \in Gone

IInv == TypeOK /\ CallInv /\ StrandAffinity /\ OrderInv /\ ThreadInv /\ PoolInv

-----------------------------------------------------------------------------
(* Lemmas about the operators of the model.                                *)

\* A set of naturals that is not empty has a least element, and Min returns it.
LEMMA MinIsLeast ==
  ASSUME NEW S \in SUBSET Nat, S # {}
  PROVE  Min(S) \in S /\ \A i \in S : Min(S) <= i
<1> DEFINE Less == OpToRel(<, Nat)
<1>1. IsWellFoundedOn(Less, Nat)
  BY NatLessThanWellFounded, Zenon
<1>2. \A x, y \in Nat : <<x, y>> \in Less <=> x < y
  BY DEF OpToRel
<1> HIDE DEF Less
<1>3. \E x \in S : \A y \in S : ~(<<y, x>> \in Less)
  BY <1>1, WFMin
<1>4. \A x, y \in S : ~(<<y, x>> \in Less) => x <= y
  <2>1. \A x, y \in S : x \in Nat /\ y \in Nat
    OBVIOUS
  <2>. QED
    BY <1>2, <2>1
<1>5. \E x \in S : \A y \in S : x <= y
  BY <1>3, <1>4
<1>. QED
  BY <1>5 DEF Min

\* The jobs pushed are numbered 1..Len(jobs), and each is a Job.
LEMMA JobFields ==
  ASSUME TypeOK
  PROVE  /\ Len(jobs) \in Nat /\ DOMAIN jobs = 1..Len(jobs)
         /\ \A i \in DOMAIN jobs :
              /\ jobs[i] \in Job /\ jobs[i].name \in Services
              /\ jobs[i].strand \in Strands \cup {None}
              /\ jobs[i].worker \in Workers /\ jobs[i].late \in BOOLEAN
              /\ jobs[i].state \in JobStates
<1>1. Len(jobs) \in Nat /\ DOMAIN jobs = 1..Len(jobs) /\ \A i \in DOMAIN jobs : jobs[i] \in Job
  BY DEF TypeOK
<1>. QED
  BY <1>1 DEF Job

\* SetState changes the state of the jobs in I, and nothing else of any job.
LEMMA SetStateEffect ==
  ASSUME TypeOK, NEW I, NEW s \in JobStates, SetState(I, s)
  PROVE  /\ jobs' \in Seq(Job) /\ Len(jobs') = Len(jobs) /\ DOMAIN jobs' = DOMAIN jobs
         /\ \A i \in DOMAIN jobs :
              /\ jobs'[i].state = IF i \in I THEN s ELSE jobs[i].state
              /\ jobs'[i].worker = jobs[i].worker /\ jobs'[i].name = jobs[i].name
              /\ jobs'[i].strand = jobs[i].strand /\ jobs'[i].late = jobs[i].late
<1> DEFINE n == Len(jobs)
           f(i) == IF i \in I THEN [jobs[i] EXCEPT !.state = s] ELSE jobs[i]
<1>1. n \in Nat /\ DOMAIN jobs = 1..n /\ \A i \in 1..n : jobs[i] \in Job
  BY JobFields
<1>2. \A i \in 1..n : f(i) \in Job
  BY <1>1 DEF Job
<1>3. \A i \in 1..n : /\ f(i).state = IF i \in I THEN s ELSE jobs[i].state
                      /\ f(i).worker = jobs[i].worker /\ f(i).name = jobs[i].name
                      /\ f(i).strand = jobs[i].strand /\ f(i).late = jobs[i].late
  BY <1>1 DEF Job
<1>4. jobs' = [i \in 1..n |-> f(i)]
  BY <1>1 DEF SetState
<1> HIDE DEF f
<1>5. jobs' \in Seq(Job) /\ Len(jobs') = n /\ DOMAIN jobs' = 1..n
  BY <1>1, <1>2, <1>4, IsASeq
<1>. QED
  BY <1>1, <1>3, <1>4, <1>5

\* A step of thread t changes the call of no other thread.
LEMMA CallChange ==
  ASSUME TypeOK, NEW t \in Threads, NEW c \in Call, call' = [call EXCEPT ![t] = c]
  PROVE  /\ call' \in [Threads -> Call] /\ call'[t] = c
         /\ \A u \in Threads : u # t => call'[u] = call[u]
BY DEF TypeOK

\* What goes on besides a call: jobs are only added and leave the queue for good,
\* a strand stays bound, a worker stays inactive and its thread ended.
Forward ==
  /\ Len(jobs) <= Len(jobs')
  /\ \A i \in DOMAIN jobs :
       /\ jobs'[i].worker = jobs[i].worker
       /\ jobs[i].state # "queued" => jobs'[i].state # "queued"
  /\ \A s \in Strands : strands[s] # None => strands'[s] = strands[s]
  /\ \A w \in Workers : life[w] \in Gone => life'[w] \in Gone
  /\ \A w \in Workers : ~active[w] => ~active'[w]
  /\ phase = "new" <=> phase' = "new"

\* What is known of a call stays true while others go forward.
LEMMA CallKept ==
  ASSUME TypeOK, Forward, Len(jobs') \in Nat, NEW t \in Threads, NEW c \in Call, CallOK(t, c)
  PROVE  CallOK(t, c)'
<1>1. /\ c.mark \in Nat /\ c.at \in Nat /\ Len(jobs) \in Nat /\ DOMAIN jobs = 1..Len(jobs)
      /\ c.strand \in Strands \cup {None}
  BY JobFields DEF Call
<1>2. LocalsOK(c)'
  BY <1>1 DEF CallOK, LocalsOK, Forward
<1>3. BoundOK(c)'
  <2>1. \A w \in Workers : w # None
    BY DEF Threads
  <2>. QED
    BY <1>1, <2>1 DEF CallOK, BoundOK, LocalsOK, Choosing, Forward
<1>4. PassedOK(c)'
  BY <1>1 DEF CallOK, LocalsOK, PassedOK, Forward
<1>5. OwnerOK(t, c)'
  BY DEF CallOK, OwnerOK, Forward
<1>6. StoppedOK(c)'
  BY DEF CallOK, LocalsOK, StoppedOK, Stopping, Forward
<1>. QED
  BY <1>2, <1>3, <1>4, <1>5, <1>6 DEF CallOK

\* A step of t that takes everything forward preserves CallInv if it establishes
\* what is known of t's own call.
LEMMA CallInvStep ==
  ASSUME TypeOK, CallInv, Forward, Len(jobs') \in Nat, NEW t \in Threads, NEW c \in Call,
         call' = [call EXCEPT ![t] = c], CallOK(t, c)'
  PROVE  CallInv'
<1>1. call'[t] = c /\ \A u \in Threads : u # t => call'[u] = call[u]
  BY CallChange
<1>2. ASSUME NEW u \in Threads, u # t PROVE CallOK(u, call[u])'
  BY <1>2, <1>1, CallKept DEF CallInv, TypeOK
<1>. QED
  BY <1>1, <1>2 DEF CallInv

\* A step of a worker's thread that takes everything forward preserves CallInv.
LEMMA CallInvKept ==
  ASSUME TypeOK, CallInv, Forward, Len(jobs') \in Nat, UNCHANGED call
  PROVE  CallInv'
<1>1. ASSUME NEW u \in Threads PROVE CallOK(u, call[u])'
  BY <1>1, CallKept DEF CallInv, TypeOK
<1>. QED
  BY <1>1 DEF CallInv

-----------------------------------------------------------------------------
(* Every step preserves the invariant.                                     *)

\* A step that changes nothing but the call of t, and perhaps a load or a queueLock_.
LEMMA LocalStep ==
  ASSUME IInv, NEW t \in Threads, NEW c \in Call, call' = [call EXCEPT ![t] = c],
         UNCHANGED <<jobs, poolVars>>, walks' \in Nat,
         load' \in [Workers -> 0..(LoadMod - 1)],
         queueLock' \in [Workers -> Threads \cup {None}],
         CallOK(t, c), ~In(t, "join"),
         t \in Workers /\ c.step # "idle" => On(t, {"running"}) # {}
  PROVE  IInv'
<1>1. UNCHANGED <<jobs, strands, active, life, phase>>
  BY DEF poolVars
<1>2. call' \in [Threads -> Call] /\ call'[t] = c /\ \A u \in Threads : u # t => call'[u] = call[u]
  BY CallChange DEF IInv
<1>3. TypeOK'
  BY <1>1, <1>2 DEF IInv, TypeOK
<1>4. CallInv'
  <2>1. Len(jobs') \in Nat /\ Forward
    BY <1>1, JobFields DEF IInv, Forward
  <2>2. CallOK(t, c)'
    BY <2>1, CallKept DEF IInv
  <2>. QED
    BY <2>1, <2>2, CallInvStep DEF IInv
<1>5. StrandAffinity' /\ OrderInv'
  BY <1>1 DEF IInv, StrandAffinity, OrderInv
<1>6. ThreadInv'
  <2> SUFFICES ASSUME NEW w \in Workers
               PROVE  /\ life[w] \in Gone => On(w, {"taken", "running"}) = {}
                      /\ ~Idle(w)' => On(w, {"running"}) # {}
    BY <1>1 DEF ThreadInv, On
  <2>1. life[w] \in Gone => On(w, {"taken", "running"}) = {}
    BY DEF IInv, ThreadInv
  <2>2. ASSUME w # t PROVE ~Idle(w)' => On(w, {"running"}) # {}
    BY <1>2, <2>2 DEF IInv, ThreadInv, Threads, Idle, In
  <2>3. ASSUME w = t PROVE ~Idle(w)' => On(w, {"running"}) # {}
    BY <1>2, <2>3 DEF Idle, In
  <2>. QED
    BY <2>1, <2>2, <2>3
<1>7. PoolInv'
  <2>1. \A u \in Threads, w \in Workers :
          In(u, "join") /\ call[u].at = w => In(u, "join")' /\ call'[u].at = w
    BY <1>2 DEF In
  <2>. QED
    BY <1>1, <2>1 DEF IInv, PoolInv
<1>. QED
  BY <1>3, <1>4, <1>5, <1>6, <1>7 DEF IInv

\* A call in progress begins as NoCall with some of the locals set.
LEMMA NoCallFields ==
  /\ NoCall \in Call
  /\ NoCall.step = "idle" /\ NoCall.strand = None /\ NoCall.mark = 0
BY DEF NoCall, Call

\* A call begins while no other of its thread is in progress and, if the thread is a
\* worker's, while that worker executes a job.
LEMMA EnterStep ==
  ASSUME IInv, NEW t \in Threads, NEW op, NEW c \in Call, Enter(t, op, c),
         UNCHANGED phase, walks' \in Nat, CallOK(t, c)
  PROVE  IInv'
<1>1. /\ call' = [call EXCEPT ![t] = c] /\ In(t, "idle")
      /\ UNCHANGED <<jobs, poolVars>> /\ UNCHANGED <<load, queueLock>>
      /\ t \in Workers => On(t, {"running"}) # {}
  BY DEF Enter, Become, Idle, queueVars, poolVars
<1>2. ~In(t, "join")
  BY <1>1 DEF In
<1>3. /\ load' \in [Workers -> 0..(LoadMod - 1)]
      /\ queueLock' \in [Workers -> Threads \cup {None}]
  BY <1>1 DEF IInv, TypeOK
<1>. QED
  BY <1>1, <1>2, <1>3, LocalStep

\* scheduleJob begins the scan of the loads with the first worker chosen.
LEMMA ScheduleJobStep ==
  ASSUME IInv, NEW t \in Threads, NEW n \in Services, NEW s \in Strands \cup {None},
         NEW sync \in BOOLEAN, ScheduleJob(t, n, s, sync)
  PROVE  IInv'
<1> DEFINE c == [NoCall EXCEPT !.step = "least", !.name = n, !.strand = s, !.sync = sync,
                               !.at = 2, !.best = 1]
<1>1. c \in Call
  BY NoCallFields DEF Call
<1>2. c.step = "least" /\ c.name = n /\ c.at = 2 /\ c.best = 1 /\ c.mark = 0
  BY NoCallFields DEF Call
<1>3. CallOK(t, c)
  <2>1. 1 \in Workers /\ 2 \in 1..(PoolSize + 1) /\ Len(jobs) \in Nat
    BY JobFields DEF IInv, Workers
  <2>. QED
    BY <1>2, <2>1 DEF CallOK, LocalsOK, BoundOK, PassedOK, OwnerOK, StoppedOK, Choosing, Starting,
                      Cancelling, Stopping
<1>4. UNCHANGED phase /\ walks' \in Nat
  BY DEF ScheduleJob, IInv, TypeOK
<1>5. Enter(t, IF sync THEN "scheduleSyncJob" ELSE "scheduleJob", c)
  BY DEF ScheduleJob
<1> HIDE DEF c
<1>. QED
  BY <1>1, <1>3, <1>4, <1>5, EnterStep

\* cancelJobsFor begins with the first worker, so that it has passed none.
LEMMA CancelJobsForStep ==
  ASSUME IInv, NEW t \in Threads, NEW n \in Services, CancelJobsFor(t, n)
  PROVE  IInv'
<1> DEFINE c == [NoCall EXCEPT !.step = "cancel", !.name = n, !.at = 1, !.mark = Len(jobs)]
<1>1. Len(jobs) \in Nat /\ DOMAIN jobs = 1..Len(jobs) /\ 1 \in Workers
      /\ \A i \in DOMAIN jobs : jobs[i].worker \in 1..PoolSize
  BY JobFields DEF IInv, Workers
<1>2. c \in Call
  BY <1>1, NoCallFields DEF Call
<1>3. c.step = "cancel" /\ c.at = 1 /\ c.mark = Len(jobs)
  BY NoCallFields DEF Call
<1>4. CallOK(t, c)
  BY <1>1, <1>3 DEF CallOK, LocalsOK, BoundOK, PassedOK, OwnerOK, StoppedOK, Choosing, Starting,
                    Cancelling, Stopping
<1>5. UNCHANGED phase /\ walks' \in Nat
  BY DEF CancelJobsFor, IInv, TypeOK
<1>6. Enter(t, "cancelJobsFor", c)
  BY DEF CancelJobsFor, Walk
<1> HIDE DEF c
<1>. QED
  BY <1>2, <1>4, <1>5, <1>6, EnterStep

\* Only the owner stops and destroys the pool, and both begin with the first worker.
LEMMA DrainCall ==
  ASSUME IInv, NEW t \in Threads, NEW op \in LifeOps, Walk(t, op, None, "drain")
  PROVE  \E c \in Call :
           /\ c.step = "drain" /\ c.at = 1 /\ c.mark = Len(jobs)
           /\ Enter(t, op, c) /\ CallOK(t, c) /\ phase \in {"started", "stopped"} /\ t \in Clients
<1> DEFINE c == [NoCall EXCEPT !.step = "drain", !.name = None, !.at = 1, !.mark = Len(jobs)]
<1>1. Len(jobs) \in Nat /\ 1 \in Workers /\ \A w \in Workers : w \in Nat /\ w >= 1
  BY JobFields DEF IInv, Workers
<1>2. c.step = "drain" /\ c.at = 1 /\ c.mark = Len(jobs)
  BY NoCallFields DEF Call
<1>3. c \in Call
  BY <1>1, NoCallFields DEF Call
<1>4. Enter(t, op, c)
  BY DEF Walk
<1> HIDE DEF c
<1>5. op \in May[t]
  BY <1>4 DEF Enter
<1>6. t \in Clients /\ t \notin Workers /\ May[t] \cap LifeOps # {}
  BY <1>5 DEF Workers
<1>7. phase \in {"started", "stopped"}
  BY <1>4, <1>6 DEF Enter
<1>8. CallOK(t, c)
  BY <1>2, <1>1, <1>6, <1>7 DEF CallOK, LocalsOK, BoundOK, PassedOK, OwnerOK, StoppedOK,
                                 Choosing, Starting, Cancelling, Stopping
<1>. QED
  BY <1>2, <1>3, <1>4, <1>6, <1>7, <1>8

\* stop begins with the first worker, in a call of the owner.
LEMMA StopStep ==
  ASSUME IInv, NEW t \in Threads, Stop(t)
  PROVE  IInv'
<1>1. UNCHANGED phase /\ walks' \in Nat /\ Walk(t, "stop", None, "drain") /\ "stop" \in LifeOps
  BY DEF Stop, IInv, TypeOK, LifeOps
<1>. QED
  BY <1>1, DrainCall, EnterStep

\* start begins with the first worker, in a call of the owner of a new pool.
LEMMA StartStep ==
  ASSUME IInv, NEW t \in Threads, Start(t)
  PROVE  IInv'
<1> DEFINE c == [NoCall EXCEPT !.step = "create", !.at = 1]
<1>1. c.step = "create" /\ c.at = 1 /\ c.mark = 0
  BY NoCallFields DEF Call
<1>2. Len(jobs) \in Nat /\ 1 \in Workers
  BY JobFields DEF IInv, Workers
<1>3. c \in Call
  BY NoCallFields DEF Call
<1>4. /\ "start" \in May[t] /\ phase = "new" /\ ~In(t, "join") /\ call' = [call EXCEPT ![t] = c]
      /\ UNCHANGED <<jobs, poolVars>> /\ walks' \in Nat
      /\ UNCHANGED <<load, queueLock>>
  BY DEF Start, Idle, In, Become, queueVars, IInv, TypeOK
<1> HIDE DEF c
<1>5. May[t] \cap LifeOps # {} /\ t \notin Workers
  BY <1>4 DEF LifeOps, Workers
<1>6. CallOK(t, c)
  BY <1>1, <1>2, <1>4, <1>5 DEF CallOK, LocalsOK, BoundOK, PassedOK, OwnerOK, StoppedOK,
                                 Choosing, Starting, Cancelling, Stopping
<1>7. /\ load' \in [Workers -> 0..(LoadMod - 1)]
      /\ queueLock' \in [Workers -> Threads \cup {None}]
  BY <1>4 DEF IInv, TypeOK
<1>. QED
  BY <1>3, <1>4, <1>5, <1>6, <1>7, LocalStep

\* A step of a call in progress that changes nothing else.
LEMMA ContinueStep ==
  ASSUME IInv, NEW t \in Threads, NEW c \in Call, call' = [call EXCEPT ![t] = c],
         UNCHANGED <<jobs, poolVars, walks>>,
         load' \in [Workers -> 0..(LoadMod - 1)],
         queueLock' \in [Workers -> Threads \cup {None}],
         CallOK(t, c), call[t].step \notin {"idle", "join"}
  PROVE  IInv'
<1>1. ~In(t, "join") /\ (t \in Workers => On(t, {"running"}) # {}) /\ walks' \in Nat
  BY DEF In, Idle, IInv, ThreadInv, TypeOK
<1>. QED
  BY <1>1, LocalStep

\* What the types and the invariant say of one call.
LEMMA CallFields ==
  ASSUME IInv, NEW t \in Threads
  PROVE  /\ CallOK(t, call[t]) /\ call[t] \in Call
         /\ call[t].at \in Nat /\ call[t].best \in Nat /\ call[t].mark \in Nat
         /\ call[t].name \in Services \cup {None} /\ call[t].strand \in Strands \cup {None}
         /\ load \in [Workers -> 0..(LoadMod - 1)]
         /\ queueLock \in [Workers -> Threads \cup {None}]
<1>1. call[t] \in Call
  BY DEF IInv, TypeOK
<1>. QED
  BY <1>1 DEF IInv, TypeOK, CallInv, Call

\* The jobs accepted before a call began are in the history.
LEMMA MarkedJobs ==
  ASSUME IInv, NEW t \in Threads, NEW i \in 1..call[t].mark
  PROVE  i \in DOMAIN jobs /\ jobs[i].worker \in Workers /\ jobs[i].state \in JobStates
<1>1. call[t].mark \in Nat /\ call[t].mark <= Len(jobs)
  BY CallFields DEF CallOK, LocalsOK
<1>2. TypeOK
  BY DEF IInv
<1>3. i \in DOMAIN jobs
  BY <1>1, <1>2, JobFields
<1>. QED
  BY <1>2, <1>3, JobFields

\* The load of the next worker is read.
LEMMA ReadLoadStep ==
  ASSUME IInv, NEW t \in Threads, ReadLoad(t)
  PROVE  IInv'
<1> DEFINE c == [call[t] EXCEPT !.step = "compare", !.seen = load[call[t].at]]
<1>1. /\ call[t].step = "least" /\ call[t].at <= PoolSize /\ call' = [call EXCEPT ![t] = c]
      /\ UNCHANGED <<jobs, poolVars, walks>> /\ UNCHANGED <<load, queueLock>>
  BY DEF ReadLoad, In, Become, queueVars
<1>2. call[t].at \in Workers
  BY <1>1, CallFields DEF CallOK, LocalsOK, Workers
<1>3. c \in Call
  <2>1. load[call[t].at] \in Nat
    BY <1>2, CallFields
  <2>2. call[t] \in Call
    BY CallFields
  <2>. QED
    BY <2>1, <2>2 DEF Call
<1>4. /\ c.step = "compare" /\ c.name = call[t].name /\ c.at = call[t].at
      /\ c.best = call[t].best /\ c.mark = call[t].mark
  BY CallFields DEF Call
<1> HIDE DEF c
<1>5. CallOK(t, c)
  BY <1>1, <1>2, <1>4, CallFields DEF CallOK, LocalsOK, BoundOK, PassedOK, OwnerOK, StoppedOK,
                                       Choosing, Starting, Cancelling, Stopping
<1>. QED
  BY <1>1, <1>3, <1>5, ContinueStep, CallFields

\* Whatever the loads are by now, the chosen worker is one of the pool.
LEMMA CompareLoadStep ==
  ASSUME IInv, NEW t \in Threads, CompareLoad(t)
  PROVE  IInv'
<1> DEFINE c == [call[t] EXCEPT !.step = "least", !.best = Lighter(call[t]), !.seen = 0,
                                !.at = call[t].at + 1]
<1>1. /\ call[t].step = "compare" /\ call' = [call EXCEPT ![t] = c]
      /\ UNCHANGED <<jobs, poolVars, walks>> /\ UNCHANGED <<load, queueLock>>
  BY DEF CompareLoad, In, Become, queueVars
<1>2. /\ call[t].at \in Workers /\ call[t].best \in Workers /\ call[t].name \in Services
      /\ Lighter(call[t]) \in Workers
  BY <1>1, CallFields DEF CallOK, LocalsOK, Choosing, Lighter
<1>3. call[t].at + 1 \in 1..(PoolSize + 1) /\ call[t].at + 1 \in Nat /\ Lighter(call[t]) \in Nat
  BY <1>2 DEF Workers
<1>4. c \in Call
  <2>1. call[t] \in Call
    BY CallFields
  <2>. QED
    BY <1>3, <2>1 DEF Call
<1>5. /\ c.step = "least" /\ c.name = call[t].name /\ c.at = call[t].at + 1
      /\ c.best = Lighter(call[t]) /\ c.mark = call[t].mark
  BY CallFields DEF Call
<1> HIDE DEF c
<1>6. CallOK(t, c)
  BY <1>2, <1>3, <1>5, CallFields DEF CallOK, LocalsOK, BoundOK, PassedOK, OwnerOK, StoppedOK,
                                       Choosing, Starting, Cancelling, Stopping
<1>. QED
  BY <1>1, <1>4, <1>6, ContinueStep, CallFields

\* Going on to the next line changes nothing but the step.
LEMMA GotoCall ==
  ASSUME IInv, NEW t \in Threads, NEW s \in {"push", "pass", "erase", "wait", "join"}, Goto(t, s)
  PROVE  \E c \in Call :
           /\ call' = [call EXCEPT ![t] = c]
           /\ c.step = s /\ c.name = call[t].name /\ c.strand = call[t].strand
           /\ c.at = call[t].at /\ c.best = call[t].best /\ c.mark = call[t].mark
<1> DEFINE c == [call[t] EXCEPT !.step = s]
<1>1. c \in Call /\ call' = [call EXCEPT ![t] = c]
  BY CallFields DEF Call, Goto
<1>2. /\ c.step = s /\ c.name = call[t].name /\ c.strand = call[t].strand
      /\ c.at = call[t].at /\ c.best = call[t].best /\ c.mark = call[t].mark
  BY CallFields DEF Call
<1> HIDE DEF c
<1>. QED
  BY <1>1, <1>2

\* A job without a strand goes to the worker chosen.
LEMMA GetWorkerForScheduleStep ==
  ASSUME IInv, NEW t \in Threads, GetWorkerForSchedule(t)
  PROVE  IInv'
<1>1. /\ call[t].step = "least" /\ call[t].strand = None /\ Goto(t, "push")
      /\ UNCHANGED <<jobs, poolVars, walks>> /\ UNCHANGED <<load, queueLock>>
  BY DEF GetWorkerForSchedule, In, queueVars
<1>2. PICK c \in Call :
           /\ call' = [call EXCEPT ![t] = c]
           /\ c.step = "push" /\ c.name = call[t].name /\ c.strand = call[t].strand
           /\ c.at = call[t].at /\ c.best = call[t].best /\ c.mark = call[t].mark
  BY <1>1, GotoCall
<1>3. CallOK(t, c)
  BY <1>1, <1>2, CallFields DEF CallOK, LocalsOK, BoundOK, PassedOK, OwnerOK, StoppedOK,
                                Choosing, Starting, Cancelling, Stopping
<1>. QED
  BY <1>1, <1>2, <1>3, ContinueStep, CallFields

\* A call that returns has no locals left to speak of.
LEMMA ReturnedCall ==
  ASSUME IInv, NEW t \in Threads
  PROVE  CallOK(t, NoCall)
BY NoCallFields, JobFields DEF IInv, CallOK, LocalsOK, BoundOK, PassedOK, OwnerOK, StoppedOK,
                               Choosing, Starting, Cancelling, Stopping

\* The job pushed is counted; a synchronous call then waits for it.
LEMMA CountStep ==
  ASSUME IInv, NEW t \in Threads, Count(t)
  PROVE  IInv'
<1>1. /\ call[t].step = "count" /\ UNCHANGED <<jobs, poolVars, walks>> /\ UNCHANGED queueLock
      /\ load' = [load EXCEPT ![call[t].best] = (load[call[t].best] + 1) % LoadMod]
      /\ Goto(t, "wait") \/ Return(t)
  BY DEF Count, In
<1>2. load' \in [Workers -> 0..(LoadMod - 1)]
  <2>1. call[t].best \in Workers /\ load[call[t].best] \in Nat
    BY <1>1, CallFields DEF CallOK, LocalsOK, Choosing
  <2>2. (load[call[t].best] + 1) % LoadMod \in 0..(LoadMod - 1)
    BY <2>1
  <2>. QED
    BY <1>1, <2>2, CallFields
<1>3. CASE Goto(t, "wait")
  <2>1. PICK c \in Call :
           /\ call' = [call EXCEPT ![t] = c]
           /\ c.step = "wait" /\ c.name = call[t].name /\ c.strand = call[t].strand
           /\ c.at = call[t].at /\ c.best = call[t].best /\ c.mark = call[t].mark
    BY <1>3, GotoCall
  <2>2. CallOK(t, c)
    BY <1>1, <2>1, CallFields DEF CallOK, LocalsOK, BoundOK, PassedOK, OwnerOK, StoppedOK,
                                  Choosing, Starting, Cancelling, Stopping
  <2>. QED
    BY <1>1, <1>2, <2>1, <2>2, ContinueStep, CallFields
<1>4. CASE Return(t)
  BY <1>1, <1>2, <1>4, ContinueStep, CallFields, NoCallFields, ReturnedCall DEF Return
<1>. QED
  BY <1>1, <1>3, <1>4

\* A synchronous call returns.
LEMMA WaitForDoneStep ==
  ASSUME IInv, NEW t \in Threads, WaitForDone(t)
  PROVE  IInv'
<1>1. /\ call[t].step = "wait" /\ call' = [call EXCEPT ![t] = NoCall]
      /\ UNCHANGED <<jobs, poolVars, walks>> /\ UNCHANGED <<load, queueLock>>
  BY DEF WaitForDone, In, Return, queueVars
<1>. QED
  BY <1>1, ContinueStep, CallFields, NoCallFields, ReturnedCall

\* A canceller locks the queue of a worker: jobs are left alone.
LEMMA CancelLockStep ==
  ASSUME IInv, NEW t \in Threads, CancelLock(t)
  PROVE  IInv'
<1>1. /\ call[t].step = "cancel" /\ Goto(t, "pass")
      /\ queueLock' = [queueLock EXCEPT ![call[t].at] = t]
      /\ UNCHANGED <<jobs, poolVars, walks>> /\ UNCHANGED load
  BY DEF CancelLock, In
<1>2. PICK c \in Call :
           /\ call' = [call EXCEPT ![t] = c]
           /\ c.step = "pass" /\ c.name = call[t].name /\ c.strand = call[t].strand
           /\ c.at = call[t].at /\ c.best = call[t].best /\ c.mark = call[t].mark
  BY <1>1, GotoCall
<1>3. CallOK(t, c)
  BY <1>1, <1>2, CallFields DEF CallOK, LocalsOK, BoundOK, PassedOK, OwnerOK, StoppedOK,
                                Choosing, Starting, Cancelling, Stopping
<1>4. queueLock' \in [Workers -> Threads \cup {None}]
  BY <1>1, CallFields
<1>. QED
  BY <1>1, <1>2, <1>3, <1>4, ContinueStep, CallFields

\* It steps over the queued jobs.
LEMMA CancelPassStep ==
  ASSUME IInv, NEW t \in Threads, CancelPass(t)
  PROVE  IInv'
<1>1. /\ call[t].step = "pass" /\ Goto(t, "erase")
      /\ UNCHANGED <<jobs, poolVars, walks>> /\ UNCHANGED <<load, queueLock>>
  BY DEF CancelPass, In, queueVars
<1>2. PICK c \in Call :
           /\ call' = [call EXCEPT ![t] = c]
           /\ c.step = "erase" /\ c.name = call[t].name /\ c.strand = call[t].strand
           /\ c.at = call[t].at /\ c.best = call[t].best /\ c.mark = call[t].mark
  BY <1>1, GotoCall
<1>3. CallOK(t, c)
  BY <1>1, <1>2, CallFields DEF CallOK, LocalsOK, BoundOK, PassedOK, OwnerOK, StoppedOK,
                                Choosing, Starting, Cancelling, Stopping
<1>. QED
  BY <1>1, <1>2, <1>3, ContinueStep, CallFields

\* A strand is bound at most once: a bound one keeps its worker, so that no job of it is elsewhere.
LEMMA GetStrandWorkerForScheduleStep ==
  ASSUME IInv, NEW t \in Threads, GetStrandWorkerForSchedule(t)
  PROVE  IInv'
<1> DEFINE s == call[t].strand
           w == Bound(s, call[t].best)
           d == [call[t] EXCEPT !.step = "push", !.best = w]
<1>1. /\ call[t].step = "least" /\ s # None /\ call' = [call EXCEPT ![t] = d]
      /\ strands' = [strands EXCEPT ![s] = w]
      /\ UNCHANGED <<jobs, load, queueLock, active, life, phase, walks>>
  BY DEF GetStrandWorkerForSchedule, In, Become, queueVars
<1>2. s \in Strands /\ strands \in [Strands -> Workers \cup {None}]
  BY <1>1, CallFields DEF IInv, TypeOK
<1>3. w \in Workers /\ (strands[s] # None => w = strands[s])
  BY <1>1, <1>2, CallFields DEF CallOK, LocalsOK, Choosing, Bound
<1>4. PICK c \in Call :
           /\ call' = [call EXCEPT ![t] = c]
           /\ c.step = "push" /\ c.name = call[t].name /\ c.strand = s
           /\ c.best = w /\ c.mark = call[t].mark
  <2>1. w \in Nat
    BY <1>3 DEF Workers
  <2> HIDE DEF w
  <2>2. d \in Call
    <3>1. call[t] \in Call
      BY CallFields
    <3>. QED
      BY <2>1, <3>1 DEF Call
  <2>3. /\ d.step = "push" /\ d.name = call[t].name /\ d.strand = s /\ d.best = w
        /\ d.mark = call[t].mark
    BY CallFields DEF Call
  <2>. QED
    BY <1>1, <2>2, <2>3
<1> HIDE DEF s, w, d
<1>5. /\ strands' \in [Strands -> Workers \cup {None}] /\ strands'[s] = w
      /\ \A x \in Strands : strands[x] # None => strands'[x] = strands[x]
  BY <1>1, <1>2, <1>3
<1>6. call' \in [Threads -> Call] /\ call'[t] = c /\ \A u \in Threads : u # t => call'[u] = call[u]
  BY <1>1, <1>4, CallChange DEF IInv
<1>7. TypeOK'
  BY <1>1, <1>5, <1>6 DEF IInv, TypeOK
<1>8. CallInv'
  <2>1. Len(jobs') \in Nat /\ Forward
    BY <1>1, <1>5, JobFields DEF IInv, Forward
  <2>2. CallOK(t, c)'
    BY <1>1, <1>3, <1>4, <1>5, CallFields DEF CallOK, LocalsOK, BoundOK, PassedOK, OwnerOK,
                                     StoppedOK, Choosing, Starting, Cancelling, Stopping, s
  <2>. QED
    BY <1>1, <1>4, <2>1, <2>2, CallInvStep DEF IInv
<1>9. StrandAffinity'
  <2> SUFFICES ASSUME NEW i \in DOMAIN jobs, jobs[i].strand # None
               PROVE  jobs[i].worker = strands'[jobs[i].strand]
    BY <1>1 DEF StrandAffinity
  <2>1. jobs[i].worker \in Workers /\ jobs[i].strand \in Strands /\ \A x \in Workers : x # None
    BY JobFields DEF IInv, Threads
  <2>2. jobs[i].worker = strands[jobs[i].strand]
    BY DEF IInv, StrandAffinity
  <2>. QED
    BY <1>5, <2>1, <2>2
<1>10. OrderInv'
  BY <1>1 DEF IInv, OrderInv
<1>11. ThreadInv'
  BY <1>1, <1>6 DEF IInv, ThreadInv, On, Threads, Idle, In
<1>12. PoolInv'
  BY <1>1, <1>6 DEF IInv, PoolInv, In
<1>. QED
  BY <1>7, <1>8, <1>9, <1>10, <1>11, <1>12 DEF IInv

\* A push adds one queued job behind all the others.
LEMMA PushEffect ==
  ASSUME IInv, NEW t \in Threads, Push(t)
  PROVE  /\ jobs' \in Seq(Job) /\ Len(jobs') = Len(jobs) + 1
         /\ DOMAIN jobs' = 1..(Len(jobs) + 1)
         /\ \A i \in DOMAIN jobs : jobs'[i] = jobs[i]
         /\ jobs'[Len(jobs) + 1].state = "queued"
         /\ jobs'[Len(jobs) + 1].worker = call[t].best
         /\ jobs'[Len(jobs) + 1].strand = call[t].strand
         /\ ~active[call[t].best] => jobs'[Len(jobs) + 1].late
<1> DEFINE b == call[t].best
           new == [name |-> call[t].name, strand |-> call[t].strand, worker |-> b,
                   late |-> ~active[b], state |-> "queued"]
<1>1. jobs' = Append(jobs, new)
  BY DEF Push
<1>2. call[t].name \in Services /\ b \in Workers /\ call[t].strand \in Strands \cup {None}
  BY CallFields DEF CallOK, LocalsOK, Choosing, Push, In
<1>3. (~active[b]) \in BOOLEAN
  OBVIOUS
<1>4. new \in Job
  BY <1>2, <1>3 DEF Job, JobStates
<1>5. /\ new.state = "queued" /\ new.worker = b /\ new.strand = call[t].strand
      /\ ~active[b] => new.late
  OBVIOUS
<1> HIDE DEF new, b
<1>6. jobs \in Seq(Job) /\ Len(jobs) \in Nat /\ DOMAIN jobs = 1..Len(jobs)
  BY JobFields DEF IInv, TypeOK
<1>7. /\ jobs' \in Seq(Job) /\ Len(jobs') = Len(jobs) + 1 /\ DOMAIN jobs' = 1..(Len(jobs) + 1)
      /\ \A i \in 1..Len(jobs) : jobs'[i] = jobs[i]
      /\ jobs'[Len(jobs) + 1] = new
  BY <1>1, <1>4, <1>6
<1>. QED
  BY <1>5, <1>6, <1>7 DEF b

\* A job is pushed behind all others of its worker; of a strand, on the worker bound to it.
LEMMA PushStep ==
  ASSUME IInv, NEW t \in Threads, Push(t)
  PROVE  IInv'
<1> DEFINE n == Len(jobs)
           d == [call[t] EXCEPT !.step = "count", !.mark = Len(jobs')]
<1>1. /\ call[t].step = "push" /\ call' = [call EXCEPT ![t] = d]
      /\ UNCHANGED <<load, queueLock, strands, active, life, phase, walks>>
  BY DEF Push, In, Become, poolVars
<1>2. n \in Nat /\ DOMAIN jobs = 1..n /\ n + 1 \in Nat
  BY JobFields DEF IInv
<1>3. PICK c \in Call :
           /\ call' = [call EXCEPT ![t] = c]
           /\ c.step = "count" /\ c.name = call[t].name /\ c.best = call[t].best
           /\ c.mark = n + 1
  <2>1. Len(jobs') = n + 1
    BY PushEffect
  <2>2. d \in Call
    <3>1. call[t] \in Call
      BY CallFields
    <3>. QED
      BY <1>2, <2>1, <3>1 DEF Call
  <2>3. d.step = "count" /\ d.name = call[t].name /\ d.best = call[t].best /\ d.mark = n + 1
    BY <2>1, CallFields DEF Call
  <2>. QED
    BY <1>1, <2>2, <2>3
<1> HIDE DEF d
<1>4. call' \in [Threads -> Call] /\ call'[t] = c /\ \A u \in Threads : u # t => call'[u] = call[u]
  BY <1>1, <1>3, CallChange DEF IInv
<1>5. TypeOK'
  BY <1>1, <1>4, PushEffect DEF IInv, TypeOK
<1>6. CallInv'
  <2>1. Len(jobs') \in Nat /\ Forward
    BY <1>1, <1>2, PushEffect DEF Forward
  <2>2. CallOK(t, c)'
    BY <1>1, <1>2, <1>3, PushEffect, CallFields DEF CallOK, LocalsOK, BoundOK, PassedOK, OwnerOK,
                                     StoppedOK, Choosing, Starting, Cancelling, Stopping
  <2>. QED
    BY <1>1, <1>3, <2>1, <2>2, CallInvStep DEF IInv
<1>7. StrandAffinity'
  <2>1. call[t].strand # None => call[t].best = strands[call[t].strand]
    BY <1>1, CallFields DEF CallOK, BoundOK
  <2>. QED
    BY <1>1, <1>2, <2>1, PushEffect DEF IInv, StrandAffinity
<1>8. OrderInv'
  <2> SUFFICES ASSUME NEW i \in 1..(n + 1), NEW j \in 1..(n + 1),
                      i < j, jobs'[i].worker = jobs'[j].worker,
                      jobs'[j].state \notin {"queued", "cancelled"}
               PROVE  jobs'[i].state \in {"done", "cancelled"}
    BY PushEffect DEF OrderInv
  <2>1. i \in 1..n /\ j \in 1..n
    BY <1>2, PushEffect
  <2>. QED
    BY <1>2, <2>1, PushEffect DEF IInv, OrderInv
<1>9. ThreadInv'
  <2>1. \A w \in Workers :
          On(w, {"taken", "running"})' = On(w, {"taken", "running"})
          /\ On(w, {"running"})' = On(w, {"running"})
    BY <1>2, PushEffect DEF On
  <2>. QED
    BY <1>1, <1>4, <2>1 DEF IInv, ThreadInv, Threads, Idle, In
<1>10. PoolInv'
  <2>1. \A i \in DOMAIN jobs' :
          ~active[jobs'[i].worker] => jobs'[i].late \/ jobs'[i].state # "queued"
    <3>1. \A i \in DOMAIN jobs :
            ~active[jobs'[i].worker] => jobs'[i].late \/ jobs'[i].state # "queued"
      BY PushEffect DEF IInv, PoolInv
    <3>2. ~active[jobs'[n + 1].worker] => jobs'[n + 1].late
      BY PushEffect
    <3>3. \A i \in DOMAIN jobs' : i \in DOMAIN jobs \/ i = n + 1
      BY <1>2, PushEffect
    <3>. QED
      BY <3>1, <3>2, <3>3
  <2>. QED
    BY <1>1, <1>4, <2>1 DEF IInv, PoolInv, In
<1>. QED
  BY <1>5, <1>6, <1>7, <1>8, <1>9, <1>10 DEF IInv

\* What is the same for the four steps that change the state of jobs: none becomes
\* queued again, so that everything goes forward.
LEMMA StatesEffect ==
  ASSUME IInv, NEW I, NEW s \in {"taken", "running", "done", "cancelled"}, SetState(I, s),
         UNCHANGED poolVars,
         \A t \in Threads : In(t, "join") => call'[t] = call[t]
  PROVE  /\ jobs' \in Seq(Job) /\ Len(jobs') \in Nat /\ Forward
         /\ DOMAIN jobs' = DOMAIN jobs
         /\ \A i \in DOMAIN jobs : /\ jobs'[i].worker = jobs[i].worker
                                   /\ jobs'[i].state = IF i \in I THEN s ELSE jobs[i].state
         /\ StrandAffinity' /\ PoolInv'
<1>1. s \in JobStates /\ s # "queued"
  BY DEF JobStates
<1>2. UNCHANGED <<strands, active, life, phase>>
  BY DEF poolVars
<1>3. /\ jobs' \in Seq(Job) /\ Len(jobs') = Len(jobs) /\ DOMAIN jobs' = DOMAIN jobs
      /\ \A i \in DOMAIN jobs :
           /\ jobs'[i].state = IF i \in I THEN s ELSE jobs[i].state
           /\ jobs'[i].worker = jobs[i].worker /\ jobs'[i].name = jobs[i].name
           /\ jobs'[i].strand = jobs[i].strand /\ jobs'[i].late = jobs[i].late
  BY <1>1, SetStateEffect DEF IInv
<1>4. Forward /\ Len(jobs') \in Nat
  BY <1>1, <1>2, <1>3, JobFields DEF IInv, Forward
<1>5. StrandAffinity'
  BY <1>2, <1>3 DEF IInv, StrandAffinity
<1>6. PoolInv'
  <2>1. \A i \in DOMAIN jobs' :
          ~active[jobs'[i].worker] => jobs'[i].late \/ jobs'[i].state # "queued"
    BY <1>1, <1>3 DEF IInv, PoolInv
  <2>2. \A t \in Threads, w \in Workers :
          In(t, "join") /\ call[t].at = w => In(t, "join")' /\ call'[t].at = w
    BY DEF In
  <2>. QED
    BY <1>2, <2>1, <2>2 DEF IInv, PoolInv
<1>. QED
  BY <1>3, <1>4, <1>5, <1>6

\* The job a worker takes is the first in its queue.
LEMMA FirstQueuedIsFirst ==
  ASSUME IInv, NEW w \in Workers, On(w, {"queued"}) # {}
  PROVE  \E h \in On(w, {"queued"}) :
           FirstQueued(w) = {h} /\ \A i \in On(w, {"queued"}) : h <= i
<1>1. On(w, {"queued"}) \in SUBSET Nat
  BY JobFields DEF IInv, On
<1>. QED
  BY <1>1, MinIsLeast DEF FirstQueued

\* The oldest queued job of a worker without one is taken.
LEMMA TakeStep ==
  ASSUME IInv, NEW w \in Workers, Take(w)
  PROVE  IInv'
<1>1. /\ life[w] = "ready" /\ On(w, {"taken", "running"}) = {} /\ On(w, {"queued"}) # {}
      /\ SetState(FirstQueued(w), "taken") /\ load' = [load EXCEPT ![w] = Discounted(w)]
      /\ UNCHANGED poolVars /\ UNCHANGED <<queueLock, call, walks>>
  BY DEF Take, Between
<1>2. PICK h \in On(w, {"queued"}) :
        FirstQueued(w) = {h} /\ \A i \in On(w, {"queued"}) : h <= i
  BY <1>1, FirstQueuedIsFirst
<1>3. h \in DOMAIN jobs /\ jobs[h].worker = w /\ jobs[h].state = "queued"
  BY DEF On
<1>4. /\ jobs' \in Seq(Job) /\ Len(jobs') \in Nat /\ Forward /\ DOMAIN jobs' = DOMAIN jobs
      /\ \A i \in DOMAIN jobs : /\ jobs'[i].worker = jobs[i].worker
                                /\ jobs'[i].state = IF i = h THEN "taken" ELSE jobs[i].state
      /\ StrandAffinity' /\ PoolInv'
  BY <1>1, <1>2, StatesEffect
<1>5. TypeOK'
  <2>1. Discounted(w) \in 0..(LoadMod - 1)
    <3>1. load[w] \in Nat
      BY DEF IInv, TypeOK
    <3>. QED
      BY <3>1 DEF Discounted
  <2>. QED
    BY <1>1, <1>4, <2>1 DEF IInv, TypeOK, poolVars
<1>6. CallInv'
  BY <1>1, <1>4, CallInvKept DEF IInv
<1>7. OrderInv'
  <2> SUFFICES ASSUME NEW i \in DOMAIN jobs, NEW j \in DOMAIN jobs, i < j,
                      jobs'[i].worker = jobs'[j].worker,
                      jobs'[j].state \notin {"queued", "cancelled"}
               PROVE  jobs'[i].state \in {"done", "cancelled"}
    BY <1>4 DEF OrderInv
  <2>1. jobs[i].worker = jobs[j].worker /\ i \in Nat /\ h \in Nat /\ jobs[i].state \in JobStates
    BY <1>3, <1>4, JobFields DEF IInv
  <2>2. CASE j = h
    <3>1. i \notin On(w, {"queued", "taken", "running"})
      BY <1>1, <1>2, <2>1, <2>2 DEF On
    <3>. QED
      BY <1>3, <1>4, <2>1, <2>2, <3>1 DEF On, JobStates
  <2>3. CASE j # h
    <3>1. jobs[i].state \in {"done", "cancelled"}
      BY <1>4, <2>1, <2>3 DEF IInv, OrderInv
    <3>. QED
      BY <1>3, <1>4, <3>1
  <2>. QED
    BY <2>2, <2>3
<1>8. ThreadInv'
  <2> SUFFICES ASSUME NEW v \in Workers
               PROVE  /\ life[v] \in Gone => On(v, {"taken", "running"})' = {}
                      /\ ~Idle(v) => On(v, {"running"})' # {}
    BY <1>1 DEF ThreadInv, poolVars, Idle, In
  <2>1. life[v] \in Gone => On(v, {"taken", "running"}) = {} /\ v # w
    BY <1>1 DEF IInv, ThreadInv, Gone
  <2>2. v # w => On(v, {"taken", "running"})' = On(v, {"taken", "running"})
    BY <1>3, <1>4 DEF On
  <2>3. On(v, {"running"})' = On(v, {"running"})
    BY <1>3, <1>4 DEF On
  <2>. QED
    BY <2>1, <2>2, <2>3 DEF IInv, ThreadInv
<1>. QED
  BY <1>4, <1>5, <1>6, <1>7, <1>8 DEF IInv

\* The job taken is run.
LEMMA BeginExecutingStep ==
  ASSUME IInv, NEW w \in Workers, BeginExecuting(w)
  PROVE  IInv'
<1>1. /\ On(w, {"taken"}) # {} /\ SetState(On(w, {"taken"}), "running")
      /\ UNCHANGED poolVars /\ UNCHANGED <<load, queueLock, call, walks>>
  BY DEF BeginExecuting
<1>2. /\ jobs' \in Seq(Job) /\ Len(jobs') \in Nat /\ Forward /\ DOMAIN jobs' = DOMAIN jobs
      /\ \A i \in DOMAIN jobs :
           /\ jobs'[i].worker = jobs[i].worker
           /\ jobs'[i].state = IF i \in On(w, {"taken"}) THEN "running" ELSE jobs[i].state
      /\ StrandAffinity' /\ PoolInv'
  BY <1>1, StatesEffect
<1>3. TypeOK'
  BY <1>1, <1>2 DEF IInv, TypeOK, poolVars
<1>4. CallInv'
  BY <1>1, <1>2, CallInvKept DEF IInv
<1>5. OrderInv'
  BY <1>2 DEF IInv, OrderInv, On
<1>6. ThreadInv'
  <2>1. \A v \in Workers : On(v, {"taken", "running"})' = On(v, {"taken", "running"})
    BY <1>2 DEF On
  <2>2. \A v \in Workers : On(v, {"running"}) \subseteq On(v, {"running"})'
    BY <1>2 DEF On
  <2>. QED
    BY <1>1, <2>1, <2>2 DEF IInv, ThreadInv, poolVars, Idle, In
<1>. QED
  BY <1>2, <1>3, <1>4, <1>5, <1>6 DEF IInv

\* It is done, and its code is in no call any more.
LEMMA EndExecutingStep ==
  ASSUME IInv, NEW w \in Workers, EndExecuting(w)
  PROVE  IInv'
<1>1. /\ Idle(w) /\ SetState(On(w, {"running"}), "done")
      /\ UNCHANGED poolVars /\ UNCHANGED <<load, queueLock, call, walks>>
  BY DEF EndExecuting
<1>2. /\ jobs' \in Seq(Job) /\ Len(jobs') \in Nat /\ Forward /\ DOMAIN jobs' = DOMAIN jobs
      /\ \A i \in DOMAIN jobs :
           /\ jobs'[i].worker = jobs[i].worker
           /\ jobs'[i].state = IF i \in On(w, {"running"}) THEN "done" ELSE jobs[i].state
      /\ StrandAffinity' /\ PoolInv'
  BY <1>1, StatesEffect
<1>3. TypeOK'
  BY <1>1, <1>2 DEF IInv, TypeOK, poolVars
<1>4. CallInv'
  BY <1>1, <1>2, CallInvKept DEF IInv
<1>5. OrderInv'
  BY <1>2 DEF IInv, OrderInv, On
<1>6. ThreadInv'
  <2>1. \A v \in Workers : On(v, {"taken", "running"})' \subseteq On(v, {"taken", "running"})
    BY <1>2 DEF On
  <2>2. \A v \in Workers : v # w => On(v, {"running"})' = On(v, {"running"})
    BY <1>2 DEF On
  <2>. QED
    BY <1>1, <2>1, <2>2 DEF IInv, ThreadInv, poolVars, Idle, In
<1>. QED
  BY <1>2, <1>3, <1>4, <1>5, <1>6 DEF IInv

\* The loop over the workers goes on to the next one, or the call returns.
LEMMA NextWorkerCall ==
  ASSUME IInv, NEW t \in Threads, NEW s \in {"cancel", "drain"}, NextWorker(t, s),
         call[t].at \in Workers
  PROVE  \E c \in Call :
           /\ call' = [call EXCEPT ![t] = c]
           /\ \/ /\ c.step = s /\ c.name = call[t].name /\ c.mark = call[t].mark
                 /\ c.at = call[t].at + 1 /\ c.at \in Workers
              \/ c = NoCall /\ call[t].at = PoolSize
<1>1. CASE call[t].at < PoolSize
  <2> DEFINE d == [call[t] EXCEPT !.step = s, !.at = call[t].at + 1]
  <2>1. call' = [call EXCEPT ![t] = d]
    BY <1>1 DEF NextWorker, Become
  <2>2. call[t].at + 1 \in Nat /\ call[t].at + 1 \in Workers
    BY <1>1 DEF Workers
  <2>3. d \in Call
    <3>1. call[t] \in Call
      BY CallFields
    <3>. QED
      BY <2>2, <3>1 DEF Call
  <2>4. d.step = s /\ d.name = call[t].name /\ d.mark = call[t].mark /\ d.at = call[t].at + 1
    BY CallFields DEF Call
  <2> HIDE DEF d
  <2>. QED
    BY <2>1, <2>2, <2>3, <2>4
<1>2. CASE ~(call[t].at < PoolSize)
  <2>1. call[t].at = PoolSize /\ call' = [call EXCEPT ![t] = NoCall]
    BY <1>2 DEF NextWorker, Return, Workers
  <2>. QED
    BY <2>1, NoCallFields
<1>. QED
  BY <1>1, <1>2

\* The queue of a worker is erased: the canceller has passed it.
LEMMA CancelEraseStep ==
  ASSUME IInv, NEW t \in Threads, CancelErase(t)
  PROVE  IInv'
<1> DEFINE w == call[t].at
<1>1. /\ call[t].step = "erase" /\ SetState(On(w, {"queued"}), "cancelled")
      /\ load' = [load EXCEPT ![w] = 0] /\ queueLock' = [queueLock EXCEPT ![w] = None]
      /\ NextWorker(t, "cancel") /\ UNCHANGED poolVars /\ UNCHANGED walks
  BY DEF CancelErase, In
<1>2. w \in Workers
  BY <1>1, CallFields DEF CallOK, LocalsOK, Cancelling
<1>3. PICK c \in Call :
        /\ call' = [call EXCEPT ![t] = c]
        /\ \/ /\ c.step = "cancel" /\ c.name = call[t].name /\ c.mark = call[t].mark
              /\ c.at = w + 1 /\ c.at \in Workers
           \/ c = NoCall /\ w = PoolSize
  BY <1>1, <1>2, NextWorkerCall
<1> HIDE DEF w
<1>4. call' \in [Threads -> Call] /\ call'[t] = c /\ \A u \in Threads : u # t => call'[u] = call[u]
  BY <1>3, CallChange DEF IInv
<1>5. /\ jobs' \in Seq(Job) /\ Len(jobs') \in Nat /\ Forward /\ DOMAIN jobs' = DOMAIN jobs
      /\ \A i \in DOMAIN jobs :
           /\ jobs'[i].worker = jobs[i].worker
           /\ jobs'[i].state = IF i \in On(w, {"queued"}) THEN "cancelled" ELSE jobs[i].state
      /\ StrandAffinity' /\ PoolInv'
  <2>1. \A u \in Threads : In(u, "join") => call'[u] = call[u]
    BY <1>1, <1>4 DEF In
  <2>. QED
    BY <1>1, <2>1, StatesEffect
<1>6. TypeOK'
  <2>1. 0 \in 0..(LoadMod - 1)
    OBVIOUS
  <2>2. load' \in [Workers -> 0..(LoadMod - 1)]
    BY <1>1, <2>1, CallFields
  <2>3. queueLock' \in [Workers -> Threads \cup {None}]
    BY <1>1, CallFields
  <2>. QED
    BY <1>1, <1>4, <1>5, <2>2, <2>3 DEF IInv, TypeOK, poolVars
<1>7. CallInv'
  <2>1. ASSUME c = NoCall PROVE CallOK(t, c)'
    BY <1>5, <2>1, NoCallFields DEF CallOK, LocalsOK, BoundOK, PassedOK, OwnerOK, StoppedOK,
                        Choosing, Starting, Cancelling, Stopping
  <2>2. ASSUME c # NoCall PROVE CallOK(t, c)'
    <3>1. c.step = "cancel" /\ c.mark = call[t].mark /\ c.at = w + 1 /\ c.at \in Workers
      BY <1>3, <2>2
    <3>2. \A i \in 1..c.mark : jobs'[i].worker < c.at => jobs'[i].state # "queued"
      <4> SUFFICES ASSUME NEW i \in 1..call[t].mark, jobs'[i].worker < w + 1
                   PROVE  jobs'[i].state # "queued"
        BY <3>1
      <4>1. i \in DOMAIN jobs
        BY MarkedJobs
      <4>2. jobs[i].worker \in Nat /\ w \in Nat
        BY <1>2, <4>1, JobFields DEF IInv, Workers
      <4>3. CASE jobs[i].worker < w
        BY <1>1, <1>5, <4>1, <4>3, CallFields DEF CallOK, PassedOK, Cancelling, w
      <4>4. CASE jobs[i].worker = w
        BY <1>5, <4>1, <4>4 DEF On
      <4>. QED
        BY <1>5, <4>1, <4>2, <4>3, <4>4
    <3>3. c.mark <= Len(jobs')
      BY <1>5, <3>1, CallFields, JobFields DEF IInv, CallOK, LocalsOK, Forward
    <3>. QED
      BY <3>1, <3>2, <3>3 DEF CallOK, LocalsOK, BoundOK, PassedOK, OwnerOK, StoppedOK,
                              Choosing, Starting, Cancelling, Stopping
  <2>3. CallOK(t, c)'
    BY <2>1, <2>2
  <2>. QED
    BY <1>3, <1>5, <2>3, CallInvStep DEF IInv
<1>8. OrderInv'
  BY <1>5 DEF IInv, OrderInv, On
<1>9. ThreadInv'
  <2>1. \A v \in Workers : /\ On(v, {"taken", "running"})' = On(v, {"taken", "running"})
                           /\ On(v, {"running"})' = On(v, {"running"})
    BY <1>5 DEF On
  <2>2. \A v \in Workers : ~Idle(v)' => ~Idle(v)
    BY <1>1, <1>4 DEF Idle, In, Threads
  <2>. QED
    BY <1>1, <2>1, <2>2 DEF IInv, ThreadInv, poolVars
<1>. QED
  BY <1>5, <1>6, <1>7, <1>8, <1>9 DEF IInv

\* At most one thread is in start, stop or the destruction.
LEMMA OneOwner ==
  ASSUME IInv, NEW t \in Threads, NEW u \in Threads,
         call[t].step \in Starting \cup Stopping, call[u].step \in Starting \cup Stopping
  PROVE  t = u /\ t \in Clients /\ t \notin Workers
<1>1. May[t] \cap LifeOps # {} /\ May[u] \cap LifeOps # {}
  BY CallFields DEF CallOK, OwnerOK
<1>. QED
  BY <1>1

\* start creates a worker.
LEMMA CreateWorkerStep ==
  ASSUME IInv, NEW t \in Threads, CreateWorker(t)
  PROVE  IInv'
<1> DEFINE w == call[t].at
           d == IF w < PoolSize THEN [call[t] EXCEPT !.at = w + 1]
                                ELSE [call[t] EXCEPT !.step = "await", !.at = 1]
<1>1. /\ call[t].step = "create" /\ life' = [life EXCEPT ![w] = "created"]
      /\ call' = [call EXCEPT ![t] = d]
      /\ UNCHANGED <<jobs, load, queueLock, strands, active, phase, walks>>
  BY DEF CreateWorker, In, Become, queueVars
<1>2. w \in Workers /\ phase = "new" /\ May[t] \cap LifeOps # {}
  BY <1>1, CallFields DEF CallOK, LocalsOK, OwnerOK, Starting
<1>3. PICK c \in Call : /\ call' = [call EXCEPT ![t] = c]
                        /\ c.step \in Starting /\ c.at \in Workers /\ c.mark = call[t].mark
  <2>1. CASE w < PoolSize
    <3>1. w + 1 \in Nat /\ w + 1 \in Workers
      BY <1>2, <2>1 DEF Workers
    <3>2. [call[t] EXCEPT !.at = w + 1] \in Call
      BY <3>1, CallFields DEF Call
    <3>3. /\ [call[t] EXCEPT !.at = w + 1].step = "create"
          /\ [call[t] EXCEPT !.at = w + 1].at = w + 1
          /\ [call[t] EXCEPT !.at = w + 1].mark = call[t].mark
      BY <1>1, CallFields DEF Call
    <3>. QED
      BY <1>1, <2>1, <3>1, <3>2, <3>3 DEF Starting
  <2>2. CASE ~(w < PoolSize)
    <3>1. 1 \in Workers
      BY DEF Workers
    <3>2. [call[t] EXCEPT !.step = "await", !.at = 1] \in Call
      <4>1. call[t] \in Call
        BY CallFields
      <4>. QED
        BY <4>1 DEF Call
    <3>3. /\ [call[t] EXCEPT !.step = "await", !.at = 1].step = "await"
          /\ [call[t] EXCEPT !.step = "await", !.at = 1].at = 1
          /\ [call[t] EXCEPT !.step = "await", !.at = 1].mark = call[t].mark
      BY CallFields DEF Call
    <3>. QED
      BY <1>1, <2>2, <3>1, <3>2, <3>3 DEF Starting
  <2>. QED
    BY <2>1, <2>2
<1> HIDE DEF w, d
<1>4. call' \in [Threads -> Call] /\ call'[t] = c /\ \A u \in Threads : u # t => call'[u] = call[u]
  BY <1>3, CallChange DEF IInv
<1>5. /\ life' \in [Workers -> Lives]
      /\ \A v \in Workers : life[v] \notin Gone /\ life'[v] \notin Gone
  <2>1. life \in [Workers -> Lives] /\ "created" \in Lives /\ "created" \notin Gone
    BY DEF IInv, TypeOK, Lives, Gone
  <2>2. \A v \in Workers : life[v] \notin Gone
    BY <1>2 DEF IInv, PoolInv
  <2>. QED
    BY <1>1, <2>1, <2>2
<1>6. TypeOK'
  BY <1>1, <1>4, <1>5 DEF IInv, TypeOK
<1>7. CallInv'
  <2>1. Len(jobs') \in Nat /\ Forward
    BY <1>1, <1>5, JobFields DEF IInv, Forward
  <2>2. CallOK(t, c)'
    BY <1>1, <1>2, <1>3, CallFields DEF CallOK, LocalsOK, BoundOK, PassedOK, OwnerOK, StoppedOK,
                                         Choosing, Starting, Cancelling, Stopping
  <2>. QED
    BY <1>3, <2>1, <2>2, CallInvStep DEF IInv
<1>8. StrandAffinity' /\ OrderInv'
  BY <1>1 DEF IInv, StrandAffinity, OrderInv
<1>9. ThreadInv'
  <2>1. t \notin Workers
    BY <1>2
  <2>. QED
    BY <1>1, <1>4, <1>5, <2>1 DEF IInv, ThreadInv, On, Idle, In, Threads
<1>10. PoolInv'
  <2>1. \A v \in Workers : active[v]
    BY <1>2 DEF IInv, PoolInv
  <2>2. \A i \in DOMAIN jobs : active[jobs[i].worker]
    BY <2>1, JobFields DEF IInv
  <2>. QED
    BY <1>1, <1>2, <1>5, <2>1, <2>2 DEF PoolInv
<1>. QED
  BY <1>6, <1>7, <1>8, <1>9, <1>10 DEF IInv

\* start waits for a worker, and returns after the last.
LEMMA BlockUntilReadyStep ==
  ASSUME IInv, NEW t \in Threads, BlockUntilReady(t)
  PROVE  IInv'
<1>1. /\ call[t].step = "await" /\ UNCHANGED <<load, queueLock>>
      /\ UNCHANGED <<jobs, strands, active, life, walks>>
  BY DEF BlockUntilReady, In, queueVars
<1>2. call[t].at \in Workers /\ May[t] \cap LifeOps # {} /\ phase = "new"
  BY <1>1, CallFields DEF CallOK, LocalsOK, OwnerOK, Starting
<1>3. CASE call[t].at < PoolSize
  <2> DEFINE d == [call[t] EXCEPT !.at = call[t].at + 1]
  <2>1. call' = [call EXCEPT ![t] = d] /\ UNCHANGED <<jobs, poolVars, walks>>
    BY <1>1, <1>3 DEF BlockUntilReady, Become, poolVars
  <2>2. call[t].at + 1 \in Nat /\ call[t].at + 1 \in Workers
    BY <1>2, <1>3 DEF Workers
  <2>3. d \in Call
    <3>1. call[t] \in Call
      BY CallFields
    <3>. QED
      BY <2>2, <3>1 DEF Call
  <2>4. d.step = "await" /\ d.mark = call[t].mark /\ d.at = call[t].at + 1
    BY <1>1, CallFields DEF Call
  <2> HIDE DEF d
  <2>5. CallOK(t, d)
    BY <1>2, <2>2, <2>4, CallFields DEF CallOK, LocalsOK, BoundOK, PassedOK, OwnerOK, StoppedOK,
                                         Choosing, Starting, Cancelling, Stopping
  <2>. QED
    BY <1>1, <2>1, <2>3, <2>5, ContinueStep, CallFields
<1>4. CASE ~(call[t].at < PoolSize)
  <2>1. phase' = "started" /\ call' = [call EXCEPT ![t] = NoCall]
    BY <1>4 DEF BlockUntilReady, Return
  <2>2. /\ call' \in [Threads -> Call] /\ call'[t] = NoCall
        /\ \A u \in Threads : u # t => call'[u] = call[u]
    BY <2>1, NoCallFields, CallChange DEF IInv
  <2>3. TypeOK'
    BY <1>1, <2>1, <2>2 DEF IInv, TypeOK, Phases
  <2>4. CallInv'
    <3>1. \A c : LocalsOK(c)' = LocalsOK(c) /\ BoundOK(c)' = BoundOK(c)
                 /\ PassedOK(c)' = PassedOK(c) /\ StoppedOK(c)' = StoppedOK(c)
      BY <1>1 DEF LocalsOK, BoundOK, PassedOK, StoppedOK
    <3>2. ASSUME NEW u \in Threads, u # t PROVE CallOK(u, call[u])'
      <4>1. call'[u] = call[u] /\ CallOK(u, call[u])
        BY <2>2, <3>2, CallFields
      <4>2. call[u].step \notin Starting
        BY <1>1, <3>2, OneOwner DEF Starting
      <4>. QED
        BY <2>1, <3>1, <4>1, <4>2 DEF CallOK, OwnerOK
    <3>3. CallOK(t, call[t])'
      BY <2>2, <3>1, ReturnedCall, NoCallFields DEF CallOK, OwnerOK, Starting, Stopping
    <3>. QED
      BY <3>2, <3>3 DEF CallInv
  <2>5. StrandAffinity' /\ OrderInv'
    BY <1>1 DEF IInv, StrandAffinity, OrderInv
  <2>6. ThreadInv'
    BY <1>1, <1>2, <2>2 DEF IInv, ThreadInv, On, Idle, In, Threads
  <2>7. PoolInv'
    BY <1>1, <1>2, <2>1 DEF IInv, PoolInv
  <2>. QED
    BY <2>3, <2>4, <2>5, <2>6, <2>7 DEF IInv
<1>. QED
  BY <1>3, <1>4

\* The destructors begin; of the clients, none is in a call.
LEMMA DestroyStep ==
  ASSUME IInv, NEW t \in Threads, Destroy(t)
  PROVE  IInv'
<1>1. Walk(t, "destroy", None, "drain") /\ walks' = walks /\ "destroy" \in LifeOps
  BY DEF Destroy, LifeOps
<1>2. PICK c \in Call :
        /\ c.step = "drain" /\ Enter(t, "destroy", c) /\ CallOK(t, c)
        /\ phase \in {"started", "stopped"} /\ t \in Clients
  BY <1>1, DrainCall
<1>3. /\ call' = [call EXCEPT ![t] = c] /\ call[t].step = "idle"
      /\ UNCHANGED <<jobs, load, queueLock, strands, active, life>>
  BY <1>2 DEF Enter, Become, Idle, In, queueVars
<1>4. phase' = IF phase = "stopped" THEN "destroyed" ELSE "destroyedUnstopped"
  BY DEF Destroy
<1>5. call' \in [Threads -> Call] /\ call'[t] = c /\ \A u \in Threads : u # t => call'[u] = call[u]
  BY <1>3, CallChange DEF IInv
<1>6. TypeOK'
  BY <1>1, <1>3, <1>4, <1>5 DEF IInv, TypeOK, Phases
<1>7. CallInv'
  <2>1. Len(jobs') \in Nat /\ Forward
    BY <1>2, <1>3, <1>4, JobFields DEF IInv, Forward
  <2>2. CallOK(t, c)'
    BY <1>2, <2>1, CallKept DEF IInv
  <2>. QED
    BY <1>3, <2>1, <2>2, CallInvStep DEF IInv
<1>8. StrandAffinity' /\ OrderInv'
  BY <1>3 DEF IInv, StrandAffinity, OrderInv
<1>9. ThreadInv'
  <2>1. t \notin Workers
    BY <1>2
  <2>. QED
    BY <1>3, <1>5, <2>1 DEF IInv, ThreadInv, On, Idle, In, Threads
<1>10. PoolInv'
  BY <1>2, <1>3, <1>4, <1>5 DEF IInv, PoolInv, In
<1>. QED
  BY <1>6, <1>7, <1>8, <1>9, <1>10 DEF IInv

\* The flag of a worker is cleared while nothing is queued on it.
LEMMA StopWorkerStep ==
  ASSUME IInv, NEW t \in Threads, StopWorker(t)
  PROVE  IInv'
<1> DEFINE w == call[t].at
<1>1. /\ call[t].step = "drain" /\ Drained(w)
      /\ active' = [active EXCEPT ![w] = FALSE] /\ Goto(t, "join")
      /\ UNCHANGED <<jobs, load, queueLock, strands, life, phase, walks>>
  BY DEF StopWorker, In, queueVars
<1>2. w \in Workers /\ phase # "new" /\ May[t] \cap LifeOps # {}
  BY <1>1, CallFields DEF CallOK, LocalsOK, OwnerOK, Stopping
<1>3. PICK c \in Call :
           /\ call' = [call EXCEPT ![t] = c]
           /\ c.step = "join" /\ c.name = call[t].name /\ c.strand = call[t].strand
           /\ c.at = w /\ c.best = call[t].best /\ c.mark = call[t].mark
  BY <1>1, GotoCall
<1> HIDE DEF w
<1>4. call' \in [Threads -> Call] /\ call'[t] = c /\ \A u \in Threads : u # t => call'[u] = call[u]
  BY <1>3, CallChange DEF IInv
<1>5. /\ active' \in [Workers -> BOOLEAN] /\ ~active'[w]
      /\ \A v \in Workers : v # w => active'[v] = active[v]
  BY <1>1, <1>2 DEF IInv, TypeOK
<1>6. TypeOK'
  BY <1>1, <1>4, <1>5 DEF IInv, TypeOK
<1>7. CallInv'
  <2>1. Len(jobs') \in Nat /\ Forward
    BY <1>1, <1>2, <1>5, JobFields DEF IInv, Forward
  <2>2. CallOK(t, c)'
    BY <1>1, <1>2, <1>3, <1>5, CallFields DEF CallOK, LocalsOK, BoundOK, PassedOK, OwnerOK,
                                   StoppedOK, Choosing, Starting, Cancelling, Stopping, w
  <2>. QED
    BY <1>3, <2>1, <2>2, CallInvStep DEF IInv
<1>8. StrandAffinity' /\ OrderInv'
  BY <1>1 DEF IInv, StrandAffinity, OrderInv
<1>9. ThreadInv'
  <2>1. t \notin Workers
    BY <1>2
  <2>. QED
    BY <1>1, <1>4, <2>1 DEF IInv, ThreadInv, On, Idle, In, Threads
<1>10. PoolInv'
  <2>1. \A v \in Workers : life[v] \in Gone => ~active'[v]
    BY <1>5 DEF IInv, PoolInv
  <2>2. \A v \in Workers : ~active'[v] =>
          life[v] \in Gone \/ \E u \in Threads : In(u, "join")' /\ call'[u].at = v
    <3> SUFFICES ASSUME NEW v \in Workers, ~active'[v], life[v] \notin Gone
                 PROVE  \E u \in Threads : In(u, "join")' /\ call'[u].at = v
      OBVIOUS
    <3>1. CASE v = w
      BY <1>3, <1>4, <3>1 DEF In
    <3>2. CASE v # w
      <4>1. ~active[v]
        BY <1>5, <3>2
      <4>2. PICK u \in Threads : In(u, "join") /\ call[u].at = v
        BY <4>1 DEF IInv, PoolInv
      <4>3. u # t
        BY <1>1, <4>2 DEF In
      <4>. QED
        BY <1>4, <4>2, <4>3 DEF In
    <3>. QED
      BY <3>1, <3>2
  <2>3. \A i \in DOMAIN jobs :
          ~active'[jobs[i].worker] => jobs[i].late \/ jobs[i].state # "queued"
    <3> SUFFICES ASSUME NEW i \in DOMAIN jobs, ~active'[jobs[i].worker]
                 PROVE  jobs[i].late \/ jobs[i].state # "queued"
      OBVIOUS
    <3>1. CASE jobs[i].worker = w
      BY <1>1, <3>1 DEF Drained, On
    <3>2. CASE jobs[i].worker # w
      <4>1. ~active[jobs[i].worker]
        BY <1>5, <3>2, JobFields DEF IInv
      <4>. QED
        BY <4>1 DEF IInv, PoolInv
    <3>. QED
      BY <3>1, <3>2
  <2>. QED
    BY <1>1, <1>2, <2>1, <2>2, <2>3 DEF IInv, PoolInv
<1>. QED
  BY <1>6, <1>7, <1>8, <1>9, <1>10 DEF IInv

\* The worker stop passes is inactive and its thread has ended.
LEMMA PassedIsGone ==
  ASSUME IInv, NEW t \in Threads, AlreadyStopped(t) \/ Join(t)
  PROVE  /\ call[t].at \in Workers /\ call[t].step \in Stopping /\ Stopped(t)
         /\ life[call[t].at] \in Gone
<1>1. CASE AlreadyStopped(t)
  <2>1. call[t].step = "drain" /\ ~active[call[t].at] /\ Stopped(t)
    BY <1>1 DEF AlreadyStopped, In
  <2>2. call[t].at \in Workers
    BY <2>1, CallFields DEF CallOK, LocalsOK, Stopping
  <2>3. \A u \in Threads : ~(In(u, "join") /\ call[u].at = call[t].at)
    BY <2>1, OneOwner DEF In, Stopping
  <2>. QED
    BY <2>1, <2>2, <2>3 DEF IInv, PoolInv, Stopping
<1>2. CASE Join(t)
  BY <1>2, CallFields DEF Join, In, CallOK, LocalsOK, Stopping, Gone
<1>. QED
  BY <1>1, <1>2

\* A worker whose thread was joined, or was stopped before, is left behind.
LEMMA StoppedStep ==
  ASSUME IInv, NEW t \in Threads, AlreadyStopped(t) \/ Join(t)
  PROVE  IInv'
<1> DEFINE w == call[t].at
<1>1. /\ w \in Workers /\ call[t].step \in Stopping /\ life[w] \in Gone
      /\ life' = IF Destroying THEN [life EXCEPT ![w] = "freed"] ELSE life
      /\ phase' = IF w = PoolSize /\ ~Destroying THEN "stopped" ELSE phase
      /\ NextWorker(t, "drain")
      /\ UNCHANGED <<jobs, load, queueLock, strands, active, walks>>
  BY PassedIsGone DEF Stopped, queueVars
<1>2. phase # "new" /\ May[t] \cap LifeOps # {} /\ (\A v \in Workers : v < w => life[v] \in Gone)
  BY <1>1, CallFields DEF CallOK, OwnerOK, StoppedOK
<1>3. PICK c \in Call :
        /\ call' = [call EXCEPT ![t] = c]
        /\ \/ /\ c.step = "drain" /\ c.name = call[t].name /\ c.mark = call[t].mark
              /\ c.at = w + 1 /\ c.at \in Workers
           \/ c = NoCall /\ w = PoolSize
  BY <1>1, NextWorkerCall
<1> HIDE DEF w
<1>4. call' \in [Threads -> Call] /\ call'[t] = c /\ \A u \in Threads : u # t => call'[u] = call[u]
  BY <1>3, CallChange DEF IInv
<1>5. /\ life' \in [Workers -> Lives] /\ \A v \in Workers : life'[v] \in Gone <=> life[v] \in Gone
  BY <1>1 DEF IInv, TypeOK, Lives, Gone
<1>6. phase' \in Phases /\ phase' # "new"
  BY <1>1, <1>2 DEF IInv, TypeOK, Phases
<1>7. TypeOK'
  BY <1>1, <1>4, <1>5, <1>6 DEF IInv, TypeOK
<1>8. CallInv'
  <2>1. Len(jobs') \in Nat /\ Forward
    BY <1>1, <1>2, <1>5, <1>6, JobFields DEF IInv, Forward
  <2>2. ASSUME c = NoCall PROVE CallOK(t, c)'
    BY <2>1, <2>2, NoCallFields DEF CallOK, LocalsOK, BoundOK, PassedOK, OwnerOK, StoppedOK,
                                    Choosing, Starting, Cancelling, Stopping
  <2>3. ASSUME c # NoCall PROVE CallOK(t, c)'
    <3>1. c.step = "drain" /\ c.mark = call[t].mark /\ c.at = w + 1 /\ c.at \in Workers
      BY <1>3, <2>3
    <3>2. \A v \in Workers : v < c.at => life'[v] \in Gone
      BY <1>1, <1>2, <1>5, <3>1 DEF Workers
    <3>. QED
      BY <1>1, <1>2, <1>6, <3>1, <3>2, CallFields
         DEF CallOK, LocalsOK, BoundOK, PassedOK, OwnerOK, StoppedOK,
             Choosing, Starting, Cancelling, Stopping
  <2>. QED
    BY <1>3, <2>1, <2>2, <2>3, CallInvStep DEF IInv
<1>9. StrandAffinity' /\ OrderInv'
  BY <1>1 DEF IInv, StrandAffinity, OrderInv
<1>10. ThreadInv'
  <2>1. t \notin Workers
    BY <1>2
  <2>. QED
    BY <1>1, <1>4, <1>5, <2>1 DEF IInv, ThreadInv, On, Idle, In, Threads
<1>11. PoolInv'
  <2>1. \A v \in Workers : ~active[v] =>
          life'[v] \in Gone \/ \E u \in Threads : In(u, "join")' /\ call'[u].at = v
    <3> SUFFICES ASSUME NEW v \in Workers, ~active[v], life[v] \notin Gone
                 PROVE  \E u \in Threads : In(u, "join")' /\ call'[u].at = v
      BY <1>5
    <3>1. PICK u \in Threads : In(u, "join") /\ call[u].at = v
      BY DEF IInv, PoolInv
    <3>2. u # t
      BY <1>1, <3>1 DEF w
    <3>. QED
      BY <1>4, <3>1, <3>2 DEF In
  <2>2. phase' \in {"stopped", "destroyed"} => \A v \in Workers : life'[v] \in Gone
    <3>1. CASE w = PoolSize
      BY <1>1, <1>2, <1>5, <3>1 DEF Workers
    <3>2. CASE w # PoolSize
      BY <1>1, <1>5, <3>2 DEF IInv, PoolInv
    <3>. QED
      BY <3>1, <3>2
  <2>. QED
    BY <1>1, <1>5, <1>6, <2>1, <2>2 DEF IInv, PoolInv
<1>. QED
  BY <1>7, <1>8, <1>9, <1>10, <1>11 DEF IInv

\* A thread begins to run.
LEMMA BecomeReadyStep ==
  ASSUME IInv, NEW w \in Workers, BecomeReady(w)
  PROVE  IInv'
<1>1. /\ life[w] = "created" /\ life' = [life EXCEPT ![w] = "ready"]
      /\ UNCHANGED <<jobs, load, queueLock, strands, active, phase, call, walks>>
  BY DEF BecomeReady, queueVars
<1>2. life' \in [Workers -> Lives] /\ \A v \in Workers : life'[v] \in Gone <=> life[v] \in Gone
  BY <1>1 DEF IInv, TypeOK, Lives, Gone
<1>3. TypeOK'
  BY <1>1, <1>2 DEF IInv, TypeOK
<1>4. CallInv'
  <2>1. Len(jobs') \in Nat /\ Forward
    BY <1>1, <1>2, JobFields DEF IInv, Forward
  <2>. QED
    BY <1>1, <2>1, CallInvKept DEF IInv
<1>5. StrandAffinity' /\ OrderInv' /\ ThreadInv' /\ PoolInv'
  BY <1>1, <1>2 DEF IInv, StrandAffinity, OrderInv, ThreadInv, PoolInv, On, Idle, In
<1>. QED
  BY <1>3, <1>4, <1>5 DEF IInv

\* A thread ends between two jobs.
LEMMA ExitStep ==
  ASSUME IInv, NEW w \in Workers, Exit(w)
  PROVE  IInv'
<1>1. /\ life[w] = "ready" /\ On(w, {"taken", "running"}) = {} /\ ~active[w]
      /\ life' = [life EXCEPT ![w] = "exited"]
      /\ UNCHANGED <<jobs, load, queueLock, strands, active, phase, call, walks>>
  BY DEF Exit, Between, queueVars
<1>2. /\ life' \in [Workers -> Lives] /\ life'[w] \in Gone
      /\ \A v \in Workers : v # w => life'[v] = life[v]
  BY <1>1 DEF IInv, TypeOK, Lives, Gone
<1>3. TypeOK'
  BY <1>1, <1>2 DEF IInv, TypeOK
<1>4. CallInv'
  <2>1. Len(jobs') \in Nat /\ Forward
    BY <1>1, <1>2, JobFields DEF IInv, Forward
  <2>. QED
    BY <1>1, <2>1, CallInvKept DEF IInv
<1>5. StrandAffinity' /\ OrderInv'
  BY <1>1 DEF IInv, StrandAffinity, OrderInv
<1>6. ThreadInv'
  BY <1>1, <1>2 DEF IInv, ThreadInv, On, Idle, In
<1>7. PoolInv'
  BY <1>1, <1>2 DEF IInv, PoolInv, In
<1>. QED
  BY <1>3, <1>4, <1>5, <1>6, <1>7 DEF IInv

\* Initially there is no pool, no job and no call.
LEMMA InitInv == Init => IInv
<1> SUFFICES ASSUME Init PROVE IInv
  OBVIOUS
<1>1. jobs \in Seq(Job) /\ Len(jobs) = 0 /\ DOMAIN jobs = {}
  BY EmptySeq DEF Init
<1>2. TypeOK
  <2>1. load \in [Workers -> 0..(LoadMod - 1)]
    <3>1. 0 \in 0..(LoadMod - 1)
      OBVIOUS
    <3>. QED
      BY <3>1 DEF Init
  <2>2. call \in [Threads -> Call] /\ walks \in Nat
    BY NoCallFields DEF Init
  <2>3. active \in [Workers -> BOOLEAN] /\ life \in [Workers -> Lives] /\ phase \in Phases
    BY DEF Init, Lives, Phases
  <2>4. queueLock \in [Workers -> Threads \cup {None}] /\ strands \in [Strands -> Workers \cup {None}]
    BY DEF Init
  <2>. QED
    BY <1>1, <2>1, <2>2, <2>3, <2>4 DEF TypeOK
<1>3. \A t \in Threads : call[t].step = "idle" /\ call[t].mark = 0
  BY NoCallFields DEF Init
<1>4. CallInv
  BY <1>1, <1>3 DEF CallInv, CallOK, LocalsOK, BoundOK, PassedOK, OwnerOK, StoppedOK,
                    Choosing, Starting, Cancelling, Stopping
<1>5. StrandAffinity /\ OrderInv
  BY <1>1 DEF StrandAffinity, OrderInv
<1>6. ThreadInv
  BY <1>3 DEF Init, ThreadInv, Gone, Idle, In, Threads
<1>7. PoolInv
  BY <1>1 DEF Init, PoolInv, Gone
<1>. QED
  BY <1>2, <1>4, <1>5, <1>6, <1>7 DEF IInv

\* Every step preserves the invariant.
LEMMA NextInv == IInv /\ [Next]_vars => IInv'
<1> SUFFICES ASSUME IInv, [Next]_vars PROVE IInv'
  OBVIOUS
<1>1. ASSUME NEW t \in Threads, Begin(t) PROVE IInv'
  BY <1>1, ScheduleJobStep, CancelJobsForStep, StartStep, StopStep, DestroyStep DEF Begin
<1>2. ASSUME NEW t \in Threads, Continue(t) PROVE IInv'
  BY <1>2, CreateWorkerStep, BlockUntilReadyStep, ReadLoadStep, CompareLoadStep,
     GetWorkerForScheduleStep, GetStrandWorkerForScheduleStep, PushStep, CountStep,
     WaitForDoneStep, CancelLockStep, CancelPassStep, CancelEraseStep, StopWorkerStep,
     StoppedStep DEF Continue
<1>3. ASSUME NEW w \in Workers, Run(w) PROVE IInv'
  BY <1>3, BecomeReadyStep, TakeStep, BeginExecutingStep, EndExecutingStep, ExitStep DEF Run
<1>4. CASE UNCHANGED vars
  <2>1. UNCHANGED <<jobs, load, queueLock, strands, active, life, phase, call, walks>>
    BY <1>4 DEF vars, queueVars, poolVars
  <2>2. TypeOK' /\ StrandAffinity' /\ OrderInv' /\ ThreadInv' /\ PoolInv'
    BY <2>1 DEF IInv, TypeOK, StrandAffinity, OrderInv, ThreadInv, PoolInv, On, Idle, In
  <2>3. CallInv'
    <3>1. Len(jobs') \in Nat /\ Forward
      BY <2>1, JobFields DEF IInv, Forward
    <3>. QED
      BY <2>1, <3>1, CallInvKept DEF IInv
  <2>. QED
    BY <2>2, <2>3 DEF IInv
<1>5. CASE AtRest
  BY <1>4, <1>5 DEF AtRest
<1>. QED
  BY <1>1, <1>2, <1>3, <1>4, <1>5 DEF Next

-----------------------------------------------------------------------------
\* The inductive invariant holds in every reachable state.
THEOREM PoolInvariant == Spec => []IInv
<1>. QED
  BY InitInv, NextInv, PTL DEF Spec

\* Every variable of the pool has its type; in particular no counter of
\* outstanding jobs leaves the range of its type.
THEOREM PoolTypeCorrect == Spec => []TypeOK
<1>1. IInv => TypeOK
  BY DEF IInv
<1>. QED
  BY <1>1, PoolInvariant, PTL

\* Every job of a strand is on the worker the strand is bound to, however the first
\* calls of the strand interleave.
THEOREM StrandsKeepTheirWorker == Spec => []StrandAffinity
<1>1. IInv => StrandAffinity
  BY DEF IInv
<1>. QED
  BY <1>1, PoolInvariant, PTL

\* The jobs of a strand run one after the other in the order of their acceptance.
THEOREM StrandsAreSequential == Spec => []StrandSequential
<1>1. IInv => StrandSequential
  BY DEF IInv, StrandAffinity, OrderInv, StrandSequential
<1>. QED
  BY <1>1, PoolInvariant, PTL

\* After stop no code of a job runs on any worker, nor after the destruction of a
\* scheduler that was stopped.
THEOREM PoolIsQuietAfterStop == Spec => []QuietAfterStop
<1>1. ASSUME IInv PROVE QuietAfterStop
  <2> SUFFICES ASSUME phase \in {"stopped", "destroyed"}, NEW w \in Workers
               PROVE  On(w, {"taken", "running"}) = {} /\ Idle(w)
    BY DEF QuietAfterStop
  <2>1. life[w] \in Gone
    BY <1>1 DEF IInv, PoolInv
  <2>2. On(w, {"taken", "running"}) = {}
    BY <1>1, <2>1 DEF IInv, ThreadInv
  <2>3. On(w, {"running"}) = {}
    BY <2>2 DEF On
  <2>. QED
    BY <1>1, <2>2, <2>3 DEF IInv, ThreadInv
<1>. QED
  BY <1>1, PoolInvariant, PTL

-----------------------------------------------------------------------------
\* A step that changes the call of t is a step of t.
LEMMA StepOfItsThread ==
  ASSUME IInv, [Next]_vars, NEW t \in Threads, call'[t] # call[t]
  PROVE  Begin(t) \/ Continue(t)
<1>1. ASSUME NEW u \in Threads, Begin(u), u # t PROVE FALSE
  BY <1>1 DEF Begin, ScheduleJob, CancelJobsFor, Start, Stop, Destroy, Walk, Enter, Become,
              IInv, TypeOK
<1>2. ASSUME NEW u \in Threads, Continue(u), u # t PROVE FALSE
  BY <1>2 DEF Continue, CreateWorker, BlockUntilReady, ReadLoad, CompareLoad,
              GetWorkerForSchedule, GetStrandWorkerForSchedule, Push, Count, WaitForDone,
              CancelLock, CancelPass, CancelErase, StopWorker, AlreadyStopped, Join, Stopped,
              NextWorker, Become, Goto, Return, IInv, TypeOK
<1>3. \A w \in Workers : ~Run(w)
  BY DEF Run, BecomeReady, Take, BeginExecuting, EndExecuting, Exit
<1>4. ~(UNCHANGED vars) /\ ~AtRest
  BY DEF AtRest, vars
<1>. QED
  BY <1>1, <1>2, <1>3, <1>4 DEF Next

\* cancelJobsFor returns only from the last worker, with every job accepted before
\* the call gone from the queues.
THEOREM CancellationReachesAllWorkers == Spec => CancelReachesAllWorkers
<1>1. ASSUME IInv, [Next]_vars, NEW t \in Threads, In(t, "erase"), call'[t] = NoCall,
             NEW i \in 1..call[t].mark
      PROVE  jobs'[i].state # "queued"
  <2>1. call'[t] # call[t] /\ call[t].step = "erase"
    BY <1>1, NoCallFields DEF In
  <2>2. CancelErase(t)
    <3>1. Begin(t) \/ Continue(t)
      BY <1>1, <2>1, StepOfItsThread
    <3>2. ~Begin(t)
      BY <2>1 DEF Begin, ScheduleJob, CancelJobsFor, Start, Stop, Destroy, Walk, Enter, Idle, In
    <3>. QED
      BY <2>1, <3>1, <3>2 DEF Continue, CreateWorker, BlockUntilReady, ReadLoad, CompareLoad,
              GetWorkerForSchedule, GetStrandWorkerForSchedule, Push, Count, WaitForDone,
              CancelLock, CancelPass, StopWorker, AlreadyStopped, Join, In
  <2>3. call[t].at \in Workers
    BY <1>1, <2>1, CallFields DEF CallOK, LocalsOK, Cancelling
  <2>4. call[t].at = PoolSize
    BY <1>1, <2>2, <2>3, NextWorkerCall, NoCallFields, CallFields DEF CancelErase, IInv, TypeOK
  <2>5. i \in DOMAIN jobs /\ jobs[i].worker \in Workers
    BY <1>1, MarkedJobs
  <2>6. jobs'[i].state = IF i \in On(PoolSize, {"queued"}) THEN "cancelled" ELSE jobs[i].state
    BY <1>1, <2>2, <2>4, <2>5, SetStateEffect DEF CancelErase, IInv, JobStates
  <2>7. CASE jobs[i].worker = PoolSize
    BY <2>5, <2>6, <2>7 DEF On
  <2>8. CASE jobs[i].worker # PoolSize
    <3>1. jobs[i].worker < PoolSize
      BY <2>5, <2>8 DEF Workers
    <3>2. jobs[i].state # "queued"
      BY <1>1, <2>1, <2>4, <3>1, CallFields DEF CallOK, PassedOK, Cancelling
    <3>. QED
      BY <2>6, <3>2
  <2>. QED
    BY <2>7, <2>8
<1>2. IInv /\ [Next]_vars => [\A t \in Threads :
        In(t, "erase") /\ call'[t] = NoCall =>
          \A i \in 1..call[t].mark : jobs[i].name = call[t].name => jobs'[i].state # "queued"]_vars
  BY <1>1
<1>. QED
  BY <1>2, PoolInvariant, PTL DEF Spec, CancelReachesAllWorkers

\* stop and the destruction return only when every job accepted before them has been
\* run or was cancelled, on every worker.
THEOREM StopDrainsAllWorkers == Spec => StopDrainsThePool
<1>1. ASSUME IInv, [Next]_vars, NEW t \in Threads, call[t].step \in Stopping, call'[t] = NoCall,
             NEW i \in 1..call[t].mark, ~jobs[i].late
      PROVE  jobs'[i].state \in {"done", "cancelled"}
  <2>1. call'[t] # call[t]
    BY <1>1, NoCallFields DEF Stopping
  <2>2. AlreadyStopped(t) \/ Join(t)
    <3>1. Begin(t) \/ Continue(t)
      BY <1>1, <2>1, StepOfItsThread
    <3>2. ~Begin(t)
      BY <1>1 DEF Begin, ScheduleJob, CancelJobsFor, Start, Stop, Destroy, Walk, Enter, Idle, In,
                  Stopping
    <3>3. ~StopWorker(t)
      BY <1>1, GotoCall, NoCallFields DEF StopWorker, IInv, TypeOK
    <3>. QED
      BY <1>1, <3>1, <3>2, <3>3 DEF Continue, CreateWorker, BlockUntilReady, ReadLoad,
              CompareLoad, GetWorkerForSchedule, GetStrandWorkerForSchedule, Push, Count,
              WaitForDone, CancelLock, CancelPass, CancelErase, In, Stopping
  <2>3. /\ call[t].at \in Workers /\ life[call[t].at] \in Gone /\ jobs' = jobs
        /\ NextWorker(t, "drain")
    BY <1>1, <2>2, PassedIsGone DEF Stopped, queueVars
  <2>4. call[t].at = PoolSize
    BY <1>1, <2>3, NextWorkerCall, NoCallFields, CallFields DEF IInv, TypeOK
  <2>5. i \in DOMAIN jobs /\ jobs[i].worker \in Workers /\ jobs[i].state \in JobStates
    BY <1>1, MarkedJobs
  <2>6. life[jobs[i].worker] \in Gone
    BY <1>1, <2>3, <2>4, <2>5, CallFields DEF CallOK, StoppedOK, Workers
  <2>7. ~active[jobs[i].worker]
    BY <1>1, <2>5, <2>6 DEF IInv, PoolInv
  <2>8. jobs[i].state # "queued"
    BY <1>1, <2>5, <2>7 DEF IInv, PoolInv
  <2>9. jobs[i].state \notin {"taken", "running"}
    BY <1>1, <2>5, <2>6 DEF IInv, ThreadInv, On
  <2>. QED
    BY <2>3, <2>5, <2>8, <2>9 DEF JobStates
<1>2. IInv /\ [Next]_vars => [\A t \in Threads :
        call[t].step \in {"drain", "join"} /\ call'[t] = NoCall =>
          \A i \in 1..call[t].mark : jobs[i].late \/ jobs'[i].state \in {"done", "cancelled"}]_vars
  BY <1>1 DEF Stopping
<1>. QED
  BY <1>2, PoolInvariant, PTL DEF Spec, StopDrainsThePool

=============================================================================
