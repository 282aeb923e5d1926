---------------------- MODULE AsyncDispatcherRefinement ----------------------
(***************************************************************************)
(* Each worker of the pool implements the abstract JobQueue, proved from   *)
(* the inductive invariant of AsyncDispatcherProofs.  A job's number in    *)
(* its worker's queue is its rank among the jobs pushed to that worker.    *)
(***************************************************************************)
EXTENDS AsyncDispatcherProofs, FiniteSetTheorems

\* The jobs pushed to worker w, and the number i has among them.
Accepted(w) == On(w, JobStates)
RankIn(A, i) == Cardinality({j \in A : j <= i})

\* Ranks are positive, at most the number of jobs, and grow with the jobs.
LEMMA RankProperties ==
  ASSUME NEW n \in Nat, NEW A \in SUBSET (1..n)
  PROVE  /\ IsFiniteSet(A) /\ Cardinality(A) \in Nat
         /\ \A i \in A : RankIn(A, i) \in Nat
         /\ \A i, k \in A : i < k => RankIn(A, i) < RankIn(A, k)
<1>1. IsFiniteSet(1..n)
  BY FS_Interval
<1>2. \A B \in SUBSET A : IsFiniteSet(B) /\ Cardinality(B) \in Nat
  BY <1>1, FS_Subset, FS_CardinalityType
<1>3. \A i : {j \in A : j <= i} \in SUBSET A
  OBVIOUS
<1>4. \A i \in A : RankIn(A, i) \in Nat
  BY <1>2, <1>3 DEF RankIn
<1>5. ASSUME NEW i \in A, NEW k \in A, i < k PROVE RankIn(A, i) < RankIn(A, k)
  <2> DEFINE B == {j \in A : j <= i}
             C == {j \in A : j <= k}
  <2>1. k \in C /\ k \notin B /\ B \subseteq C
    <3>1. \A j \in A : j \in Nat
      OBVIOUS
    <3>2. k <= k /\ ~(k <= i) /\ \A j \in A : j <= i => j <= k
      BY <1>5, <3>1
    <3>. QED
      BY <3>2
  <2>2. IsFiniteSet(C) /\ Cardinality(B) \in Nat /\ Cardinality(C) \in Nat
    BY <1>2
  <2>3. RankIn(A, i) = Cardinality(B) /\ RankIn(A, k) = Cardinality(C)
    BY DEF RankIn
  <2> HIDE DEF B, C
  <2>4. IsFiniteSet(C \ {k}) /\ Cardinality(C \ {k}) = Cardinality(C) - 1
    BY <2>1, <2>2, FS_RemoveElement
  <2>5. Cardinality(B) <= Cardinality(C \ {k})
    BY <2>1, <2>4, FS_Subset
  <2>. QED
    BY <2>2, <2>3, <2>4, <2>5
<1>. QED
  BY <1>2, <1>4, <1>5

\* The jobs on a worker, with their ranks.
LEMMA RanksOfWorker ==
  ASSUME TypeOK, NEW w \in Workers
  PROVE  /\ Accepted(w) \in SUBSET (1..Len(jobs)) /\ Len(jobs) \in Nat
         /\ \A S \in SUBSET JobStates : On(w, S) \subseteq Accepted(w)
         /\ \A i \in Accepted(w) : i \in DOMAIN jobs /\ Rank(i) = RankIn(Accepted(w), i)
         /\ \A i \in Accepted(w) : Rank(i) \in Nat
         /\ \A i, k \in Accepted(w) : i < k => Rank(i) < Rank(k)
<1>1. Accepted(w) \in SUBSET (1..Len(jobs)) /\ Len(jobs) \in Nat
  BY JobFields DEF Accepted, On
<1>2. \A S \in SUBSET JobStates : On(w, S) \subseteq Accepted(w)
  BY DEF Accepted, On
<1>3. \A i \in Accepted(w) : i \in DOMAIN jobs /\ Rank(i) = RankIn(Accepted(w), i)
  BY DEF Accepted, On, Rank, RankIn
<1>. QED
  BY <1>1, <1>2, <1>3, RankProperties

\* A job has one rank, and no other job of its worker has the same.
LEMMA RanksDiffer ==
  ASSUME TypeOK, NEW w \in Workers, NEW i \in Accepted(w), NEW k \in Accepted(w)
  PROVE  /\ Rank(i) = Rank(k) => i = k
         /\ i <= k => Rank(i) <= Rank(k)
<1>1. i \in Nat /\ k \in Nat
  BY RanksOfWorker
<1>. QED
  BY <1>1, RanksOfWorker

\* Five steps change a job; every other step leaves all of them alone.
LEMMA JobsChange ==
  ASSUME [Next]_vars
  PROVE  \/ jobs' = jobs
         \/ \E t \in Threads : Push(t) \/ CancelErase(t)
         \/ \E w \in Workers : Take(w) \/ BeginExecuting(w) \/ EndExecuting(w)
<1>1. ASSUME UNCHANGED vars \/ AtRest PROVE jobs' = jobs
  BY <1>1 DEF vars, queueVars, AtRest
<1>2. ASSUME NEW t \in Threads, Begin(t) PROVE jobs' = jobs
  BY <1>2 DEF Begin, ScheduleJob, CancelJobsFor, Start, Stop, Destroy, Walk, Enter, queueVars
<1>3. ASSUME NEW t \in Threads, Continue(t) PROVE jobs' = jobs \/ Push(t) \/ CancelErase(t)
  BY <1>3 DEF Continue, CreateWorker, BlockUntilReady, ReadLoad, CompareLoad,
              GetWorkerForSchedule, GetStrandWorkerForSchedule, Count, WaitForDone,
              CancelLock, CancelPass, StopWorker, AlreadyStopped, Join, Stopped, queueVars
<1>4. ASSUME NEW w \in Workers, Run(w)
      PROVE  jobs' = jobs \/ Take(w) \/ BeginExecuting(w) \/ EndExecuting(w)
  BY <1>4 DEF Run, BecomeReady, Exit, queueVars
<1>. QED
  BY <1>1, <1>2, <1>3, <1>4 DEF Next

-----------------------------------------------------------------------------
\* A worker whose jobs keep their states and ranks is the same queue as before.
LEMMA QueueUnchanged ==
  ASSUME NEW w \in Workers, \A S : On(w, S)' = On(w, S), \A i \in DOMAIN jobs : Rank(i)' = Rank(i)
  PROVE  UNCHANGED Queue(w)!vars
<1>1. \A S : On(w, S) \subseteq DOMAIN jobs
  BY DEF On
<1>2. \A S : Ranks(w, S)' = Ranks(w, S)
  BY <1>1 DEF Ranks
<1>. QED
  BY <1>2 DEF Queue!vars

\* Changing the states of jobs changes neither the jobs of a worker nor their ranks.
LEMMA RanksKept ==
  ASSUME TypeOK, DOMAIN jobs' = DOMAIN jobs,
         \A i \in DOMAIN jobs :
           jobs'[i].worker = jobs[i].worker /\ jobs'[i].state \in JobStates
  PROVE  /\ \A w \in Workers : Accepted(w)' = Accepted(w)
         /\ \A i \in DOMAIN jobs : Rank(i)' = Rank(i)
<1>1. \A w \in Workers : On(w, JobStates)' = On(w, JobStates)
  BY JobFields DEF On
<1>2. \A i \in DOMAIN jobs : jobs[i].worker \in Workers
  BY JobFields
<1>. QED
  BY <1>1, <1>2 DEF Accepted, Rank

-----------------------------------------------------------------------------
(* Each of the five steps is a step of the queue of its worker, and changes *)
(* nothing in the queues of the others.                                     *)

\* A push posts a job to the queue of the worker chosen, and to no other.
LEMMA PushRefines ==
  ASSUME IInv, NEW t \in Threads, Push(t), NEW w \in Workers
  PROVE  Queue(w)!Next \/ UNCHANGED Queue(w)!vars
<1>1. PICK b \in Nat, n \in Nat : b = call[t].best /\ n = Len(jobs)
  BY CallFields, JobFields DEF IInv
<1>2. /\ DOMAIN jobs = 1..n /\ DOMAIN jobs' = 1..(n + 1)
      /\ \A i \in 1..n : jobs'[i] = jobs[i] /\ jobs[i].worker \in Workers
      /\ jobs'[n + 1].worker = b /\ jobs'[n + 1].state = "queued"
  BY <1>1, JobFields, PushEffect DEF IInv
<1>3. \A v \in Workers : v # b => \A S : On(v, S)' = On(v, S)
  BY <1>2 DEF On
<1>4. ASSUME NEW S
      PROVE  /\ "queued" \in S => On(b, S)' = On(b, S) \cup {n + 1}
             /\ "queued" \notin S => On(b, S)' = On(b, S)
  <2>1. 1..(n + 1) = 1..n \cup {n + 1} /\ n + 1 \notin 1..n
    BY <1>2
  <2>. QED
    BY <1>2, <2>1 DEF On
<1>5. \A i \in DOMAIN jobs : Rank(i)' = Rank(i)
  <2> SUFFICES ASSUME NEW i \in 1..n PROVE Rank(i)' = Rank(i)
    BY <1>2
  <2>1. jobs'[i].worker = jobs[i].worker /\ jobs[i].worker \in Workers /\ ~(n + 1 <= i)
    BY <1>2
  <2>2. {j \in On(jobs[i].worker, JobStates)' : j <= i} =
          {j \in On(jobs[i].worker, JobStates) : j <= i}
    BY <1>3, <1>4, <2>1
  <2>. QED
    BY <2>1, <2>2 DEF Rank
<1>6. CASE w # b
  BY <1>3, <1>5, <1>6, QueueUnchanged
<1>7. CASE w = b
  <2>1. /\ Accepted(w) \in SUBSET (1..n) /\ IsFiniteSet(Accepted(w))
        /\ Cardinality(Accepted(w)) \in Nat
    BY <1>1, RanksOfWorker, RankProperties DEF IInv
  <2>2. n + 1 \notin Accepted(w) /\ Accepted(w)' = Accepted(w) \cup {n + 1}
    BY <1>2, <1>4, <1>7, <2>1 DEF Accepted, JobStates
  <2>3. Cardinality(On(w, JobStates)') = Cardinality(On(w, JobStates)) + 1
    BY <2>1, <2>2, FS_AddElement DEF Accepted
  <2>4. Rank(n + 1)' = Cardinality(On(w, JobStates)')
    <3>1. {j \in On(w, JobStates)' : j <= n + 1} = On(w, JobStates)'
      BY <1>2 DEF On
    <3>. QED
      BY <1>2, <1>7, <3>1 DEF Rank
  <2>5. \A S : On(w, S) \subseteq DOMAIN jobs
    BY DEF On
  <2>6. ASSUME NEW S, "queued" \notin S PROVE Ranks(w, S)' = Ranks(w, S)
    <3>1. On(w, S)' = On(w, S)
      BY <1>4, <1>7, <2>6
    <3>. QED
      BY <1>5, <2>5, <3>1 DEF Ranks
  <2>7. Ranks(w, {"queued"})' = Ranks(w, {"queued"}) \cup {Rank(n + 1)'}
    <3>1. On(w, {"queued"})' = On(w, {"queued"}) \cup {n + 1}
      BY <1>4, <1>7
    <3>. QED
      BY <1>5, <2>5, <3>1 DEF Ranks
  <2>. QED
    BY <2>3, <2>4, <2>6, <2>7 DEF Queue!Next, Queue!Post
<1>. QED
  BY <1>6, <1>7

\* The effect on the queue of worker w when the jobs in I go from one state to another.
LEMMA StatesRefine ==
  ASSUME TypeOK, NEW I, NEW s \in JobStates, SetState(I, s), NEW w \in Workers
  PROVE  /\ On(w, JobStates)' = On(w, JobStates)
         /\ \A i \in DOMAIN jobs : Rank(i)' = Rank(i)
         /\ \A S : s \in S => On(w, S)' = On(w, S) \cup (Accepted(w) \cap I)
         /\ \A S : s \notin S => On(w, S)' = On(w, S) \ I
<1>1. /\ DOMAIN jobs' = DOMAIN jobs
      /\ \A i \in DOMAIN jobs :
           /\ jobs'[i].worker = jobs[i].worker
           /\ jobs'[i].state = IF i \in I THEN s ELSE jobs[i].state
           /\ jobs[i].state \in JobStates
  BY SetStateEffect, JobFields
<1>2. \A i \in DOMAIN jobs : jobs'[i].state \in JobStates
  BY <1>1
<1>3. /\ On(w, JobStates)' = On(w, JobStates)
      /\ \A i \in DOMAIN jobs : Rank(i)' = Rank(i)
  BY <1>1, <1>2, RanksKept DEF Accepted
<1>4. ASSUME NEW S, s \in S PROVE On(w, S)' = On(w, S) \cup (Accepted(w) \cap I)
  BY <1>1, <1>4 DEF On, Accepted
<1>5. ASSUME NEW S, s \notin S PROVE On(w, S)' = On(w, S) \ I
  BY <1>1, <1>5 DEF On
<1>. QED
  BY <1>3, <1>4, <1>5

\* The queue of a worker none of whose jobs changes its state.
LEMMA OtherQueueUnchanged ==
  ASSUME IInv, NEW v \in Workers, NEW S, NEW s \in JobStates, SetState(On(v, S), s),
         NEW w \in Workers, w # v
  PROVE  UNCHANGED Queue(w)!vars
<1>1. \A T : On(w, T) \cap On(v, S) = {} /\ Accepted(w) \cap On(v, S) = {}
  BY DEF On, Accepted
<1>2. ASSUME NEW T PROVE On(w, T)' = On(w, T)
  <2>1. /\ s \in T => On(w, T)' = On(w, T) \cup (Accepted(w) \cap On(v, S))
        /\ s \notin T => On(w, T)' = On(w, T) \ On(v, S)
    BY StatesRefine DEF IInv
  <2>. QED
    BY <1>1, <2>1
<1>. QED
  BY <1>2, StatesRefine, QueueUnchanged DEF IInv

\* An erase drops what waits on that worker.
LEMMA EraseRefines ==
  ASSUME IInv, NEW t \in Threads, CancelErase(t), NEW w \in Workers
  PROVE  Queue(w)!Next \/ UNCHANGED Queue(w)!vars
<1> DEFINE v == call[t].at
<1>1. v \in Workers /\ SetState(On(v, {"queued"}), "cancelled") /\ "cancelled" \in JobStates
  BY CallFields DEF CancelErase, In, CallOK, LocalsOK, Cancelling, JobStates
<1> HIDE DEF v
<1>2. CASE w # v
  BY <1>1, <1>2, OtherQueueUnchanged
<1>3. CASE w = v
  <2> DEFINE Q == On(w, {"queued"})
  <2>1. /\ On(w, JobStates)' = On(w, JobStates)
        /\ \A i \in DOMAIN jobs : Rank(i)' = Rank(i)
        /\ On(w, {"queued"})' = {}
        /\ On(w, {"taken", "running"})' = On(w, {"taken", "running"})
        /\ On(w, {"done"})' = On(w, {"done"})
        /\ On(w, {"cancelled"})' = On(w, {"cancelled"}) \cup Q
    <3>1. Accepted(w) \cap Q = Q
      BY DEF Accepted, On, JobStates
    <3>2. \A S : "queued" \notin S => On(w, S) \ Q = On(w, S)
      BY DEF On
    <3>3. /\ \A S : "cancelled" \in S => On(w, S)' = On(w, S) \cup Q
          /\ \A S : "cancelled" \notin S => On(w, S)' = On(w, S) \ Q
      BY <1>1, <1>3, <3>1, StatesRefine DEF IInv
    <3> HIDE DEF Q
    <3>4. On(w, {"queued"})' = {}
      BY <3>3 DEF Q
    <3>. QED
      BY <1>1, <1>3, <3>2, <3>3, <3>4, StatesRefine DEF IInv, Q
  <2>2. \A S : On(w, S) \subseteq DOMAIN jobs
    BY DEF On
  <2>3. /\ Ranks(w, {"queued"})' = Ranks(w, {"queued"}) \ Ranks(w, {"queued"})
        /\ Ranks(w, {"taken", "running"})' = Ranks(w, {"taken", "running"})
        /\ Ranks(w, {"done"})' = Ranks(w, {"done"})
        /\ Ranks(w, {"cancelled"})' = Ranks(w, {"cancelled"}) \cup Ranks(w, {"queued"})
    BY <2>1, <2>2 DEF Ranks
  <2>. QED
    BY <2>1, <2>3 DEF Queue!Next, Queue!Drop
<1>. QED
  BY <1>2, <1>3

\* Taking a job starts the oldest that waits on that worker.
LEMMA TakeRefines ==
  ASSUME IInv, NEW v \in Workers, Take(v), NEW w \in Workers
  PROVE  Queue(w)!Next \/ UNCHANGED Queue(w)!vars
<1>1. /\ On(v, {"taken", "running"}) = {} /\ On(v, {"queued"}) # {}
      /\ SetState(FirstQueued(v), "taken") /\ "taken" \in JobStates
  BY DEF Take, Between, JobStates
<1>2. PICK h \in On(v, {"queued"}) :
        FirstQueued(v) = {h} /\ \A i \in On(v, {"queued"}) : h <= i
  BY <1>1, FirstQueuedIsFirst
<1>3. h \in DOMAIN jobs /\ jobs[h].worker = v /\ jobs[h].state = "queued"
  BY DEF On
<1>4. CASE w # v
  <2>1. \A S : h \notin On(w, S) /\ h \notin Accepted(w)
    BY <1>3, <1>4 DEF On, Accepted
  <2>2. ASSUME NEW S PROVE On(w, S)' = On(w, S)
    <3>1. /\ "taken" \in S => On(w, S)' = On(w, S) \cup (Accepted(w) \cap {h})
          /\ "taken" \notin S => On(w, S)' = On(w, S) \ {h}
      BY <1>1, <1>2, StatesRefine DEF IInv
    <3>. QED
      BY <2>1, <3>1
  <2>. QED
    BY <1>1, <2>2, StatesRefine, QueueUnchanged DEF IInv
<1>5. CASE w = v
  <2>1. /\ \A S : "taken" \in S => On(w, S)' = On(w, S) \cup {h}
        /\ \A S : "taken" \notin S => On(w, S)' = On(w, S) \ {h}
    <3>1. Accepted(w) \cap {h} = {h}
      BY <1>3, <1>5 DEF Accepted, On, JobStates
    <3>. QED
      BY <1>1, <1>2, <3>1, StatesRefine DEF IInv
  <2>2. /\ On(w, JobStates)' = On(w, JobStates)
        /\ \A i \in DOMAIN jobs : Rank(i)' = Rank(i)
    BY <1>1, StatesRefine DEF IInv
  <2>3. \A S : "queued" \notin S => h \notin On(w, S)
    BY <1>3 DEF On
  <2>4. /\ On(w, {"queued"})' = On(w, {"queued"}) \ {h}
        /\ On(w, {"taken", "running"})' = {h}
        /\ On(w, {"done"})' = On(w, {"done"})
        /\ On(w, {"cancelled"})' = On(w, {"cancelled"})
    <3>1. /\ On(w, {"queued"})' = On(w, {"queued"}) \ {h}
          /\ On(w, {"taken", "running"})' = On(w, {"taken", "running"}) \cup {h}
          /\ On(w, {"done"})' = On(w, {"done"}) \ {h}
          /\ On(w, {"cancelled"})' = On(w, {"cancelled"}) \ {h}
      BY <2>1
    <3>2. h \notin On(w, {"done"}) /\ h \notin On(w, {"cancelled"})
      BY <2>3
    <3>. QED
      BY <1>1, <1>5, <3>1, <3>2
  <2>5. \A S \in SUBSET JobStates : On(w, S) \subseteq Accepted(w) /\ On(w, S) \subseteq DOMAIN jobs
    BY DEF On, Accepted
  <2>6. /\ Rank(h) \in Ranks(w, {"queued"})
        /\ \A k \in Ranks(w, {"queued"}) : Rank(h) <= k
    BY <1>2, <1>5, <2>5, RanksDiffer DEF IInv, Ranks, JobStates
  <2>7. Ranks(w, {"queued"})' = Ranks(w, {"queued"}) \ {Rank(h)}
    <3>1. \A i \in On(w, {"queued"}) : Rank(i) = Rank(h) => i = h
      BY <1>2, <1>5, <2>5, RanksDiffer DEF IInv, JobStates
    <3>2. \A i \in On(w, {"queued"}) : i \in DOMAIN jobs
      BY DEF On
    <3>. QED
      BY <2>2, <2>4, <3>1, <3>2 DEF Ranks
  <2>8. /\ Ranks(w, {"taken", "running"}) = {}
        /\ Ranks(w, {"taken", "running"})' = {Rank(h)}
    BY <1>1, <1>3, <1>5, <2>2, <2>4 DEF Ranks
  <2>9. /\ Ranks(w, {"done"})' = Ranks(w, {"done"})
        /\ Ranks(w, {"cancelled"})' = Ranks(w, {"cancelled"})
    <3>1. \A S : On(w, S) \subseteq DOMAIN jobs
      BY DEF On
    <3>. QED
      BY <2>2, <2>4, <3>1 DEF Ranks
  <2>. QED
    BY <2>2, <2>6, <2>7, <2>8, <2>9 DEF Queue!Next, Queue!Start
<1>. QED
  BY <1>4, <1>5

\* When it begins to run it has been started already.
LEMMA BeginExecutingRefines ==
  ASSUME IInv, NEW v \in Workers, BeginExecuting(v), NEW w \in Workers
  PROVE  UNCHANGED Queue(w)!vars
<1>1. SetState(On(v, {"taken"}), "running") /\ "running" \in JobStates
  BY DEF BeginExecuting, JobStates
<1>2. CASE w # v
  BY <1>1, <1>2, OtherQueueUnchanged
<1>3. CASE w = v
  <2> DEFINE T == On(w, {"taken"})
  <2>1. /\ \A S : "running" \in S => On(w, S)' = On(w, S) \cup T
        /\ \A S : "running" \notin S => On(w, S)' = On(w, S) \ T
    <3>1. Accepted(w) \cap T = T
      BY DEF Accepted, On, JobStates
    <3>. QED
      BY <1>1, <1>3, <3>1, StatesRefine DEF IInv
  <2>2. \A S : "taken" \notin S => On(w, S) \cap T = {}
    BY DEF On
  <2>3. T \subseteq On(w, {"taken", "running"})
    BY DEF On
  <2> HIDE DEF T
  <2>4. /\ On(w, {"queued"})' = On(w, {"queued"})
        /\ On(w, {"taken", "running"})' = On(w, {"taken", "running"})
        /\ On(w, {"done"})' = On(w, {"done"})
        /\ On(w, {"cancelled"})' = On(w, {"cancelled"})
    <3>1. /\ On(w, {"queued"})' = On(w, {"queued"}) \ T
          /\ On(w, {"taken", "running"})' = On(w, {"taken", "running"}) \cup T
          /\ On(w, {"done"})' = On(w, {"done"}) \ T
          /\ On(w, {"cancelled"})' = On(w, {"cancelled"}) \ T
      BY <2>1
    <3>2. /\ On(w, {"queued"}) \cap T = {} /\ On(w, {"done"}) \cap T = {}
          /\ On(w, {"cancelled"}) \cap T = {}
      BY <2>2
    <3>. QED
      BY <2>3, <3>1, <3>2
  <2>5. /\ On(w, JobStates)' = On(w, JobStates)
        /\ \A i \in DOMAIN jobs : Rank(i)' = Rank(i)
        /\ \A S : On(w, S) \subseteq DOMAIN jobs
    BY <1>1, StatesRefine DEF IInv, On
  <2>. QED
    BY <2>4, <2>5 DEF Ranks, Queue!vars
<1>. QED
  BY <1>2, <1>3

\* When it ends it is finished.
LEMMA EndExecutingRefines ==
  ASSUME IInv, NEW v \in Workers, EndExecuting(v), NEW w \in Workers
  PROVE  Queue(w)!Next \/ UNCHANGED Queue(w)!vars
<1>1. /\ On(v, {"running"}) # {} /\ SetState(On(v, {"running"}), "done") /\ "done" \in JobStates
  BY DEF EndExecuting, JobStates
<1>2. CASE w # v
  BY <1>1, <1>2, OtherQueueUnchanged
<1>3. CASE w = v
  <2> DEFINE R == On(w, {"running"})
  <2>1. On(w, {"taken", "running"}) = R
    <3>1. PICK r \in R : r \in DOMAIN jobs /\ jobs[r].worker = w /\ jobs[r].state = "running"
      BY <1>1, <1>3 DEF On
    <3>2. ASSUME NEW i \in DOMAIN jobs, jobs[i].worker = w, jobs[i].state = "taken" PROVE FALSE
      <4>1. i \in Nat /\ r \in Nat /\ i # r
        BY <3>1, <3>2, JobFields DEF IInv
      <4>2. ~(i < r) /\ ~(r < i)
        BY <3>1, <3>2 DEF IInv, OrderInv
      <4>. QED
        BY <4>1, <4>2
    <3>. QED
      BY <3>2 DEF On
  <2>2. /\ \A S : "done" \in S => On(w, S)' = On(w, S) \cup R
        /\ \A S : "done" \notin S => On(w, S)' = On(w, S) \ R
    <3>1. Accepted(w) \cap R = R
      BY DEF Accepted, On, JobStates
    <3>. QED
      BY <1>1, <1>3, <3>1, StatesRefine DEF IInv
  <2>3. \A S : "running" \notin S => On(w, S) \cap R = {}
    BY DEF On
  <2>4. R # {}
    BY <1>1, <1>3
  <2>5. /\ On(w, JobStates)' = On(w, JobStates)
        /\ \A i \in DOMAIN jobs : Rank(i)' = Rank(i)
        /\ \A S : On(w, S) \subseteq DOMAIN jobs
    BY <1>1, StatesRefine DEF IInv, On
  <2> HIDE DEF R
  <2>6. /\ On(w, {"queued"})' = On(w, {"queued"})
        /\ On(w, {"taken", "running"})' = {}
        /\ On(w, {"done"})' = On(w, {"done"}) \cup R
        /\ On(w, {"cancelled"})' = On(w, {"cancelled"})
    <3>1. /\ On(w, {"queued"})' = On(w, {"queued"}) \ R
          /\ On(w, {"taken", "running"})' = On(w, {"taken", "running"}) \ R
          /\ On(w, {"done"})' = On(w, {"done"}) \cup R
          /\ On(w, {"cancelled"})' = On(w, {"cancelled"}) \ R
      BY <2>2
    <3>2. On(w, {"queued"}) \cap R = {} /\ On(w, {"cancelled"}) \cap R = {}
      BY <2>3
    <3>. QED
      BY <2>1, <3>1, <3>2
  <2>7. /\ Ranks(w, {"queued"})' = Ranks(w, {"queued"})
        /\ Ranks(w, {"taken", "running"}) # {}
        /\ Ranks(w, {"taken", "running"})' = {}
        /\ Ranks(w, {"done"})' = Ranks(w, {"done"}) \cup Ranks(w, {"taken", "running"})
        /\ Ranks(w, {"cancelled"})' = Ranks(w, {"cancelled"})
    BY <2>1, <2>4, <2>5, <2>6 DEF Ranks
  <2>. QED
    BY <2>5, <2>7 DEF Queue!Next, Queue!Finish
<1>. QED
  BY <1>2, <1>3

-----------------------------------------------------------------------------
\* Every worker of the pool implements the abstract queue, whatever the dispatcher's
\* callers, the jobs' own calls, cancellations and stops do: the pool runs the jobs
\* of each worker one at a time, in the order of their acceptance, each exactly once
\* unless it is dropped while it waits.
THEOREM PoolImplementsQueues == Spec => ImplementsQueues
<1>1. Init => \A w \in Workers : Queue(w)!Init
  <2> SUFFICES ASSUME Init, NEW w \in Workers PROVE Queue(w)!Init
    OBVIOUS
  <2>1. \A S : On(w, S) = {}
    BY EmptySeq DEF Init, On
  <2>2. Cardinality(On(w, JobStates)) = 0 /\ \A S : Ranks(w, S) = {}
    BY <2>1, FS_EmptySet DEF Ranks
  <2>. QED
    BY <2>2 DEF Queue!Init
<1>2. IInv /\ [Next]_vars =>
        [UNCHANGED jobs \/ \A w \in Workers : Queue(w)!Next \/ UNCHANGED Queue(w)!vars]_vars
  <2> SUFFICES ASSUME IInv, [Next]_vars, jobs' # jobs, NEW w \in Workers
               PROVE  Queue(w)!Next \/ UNCHANGED Queue(w)!vars
    OBVIOUS
  <2>. QED
    BY JobsChange, PushRefines, EraseRefines, TakeRefines, BeginExecutingRefines,
       EndExecutingRefines
<1>. QED
  BY <1>1, <1>2, PoolInvariant, PTL DEF Spec, ImplementsQueues

=============================================================================
