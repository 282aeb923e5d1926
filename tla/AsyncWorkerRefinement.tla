------------------------ MODULE AsyncWorkerRefinement ------------------------
(***************************************************************************)
(* What the steps of AsyncWorker may do to the jobs, proved from the       *)
(* inductive invariant of AsyncWorkerProofs: the action properties, and    *)
(* that a worker implements the abstract JobQueue.                         *)
(***************************************************************************)
EXTENDS AsyncWorkerProofs

\* Five steps change a context; every other step leaves all of them alone.
LEMMA JobsChange ==
  ASSUME [Next]_vars
  PROVE  \/ jobs' = jobs
         \/ \E t \in Threads : Push(t) \/ CancelErase(t)
         \/ TakeFirstJob \/ RunAction \/ RunOnDone
<1>1. CASE UNCHANGED vars
  BY <1>1 DEF vars
<1>2. ASSUME NEW t \in Threads, Begin(t) PROVE jobs' = jobs
  BY <1>2 DEF Begin, DoJob, DoSyncJob, CancelJobsFor, Stop, Enter
<1>3. ASSUME NEW t \in Threads, Continue(t) PROVE jobs' = jobs \/ Push(t) \/ CancelErase(t)
  BY <1>3 DEF Continue, Notify, Count, WaitFinished, CancelLock, CancelVisit,
              WaitForOutstandingJobsToFinish, Join, Joined, BlockUntilReady
<1>4. ASSUME Run \/ SpuriousWakeup
      PROVE  jobs' = jobs \/ TakeFirstJob \/ RunAction \/ RunOnDone
  BY <1>4 DEF Run, SetReady, CheckActive, NothingQueued, BeginExecuting, EndExecuting,
              SpuriousWakeup
<1>. QED
  BY <1>1, <1>2, <1>3, <1>4 DEF Next, AtRest, vars

-----------------------------------------------------------------------------
(* What each of the five does.                                             *)

\* A push adds one queued context behind all the others.
LEMMA PushEffect ==
  ASSUME IInv, NEW t \in Threads, Push(t)
  PROVE  /\ Len(jobs') = Len(jobs) + 1
         /\ DOMAIN jobs' = DOMAIN jobs \cup {Len(jobs) + 1}
         /\ \A i \in DOMAIN jobs : jobs'[i] = jobs[i]
         /\ jobs'[Len(jobs) + 1].state = "queued"
<1> DEFINE new == [name |-> name[t], state |-> "queued", late |-> ~active,
                   waiter |-> IF flag[t] = "none" THEN None ELSE t]
<1>1. jobs' = Append(jobs, new) /\ new.state = "queued"
  BY DEF Push
<1>2. new \in Job
  BY DEF Push, IInv, TypeOK, Job, JobStates
<1> HIDE DEF new
<1>3. Len(jobs) \in Nat /\ DOMAIN jobs = 1..Len(jobs)
  BY JobFields DEF IInv
<1>4. /\ Len(jobs') = Len(jobs) + 1 /\ DOMAIN jobs' = 1..(Len(jobs) + 1)
      /\ \A i \in 1..Len(jobs) : jobs'[i] = jobs[i]
      /\ jobs'[Len(jobs) + 1] = new
  BY <1>1, <1>2 DEF IInv, TypeOK
<1>. QED
  BY <1>1, <1>3, <1>4

\* Setting the state of one context, as the worker's thread does, moves that
\* context between the sets and leaves the rest of them alone.
LEMMA WorkerEffect ==
  ASSUME IInv, NEW k \in DOMAIN jobs, NEW s \in JobStates,
         jobs' = [jobs EXCEPT ![k].state = s]
  PROVE  /\ Len(jobs') = Len(jobs) /\ DOMAIN jobs' = DOMAIN jobs
         /\ \A i \in DOMAIN jobs : jobs'[i].state = IF i = k THEN s ELSE jobs[i].state
BY SetState DEF IInv, TypeOK

\* TakeFirstJob: the front of calls_, the oldest queued context, is taken.
LEMMA TakeEffect ==
  ASSUME IInv, TakeFirstJob
  PROVE  \E h \in DOMAIN jobs :
           /\ jobs[h].state = "queued"
           /\ \A i \in DOMAIN jobs : jobs[i].state = "queued" => h <= i
           /\ \A i \in DOMAIN jobs : jobs[i].state \notin {"taken", "ran"}
           /\ Len(jobs') = Len(jobs) /\ DOMAIN jobs' = DOMAIN jobs
           /\ \A i \in DOMAIN jobs : jobs'[i].state = IF i = h THEN "taken" ELSE jobs[i].state
<1> DEFINE n == Len(jobs)
           m == Len(calls)
           h == Head(calls)
<1>1. n \in Nat /\ m \in Nat \ {0} /\ DOMAIN jobs = 1..n /\ DOMAIN calls = 1..m /\ h = calls[1]
  BY JobFields, EmptySeq DEF IInv, TypeOK, TakeFirstJob
<1>2. m <= n /\ h = n - m + 1 /\ \A i \in 1..n : jobs[i].state = "queued" <=> i > n - m
  BY <1>1 DEF IInv, QueueIsSuffix
<1>3. jobs' = [jobs EXCEPT ![h].state = "taken"]
  BY DEF TakeFirstJob, FirstJob
<1>4. \A i \in DOMAIN jobs : jobs[i].state \notin {"taken", "ran"}
  BY DEF IInv, CurrentIsTaken, TakeFirstJob
<1> HIDE DEF n, m, h
<1>5. h \in DOMAIN jobs /\ jobs[h].state = "queued"
  BY <1>1, <1>2
<1>6. \A i \in DOMAIN jobs : jobs[i].state = "queued" => h <= i
  BY <1>1, <1>2
<1>7. "taken" \in JobStates
  BY DEF JobStates
<1>. QED
  BY <1>3, <1>4, <1>5, <1>6, <1>7, WorkerEffect

\* RunAction: the context the worker copied out, and no other, has been taken.
LEMMA ActionEffect ==
  ASSUME IInv, RunAction
  PROVE  /\ current \in DOMAIN jobs /\ jobs[current].state = "taken"
         /\ Len(jobs') = Len(jobs) /\ DOMAIN jobs' = DOMAIN jobs
         /\ \A i \in DOMAIN jobs : jobs'[i].state = IF i = current THEN "ran" ELSE jobs[i].state
<1>1. current \in DOMAIN jobs /\ jobs[current].state = "taken"
  BY JobFields DEF IInv, TypeOK, CurrentIsTaken, RunAction
<1>2. "ran" \in JobStates /\ jobs' = [jobs EXCEPT ![current].state = "ran"]
  BY DEF JobStates, RunAction
<1>. QED
  BY <1>1, <1>2, WorkerEffect

\* RunOnDone: the same context ends its life; it is the only one running.
LEMMA OnDoneEffect ==
  ASSUME IInv, RunOnDone
  PROVE  /\ current \in DOMAIN jobs /\ jobs[current].state = "ran"
         /\ \A i \in DOMAIN jobs : jobs[i].state \in {"taken", "ran"} => i = current
         /\ Len(jobs') = Len(jobs) /\ DOMAIN jobs' = DOMAIN jobs
         /\ \A i \in DOMAIN jobs : jobs'[i].state = IF i = current THEN "done" ELSE jobs[i].state
<1>1. current \in DOMAIN jobs /\ jobs[current].state = "ran"
  BY JobFields DEF IInv, TypeOK, CurrentIsTaken, RunOnDone
<1>2. "done" \in JobStates /\ jobs' = [jobs EXCEPT ![current].state = "done"]
  BY DEF JobStates, RunOnDone
<1>3. \A i \in DOMAIN jobs : jobs[i].state \in {"taken", "ran"} => i = current
  BY DEF IInv, CurrentIsTaken
<1>. QED
  BY <1>1, <1>2, <1>3, WorkerEffect

\* CancelErase: every queued context, and no other, is cancelled.
LEMMA EraseEffect ==
  ASSUME IInv, NEW t \in Threads, CancelErase(t)
  PROVE  /\ Len(jobs') = Len(jobs) /\ DOMAIN jobs' = DOMAIN jobs
         /\ \A i \in DOMAIN jobs :
              jobs'[i].state = IF jobs[i].state = "queued" THEN "cancelled" ELSE jobs[i].state
<1>1. /\ Len(jobs) \in Nat /\ DOMAIN jobs = 1..Len(jobs)
      /\ \A i \in DOMAIN jobs : jobs[i] \in Job
  BY JobFields, ElementOfSeq DEF IInv, TypeOK
<1>2. jobs' = [i \in DOMAIN jobs |->
                 IF jobs[i].state = "queued"
                   THEN [jobs[i] EXCEPT !.state = "cancelled"] ELSE jobs[i]]
  BY DEF CancelErase, Pending
<1>3. \A i \in 1..Len(jobs) : jobs'[i] \in Job
  BY <1>1, <1>2 DEF Job, JobStates
<1>4. jobs' \in [1..Len(jobs) -> Job]
  BY <1>1, <1>2, <1>3
<1>5. Len(jobs') = Len(jobs) /\ DOMAIN jobs' = DOMAIN jobs
  BY <1>1, <1>4, IsASeq, LenProperties
<1>. QED
  BY <1>1, <1>2, <1>5 DEF Job

-----------------------------------------------------------------------------
(* The action properties.                                                  *)

\* Every job takes the steps of its life in order: it is run at most once, in
\* full, and never after it was cancelled.
THEOREM JobsLiveInOrder == Spec => JobLifecycle
<1>1. IInv /\ [Next]_vars => [JobsProgress]_vars
  <2> SUFFICES ASSUME IInv, [Next]_vars PROVE JobsProgress
    OBVIOUS
  <2>1. CASE jobs' = jobs
    BY <2>1 DEF JobsProgress
  <2>2. ASSUME NEW t \in Threads, Push(t) PROVE JobsProgress
    BY <2>2, PushEffect DEF JobsProgress
  <2>3. ASSUME NEW t \in Threads, CancelErase(t) PROVE JobsProgress
    BY <2>3, EraseEffect DEF JobsProgress, JobProgress
  <2>4. CASE TakeFirstJob
    BY <2>4, TakeEffect DEF JobsProgress, JobProgress
  <2>5. CASE RunAction
    BY <2>5, ActionEffect DEF JobsProgress, JobProgress
  <2>6. CASE RunOnDone
    BY <2>6, OnDoneEffect DEF JobsProgress, JobProgress
  <2>. QED
    BY <2>1, <2>2, <2>3, <2>4, <2>5, <2>6, JobsChange
<1>. QED
  BY <1>1, InductiveInvariant, PTL DEF Spec, JobLifecycle

\* cancelJobsFor steps over a context of its service only while the worker's
\* thread runs no job: executing_ tells it the truth.
THEOREM CancelWaitsForRunningJob == Spec => CancelPassesNoRunningJob
<1>1. IInv /\ [Next]_vars => [PassesNoRunningJob]_vars
  <2> SUFFICES ASSUME IInv, [Next]_vars, NEW t \in Threads,
                      pc[t] = "scan", scan' = scan + 1, jobs[calls[scan]].name = name[t]
               PROVE  wpc \notin {"action", "onDone", "finish"}
    BY DEF PassesNoRunningJob
  <2>1. scan \in Nat /\ scan' # scan
    BY DEF IInv, TypeOK
  <2>2. \A u \in Threads : pc[u] = "scan" => u = t
    BY DEF IInv, LocksHeld
  <2>3. \E u \in Threads : CancelLock(u) \/ CancelVisit(u) \/ CancelErase(u)
    <3>1. ~UNCHANGED vars /\ ~AtRest
      BY <2>1 DEF vars, callerVars, AtRest
    <3>2. ASSUME NEW u \in Threads, Begin(u) PROVE FALSE
      BY <2>1, <3>2 DEF Begin, DoJob, DoSyncJob, CancelJobsFor, Stop, Enter
    <3>3. ~(Run \/ SpuriousWakeup)
      BY <2>1 DEF Run, SetReady, CheckActive, NothingQueued, TakeFirstJob, BeginExecuting,
                  RunAction, RunOnDone, EndExecuting, SpuriousWakeup, callerVars
    <3>4. ASSUME NEW u \in Threads, Continue(u)
          PROVE  CancelLock(u) \/ CancelVisit(u) \/ CancelErase(u)
      BY <2>1, <3>4 DEF Continue, Push, Notify, Count, WaitFinished,
                        WaitForOutstandingJobsToFinish, Join, Joined, BlockUntilReady
    <3>. QED
      BY <3>1, <3>2, <3>3, <3>4 DEF Next
  <2>4. \A u \in Threads : ~CancelLock(u)
    <3>1. queueLock = t /\ t # None
      BY ConstantsAssumption DEF IInv, LocksHeld
    <3>. QED
      BY <3>1 DEF CancelLock
  <2>5. \A u \in Threads : CancelErase(u) => scan' = 0
    BY DEF CancelErase
  <2>6. CancelVisit(t)
    BY <2>1, <2>2, <2>3, <2>4, <2>5 DEF CancelVisit, CancelErase
  <2>. QED
    BY <2>6 DEF CancelVisit, NotExecuting, IInv, LocksHeld
<1>. QED
  BY <1>1, InductiveInvariant, PTL DEF Spec, CancelPassesNoRunningJob

-----------------------------------------------------------------------------
(* The refinement.                                                         *)

\* A new worker is an empty queue.
LEMMA QueueInit == Init => Queue!Init
<1> SUFFICES ASSUME Init PROVE Queue!Init
  OBVIOUS
<1>1. Len(jobs) = 0 /\ DOMAIN jobs = {}
  BY EmptySeq DEF Init
<1>. QED
  BY <1>1 DEF Queue!Init, InState, Pending

\* Each of the five steps is a step of the queue, or changes nothing in it.
LEMMA QueueStep == IInv /\ [Next]_vars => [Queue!Next]_(Queue!vars)
<1> SUFFICES ASSUME IInv, [Next]_vars PROVE [Queue!Next]_(Queue!vars)
  OBVIOUS
<1>0. /\ Len(jobs) \in Nat /\ DOMAIN jobs = 1..Len(jobs)
      /\ \A i \in DOMAIN jobs : jobs[i].state \in JobStates
  BY JobFields DEF IInv
<1>1. CASE jobs' = jobs
  BY <1>1 DEF Queue!vars, InState, Pending
<1>2. ASSUME NEW t \in Threads, Push(t) PROVE Queue!Post
  <2>1. /\ Pending' = Pending \cup {Len(jobs) + 1}
        /\ InState({"taken", "ran"})' = InState({"taken", "ran"})
        /\ InState({"done"})' = InState({"done"})
        /\ InState({"cancelled"})' = InState({"cancelled"})
        /\ Len(jobs') = Len(jobs) + 1
    BY <1>0, <1>2, PushEffect DEF Pending, InState
  <2>. QED
    BY <2>1 DEF Queue!Post
<1>3. ASSUME NEW t \in Threads, CancelErase(t) PROVE Queue!Drop
  <2>1. /\ Pending' = Pending \ Pending
        /\ InState({"taken", "ran"})' = InState({"taken", "ran"})
        /\ InState({"done"})' = InState({"done"})
        /\ InState({"cancelled"})' = InState({"cancelled"}) \cup Pending
        /\ Len(jobs') = Len(jobs)
    BY <1>0, <1>3, EraseEffect DEF Pending, InState
  <2>. QED
    BY <2>1 DEF Queue!Drop
<1>4. ASSUME TakeFirstJob PROVE Queue!Start
  <2>1. PICK h \in DOMAIN jobs :
           /\ jobs[h].state = "queued"
           /\ \A i \in DOMAIN jobs : jobs[i].state = "queued" => h <= i
           /\ \A i \in DOMAIN jobs : jobs[i].state \notin {"taken", "ran"}
           /\ Len(jobs') = Len(jobs) /\ DOMAIN jobs' = DOMAIN jobs
           /\ \A i \in DOMAIN jobs : jobs'[i].state = IF i = h THEN "taken" ELSE jobs[i].state
    BY <1>4, TakeEffect
  <2>2. /\ h \in Pending /\ \A i \in Pending : h <= i
        /\ InState({"taken", "ran"}) = {}
        /\ Pending' = Pending \ {h}
        /\ InState({"taken", "ran"})' = {h}
        /\ InState({"done"})' = InState({"done"})
        /\ InState({"cancelled"})' = InState({"cancelled"})
    BY <2>1 DEF Pending, InState
  <2>. QED
    BY <2>1, <2>2 DEF Queue!Start
<1>5. ASSUME RunAction PROVE UNCHANGED Queue!vars
  <2>1. /\ Pending' = Pending
        /\ InState({"taken", "ran"})' = InState({"taken", "ran"})
        /\ InState({"done"})' = InState({"done"})
        /\ InState({"cancelled"})' = InState({"cancelled"})
        /\ Len(jobs') = Len(jobs)
    BY <1>5, ActionEffect DEF Pending, InState
  <2>. QED
    BY <2>1 DEF Queue!vars
<1>6. ASSUME RunOnDone PROVE Queue!Finish
  <2>1. /\ InState({"taken", "ran"}) = {current}
        /\ Pending' = Pending
        /\ InState({"taken", "ran"})' = {}
        /\ InState({"done"})' = InState({"done"}) \cup {current}
        /\ InState({"cancelled"})' = InState({"cancelled"})
        /\ Len(jobs') = Len(jobs)
    BY <1>6, OnDoneEffect DEF Pending, InState
  <2>. QED
    BY <2>1 DEF Queue!Finish
<1>. QED
  BY <1>1, <1>2, <1>3, <1>4, <1>5, <1>6, JobsChange DEF Queue!Next

\* A worker implements the abstract queue: whatever posters, cancellers and
\* stoppers do to it, its jobs run one at a time, in the order of their posting,
\* each exactly once unless it is dropped while it waits.
THEOREM WorkerImplementsQueue == Spec => ImplementsQueue
BY QueueInit, QueueStep, InductiveInvariant, PTL DEF Spec, ImplementsQueue, Queue!Spec

=============================================================================
