-------------------------- MODULE AsyncWorkerProofs --------------------------
(***************************************************************************)
(* The safety properties of AsyncWorker, proved for any number of threads, *)
(* names and jobs.  IInv is inductive: every operation and every step of   *)
(* the worker's thread preserves it (one lemma for each step that changes  *)
(* the queue, the state of a job or a lock, one case for each other step); *)
(* the theorems at the end follow from it.                                 *)
(***************************************************************************)
EXTENDS AsyncWorker, Integers, SequenceTheorems, FiniteSetTheorems, TLAPS

USE ConstantsAssumption

-----------------------------------------------------------------------------
(* What the record and sequence updates of the actions return.             *)

\* Setting the state of one context keeps the sequence and every other field.
LEMMA SetState ==
  ASSUME NEW js \in Seq(Job), NEW k \in DOMAIN js, NEW s \in JobStates
  PROVE  LET new == [js EXCEPT ![k].state = s] IN
         /\ new \in Seq(Job)
         /\ Len(new) = Len(js)
         /\ DOMAIN new = DOMAIN js
         /\ \A i \in DOMAIN js :
              /\ new[i].state = IF i = k THEN s ELSE js[i].state
              /\ new[i].name = js[i].name
              /\ new[i].waiter = js[i].waiter
              /\ new[i].late = js[i].late
<1>1. js[k] \in Job /\ k \in 1..Len(js)
  BY ElementOfSeq
<1>2. [js[k] EXCEPT !.state = s] \in Job
  BY <1>1 DEF Job
<1>3. [js EXCEPT ![k] = [js[k] EXCEPT !.state = s]] = [js EXCEPT ![k].state = s]
  OBVIOUS
<1>4. [js EXCEPT ![k].state = s] \in Seq(Job) /\ Len([js EXCEPT ![k].state = s]) = Len(js)
  BY <1>1, <1>2, <1>3, ExceptSeq
<1>5. \A i \in DOMAIN js : js[i] \in Job
  BY ElementOfSeq
<1>. QED
  BY <1>4, <1>5 DEF Job

\* The types of the fields read by the actions, and the domains of both sequences.
LEMMA JobFields ==
  ASSUME TypeOK
  PROVE  /\ Len(jobs) \in Nat /\ DOMAIN jobs = 1..Len(jobs)
         /\ Len(calls) \in Nat /\ DOMAIN calls = 1..Len(calls)
         /\ \A i \in DOMAIN jobs :
              /\ jobs[i].waiter \in Threads \cup {None}
              /\ jobs[i].state \in JobStates
              /\ jobs[i].late \in BOOLEAN
<1>1. \A i \in DOMAIN jobs : jobs[i] \in Job
  BY ElementOfSeq DEF TypeOK
<1>. QED
  BY <1>1, LenProperties DEF TypeOK, Job

-----------------------------------------------------------------------------
(* The operations.                                                         *)

\* doJob's push_back under queueLock_ preserves the invariant.
LEMMA PushStep ==
  ASSUME IInv, NEW t \in Threads, Push(t)
  PROVE  IInv'
<1> DEFINE new == [name |-> name[t], state |-> "queued", late |-> ~active,
                   waiter |-> IF flag[t] = "none" THEN None ELSE t]
           n == Len(jobs)
           m == Len(calls)
<1>1. new \in Job
  BY DEF Push, IInv, TypeOK, Job, JobStates
<1>2. /\ n \in Nat /\ m \in Nat /\ DOMAIN jobs = 1..n /\ DOMAIN calls = 1..m
      /\ m <= n /\ jobs' = Append(jobs, new) /\ calls' = Append(calls, n + 1)
  BY LenProperties DEF IInv, TypeOK, QueueIsSuffix, Push
<1>3. /\ jobs' \in Seq(Job) /\ Len(jobs') = n + 1 /\ DOMAIN jobs' = 1..(n + 1)
      /\ \A i \in 1..n : jobs'[i] = jobs[i]
      /\ jobs'[n + 1] = new
  BY <1>1, <1>2 DEF IInv, TypeOK
<1>4. /\ calls' \in Seq(Nat) /\ Len(calls') = m + 1 /\ DOMAIN calls' = 1..(m + 1)
      /\ \A k \in 1..m : calls'[k] = calls[k]
      /\ calls'[m + 1] = n + 1
  BY <1>2 DEF IInv, TypeOK
<1>5. /\ pc[t] = "push" /\ pc' = [pc EXCEPT ![t] = "notify"]
      /\ UNCHANGED <<outstanding, active, queueLock, ready, executingLock, executing,
                     wpc, current, flag, scan, joiner, cancels>>
      /\ name' = [name EXCEPT ![t] = None]
  BY DEF Push, Goto, workerVars
<1> HIDE DEF new, n, m
<1>6. TypeOK'
  BY <1>2, <1>3, <1>4, <1>5 DEF IInv, TypeOK
<1>7. QueueIsSuffix'
  <2>1. new.state = "queued"
    BY DEF new
  <2>2. n \in Nat /\ m \in Nat /\ Len(jobs') = n + 1 /\ Len(calls') = m + 1
    BY <1>2, <1>3, <1>4
  <2>3. \A k \in DOMAIN calls' : calls'[k] = n - m + k
    BY <1>2, <1>4 DEF IInv, QueueIsSuffix, n, m
  <2>4. \A i \in DOMAIN jobs' : jobs'[i].state = "queued" <=> i > n - m
    BY <1>2, <1>3, <2>1 DEF IInv, QueueIsSuffix, n, m
  <2>5. Len(jobs') - Len(calls') = n - m
    BY <2>2
  <2>. QED
    BY <1>2, <2>2, <2>3, <2>4, <2>5 DEF QueueIsSuffix
<1>8. CurrentIsTaken'
  <2>1. current # 0 => current \in 1..n
    BY <1>2 DEF IInv, TypeOK
  <2>. QED
    BY <1>2, <1>3, <1>5, <2>1 DEF IInv, CurrentIsTaken, new
<1>9. LocksHeld'
  BY <1>5 DEF IInv, TypeOK, LocksHeld
<1>10. WaitersMatch'
  <2>1. \A i \in 1..n : jobs[i].waiter = t => jobs[i].state = "done"
    BY <1>2, <1>5 DEF IInv, WaitersMatch, BlockingCallOutlivesJob
  <2>2. /\ new.waiter \in {None, t}
        /\ new.waiter = t => flag[t] = "pending"
    BY <1>5 DEF new, IInv, TypeOK, WaitersMatch
  <2>3. \A u \in Threads : u # t => pc'[u] = pc[u]
    BY <1>5 DEF IInv, TypeOK
  <2>4. pc'[t] = "notify"
    BY <1>5 DEF IInv, TypeOK
  <2>5. BlockingCallOutlivesJob'
    BY <1>2, <1>3, <1>5, <2>1, <2>2, <2>3, <2>4
       DEF IInv, TypeOK, Job, WaitersMatch, BlockingCallOutlivesJob
  <2>6. \A i, j \in DOMAIN jobs' :
           /\ jobs'[i].waiter # None /\ jobs'[i].waiter = jobs'[j].waiter
           /\ jobs'[i].state # "done" /\ jobs'[j].state # "done"
           => i = j
    BY <1>2, <1>3, <2>1, <2>2 DEF IInv, WaitersMatch
  <2>7. \A u \in Threads :
          /\ flag'[u] # "none" => pc'[u] \in {"push", "notify", "count", "wait"}
          /\ pc'[u] = "push" => flag'[u] # "finished"
    BY <1>5, <2>3, <2>4 DEF IInv, WaitersMatch
  <2>. QED
    BY <2>5, <2>6, <2>7 DEF WaitersMatch
<1>11. StopInProgress'
  <2>1. new.late = ~active
    BY DEF new
  <2>2. \A i \in DOMAIN jobs' : jobs'[i].state = "queued" /\ ~jobs'[i].late => active
    <3>1. \A i \in 1..n : jobs[i].state = "queued" /\ ~jobs[i].late => active
      BY <1>2 DEF IInv, StopInProgress
    <3>2. \A i \in DOMAIN jobs' : i \in 1..n \/ i = n + 1
      BY <1>2, <1>3
    <3>3. \A i \in 1..n : jobs'[i] = jobs[i]
      BY <1>3
    <3>4. jobs'[n + 1].late = ~active
      BY <1>3, <2>1
    <3>. QED
      BY <3>1, <3>2, <3>3, <3>4
  <2>. QED
    BY <1>5, <2>2 DEF IInv, StopInProgress
<1>12. NoLostWakeup'
  BY <1>5 DEF IInv, TypeOK, NoLostWakeup
<1>. QED
  BY <1>6, <1>7, <1>8, <1>9, <1>10, <1>11, <1>12 DEF IInv

\* Taking queueLock_ in cancelJobsFor preserves the invariant.
LEMMA CancelLockStep ==
  ASSUME IInv, NEW t \in Threads, CancelLock(t)
  PROVE  IInv'
<1> USE DEF CancelLock, Goto, workerVars
<1>1. TypeOK'
  BY DEF IInv, TypeOK
<1>2. LocksHeld'
  BY DEF IInv, TypeOK, LocksHeld
<1>3. QueueIsSuffix' /\ CurrentIsTaken' /\ StopInProgress'
  BY DEF IInv, QueueIsSuffix, CurrentIsTaken, StopInProgress
<1>4. WaitersMatch'
  BY DEF IInv, TypeOK, WaitersMatch, BlockingCallOutlivesJob
<1>5. NoLostWakeup'
  BY DEF IInv, TypeOK, NoLostWakeup
<1>. QED
  BY <1>1, <1>2, <1>3, <1>4, <1>5 DEF IInv

\* The erase at the end of cancelJobsFor preserves the invariant.
LEMMA CancelEraseStep ==
  ASSUME IInv, NEW t \in Threads, CancelErase(t)
  PROVE  IInv'
<1> DEFINE n == Len(jobs)
<1>1. n \in Nat /\ DOMAIN jobs = 1..n /\ \A i \in 1..n : jobs[i] \in Job
  BY LenProperties, ElementOfSeq DEF IInv, TypeOK
<1>2. /\ jobs' = [i \in 1..n |->
                    IF jobs[i].state = "queued"
                      THEN [jobs[i] EXCEPT !.state = "cancelled"] ELSE jobs[i]]
      /\ calls' = <<>> /\ outstanding' = 0 /\ queueLock' = None /\ scan' = 0
      /\ name' = [name EXCEPT ![t] = None]
      /\ pc[t] = "scan" /\ pc' = [pc EXCEPT ![t] = "idle"]
      /\ UNCHANGED <<active, ready, executingLock, executing, wpc, current,
                     flag, joiner, cancels>>
  BY <1>1 DEF CancelErase, Pending, Goto, workerVars
<1> HIDE DEF n
<1>3. \A i \in 1..n :
         /\ jobs'[i] \in Job
         /\ jobs'[i].state = IF jobs[i].state = "queued" THEN "cancelled" ELSE jobs[i].state
         /\ jobs'[i].waiter = jobs[i].waiter
         /\ jobs'[i].late = jobs[i].late
  BY <1>1, <1>2 DEF Job, JobStates
<1>4. jobs' \in Seq(Job) /\ Len(jobs') = n /\ DOMAIN jobs' = 1..n
  <2>1. jobs' \in [1..n -> Job]
    BY <1>2, <1>3
  <2>. QED
    BY <1>1, <2>1, IsASeq, LenProperties
<1>5. calls' \in Seq(Nat) /\ Len(calls') = 0 /\ DOMAIN calls' = {}
  BY <1>2, EmptySeq
<1>6. TypeOK'
  <2>1. current' \in 0..Len(jobs')
    BY <1>2, <1>4 DEF IInv, TypeOK, n
  <2>2. outstanding' \in 0..(LoadMod - 1) /\ scan' \in Nat
    BY <1>2
  <2>3. /\ pc' \in [Threads -> {"idle", "blockUntilReady", "push", "notify", "count", "wait",
                                "lock", "scan", "drain", "join", "joining"}]
        /\ name' \in [Threads -> Names \cup {None}]
        /\ \A u \in Threads : pc'[u] = "push" => name'[u] \in Names
    BY <1>2 DEF IInv, TypeOK
  <2>. QED
    BY <1>2, <1>4, <1>5, <2>1, <2>2, <2>3 DEF IInv, TypeOK
<1>7. QueueIsSuffix'
  BY <1>1, <1>3, <1>4, <1>5 DEF QueueIsSuffix
<1>8. CurrentIsTaken'
  <2>1. current # 0 => current \in 1..n
    BY DEF IInv, TypeOK, n
  <2>. QED
    BY <1>1, <1>2, <1>3, <1>4, <2>1 DEF IInv, CurrentIsTaken
<1>9. LocksHeld'
  BY <1>2 DEF IInv, TypeOK, LocksHeld
<1>10. WaitersMatch'
  <2>1. \A u \in Threads : u # t => pc'[u] = pc[u]
    BY <1>2 DEF IInv, TypeOK
  <2>2. pc'[t] = "idle" /\ flag[t] = "none"
    BY <1>2 DEF IInv, TypeOK, WaitersMatch
  <2>3. \A i \in 1..n : jobs'[i].state # "done" => jobs[i].state # "done"
    BY <1>3
  <2>4. \A i \in 1..n : jobs[i].waiter \in Threads \cup {None}
    BY <1>1 DEF Job
  <2>5. BlockingCallOutlivesJob'
    BY <1>1, <1>2, <1>3, <1>4, <2>1, <2>2, <2>3, <2>4
       DEF IInv, WaitersMatch, BlockingCallOutlivesJob
  <2>6. \A i, j \in DOMAIN jobs' :
           /\ jobs'[i].waiter # None /\ jobs'[i].waiter = jobs'[j].waiter
           /\ jobs'[i].state # "done" /\ jobs'[j].state # "done"
           => i = j
    BY <1>1, <1>3, <1>4, <2>3 DEF IInv, WaitersMatch
  <2>7. \A u \in Threads :
          /\ flag'[u] # "none" => pc'[u] \in {"push", "notify", "count", "wait"}
          /\ pc'[u] = "push" => flag'[u] # "finished"
    BY <1>2, <2>1, <2>2 DEF IInv, WaitersMatch
  <2>. QED
    BY <2>5, <2>6, <2>7 DEF WaitersMatch
<1>11. StopInProgress'
  BY <1>1, <1>2, <1>3, <1>4 DEF IInv, StopInProgress
<1>12. NoLostWakeup'
  BY <1>2 DEF IInv, NoLostWakeup
<1>. QED
  BY <1>6, <1>7, <1>8, <1>9, <1>10, <1>11, <1>12 DEF IInv

\* Clearing active_ in stop preserves the invariant: nothing is queued then.
LEMMA WaitForOutstandingJobsToFinishStep ==
  ASSUME IInv, NEW t \in Threads, WaitForOutstandingJobsToFinish(t)
  PROVE  IInv'
<1> USE DEF WaitForOutstandingJobsToFinish, Drained, Goto, Woken
<1>1. TypeOK'
  BY DEF IInv, TypeOK
<1>2. LocksHeld'
  BY DEF IInv, TypeOK, LocksHeld
<1>3. QueueIsSuffix'
  BY DEF IInv, QueueIsSuffix
<1>7. StopInProgress'
  BY EmptySeq DEF IInv, TypeOK, QueueIsSuffix, StopInProgress
<1>6. CurrentIsTaken'
  BY DEF IInv, CurrentIsTaken
<1>4. WaitersMatch'
  BY DEF IInv, TypeOK, WaitersMatch, BlockingCallOutlivesJob
<1>5. NoLostWakeup'
  BY DEF IInv, TypeOK, NoLostWakeup
<1>. QED
  BY <1>1, <1>2, <1>3, <1>4, <1>5, <1>6, <1>7 DEF IInv

\* Joining the worker's thread, or failing to, preserves the invariant.
LEMMA JoinStep ==
  ASSUME IInv, NEW t \in Threads, Join(t)
  PROVE  IInv'
<1> USE DEF Join, Goto, workerVars
<1>1. TypeOK'
  BY DEF IInv, TypeOK
<1>2. LocksHeld'
  BY DEF IInv, TypeOK, LocksHeld
<1>3. QueueIsSuffix' /\ CurrentIsTaken' /\ StopInProgress'
  BY DEF IInv, QueueIsSuffix, CurrentIsTaken, StopInProgress
<1>4. WaitersMatch'
  <2>1. /\ UNCHANGED <<jobs, flag>>
        /\ pc[t] = "join" /\ pc'[t] \in {"joining", "idle"}
        /\ \A u \in Threads \ {t} : pc'[u] = pc[u]
    BY DEF IInv, TypeOK
  <2>. QED
    BY <2>1, JobFields DEF IInv, WaitersMatch, BlockingCallOutlivesJob
<1>5. NoLostWakeup'
  BY DEF IInv, TypeOK, NoLostWakeup
<1>. QED
  BY <1>1, <1>2, <1>3, <1>4, <1>5 DEF IInv

-----------------------------------------------------------------------------
(* The worker's thread.                                                    *)

\* Copying out and erasing the first context preserves the invariant.
LEMMA TakeFirstJobStep ==
  ASSUME IInv, TakeFirstJob
  PROVE  IInv'
<1> DEFINE n == Len(jobs)
           m == Len(calls)
           h == Head(calls)
<1>1. /\ n \in Nat /\ m \in Nat \ {0} /\ DOMAIN jobs = 1..n /\ DOMAIN calls = 1..m
      /\ m <= n /\ h = n - m + 1 /\ h \in 1..n
  <2>1. calls \in Seq(Nat) /\ calls # <<>> /\ h = calls[1]
    BY DEF IInv, TypeOK, TakeFirstJob
  <2>2. n \in Nat /\ m \in Nat \ {0} /\ DOMAIN jobs = 1..n /\ DOMAIN calls = 1..m
    BY <2>1, LenProperties, EmptySeq DEF IInv, TypeOK
  <2>. QED
    BY <2>1, <2>2 DEF IInv, QueueIsSuffix
<1>2. /\ jobs' = [jobs EXCEPT ![h].state = "taken"] /\ calls' = Tail(calls)
      /\ current' = h /\ wpc' = "taken" /\ wpc \in {"acquire", "relock"}
      /\ outstanding' = (outstanding + (LoadMod - 1)) % LoadMod
      /\ UNCHANGED <<active, queueLock, ready, executingLock, executing,
                     pc, name, flag, scan, joiner, cancels>>
  BY DEF TakeFirstJob, FirstJob, Discounted, callerVars
<1>3. /\ calls' \in Seq(Nat) /\ Len(calls') = m - 1 /\ DOMAIN calls' = 1..(m - 1)
      /\ \A k \in 1..(m - 1) : calls'[k] = calls[k + 1]
  BY <1>1, <1>2, HeadTailProperties, LenProperties DEF IInv, TypeOK, TakeFirstJob
<1>4. /\ jobs' \in Seq(Job) /\ Len(jobs') = n /\ DOMAIN jobs' = 1..n
      /\ \A i \in 1..n :
           /\ jobs'[i].state = IF i = h THEN "taken" ELSE jobs[i].state
           /\ jobs'[i].waiter = jobs[i].waiter
           /\ jobs'[i].late = jobs[i].late
  <2>1. jobs \in Seq(Job) /\ "taken" \in JobStates
    BY DEF IInv, TypeOK, JobStates
  <2>. QED
    BY <1>1, <1>2, <2>1, SetState
<1>5. jobs[h].state = "queued"
  BY <1>1 DEF IInv, QueueIsSuffix
<1>13. Len(jobs) = n /\ Len(calls) = m
  OBVIOUS
<1> HIDE DEF n, m, h
<1>6. TypeOK'
  <2>1. outstanding' \in 0..(LoadMod - 1)
    BY <1>2 DEF IInv, TypeOK
  <2>2. current' \in 0..Len(jobs')
    BY <1>1, <1>2, <1>4
  <2>. QED
    BY <1>2, <1>3, <1>4, <2>1, <2>2 DEF IInv, TypeOK
<1>7. QueueIsSuffix'
  <2>1. \A k \in DOMAIN calls' : calls'[k] = n - (m - 1) + k
    <3>1. \A k \in 1..m : calls[k] = n - m + k
      BY <1>1, <1>13 DEF IInv, QueueIsSuffix
    <3>. QED
      BY <1>1, <1>3, <3>1
  <2>2. \A i \in DOMAIN jobs' : jobs'[i].state = "queued" <=> i > n - (m - 1)
    <3>1. \A i \in 1..n : jobs[i].state = "queued" <=> i > n - m
      BY <1>1, <1>13 DEF IInv, QueueIsSuffix
    <3>. QED
      BY <1>1, <1>4, <3>1
  <2>. QED
    BY <1>1, <1>3, <1>4, <2>1, <2>2 DEF QueueIsSuffix
<1>8. CurrentIsTaken'
  <2>1. \A i \in 1..n : jobs[i].state \notin {"taken", "ran"}
    BY <1>1, <1>2 DEF IInv, CurrentIsTaken
  <2>2. current' # 0
    BY <1>1, <1>2
  <2>. QED
    BY <1>1, <1>2, <1>4, <2>1, <2>2 DEF CurrentIsTaken
<1>9. LocksHeld'
  BY <1>2 DEF IInv, TypeOK, LocksHeld
<1>10. WaitersMatch'
  BY <1>1, <1>2, <1>4, <1>5 DEF IInv, WaitersMatch, BlockingCallOutlivesJob
<1>11. StopInProgress'
  BY <1>1, <1>2, <1>4 DEF IInv, StopInProgress
<1>12. NoLostWakeup'
  BY <1>2 DEF NoLostWakeup
<1>. QED
  BY <1>6, <1>7, <1>8, <1>9, <1>10, <1>11, <1>12 DEF IInv

\* Returning from the action of the current job preserves the invariant.
LEMMA RunActionStep ==
  ASSUME IInv, RunAction
  PROVE  IInv'
<1> DEFINE n == Len(jobs)
<1>1. /\ n \in Nat /\ DOMAIN jobs = 1..n /\ current \in 1..n
      /\ jobs[current].state = "taken"
  BY LenProperties DEF IInv, TypeOK, CurrentIsTaken, RunAction
<1>2. /\ jobs' = [jobs EXCEPT ![current].state = "ran"]
      /\ wpc = "action" /\ wpc' = "onDone"
      /\ UNCHANGED <<calls, outstanding, active, queueLock, ready, executingLock,
                     executing, current, pc, name, flag, scan, joiner, cancels>>
  BY DEF RunAction, callerVars
<1>3. /\ jobs' \in Seq(Job) /\ Len(jobs') = n /\ DOMAIN jobs' = 1..n
      /\ \A i \in 1..n :
           /\ jobs'[i].state = IF i = current THEN "ran" ELSE jobs[i].state
           /\ jobs'[i].waiter = jobs[i].waiter
           /\ jobs'[i].late = jobs[i].late
  <2>1. jobs \in Seq(Job) /\ current \in DOMAIN jobs /\ "ran" \in JobStates
    BY <1>1 DEF IInv, TypeOK, JobStates
  <2>. QED
    BY <1>1, <1>2, <2>1, SetState
<1>4. Len(jobs) = n
  OBVIOUS
<1> HIDE DEF n
<1>5. TypeOK'
  BY <1>1, <1>2, <1>3 DEF IInv, TypeOK
<1>6. QueueIsSuffix'
  <2>1. calls' = calls /\ Len(jobs') = Len(jobs) /\ DOMAIN jobs' = DOMAIN jobs
    BY <1>1, <1>2, <1>3, <1>4
  <2>2. \A i \in DOMAIN jobs : jobs'[i].state = "queued" <=> jobs[i].state = "queued"
    BY <1>1, <1>3
  <2>. QED
    BY <2>1, <2>2 DEF IInv, QueueIsSuffix
<1>7. CurrentIsTaken'
  BY <1>1, <1>2, <1>3 DEF IInv, CurrentIsTaken
<1>8. LocksHeld'
  BY <1>2 DEF IInv, LocksHeld
<1>9. WaitersMatch'
  BY <1>1, <1>2, <1>3 DEF IInv, WaitersMatch, BlockingCallOutlivesJob
<1>10. StopInProgress'
  BY <1>1, <1>2, <1>3 DEF IInv, StopInProgress
<1>11. NoLostWakeup'
  BY <1>2 DEF NoLostWakeup
<1>. QED
  BY <1>5, <1>6, <1>7, <1>8, <1>9, <1>10, <1>11 DEF IInv

\* Returning from its onDone, and waking its waiter, preserves the invariant.
LEMMA RunOnDoneStep ==
  ASSUME IInv, RunOnDone
  PROVE  IInv'
<1> DEFINE n == Len(jobs)
           w == jobs[current].waiter
<1>1. /\ n \in Nat /\ DOMAIN jobs = 1..n /\ current \in 1..n
      /\ jobs[current].state = "ran"
  BY LenProperties DEF IInv, TypeOK, CurrentIsTaken, RunOnDone
<1>2. /\ jobs' = [jobs EXCEPT ![current].state = "done"]
      /\ flag' = [t \in Threads |-> IF t = w THEN "finished" ELSE flag[t]]
      /\ wpc = "onDone" /\ wpc' = "finish"
      /\ UNCHANGED <<calls, outstanding, active, queueLock, ready, executingLock,
                     executing, current, pc, name, scan, joiner, cancels>>
  BY DEF RunOnDone, FlagsSet
<1>3. /\ jobs' \in Seq(Job) /\ Len(jobs') = n /\ DOMAIN jobs' = 1..n
      /\ \A i \in 1..n :
           /\ jobs'[i].state = IF i = current THEN "done" ELSE jobs[i].state
           /\ jobs'[i].waiter = jobs[i].waiter
           /\ jobs'[i].late = jobs[i].late
  <2>1. jobs \in Seq(Job) /\ current \in DOMAIN jobs /\ "done" \in JobStates
    BY <1>1 DEF IInv, TypeOK, JobStates
  <2>. QED
    BY <1>1, <1>2, <2>1, SetState
<1>4. Len(jobs) = n /\ jobs[current].waiter = w
  OBVIOUS
<1> HIDE DEF n, w
<1>5. TypeOK'
  BY <1>1, <1>2, <1>3 DEF IInv, TypeOK
<1>6. QueueIsSuffix'
  <2>1. calls' = calls /\ Len(jobs') = Len(jobs) /\ DOMAIN jobs' = DOMAIN jobs
    BY <1>1, <1>2, <1>3, <1>4
  <2>2. \A i \in DOMAIN jobs : jobs'[i].state = "queued" <=> jobs[i].state = "queued"
    BY <1>1, <1>3
  <2>. QED
    BY <2>1, <2>2 DEF IInv, QueueIsSuffix
<1>7. CurrentIsTaken'
  BY <1>1, <1>2, <1>3 DEF IInv, CurrentIsTaken
<1>8. LocksHeld'
  BY <1>2 DEF IInv, LocksHeld
<1>9. WaitersMatch'
  <2>1. \A i \in 1..n : i # current /\ jobs[i].waiter = w /\ w # None => jobs[i].state = "done"
    BY <1>1, <1>4 DEF IInv, WaitersMatch
  <2>2. w # None => flag[w] = "pending" /\ pc[w] \in {"notify", "count", "wait"}
    BY <1>1, <1>4 DEF IInv, WaitersMatch, BlockingCallOutlivesJob
  <2>3. \A i \in 1..n : jobs[i].waiter \in Threads \cup {None}
    BY <1>1, JobFields DEF IInv
  <2>4. BlockingCallOutlivesJob'
    BY <1>1, <1>2, <1>3, <2>1, <2>3 DEF IInv, WaitersMatch, BlockingCallOutlivesJob
  <2>5. \A i, j \in DOMAIN jobs' :
           /\ jobs'[i].waiter # None /\ jobs'[i].waiter = jobs'[j].waiter
           /\ jobs'[i].state # "done" /\ jobs'[j].state # "done"
           => i = j
    BY <1>1, <1>3 DEF IInv, WaitersMatch
  <2>6. \A u \in Threads :
          /\ flag'[u] # "none" => pc'[u] \in {"push", "notify", "count", "wait"}
          /\ pc'[u] = "push" => flag'[u] # "finished"
    BY <1>2, <2>2 DEF IInv, WaitersMatch
  <2>. QED
    BY <2>4, <2>5, <2>6 DEF WaitersMatch
<1>10. StopInProgress'
  BY <1>1, <1>2, <1>3 DEF IInv, StopInProgress
<1>11. NoLostWakeup'
  BY <1>2 DEF NoLostWakeup
<1>. QED
  BY <1>5, <1>6, <1>7, <1>8, <1>9, <1>10, <1>11 DEF IInv

\* Clearing executing_ and unlocking executingLock_ preserves the invariant.
LEMMA EndExecutingStep ==
  ASSUME IInv, EndExecuting
  PROVE  IInv'
<1> USE DEF EndExecuting, callerVars
<1>1. TypeOK'
  <2>1. current' \in 0..Len(jobs')
    BY JobFields DEF IInv
  <2>. QED
    BY <2>1 DEF IInv, TypeOK
<1>2. LocksHeld'
  BY DEF IInv, TypeOK, LocksHeld, Threads
<1>3. QueueIsSuffix' /\ StopInProgress'
  BY DEF IInv, QueueIsSuffix, StopInProgress
<1>6. CurrentIsTaken'
  BY DEF IInv, CurrentIsTaken
<1>4. WaitersMatch'
  BY DEF IInv, TypeOK, WaitersMatch, BlockingCallOutlivesJob
<1>5. NoLostWakeup'
  BY DEF IInv, TypeOK, NoLostWakeup
<1>. QED
  BY <1>1, <1>2, <1>3, <1>4, <1>5, <1>6 DEF IInv

-----------------------------------------------------------------------------
(* The induction.                                                          *)

\* No job exists and no lock is held when the worker is constructed.
LEMMA InitStep == Init => IInv
<1> SUFFICES ASSUME Init PROVE IInv
  OBVIOUS
<1>1. /\ jobs \in Seq(Job) /\ calls \in Seq(Nat)
      /\ Len(jobs) = 0 /\ Len(calls) = 0 /\ DOMAIN jobs = {} /\ DOMAIN calls = {}
  BY EmptySeq DEF Init
<1>2. TypeOK
  <2>1. outstanding \in 0..(LoadMod - 1) /\ current \in 0..Len(jobs)
    BY <1>1 DEF Init
  <2>2. /\ pc \in [Threads -> {"idle", "blockUntilReady"}]
        /\ name \in [Threads -> Names \cup {None}]
        /\ flag \in [Threads -> {"none", "pending", "finished"}]
    BY DEF Init
  <2>. QED
    BY <1>1, <2>1, <2>2 DEF Init, TypeOK
<1>3. QueueIsSuffix /\ CurrentIsTaken /\ StopInProgress /\ NoLostWakeup
  BY <1>1 DEF Init, QueueIsSuffix, CurrentIsTaken, StopInProgress, NoLostWakeup
<1>4. LocksHeld
  BY DEF Init, LocksHeld, Threads
<1>5. WaitersMatch
  BY <1>1 DEF Init, WaitersMatch, BlockingCallOutlivesJob, Threads
<1>. QED
  BY <1>2, <1>3, <1>4, <1>5 DEF IInv

\* A thread that enters an operation changes nothing the invariant speaks of
\* but its own position, name and flag.
LEMMA BeginStep ==
  ASSUME IInv, NEW t \in Threads, Begin(t)
  PROVE  IInv'
<1> USE DEF IInv, TypeOK, QueueIsSuffix, CurrentIsTaken, LocksHeld,
             WaitersMatch, BlockingCallOutlivesJob, StopInProgress, NoLostWakeup
<1>1. CASE \E n \in Names : DoJob(t, n)
  BY <1>1 DEF DoJob, Enter, Goto, workerVars
<1>2. CASE \E n \in Names : DoSyncJob(t, n)
  BY <1>2 DEF DoSyncJob, Enter, Goto, workerVars
<1>3. CASE \E n \in Names : CancelJobsFor(t, n)
  BY <1>3 DEF CancelJobsFor, Enter, Goto, workerVars
<1>4. CASE Stop(t)
  BY <1>4 DEF Stop, Enter, Goto, workerVars
<1>. QED
  BY <1>1, <1>2, <1>3, <1>4 DEF Begin

\* Every step of a thread inside an operation preserves the invariant.
LEMMA ContinueStep ==
  ASSUME IInv, NEW t \in Threads, Continue(t)
  PROVE  IInv'
<1>1. CASE Push(t)
  BY <1>1, PushStep
<1>2. CASE Notify(t)
  BY <1>2 DEF IInv, TypeOK, QueueIsSuffix, CurrentIsTaken, LocksHeld,
             WaitersMatch, BlockingCallOutlivesJob, StopInProgress, NoLostWakeup, Notify, Goto, Woken
<1>3. CASE Count(t)
  BY <1>3 DEF IInv, TypeOK, QueueIsSuffix, CurrentIsTaken, LocksHeld,
             WaitersMatch, BlockingCallOutlivesJob, StopInProgress, NoLostWakeup, Count, Goto, workerVars
<1>4. CASE WaitFinished(t)
  BY <1>4 DEF IInv, TypeOK, QueueIsSuffix, CurrentIsTaken, LocksHeld,
             WaitersMatch, BlockingCallOutlivesJob, StopInProgress, NoLostWakeup, WaitFinished, Goto, workerVars
<1>5. CASE CancelLock(t)
  BY <1>5, CancelLockStep
<1>6. CASE CancelVisit(t)
  BY <1>6 DEF IInv, TypeOK, QueueIsSuffix, CurrentIsTaken, LocksHeld,
             WaitersMatch, BlockingCallOutlivesJob, StopInProgress, NoLostWakeup, CancelVisit, workerVars
<1>7. CASE CancelErase(t)
  BY <1>7, CancelEraseStep
<1>8. CASE WaitForOutstandingJobsToFinish(t)
  BY <1>8, WaitForOutstandingJobsToFinishStep
<1>9. CASE Join(t)
  BY <1>9, JoinStep
<1>10. CASE Joined(t)
  BY <1>10 DEF IInv, TypeOK, QueueIsSuffix, CurrentIsTaken, LocksHeld,
             WaitersMatch, BlockingCallOutlivesJob, StopInProgress, NoLostWakeup, Joined, Goto, workerVars
<1>11. CASE BlockUntilReady(t)
  BY <1>11 DEF IInv, TypeOK, QueueIsSuffix, CurrentIsTaken, LocksHeld,
             WaitersMatch, BlockingCallOutlivesJob, StopInProgress, NoLostWakeup, BlockUntilReady, Goto, workerVars
<1>. QED
  BY <1>1, <1>2, <1>3, <1>4, <1>5, <1>6, <1>7, <1>8, <1>9, <1>10, <1>11 DEF Continue

\* Every step of the worker's thread preserves the invariant.
LEMMA RunStep ==
  ASSUME IInv, Run \/ SpuriousWakeup
  PROVE  IInv'
<1>1. CASE SetReady
  BY <1>1 DEF IInv, TypeOK, QueueIsSuffix, CurrentIsTaken, LocksHeld,
             WaitersMatch, BlockingCallOutlivesJob, StopInProgress, NoLostWakeup, SetReady, callerVars
<1>2. CASE CheckActive
  BY <1>2 DEF IInv, TypeOK, QueueIsSuffix, CurrentIsTaken, LocksHeld,
             WaitersMatch, BlockingCallOutlivesJob, StopInProgress, NoLostWakeup, CheckActive, callerVars
<1>3. CASE NothingQueued
  BY <1>3 DEF IInv, TypeOK, QueueIsSuffix, CurrentIsTaken, LocksHeld,
             WaitersMatch, BlockingCallOutlivesJob, StopInProgress, NoLostWakeup, NothingQueued, callerVars
<1>4. CASE SpuriousWakeup
  BY <1>4 DEF IInv, TypeOK, QueueIsSuffix, CurrentIsTaken, LocksHeld,
             WaitersMatch, BlockingCallOutlivesJob, StopInProgress, NoLostWakeup, SpuriousWakeup, callerVars
<1>5. CASE TakeFirstJob
  BY <1>5, TakeFirstJobStep
<1>6. CASE BeginExecuting
  BY <1>6 DEF IInv, TypeOK, QueueIsSuffix, CurrentIsTaken, LocksHeld,
             WaitersMatch, BlockingCallOutlivesJob, StopInProgress, NoLostWakeup, BeginExecuting, callerVars, Threads
<1>7. CASE RunAction
  BY <1>7, RunActionStep
<1>8. CASE RunOnDone
  BY <1>8, RunOnDoneStep
<1>9. CASE EndExecuting
  BY <1>9, EndExecutingStep
<1>. QED
  BY <1>1, <1>2, <1>3, <1>4, <1>5, <1>6, <1>7, <1>8, <1>9 DEF Run

\* A step that changes no variable preserves the invariant.
LEMMA StutterStep == IInv /\ UNCHANGED vars => IInv'
BY DEF IInv, TypeOK, QueueIsSuffix, CurrentIsTaken, LocksHeld,
             WaitersMatch, BlockingCallOutlivesJob, StopInProgress, NoLostWakeup,
       vars, workerVars, callerVars

\* The inductive invariant holds in every reachable state of the worker.
THEOREM InductiveInvariant == Spec => []IInv
<1>1. IInv /\ [Next]_vars => IInv'
  BY BeginStep, ContinueStep, RunStep, StutterStep DEF Next, AtRest
<1>. QED
  BY InitStep, <1>1, PTL DEF Spec

-----------------------------------------------------------------------------
(* The properties.                                                         *)

\* Type correctness of the worker.
THEOREM TypeCorrect == Spec => []TypeOK
BY InductiveInvariant, PTL DEF IInv

\* run() never sleeps in queueCond_.wait while there is something to do,
\* although doJob notifies only after it has released queueLock_.
THEOREM NoWakeupIsLost == Spec => []NoLostWakeup
BY InductiveInvariant, PTL DEF IInv

\* The jobs of a worker start in the order in which they were pushed, whatever
\* is cancelled in between.
THEOREM JobsRunInOrder == Spec => []NoOvertaking
<1>1. IInv => NoOvertaking
  BY JobFields DEF IInv, QueueIsSuffix, NoOvertaking
<1>. QED
  BY <1>1, InductiveInvariant, PTL

\* stop loses no job that was pushed before it cleared active_.
THEOREM StopDrainsTheQueue == Spec => []StopDrains
<1>1. IInv => StopDrains
  BY JobFields DEF IInv, CurrentIsTaken, StopInProgress, StopDrains, JobStates
<1>. QED
  BY <1>1, InductiveInvariant, PTL

\* The wake-up at the end of a job of doSyncJob finds its caller still inside
\* doSyncJob, so that the locals it writes to exist.
THEOREM WakeUpFindsItsCaller == Spec => []BlockingCallOutlivesJob
BY InductiveInvariant, PTL DEF IInv, WaitersMatch

-----------------------------------------------------------------------------
(* The load.  outstandingJobs_ wraps around: the invariant counts in whole *)
(* turns of LoadMod.                                                       *)

Posters == {t \in Threads : pc[t] \in {"notify", "count"}}

\* outstandingJobs_ and the jobs still to be counted are as many as are queued, and the
\* d that were uncounted when the last cancellation reset the counter, but for k turns.
LoadInv ==
  /\ \E d \in 0..Cardinality(Threads), k \in Int :
       /\ Len(calls) + d = outstanding + Cardinality(Posters) + k * LoadMod
       /\ cancels = 0 => d = 0
  /\ \A t \in Threads : pc[t] \in {"lock", "scan"} => cancels # 0

\* Whole turns do not show in the remainder.
LEMMA WholeTurns ==
  ASSUME NEW m \in Nat \ {0}, NEW x \in Nat, NEW y \in Int, NEW k \in Int, x = y + k * m
  PROVE  x % m = y % m
<1>1. PICK q \in Int : \E r \in 0..m - 1 : x = m * q + r /\ x % m = r
  OBVIOUS
<1>2. PICK r \in 0..m - 1 : x = m * q + r /\ x % m = r
  BY <1>1
<1>3. q - k \in Int /\ y = m * (q - k) + r
  BY <1>2
<1>4. \A p \in Int : (m * p + r) % m = r
  OBVIOUS
<1>. QED
  BY <1>2, <1>3, <1>4

\* What ++ and -- do to a counter that is below LoadMod.
LEMMA WrapAround ==
  ASSUME NEW m \in Nat \ {0}, NEW x \in 0..m - 1
  PROVE  /\ (x + 1) % m = IF x + 1 = m THEN 0 ELSE x + 1
         /\ (x + (m - 1)) % m = IF x = 0 THEN m - 1 ELSE x - 1
<1>1. \A y \in 0..m - 1 : y % m = y
  OBVIOUS
<1>2. \A y \in m..m + m - 1 : y % m = y - m
  OBVIOUS
<1>. QED
  BY <1>1, <1>2

\* The posters that have still to count are finitely many.
LEMMA CountPosters ==
  /\ IsFiniteSet(Threads) /\ Cardinality(Threads) \in Nat
  /\ IsFiniteSet(Posters) /\ Cardinality(Posters) \in 0..Cardinality(Threads)
<1>1. IsFiniteSet(Threads)
  BY ThreadsAssumption, FS_AddElement DEF Threads
<1>2. Posters \in SUBSET Threads
  BY DEF Posters
<1>. QED
  BY <1>1, <1>2, FS_Subset, FS_CardinalityType

\* A step that neither posts, counts, takes nor cancels keeps the load.
LEMMA LoadSame ==
  ASSUME LoadInv, UNCHANGED <<calls, outstanding>>, Posters' = Posters, cancels' \in Nat,
         cancels' # 0 \/ cancels' = cancels,
         \A t \in Threads : pc'[t] \in {"lock", "scan"} => pc[t] \in {"lock", "scan"} \/ cancels' # 0
  PROVE  LoadInv'
<1>1. PICK d \in 0..Cardinality(Threads), k \in Int :
         /\ Len(calls) + d = outstanding + Cardinality(Posters) + k * LoadMod
         /\ cancels = 0 => d = 0
  BY DEF LoadInv
<1>2. /\ Len(calls') + d = outstanding' + Cardinality(Posters') + k * LoadMod
      /\ cancels' = 0 => d = 0
  BY <1>1
<1>3. \A t \in Threads : pc'[t] \in {"lock", "scan"} => cancels' # 0
  BY DEF LoadInv
<1>. QED
  BY <1>2, <1>3 DEF LoadInv

\* A job is queued by one who has still to count it.
LEMMA PushLoad ==
  ASSUME IInv, LoadInv, NEW t \in Threads, Push(t)
  PROVE  LoadInv'
<1>1. /\ pc[t] = "push" /\ pc' = [pc EXCEPT ![t] = "notify"]
      /\ calls' = Append(calls, Len(jobs) + 1) /\ UNCHANGED <<outstanding, cancels>>
  BY DEF Push, Goto
<1>2. calls \in Seq(Nat) /\ Len(calls) \in Nat /\ Len(jobs) \in Nat /\ outstanding \in Nat
  BY JobFields DEF IInv, TypeOK
<1>3. Len(calls') = Len(calls) + 1
  BY <1>1, <1>2
<1>4. /\ \A u \in Threads \ {t} : pc'[u] = pc[u]
      /\ pc'[t] = "notify"
  BY <1>1 DEF IInv, TypeOK
<1>5. Posters' = Posters \cup {t} /\ t \notin Posters
  BY <1>1, <1>4 DEF Posters
<1>6. Cardinality(Posters') = Cardinality(Posters) + 1
  BY <1>5, CountPosters, FS_AddElement
<1>7. PICK d \in 0..Cardinality(Threads), k \in Int :
         /\ Len(calls) + d = outstanding + Cardinality(Posters) + k * LoadMod
         /\ cancels = 0 => d = 0
  BY DEF LoadInv
<1>8. Len(calls') + d = outstanding' + Cardinality(Posters') + k * LoadMod
  <2> DEFINE turns == k * LoadMod
             c == Cardinality(Posters)
  <2>1. turns \in Int /\ Len(calls) + d = outstanding + c + turns
    BY <1>7
  <2>2. c \in Int /\ d \in Int /\ Cardinality(Posters') = c + 1 /\ outstanding' = outstanding
    BY <1>1, <1>6, CountPosters
  <2> HIDE DEF turns, c
  <2>3. Len(calls') + d = outstanding' + Cardinality(Posters') + turns
    BY <1>2, <1>3, <2>1, <2>2
  <2>. QED
    BY <2>3 DEF turns
<1>9. \A u \in Threads : pc'[u] \in {"lock", "scan"} => cancels' # 0
  BY <1>1, <1>4 DEF LoadInv
<1>. QED
  BY <1>1, <1>7, <1>8, <1>9 DEF LoadInv

\* It is counted, or the counter wraps around to 0.
LEMMA CountLoad ==
  ASSUME IInv, LoadInv, NEW t \in Threads, Count(t)
  PROVE  LoadInv'
<1>1. /\ pc[t] = "count" /\ outstanding' = (outstanding + 1) % LoadMod
      /\ pc' = [pc EXCEPT ![t] = IF flag[t] = "none" THEN "idle" ELSE "wait"]
      /\ UNCHANGED <<calls, cancels>>
  BY DEF Count, Goto
<1>2. /\ outstanding \in 0..LoadMod - 1 /\ Len(calls) \in Nat
      /\ \A u \in Threads \ {t} : pc'[u] = pc[u]
      /\ pc'[t] \in {"idle", "wait"}
  BY <1>1, JobFields DEF IInv, TypeOK
<1>3. Posters' = Posters \ {t} /\ t \in Posters
  BY <1>1, <1>2 DEF Posters
<1>4. Cardinality(Posters') = Cardinality(Posters) - 1
  BY <1>3, CountPosters, FS_RemoveElement
<1>5. PICK d \in 0..Cardinality(Threads), k \in Int :
         /\ Len(calls) + d = outstanding + Cardinality(Posters) + k * LoadMod
         /\ cancels = 0 => d = 0
  BY DEF LoadInv
<1>6. \A u \in Threads : pc'[u] \in {"lock", "scan"} => cancels' # 0
  BY <1>1, <1>2 DEF LoadInv
<1> DEFINE turns == k * LoadMod
<1>7. turns \in Int /\ (k + 1) * LoadMod = turns + LoadMod
      /\ Len(calls) + d = outstanding + Cardinality(Posters) + turns
  BY <1>5
<1>8. outstanding' = IF outstanding + 1 = LoadMod THEN 0 ELSE outstanding + 1
  BY <1>1, <1>2, WrapAround
<1> HIDE DEF turns
<1>9. Cardinality(Posters) \in Int /\ d \in Int
  BY CountPosters
<1>10. CASE outstanding + 1 = LoadMod
  <2>1. outstanding' = 0 /\ outstanding = LoadMod - 1 /\ calls' = calls
    BY <1>1, <1>2, <1>8, <1>10
  <2>2. Len(calls') + d = outstanding' + Cardinality(Posters') + (turns + LoadMod)
    BY <1>4, <1>7, <1>9, <2>1
  <2>3. Len(calls') + d = outstanding' + Cardinality(Posters') + (k + 1) * LoadMod /\ k + 1 \in Int
    BY <1>5, <1>7, <2>2
  <2>. QED
    BY <1>1, <1>5, <1>6, <2>3 DEF LoadInv
<1>11. CASE outstanding + 1 # LoadMod
  <2>1. outstanding' = outstanding + 1 /\ outstanding \in Int /\ calls' = calls
    BY <1>1, <1>2, <1>8, <1>11
  <2>2. Len(calls') + d = outstanding' + Cardinality(Posters') + turns
    BY <1>4, <1>7, <1>9, <2>1
  <2>3. Len(calls') + d = outstanding' + Cardinality(Posters') + k * LoadMod
    BY <2>2 DEF turns
  <2>. QED
    BY <1>1, <1>5, <1>6, <2>3 DEF LoadInv
<1>. QED
  BY <1>10, <1>11

\* A job leaves the queue and is discounted, or the counter wraps around from 0.
LEMMA TakeLoad ==
  ASSUME IInv, LoadInv, TakeFirstJob
  PROVE  LoadInv'
<1>1. /\ calls # <<>> /\ calls' = Tail(calls)
      /\ outstanding' = (outstanding + (LoadMod - 1)) % LoadMod
      /\ UNCHANGED <<pc, cancels>>
  BY DEF TakeFirstJob, Discounted, callerVars
<1>2. calls \in Seq(Nat) /\ Len(calls) \in Nat /\ outstanding \in 0..LoadMod - 1
  BY JobFields DEF IInv, TypeOK
<1>3. Len(calls') = Len(calls) - 1
  BY <1>1, <1>2
<1>4. Posters' = Posters
  BY <1>1 DEF Posters
<1>5. PICK d \in 0..Cardinality(Threads), k \in Int :
         /\ Len(calls) + d = outstanding + Cardinality(Posters) + k * LoadMod
         /\ cancels = 0 => d = 0
  BY DEF LoadInv
<1>6. \A u \in Threads : pc'[u] \in {"lock", "scan"} => cancels' # 0
  BY <1>1 DEF LoadInv
<1> DEFINE turns == k * LoadMod
<1>7. turns \in Int /\ (k - 1) * LoadMod = turns - LoadMod
      /\ Len(calls) + d = outstanding + Cardinality(Posters) + turns
  BY <1>5
<1>8. outstanding' = IF outstanding = 0 THEN LoadMod - 1 ELSE outstanding - 1
  BY <1>1, <1>2, WrapAround
<1> HIDE DEF turns
<1>9. Cardinality(Posters) \in Int /\ d \in Int
  BY CountPosters
<1>10. CASE outstanding = 0
  <2>1. Len(calls') + d = outstanding' + Cardinality(Posters') + (turns - LoadMod)
    BY <1>2, <1>3, <1>4, <1>7, <1>8, <1>10, <1>9
  <2>2. Len(calls') + d = outstanding' + Cardinality(Posters') + (k - 1) * LoadMod /\ k - 1 \in Int
    BY <1>7, <2>1
  <2>. QED
    BY <1>1, <1>5, <1>6, <2>2 DEF LoadInv
<1>11. CASE outstanding # 0
  <2>1. outstanding' = outstanding - 1 /\ outstanding \in Int /\ Len(calls) \in Int
    BY <1>2, <1>8, <1>11
  <2>2. Cardinality(Posters') = Cardinality(Posters)
    BY <1>4
  <2>3. Len(calls') + d = outstanding' + Cardinality(Posters') + turns
    BY <1>3, <1>7, <1>9, <2>1, <2>2
  <2>4. Len(calls') + d = outstanding' + Cardinality(Posters') + k * LoadMod
    BY <2>3 DEF turns
  <2>. QED
    BY <1>1, <1>5, <1>6, <2>4 DEF LoadInv
<1>. QED
  BY <1>10, <1>11

\* A cancellation resets the counter: what is off are the jobs still to be counted.
LEMMA EraseLoad ==
  ASSUME IInv, LoadInv, NEW t \in Threads, CancelErase(t)
  PROVE  LoadInv'
<1>1. /\ pc[t] = "scan" /\ pc' = [pc EXCEPT ![t] = "idle"]
      /\ calls' = <<>> /\ outstanding' = 0 /\ UNCHANGED cancels
  BY DEF CancelErase, Goto
<1>2. /\ \A u \in Threads \ {t} : pc'[u] = pc[u]
      /\ pc'[t] = "idle"
  BY <1>1 DEF IInv, TypeOK
<1>3. Posters' = Posters
  BY <1>1, <1>2 DEF Posters
<1>4. cancels # 0 /\ \A u \in Threads : pc'[u] \in {"lock", "scan"} => cancels' # 0
  BY <1>1, <1>2 DEF LoadInv
<1> DEFINE d == Cardinality(Posters)
<1>5. d \in 0..Cardinality(Threads)
  BY CountPosters
<1>6. Len(calls') = 0 /\ Cardinality(Posters') = d
  BY <1>1, <1>3, EmptySeq
<1> HIDE DEF d
<1>7. Len(calls') + d = outstanding' + Cardinality(Posters') + 0 * LoadMod
  BY <1>1, <1>5, <1>6, CountPosters
<1>. QED
  BY <1>1, <1>4, <1>5, <1>7 DEF LoadInv

\* A thread that moves neither to nor from posting leaves the load alone.
LEMMA MoveLoad ==
  ASSUME IInv, LoadInv, NEW t \in Threads, NEW p, Goto(t, p), UNCHANGED <<calls, outstanding>>,
         pc[t] # "count", p # "notify", pc[t] = "notify" <=> p = "count",
         cancels' = cancels \/ cancels' = cancels + 1,
         p \in {"lock", "scan"} => pc[t] = "lock" \/ cancels' = cancels + 1
  PROVE  LoadInv'
<1>1. cancels \in Nat /\ (\A u \in Threads \ {t} : pc'[u] = pc[u]) /\ pc'[t] = p
  BY DEF Goto, IInv, TypeOK
<1>2. Posters' = Posters
  BY <1>1 DEF Posters
<1>3. cancels' \in Nat /\ (cancels' # 0 \/ cancels' = cancels) /\ (cancels' = cancels + 1 => cancels' # 0)
  BY <1>1
<1>4. \A u \in Threads : pc'[u] \in {"lock", "scan"} => pc[u] \in {"lock", "scan"} \/ cancels' # 0
  BY <1>1, <1>3
<1>. QED
  BY <1>2, <1>3, <1>4, LoadSame

\* Every other step leaves the load alone.
LEMMA LoadStep == IInv /\ LoadInv /\ [Next]_vars => LoadInv'
<1>. SUFFICES ASSUME IInv, LoadInv, [Next]_vars PROVE LoadInv'
  OBVIOUS
<1>1. ASSUME UNCHANGED <<pc, calls, outstanding, cancels>>
      PROVE  LoadInv'
  <2>1. Posters' = Posters /\ cancels' \in Nat
    BY <1>1 DEF Posters, IInv, TypeOK
  <2>. QED
    BY <1>1, <2>1, LoadSame
<1>2. ASSUME NEW t \in Threads, Begin(t)
      PROVE  LoadInv'
  <2>1. pc[t] = "idle" /\ UNCHANGED <<calls, outstanding>>
    BY <1>2 DEF Begin, DoJob, DoSyncJob, CancelJobsFor, Stop, Enter
  <2>2. \/ Goto(t, "push") /\ cancels' = cancels
        \/ Goto(t, "drain") /\ cancels' = cancels
        \/ Goto(t, "lock") /\ cancels' = cancels + 1
    BY <1>2 DEF Begin, DoJob, DoSyncJob, CancelJobsFor, Stop, Enter
  <2>. QED
    BY <2>1, <2>2, MoveLoad
<1>3. ASSUME NEW t \in Threads, Continue(t)
      PROVE  LoadInv'
  <2>1. CASE Push(t) \/ Count(t) \/ CancelErase(t)
    BY <2>1, PushLoad, CountLoad, EraseLoad
  <2>2. CASE CancelVisit(t)
    BY <1>1, <2>2 DEF CancelVisit
  <2>3. CASE Notify(t)
    <3>1. pc[t] = "notify" /\ Goto(t, "count") /\ UNCHANGED <<calls, outstanding, cancels>>
      BY <2>3 DEF Notify
    <3>. QED
      BY <3>1, MoveLoad
  <2>4. CASE CancelLock(t)
    <3>1. pc[t] = "lock" /\ Goto(t, "scan") /\ UNCHANGED <<calls, outstanding, cancels>>
      BY <2>4 DEF CancelLock
    <3>. QED
      BY <3>1, MoveLoad
  <2>5. CASE WaitFinished(t) \/ WaitForOutstandingJobsToFinish(t) \/ Join(t) \/ Joined(t) \/ BlockUntilReady(t)
    <3>1. /\ pc[t] \in {"wait", "drain", "join", "joining", "blockUntilReady"}
          /\ Goto(t, "idle") \/ Goto(t, "join") \/ Goto(t, "joining")
          /\ UNCHANGED <<calls, outstanding, cancels>>
      BY <2>5 DEF WaitFinished, WaitForOutstandingJobsToFinish, Join, Joined, BlockUntilReady
    <3>. QED
      BY <3>1, MoveLoad
  <2>. QED
    BY <1>3, <2>1, <2>2, <2>3, <2>4, <2>5 DEF Continue
<1>4. ASSUME Run \/ SpuriousWakeup
      PROVE  LoadInv'
  <2>1. TakeFirstJob \/ UNCHANGED <<pc, calls, outstanding, cancels>>
    BY <1>4 DEF Run, SetReady, CheckActive, NothingQueued, BeginExecuting, RunAction, RunOnDone,
                EndExecuting, SpuriousWakeup, callerVars
  <2>. QED
    BY <1>1, <2>1, TakeLoad
<1>5. CASE UNCHANGED vars \/ AtRest
  BY <1>1, <1>5 DEF AtRest, vars, callerVars
<1>. QED
  BY <1>2, <1>3, <1>4, <1>5 DEF Next

\* At first there is nothing to count.
LEMMA InitLoad == Init => LoadInv
<1>. SUFFICES ASSUME Init PROVE LoadInv
  OBVIOUS
<1>1. Posters = {} /\ \A t \in Threads : pc[t] \notin {"lock", "scan"}
  BY DEF Init, Posters
<1>2. Len(calls) = 0 /\ outstanding = 0 /\ Cardinality(Posters) = 0
  BY <1>1, EmptySeq, FS_EmptySet DEF Init
<1>3. \E d \in 0..Cardinality(Threads), k \in Int :
        /\ Len(calls) + d = outstanding + Cardinality(Posters) + k * LoadMod
        /\ cancels = 0 => d = 0
  <2>1. Len(calls) + 0 = outstanding + Cardinality(Posters) + 0 * LoadMod
    BY <1>2
  <2>2. 0 \in 0..Cardinality(Threads) /\ 0 \in Int
    BY CountPosters
  <2>. QED
    BY <2>1, <2>2
<1>. QED
  BY <1>1, <1>3 DEF LoadInv

\* The counter fits the queue in every reachable state.
THEOREM LoadIsCounted == Spec => []LoadInv
BY InitLoad, LoadStep, InductiveInvariant, PTL DEF Spec

\* However many cancellations reset outstandingJobs_ under the feet of posters, it
\* exceeds the length of the queue by one per thread at most.
THEOREM LoadDriftIsBounded == Spec => []LoadDriftBounded
<1>1. IInv /\ LoadInv => LoadDriftBounded
  <2>. SUFFICES ASSUME IInv, LoadInv PROVE LoadDriftBounded
    OBVIOUS
  <2>1. PICK d \in 0..Cardinality(Threads), k \in Int :
          Len(calls) + d = outstanding + Cardinality(Posters) + k * LoadMod
    BY DEF LoadInv
  <2> DEFINE x == Len(calls) + d
             y == outstanding + Cardinality(Posters)
  <2>2. x \in Nat /\ y \in Int /\ x = y + k * LoadMod
    BY <2>1, JobFields, CountPosters DEF IInv, TypeOK
  <2> HIDE DEF x, y
  <2>3. x % LoadMod = y % LoadMod
    BY <2>2, WholeTurns
  <2> USE DEF x, y
  <2>. QED
    BY <2>3 DEF LoadDriftBounded, Uncounted, Posters
<1>. QED
  BY <1>1, InductiveInvariant, LoadIsCounted, PTL

\* Before the first cancellation no increment or decrement of outstandingJobs_ is lost.
THEOREM LoadIsExact == Spec => []LoadExact
<1>1. IInv /\ LoadInv => LoadExact
  <2>. SUFFICES ASSUME IInv, LoadInv, cancels = 0
                PROVE  (outstanding + Uncounted) % LoadMod = Len(calls) % LoadMod
    BY DEF LoadExact
  <2> DEFINE x == Len(calls)
             y == outstanding + Cardinality(Posters)
  <2>1. PICK k \in Int : x + 0 = y + k * LoadMod
    BY DEF LoadInv
  <2>2. x \in Nat /\ y \in Int /\ x = y + k * LoadMod
    BY <2>1, JobFields, CountPosters DEF IInv, TypeOK
  <2> HIDE DEF x, y
  <2>3. x % LoadMod = y % LoadMod
    BY <2>2, WholeTurns
  <2> USE DEF x, y
  <2>. QED
    BY <2>3 DEF Uncounted, Posters
<1>. QED
  BY <1>1, InductiveInvariant, LoadIsCounted, PTL

=============================================================================
