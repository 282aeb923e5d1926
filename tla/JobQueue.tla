------------------------------ MODULE JobQueue ------------------------------
(***************************************************************************)
(* What a worker promises to those who post jobs to it.  Jobs are numbered *)
(* in the order in which they are posted.  They run one at a time, in that *)
(* order, each exactly once, unless they are dropped while they wait.      *)
(***************************************************************************)
EXTENDS Naturals

VARIABLES
  posted,   \* how many jobs have been posted
  waiting,  \* the jobs that have not been started
  running,  \* the job being run: at most one
  done,     \* the jobs that have been run
  dropped   \* the jobs cancelled before they were started

vars == <<posted, waiting, running, done, dropped>>

Init ==
  /\ posted = 0
  /\ waiting = {} /\ running = {} /\ done = {} /\ dropped = {}

Post ==
  /\ posted' = posted + 1
  /\ waiting' = waiting \cup {posted + 1}
  /\ UNCHANGED <<running, done, dropped>>

Start ==
  /\ running = {}
  /\ \E j \in waiting :
       /\ \A k \in waiting : j <= k
       /\ running' = {j}
       /\ waiting' = waiting \ {j}
  /\ UNCHANGED <<posted, done, dropped>>

Finish ==
  /\ running # {}
  /\ running' = {}
  /\ done' = done \cup running
  /\ UNCHANGED <<posted, waiting, dropped>>

Drop ==
  /\ \E S \in SUBSET waiting :
       /\ waiting' = waiting \ S
       /\ dropped' = dropped \cup S
  /\ UNCHANGED <<posted, running, done>>

Next == Post \/ Start \/ Finish \/ Drop

Spec == Init /\ [][Next]_vars
=============================================================================
