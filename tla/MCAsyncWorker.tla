---------------------------- MODULE MCAsyncWorker ----------------------------
(* Values of May for the model-checking runs of AsyncWorker. *)
EXTENDS AsyncWorker, TLC

CONSTANTS c1, c2, a, b

\* Clients with the same operations are interchangeable, and so are service names
\* (safety runs only).
Interchangeable == Permutations(Clients) \cup Permutations(Names)

Only(clientOps, jobOps) ==
  [t \in Threads |-> IF t = Worker THEN jobOps ELSE clientOps]

MayAll == Only(Ops, Ops)
MayPost == Only({"doJob", "doSyncJob"}, {"doJob"})
MayPostCancel == Only({"doJob", "cancelJobsFor"}, {})
MayPostSyncCancel == Only({"doJob", "doSyncJob", "cancelJobsFor"}, {})
=============================================================================
