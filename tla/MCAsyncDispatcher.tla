-------------------------- MODULE MCAsyncDispatcher --------------------------
(* Values of May for the model-checking runs of AsyncDispatcher. *)
EXTENDS AsyncDispatcher

CONSTANTS c1, c2

MayAs(f1, f2, jobOps) ==
  [t \in Threads |-> IF t = c1 THEN f1 ELSE IF t = c2 THEN f2 ELSE jobOps]

Schedule == {"scheduleJob", "scheduleSyncJob"}

\* One client posts, the other, the owner, cancels too; jobs post too.
MayWalk == MayAs({"scheduleJob"}, LifeOps \cup {"cancelJobsFor"}, {"scheduleJob"})
\* The owner makes every call; jobs make blocking calls, to each other's workers
\* and to their own.
MayBlock == MayAs(LifeOps \cup Schedule \cup {"cancelJobsFor"}, {}, {"scheduleSyncJob"})
=============================================================================
