------------------------------ MODULE MCProgress ------------------------------
(* Two things people wait for, side by side: the task queue, which must not  *)
(* leave a task behind, and the approvals of a tool, whose answers must not  *)
(* get lost.  A behaviour runs one of them and the other stays put.          *)
EXTENDS Approvals, TLC

CONSTANTS t1, t2, alerts, reports

VARIABLES part, taskStatus, created, archived, container, live, enabled, waits, ops,
          queueLock, rowLock, pc, seen, blocked, picked

Q == INSTANCE TaskQueue WITH
       Tasks <- {t1, t2}, Workflows <- {alerts, reports}, Replicas <- {1, 2},
       WorkflowOf <- t1 :> alerts @@ t2 :> reports,
       Limit <- alerts :> 1 @@ reports :> 2,
       Priority <- alerts :> 0 @@ reports :> 1,
       PlatformMax <- 1, MaxWaits <- 1, MaxOps <- 1, status <- taskStatus

queue == <<taskStatus, created, archived, container, live, enabled, waits, ops,
           queueLock, rowLock, pc, seen, blocked, picked>>
mcvars == <<part, vars, queue>>

MCInit == part \in {"approvals", "queue"} /\ Init /\ Q!Init

MCNext ==
  \/ part = "approvals" /\ Next /\ UNCHANGED <<part, queue>>
  \/ part = "queue" /\ Q!Next /\ UNCHANGED <<part, vars>>

MCSpec ==
  /\ MCInit /\ [][MCNext]_mcvars
  /\ part = "approvals" => Fairness
  /\ part = "queue" => Q!Fairness

-----------------------------------------------------------------------------
\* The liveness of the part that runs.
PromptsAnswered == part = "approvals" => PromptedAnswered
QueueDrains     == part = "queue" => Q!QueueDrains
===============================================================================
