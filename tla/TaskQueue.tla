------------------------------ MODULE TaskQueue ------------------------------
(***************************************************************************)
(* The task queue of shared/lib/task_queue.py as the session managers use    *)
(* it.  Several session-manager replicas run queue_consumer_loop against one *)
(* PostgreSQL database.  A dequeue is ONE database transaction but many      *)
(* steps: read the agents, take the advisory lock, count the running tasks,  *)
(* select and row-lock a candidate, count again for its workflow, claim and  *)
(* commit.  The gateway, the runtimes and the operators write task rows in   *)
(* between; a write waits for the row lock, a read does not.                 *)
(*                                                                           *)
(* Time is abstracted: Task.created is the creation order, and "the          *)
(* heartbeat is stale" may be true of any running task that has no runtime.  *)
(***************************************************************************)
EXTENDS Naturals, FiniteSets

CONSTANTS Tasks, Workflows, WorkflowOf, Limit, PlatformMax,
          Priority,     \* runtime.priority per workflow: 0 high, 1 medium, 2 low
          Replicas,     \* session-manager processes
          None,         \* no replica / no task
          MaxWaits,     \* bound: human waits per task
          MaxOps        \* bound: operator actions and replica crashes

ASSUME QueueAssumption ==
    /\ IsFiniteSet(Tasks)
    /\ WorkflowOf \in [Tasks -> Workflows]
    /\ Limit \in [Workflows -> Nat \ {0}]
    /\ PlatformMax \in Nat \ {0}
    /\ Priority \in [Workflows -> 0..2]
    /\ None \notin Replicas \cup Tasks
    /\ MaxWaits \in Nat
    /\ MaxOps \in Nat

VARIABLES status,     \* Task.status
          created,    \* Task.created as a creation number, 0 before
          archived,   \* tasks with archived_at set
          container,  \* tasks with container_id set
          live,       \* tasks whose runtime Job is alive
          enabled,    \* workflows whose Agent is provisioned and not paused
          waits,      \* human waits begun so far, per task
          ops,        \* operator actions and crashes so far
          queueLock,  \* holder of pg_advisory_xact_lock(8142301)
          rowLock,    \* holder of the row lock of each task
          pc,         \* where each replica is in queue_consumer_loop
          seen,       \* enabled_plugins: the workflows the replica saw enabled
          blocked,    \* blocked_workflows
          picked      \* the candidate, later the claimed task

\* The promise this protocol keeps: the rows are Admission's, the locks and the
\* replicas' local state are hidden.
A == INSTANCE Admission WITH
        Tasks <- Tasks, Workflows <- Workflows, WorkflowOf <- WorkflowOf,
        Limit <- Limit, PlatformMax <- PlatformMax, status <- status

rows     == <<status, created, archived, container, live, enabled, waits>>
txVars   == <<queueLock, rowLock, seen, blocked, picked>>
vars     == <<rows, ops, txVars, pc>>

RUNNABLE_STATUSES == A!RUNNABLE_STATUSES
Running == A!Running
RunningOf(w) == A!RunningOf(w)

(* The points of the loop at which a replica is inside the dequeue          *)
(* transaction after it has the advisory lock.                               *)
Holding == {"count", "select", "check", "claim"}
Labels  == {"idle", "begin", "admit"} \cup Holding

Init ==
    /\ status = [t \in Tasks |-> "absent"]
    /\ created = [t \in Tasks |-> 0]
    /\ archived = {} /\ container = {} /\ live = {}
    /\ enabled = Workflows
    /\ waits = [t \in Tasks |-> 0]
    /\ ops = 0
    /\ queueLock = None
    /\ rowLock = [t \in Tasks |-> None]
    /\ pc = [r \in Replicas |-> "idle"]
    /\ seen = [r \in Replicas |-> {}]
    /\ blocked = [r \in Replicas |-> {}]
    /\ picked = [r \in Replicas |-> None]

Goto(r, label) == pc' = [pc EXCEPT ![r] = label]

\* Mutant: a session-level advisory lock, which a commit does not release.
KeepQueueLock(r) ==
    /\ UNCHANGED queueLock
    /\ rowLock' = [t \in Tasks |-> IF rowLock[t] = r THEN None ELSE rowLock[t]]

\* Commit or rollback: every lock of the transaction goes.
ReleaseLocks(r) ==
    /\ queueLock' = IF queueLock = r THEN None ELSE queueLock
    /\ rowLock' = [t \in Tasks |-> IF rowLock[t] = r THEN None ELSE rowLock[t]]

EndTransaction(r) ==
    /\ ReleaseLocks(r)
    /\ seen' = [seen EXCEPT ![r] = {}]
    /\ blocked' = [blocked EXCEPT ![r] = {}]

-----------------------------------------------------------------------------
(* queue_consumer_loop and dequeue_task                                      *)

\* The agents are read before the queue is locked, so `seen` may be out of
\* date when the claim commits.
ReadAgents(r) ==
    /\ pc[r] = "idle"
    /\ seen' = [seen EXCEPT ![r] = enabled]
    /\ Goto(r, "begin")
    /\ UNCHANGED <<rows, ops, queueLock, rowLock, blocked, picked>>

QueueLockFree == queueLock = None

LockQueue(r) ==
    /\ pc[r] = "begin"
    /\ QueueLockFree
    /\ queueLock' = r
    /\ Goto(r, "count")
    /\ UNCHANGED <<rows, ops, rowLock, seen, blocked, picked>>

PlatformSlotFree == Cardinality(Running) < PlatformMax

CountRunning(r) ==
    /\ pc[r] = "count"
    /\ \/ /\ PlatformSlotFree /\ seen[r] # {}
          /\ Goto(r, "select")
          /\ UNCHANGED txVars
       \/ /\ ~PlatformSlotFree \/ seen[r] = {}
          /\ EndTransaction(r)
          /\ Goto(r, "idle")
          /\ UNCHANGED picked
    /\ UNCHANGED <<rows, ops>>

Eligible(r) ==
    {t \in Tasks : /\ status[t] \in RUNNABLE_STATUSES
                   /\ t \notin archived
                   /\ WorkflowOf[t] \in seen[r] \ blocked[r]
                   /\ rowLock[t] \in {None, r}}      \* SKIP LOCKED

\* ORDER BY resumed first, workflow priority, created
Before(s, t) ==
    LET resumed(u) == IF status[u] = "resume_pending" THEN 0 ELSE 1
        key(u) == <<resumed(u), Priority[WorkflowOf[u]], created[u]>>
        a == key(s)
        b == key(t)
    IN  \/ a[1] < b[1]
        \/ a[1] = b[1] /\ a[2] < b[2]
        \/ a[1] = b[1] /\ a[2] = b[2] /\ a[3] < b[3]

SelectCandidate(r) ==
    /\ pc[r] = "select"
    /\ \/ \E t \in Eligible(r) :
             /\ \A s \in Eligible(r) \ {t} : ~Before(s, t)
             /\ rowLock' = [rowLock EXCEPT ![t] = r]
             /\ picked' = [picked EXCEPT ![r] = t]
             /\ Goto(r, "check")
             /\ UNCHANGED <<queueLock, seen, blocked>>
       \/ /\ Eligible(r) = {}
          /\ EndTransaction(r)
          /\ Goto(r, "idle")
          /\ UNCHANGED picked
    /\ UNCHANGED <<rows, ops>>

\* Mutant: the limit is compared with the wrong relation.
WorkflowSlotOffByOne(w) == Cardinality(RunningOf(w)) <= Limit[w]

WorkflowSlotFree(w) == Cardinality(RunningOf(w)) < Limit[w]

\* Mutant: the workflow limit is not looked at.
CheckWorkflowIgnored(r) ==
    /\ pc[r] = "check"
    /\ Goto(r, "claim")
    /\ UNCHANGED <<rows, ops, txVars>>

\* A full workflow is set aside and the next candidate selected; the row lock
\* on the rejected candidate stays until the transaction ends.
CheckWorkflow(r) ==
    LET w == WorkflowOf[picked[r]] IN
    /\ pc[r] = "check"
    /\ \/ /\ WorkflowSlotFree(w)
          /\ Goto(r, "claim")
          /\ UNCHANGED <<blocked, picked>>
       \/ /\ ~WorkflowSlotFree(w)
          /\ blocked' = [blocked EXCEPT ![r] = @ \cup {w}]
          /\ picked' = [picked EXCEPT ![r] = None]
          /\ Goto(r, "select")
    /\ UNCHANGED <<rows, ops, queueLock, rowLock, seen>>

Claim(r) ==
    /\ pc[r] = "claim"
    /\ status' = [status EXCEPT ![picked[r]] = "running"]
    /\ EndTransaction(r)
    /\ Goto(r, "admit")
    /\ UNCHANGED <<created, archived, container, live, enabled, waits, ops, picked>>

\* After the claim: a task that already has a container is only admitted, or
\* failed when its runtime is gone; any other task gets a runtime, or is
\* failed when the spawn fails.  The status writes are those of
\* complete_task, which looks at nothing and waits for the row lock.
AfterClaim(r) ==
    LET t == picked[r] IN
    /\ pc[r] = "admit"
    /\ \/ /\ t \in container /\ t \in live
          /\ UNCHANGED <<status, container, live>>
       \/ /\ t \in container => t \notin live
          /\ rowLock[t] = None
          /\ status' = [status EXCEPT ![t] = "failed"]
          /\ UNCHANGED <<container, live>>
       \/ /\ t \notin container
          /\ rowLock[t] = None
          /\ container' = container \cup {t}
          /\ live' = live \cup {t}
          /\ UNCHANGED status
    /\ picked' = [picked EXCEPT ![r] = None]
    /\ Goto(r, "idle")
    /\ UNCHANGED <<created, archived, enabled, waits, ops, queueLock, rowLock, seen, blocked>>

\* A replica dies: the database ends its transaction, nothing else happens.
Crash(r) ==
    /\ ops < MaxOps /\ pc[r] # "idle"
    /\ ops' = ops + 1
    /\ EndTransaction(r)
    /\ picked' = [picked EXCEPT ![r] = None]
    /\ Goto(r, "idle")
    /\ UNCHANGED rows

-----------------------------------------------------------------------------
(* The other writers of a task row                                           *)

WriteStatus(t, s) ==
    /\ rowLock[t] = None
    /\ status' = [status EXCEPT ![t] = s]
    /\ UNCHANGED <<txVars, pc>>

CreateTask(t) ==
    /\ status[t] = "absent"
    /\ WriteStatus(t, "queued")
    /\ created' = [created EXCEPT ![t] = 1 + Cardinality({s \in Tasks : created[s] > 0})]
    /\ UNCHANGED <<archived, container, live, enabled, waits, ops>>

\* A runtime asks its human: approval_requested or user_question_requested.
ReportWait(t) ==
    /\ t \in live /\ status[t] = "running" /\ waits[t] < MaxWaits
    /\ WriteStatus(t, "waiting")
    /\ waits' = [waits EXCEPT ![t] = @ + 1]
    /\ UNCHANGED <<created, archived, container, live, enabled, ops>>

\* The human answered: approval_wait_resolved or user_question_resolved.
ReportResolved(t) ==
    /\ t \in live /\ status[t] = "waiting"
    /\ WriteStatus(t, "resume_pending")
    /\ UNCHANGED <<created, archived, container, live, enabled, waits, ops>>

\* The runtime ends and its last event or its exit is recorded.
Finish(t) ==
    /\ t \in live /\ status[t] = "running"
    /\ \E s \in {"succeeded", "failed"} : WriteStatus(t, s)
    /\ live' = live \ {t}
    /\ UNCHANGED <<created, archived, container, enabled, waits, ops>>

\* The runtime dies while its task waits; the waiting deadline passes.
DieWaiting(t) ==
    /\ t \in live /\ status[t] \in {"waiting", "resume_pending"} /\ ops < MaxOps
    /\ live' = live \ {t}
    /\ ops' = ops + 1
    /\ UNCHANGED <<status, created, archived, container, enabled, waits, txVars, pc>>

WaitingTimeout(t) ==
    /\ status[t] = "waiting" /\ t \notin live
    /\ WriteStatus(t, "failed")
    /\ UNCHANGED <<created, archived, container, live, enabled, waits, ops>>

\* The heartbeat of a running task without a runtime goes stale.
LostTask(t) ==
    /\ status[t] = "running" /\ t \notin live
    /\ WriteStatus(t, "failed")
    /\ UNCHANGED <<created, archived, container, live, enabled, waits, ops>>

RerunTask(t) ==
    /\ status[t] \in A!RERUNNABLE_STATUSES /\ ops < MaxOps
    /\ WriteStatus(t, "queued")
    /\ container' = container \ {t}
    /\ ops' = ops + 1
    /\ UNCHANGED <<created, archived, live, enabled, waits>>

ArchiveTask(t) ==
    /\ status[t] # "absent" /\ ops < MaxOps
    /\ rowLock[t] = None
    /\ archived' = (archived \ {t}) \cup ({t} \ archived)     \* archive or unarchive
    /\ ops' = ops + 1
    /\ UNCHANGED <<status, created, container, live, enabled, waits, txVars, pc>>

PauseAgent(w) ==
    /\ ops < MaxOps
    /\ enabled' = (enabled \ {w}) \cup ({w} \ enabled)        \* pause or resume
    /\ ops' = ops + 1
    /\ UNCHANGED <<status, created, archived, container, live, waits, txVars, pc>>

-----------------------------------------------------------------------------
Replica(r) ==
    \/ ReadAgents(r) \/ LockQueue(r) \/ CountRunning(r) \/ SelectCandidate(r)
    \/ CheckWorkflow(r) \/ Claim(r) \/ AfterClaim(r)

Row(t) ==
    \/ CreateTask(t) \/ ReportWait(t) \/ ReportResolved(t) \/ Finish(t)
    \/ DieWaiting(t) \/ WaitingTimeout(t) \/ LostTask(t) \/ RerunTask(t)
    \/ ArchiveTask(t)

Next ==
    \/ \E r \in Replicas : Replica(r) \/ Crash(r)
    \/ \E t \in Tasks : Row(t)
    \/ \E w \in Workflows : PauseAgent(w)

Spec == Init /\ [][Next]_vars

\* The loop of a replica that is up keeps going.  PostgreSQL queues the
\* requests for a lock, so a replica that waits for one is not overtaken for
\* ever: strong fairness.  The runtimes end and hear their humans, and the
\* sweeps run; these writes too wait only for a row lock.
Fairness ==
    /\ \A r \in Replicas :
          /\ WF_vars(ReadAgents(r) \/ CountRunning(r) \/ SelectCandidate(r)
                       \/ CheckWorkflow(r) \/ Claim(r))
          /\ SF_vars(LockQueue(r) \/ AfterClaim(r))
    /\ \A t \in Tasks :
          SF_vars(ReportResolved(t) \/ Finish(t) \/ WaitingTimeout(t) \/ LostTask(t))

FairSpec == Spec /\ Fairness

-----------------------------------------------------------------------------
\* Type invariant of the rows, the locks and the replicas' local state.
TypeOK ==
    /\ status \in [Tasks -> A!Statuses]
    /\ created \in [Tasks -> Nat]
    /\ archived \in SUBSET Tasks
    /\ container \in SUBSET Tasks
    /\ live \in SUBSET Tasks
    /\ enabled \in SUBSET Workflows
    /\ waits \in [Tasks -> 0..MaxWaits]
    /\ ops \in 0..MaxOps
    /\ queueLock \in Replicas \cup {None}
    /\ rowLock \in [Tasks -> Replicas \cup {None}]
    /\ pc \in [Replicas -> Labels]
    /\ seen \in [Replicas -> SUBSET Workflows]
    /\ blocked \in [Replicas -> SUBSET Workflows]
    /\ picked \in [Replicas -> Tasks \cup {None}]

\* However many replicas dequeue at once, no more tasks are running than
\* PLATFORM_MAX_RUNNING_TASKS: the count taken by dequeue_task is still right
\* when its claim commits.
PlatformLimit == Cardinality(Running) <= PlatformMax

\* The same for every workflow and its runtime.parallel_workers, although the
\* running tasks of a workflow are counted only after its candidate is chosen.
WorkflowLimit == \A w \in Workflows : Cardinality(RunningOf(w)) <= Limit[w]

\* Both limits hold at every moment.
LimitsHold == PlatformLimit /\ WorkflowLimit

\* What a replica may rely on between two steps of its transaction: it holds
\* the queue lock and the row lock of its candidate, the candidate is still
\* runnable and not archived, and the counts it took still leave room.  This is
\* the inductive invariant behind the limits.
DequeueRelies(r) ==
    /\ pc[r] \in Holding => queueLock = r
    /\ pc[r] \in {"select", "check", "claim"} => PlatformSlotFree
    /\ pc[r] \in {"check", "claim"} =>
          /\ picked[r] \in Tasks \ archived
          /\ rowLock[picked[r]] = r
          /\ status[picked[r]] \in RUNNABLE_STATUSES
    /\ pc[r] = "claim" => WorkflowSlotFree(WorkflowOf[picked[r]])
    /\ pc[r] = "admit" => picked[r] \in Tasks /\ status[picked[r]] # "absent"

\* No step of another replica or writer invalidates what a dequeue relies on.
DequeueInv == \A r \in Replicas : DequeueRelies(r)

\* The steps of a dequeue together are one atomic admission of a task that is
\* runnable at the moment of the commit.
Refinement == A!Spec

\* An archived task is never started: archive_task waits for the row lock of a
\* candidate, so a candidate cannot be archived under a dequeue.
ArchivedNotClaimed ==
    [][\A t \in Tasks : status[t] # "running" /\ status'[t] = "running"
                           => t \notin archived]_vars

\* No runnable task is left behind: it is claimed, or an operator holds it back
\* by archiving it or pausing its workflow.
QueueDrains ==
    \A t \in Tasks :
       status[t] \in RUNNABLE_STATUSES
         ~> \/ status[t] \notin RUNNABLE_STATUSES
            \/ t \in archived
            \/ WorkflowOf[t] \notin enabled
=============================================================================
