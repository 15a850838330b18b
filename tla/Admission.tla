------------------------------ MODULE Admission ------------------------------
(***************************************************************************)
(* What the task queue promises the rest of the platform.  A task row has a *)
(* status; a runnable task (queued, or resume_pending after a human wait)    *)
(* is admitted to `running` in one step, and only while a platform slot and  *)
(* a slot of its workflow are free.  Any number of other writers may move a  *)
(* task between the remaining statuses, but none of them admits a task.      *)
(*                                                                           *)
(* TaskQueue, where several session-manager replicas read, lock, count and   *)
(* commit in separate steps, implements this specification.                  *)
(***************************************************************************)
EXTENDS Naturals, FiniteSets

CONSTANTS Tasks,        \* the rows the tasks table can ever hold
          Workflows,    \* the workflow names
          WorkflowOf,   \* Task.workflow
          Limit,        \* runtime.parallel_workers per workflow
          PlatformMax   \* settings.platform_max_running_tasks

VARIABLE status

RUNNABLE_STATUSES == {"resume_pending", "queued"}

\* The two waiting statuses and the three rerunnable terminal statuses are
\* handled alike by the queue, so each group is one status here.
WAITING_STATUSES == {"waiting"}
RERUNNABLE_STATUSES == {"failed"}
TERMINAL_STATUSES == {"succeeded"} \cup RERUNNABLE_STATUSES

Statuses == {"absent", "running"} \cup RUNNABLE_STATUSES
              \cup WAITING_STATUSES \cup TERMINAL_STATUSES

Running == {t \in Tasks : status[t] = "running"}
RunningOf(w) == {t \in Running : WorkflowOf[t] = w}

Init == status = [t \in Tasks |-> "absent"]

Admit(t) ==
    /\ status[t] \in RUNNABLE_STATUSES
    /\ Cardinality(Running) < PlatformMax
    /\ Cardinality(RunningOf(WorkflowOf[t])) < Limit[WorkflowOf[t]]
    /\ status' = [status EXCEPT ![t] = "running"]

\* Everyone who is not the queue: submission, events, completion, sweeps,
\* operators.  A task row comes into being queued.
Write(t) ==
    \E s \in Statuses \ {"running"} :
       /\ status[t] = "absent" => s = "queued"
       /\ status' = [status EXCEPT ![t] = s]

Next == \E t \in Tasks : Admit(t) \/ Write(t)

Spec == Init /\ [][Next]_status
=============================================================================
