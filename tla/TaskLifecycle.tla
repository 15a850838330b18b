---------------------------- MODULE TaskLifecycle ----------------------------
(***************************************************************************)
(* The life of ONE task across the services that write its row:              *)
(*   - the session manager: queue consumer, Job monitor and heartbeat        *)
(*     monitor, three coroutines that interleave at every await;             *)
(*   - the gateway: event collector, rerun and delete API;                   *)
(*   - Kubernetes, which keeps one Job per name, and the name of a task's    *)
(*     Job is the same for every attempt;                                    *)
(*   - the runtime pods, which report events over HTTP and swallow failures: *)
(*     an event may be lost, or applied after the pod gave up on it.         *)
(* Dequeuing is one step here: module TaskQueue shows that it is atomic.     *)
(*                                                                           *)
(* Time is abstracted to what the sweeps compare: a heartbeat is fresh or    *)
(* stale, a deadline is ahead or passed.                                     *)
(***************************************************************************)
EXTENDS Naturals, FiniteSets

CONSTANTS MaxLaunches,   \* bound: pods ever started for the task
          MaxAsks,       \* bound: human waits per pod
          MaxFaults      \* bound: crashes, lost requests and operator actions

ASSUME LifecycleAssumption ==
    /\ MaxLaunches \in Nat \ {0} /\ MaxAsks \in Nat /\ MaxFaults \in Nat

Pods == 1..MaxLaunches

VARIABLES status,     \* Task.status, "deleted" when the row is gone
          heartbeat,  \* Task.heartbeat: none, fresh or stale
          deadline,   \* Task.wait_deadline: none, ahead or passed
          container,  \* Task.container_id is set
          sess,       \* the latest Session row: none, open or ended
          recorded,   \* lifecycle SessionEvents of the task
          job,        \* the Job of the task: [state, pod]
          launches,   \* pods started so far
          pod,        \* phase of each pod
          asks,       \* human waits of each pod
          orphans,    \* history: pods whose runtime is dead and leaves a Job that runs on
                      \* for a task that was over, and that no sweep was ending
          wire,       \* events under way to the gateway: [from, type]
          consumer,   \* queue_consumer_loop
          monitor,    \* monitor_containers: [at, final]
          sweep,      \* heartbeat_monitor: [at, kind]
          operator,   \* a rerun or delete request under way
          faults

row   == <<status, heartbeat, deadline, container, sess, recorded>>
kube  == <<job, launches, pod, asks, orphans>>
procs == <<consumer, monitor, sweep, operator>>
vars  == <<row, kube, wire, procs, faults>>

RUNNABLE == {"queued", "resume_pending"}
WAITING  == {"waiting"}                 \* waiting_approval, waiting_user_input
RERUNNABLE == {"failed", "lost", "timed_out"}
TERMINAL == {"succeeded"} \cup RERUNNABLE
ACTIVE   == {"running"} \cup RUNNABLE \cup WAITING

LifecycleEvents == {"session_complete", "session_error", "session_timeout"}
EventTypes == {"wait_requested", "wait_resolved"} \cup LifecycleEvents

Alive == {"working", "asking", "admission", "complete", "error"}
NoJob == [state |-> "none", pod |-> 0]

Init ==
    /\ status = "queued" /\ heartbeat = "none" /\ deadline = "none"
    /\ container = FALSE /\ sess = "none" /\ recorded = {}
    /\ job = NoJob /\ launches = 0
    /\ pod = [p \in Pods |-> "none"] /\ asks = [p \in Pods |-> 0] /\ orphans = {}
    /\ wire = {}
    /\ consumer = "idle" /\ monitor = [at |-> "idle", final |-> "none"]
    /\ sweep = [at |-> "idle", kind |-> "none"] /\ operator = "none"
    /\ faults = 0

Fault == faults < MaxFaults /\ faults' = faults + 1
Exists == status # "deleted"

\* The runtime is dead and its Job goes on.
Hung == job.state = "running" /\ pod[job.pod] = "gone"

-----------------------------------------------------------------------------
(* Queue consumer                                                            *)

Dequeue ==
    /\ consumer = "idle" /\ status \in RUNNABLE
    /\ status' = "running" /\ heartbeat' = "fresh" /\ deadline' = "none"
    /\ consumer' = IF container THEN "resumed" ELSE "claimed"
    /\ UNCHANGED <<container, sess, recorded, kube, wire, monitor, sweep, operator, faults>>

\* complete_task looks at no status: it overwrites whatever the row holds.
CompleteTask(s) == status' = IF Exists THEN s ELSE status

\* A resumed task keeps its runtime if the Job still runs, else it fails.
AdmitResumed ==
    /\ consumer = "resumed"
    /\ \/ job.state = "running" /\ UNCHANGED status
       \/ job.state # "running" /\ CompleteTask("failed")
    /\ consumer' = "idle"
    /\ UNCHANGED <<heartbeat, deadline, container, sess, recorded, kube, wire, monitor, sweep, operator, faults>>

\* The Job name is taken while an earlier Job of the task exists.
Launch ==
    /\ consumer = "claimed"
    /\ job = NoJob /\ launches < MaxLaunches
    /\ launches' = launches + 1
    /\ job' = [state |-> "running", pod |-> launches + 1]
    /\ pod' = [pod EXCEPT ![launches + 1] = "working"]
    /\ consumer' = "launched"
    /\ UNCHANGED <<row, asks, orphans, wire, monitor, sweep, operator, faults>>

LaunchFails ==
    /\ consumer = "claimed"
    /\ \/ (job # NoJob \/ launches = MaxLaunches) /\ UNCHANGED faults
       \/ Fault
    /\ consumer' = "failing"
    /\ UNCHANGED <<row, kube, wire, monitor, sweep, operator>>

\* container_id and the Session row are written after the Job was launched.
RecordLaunch ==
    /\ consumer = "launched"
    /\ \/ /\ Exists
          /\ container' = TRUE /\ sess' = "open" /\ consumer' = "idle"
          /\ UNCHANGED faults
       \/ /\ ~Exists /\ consumer' = "idle"          \* foreign-key failure, twice
          /\ UNCHANGED <<container, sess, faults>>
       \/ /\ Fault /\ consumer' = "failing"
          /\ UNCHANGED <<container, sess>>
    /\ UNCHANGED <<status, heartbeat, deadline, recorded, kube, wire, monitor, sweep, operator>>

SpawnFailed ==
    /\ consumer = "failing"
    /\ CompleteTask("failed")
    /\ consumer' = "idle"
    /\ UNCHANGED <<heartbeat, deadline, container, sess, recorded, kube, wire, monitor, sweep, operator, faults>>

-----------------------------------------------------------------------------
(* Job monitor                                                               *)

\* The latest error event decides before the exit code of the Job does.
FinalStatuses ==
    LET errors == {s \in {"timed_out", "failed"} :
                     (IF s = "failed" THEN "session_error" ELSE "session_timeout") \in recorded}
    IN  IF errors # {} THEN errors
        ELSE IF job.state = "ok" THEN {"succeeded"} ELSE {"failed"}

\* An exited Job is seen and the lifecycle events of the task are read.
MonitorReads ==
    /\ monitor.at = "idle" /\ job.state \in {"ok", "failed"}
    /\ \E s \in FinalStatuses : monitor' = [at |-> "write", final |-> s]
    /\ UNCHANGED <<row, kube, wire, consumer, sweep, operator, faults>>

\* The row is completed, the Session closed; a failure is logged and the Job
\* is removed all the same.
MonitorWrites ==
    /\ monitor.at = "write"
    /\ \/ /\ CompleteTask(monitor.final)
          /\ sess' = IF sess = "open" THEN "ended" ELSE sess
          /\ UNCHANGED faults
       \/ Fault /\ UNCHANGED <<status, sess>>
    /\ monitor' = [monitor EXCEPT !.at = "cleanup"]
    /\ UNCHANGED <<heartbeat, deadline, container, recorded, kube, wire, consumer, sweep, operator>>

\* Mutant: the Job of a finished session is kept.
MonitorForgets ==
    /\ monitor.at = "cleanup"
    /\ monitor' = [at |-> "idle", final |-> "none"]
    /\ UNCHANGED <<row, kube, wire, consumer, sweep, operator, faults>>

\* The Job is deleted by name: whichever Job has the name by now.
MonitorCleansUp ==
    /\ monitor.at = "cleanup"
    /\ \/ job' = NoJob /\ UNCHANGED faults
       \/ Fault /\ UNCHANGED job
    /\ monitor' = [at |-> "idle", final |-> "none"]
    /\ UNCHANGED <<row, launches, orphans, pod, asks, wire, consumer, sweep, operator>>

-----------------------------------------------------------------------------
(* Heartbeat monitor                                                         *)

\* Which sweep would select the row now.  Any running task may have used up
\* its active time.
Selects(kind) ==
    CASE kind = "lost"      -> status = "running" /\ heartbeat = "stale"
      [] kind = "timed_out" -> status = "running"
      [] kind = "waiting"   -> status \in WAITING /\ deadline = "passed"

\* Mutant: only running tasks are swept.
SweepReadsRunning(kind) ==
    /\ sweep.at = "idle" /\ status = "running" /\ kind # "waiting" /\ Selects(kind)
    /\ sweep' = [at |-> "write", kind |-> kind]
    /\ UNCHANGED <<row, kube, wire, consumer, monitor, operator, faults>>

SweepReads(kind) ==
    /\ sweep.at = "idle" /\ Selects(kind)
    /\ sweep' = [at |-> "write", kind |-> kind]
    /\ UNCHANGED <<row, kube, wire, consumer, monitor, operator, faults>>

\* The write does not look again at what the sweep read.  The waiting sweep
\* leaves the Session row open.
SweepWrites ==
    /\ sweep.at = "write"
    /\ \/ /\ Exists
          /\ status' = IF sweep.kind = "lost" THEN "lost" ELSE "timed_out"
          /\ sess' = IF sess = "open" /\ sweep.kind # "waiting" THEN "ended" ELSE sess
          /\ sweep' = [sweep EXCEPT !.at = "cancel"]
       \/ /\ ~Exists
          /\ sweep' = [at |-> "idle", kind |-> "none"]
          /\ UNCHANGED <<status, sess>>
    /\ UNCHANGED <<heartbeat, deadline, container, recorded, kube, wire, consumer, monitor, operator, faults>>

\* Mutant: what is left of a dead runtime is not cancelled.
SweepCancelsAlive ==
    /\ sweep.at = "cancel"
    /\ job' = (IF Hung THEN job ELSE NoJob)
    /\ sweep' = [at |-> "idle", kind |-> "none"]
    /\ UNCHANGED <<row, launches, orphans, pod, asks, wire, consumer, monitor, operator, faults>>

SweepCancels ==
    /\ sweep.at = "cancel"
    /\ \/ job' = NoJob /\ UNCHANGED faults
       \/ Fault /\ UNCHANGED job
    /\ sweep' = [at |-> "idle", kind |-> "none"]
    /\ UNCHANGED <<row, launches, orphans, pod, asks, wire, consumer, monitor, operator>>

\* A session manager dies and comes back: its coroutines start afresh.
ManagerCrash ==
    /\ Fault
    /\ consumer' = "idle"
    /\ monitor' = [at |-> "idle", final |-> "none"]
    /\ sweep' = [at |-> "idle", kind |-> "none"]
    /\ UNCHANGED <<row, kube, wire, operator>>

HeartbeatExpires ==
    /\ heartbeat = "fresh" /\ heartbeat' = "stale"
    /\ UNCHANGED <<status, deadline, container, sess, recorded, kube, wire, procs, faults>>

DeadlinePasses ==
    /\ deadline = "ahead" /\ deadline' = "passed"
    /\ UNCHANGED <<status, heartbeat, container, sess, recorded, kube, wire, procs, faults>>

-----------------------------------------------------------------------------
(* Runtime pod                                                               *)

\* A pod sends one request at a time and goes on when it was answered or
\* given up.
Answered(p) == \A m \in wire : m.from # p
Report(p, type) == wire' = wire \cup {[from |-> p, type |-> type]}
PodGoes(p, phase) == Answered(p) /\ pod' = [pod EXCEPT ![p] = phase]

\* Approval request or AskUserQuestion.
Ask(p) ==
    /\ pod[p] = "working" /\ asks[p] < MaxAsks
    /\ Report(p, "wait_requested")
    /\ PodGoes(p, "asking")
    /\ asks' = [asks EXCEPT ![p] = @ + 1]
    /\ UNCHANGED <<row, job, launches, orphans, procs, faults>>

HumanAnswers(p) ==
    /\ pod[p] = "asking"
    /\ Report(p, "wait_resolved")
    /\ PodGoes(p, "admission")
    /\ UNCHANGED <<row, job, launches, orphans, asks, procs, faults>>

\* The pod's own limit for the wait: it goes on and tells nobody.
AskTimesOut(p) ==
    /\ pod[p] = "asking"
    /\ PodGoes(p, "working")
    /\ UNCHANGED <<row, job, launches, orphans, asks, wire, procs, faults>>

\* _wait_for_resume_admission polls the status.
Admitted(p) ==
    /\ pod[p] = "admission" /\ status = "running"
    /\ PodGoes(p, "working")
    /\ UNCHANGED <<row, job, launches, orphans, asks, wire, procs, faults>>

AdmissionFails(p) ==
    /\ pod[p] = "admission" /\ status # "running"
    /\ \E type \in {"session_error", "session_timeout"} : Report(p, type)
    /\ PodGoes(p, "error")
    /\ UNCHANGED <<row, job, launches, orphans, asks, procs, faults>>

\* The session ends: its last event is reported, then the process exits.
SessionEnds(p) ==
    /\ pod[p] = "working"
    /\ \E type \in LifecycleEvents :
         /\ Report(p, type)
         /\ PodGoes(p, IF type = "session_complete" THEN "complete" ELSE "error")
    /\ UNCHANGED <<row, job, launches, orphans, asks, procs, faults>>

\* Exit: after the last event, killed after its Job was deleted, or cut off.  The
\* memory helper in the pod waits, without a limit, for the marker that the runtime
\* leaves at its end or on SIGTERM (then it exits with 0).  A runtime that is killed
\* alone leaves none: its Job, which has no deadline, goes on running.
Exit(p) ==
    /\ pod[p] \in Alive
    /\ \E code \in {"ok", "failed", "running"} :
         /\ \/ code = "ok" /\ pod[p] = "complete" /\ Answered(p) /\ UNCHANGED faults
            \/ code = "failed" /\ pod[p] = "error" /\ Answered(p) /\ UNCHANGED faults
            \/ code = "ok" /\ job.pod # p /\ UNCHANGED faults   \* killed
            \/ Fault                                           \* its node fails, or it alone
         /\ job' = IF job = [state |-> "running", pod |-> p] THEN [job EXCEPT !.state = code] ELSE job
         /\ orphans' = IF code = "running" /\ job.pod = p /\ sweep.at = "idle" /\ status \notin ACTIVE
                     THEN orphans \cup {p} ELSE orphans
    /\ pod' = [pod EXCEPT ![p] = "gone"]
    /\ wire' = {IF m.from = p THEN [m EXCEPT !.from = 0] ELSE m : m \in wire}
    /\ UNCHANGED <<row, launches, asks, procs>>

-----------------------------------------------------------------------------
(* Gateway                                                                   *)

\* Mutant: a wait is recorded without its deadline.
ApplyWithoutDeadline(type) ==
    /\ heartbeat' = "fresh"
    /\ recorded' = recorded \cup ({type} \cap LifecycleEvents)
    /\ status' = CASE type = "wait_requested"   -> "waiting"
                   [] type = "wait_resolved"    -> "resume_pending"
                   [] type = "session_complete" -> "succeeded"
                   [] type = "session_error"    -> "failed"
                   [] type = "session_timeout"  -> "timed_out"
    /\ UNCHANGED deadline

\* receive_event: every event refreshes the heartbeat; no event looks at
\* whether the task is already over, and none knows its attempt.
Apply(type) ==
    /\ heartbeat' = "fresh"
    /\ recorded' = recorded \cup ({type} \cap LifecycleEvents)
    /\ CASE type = "wait_requested"   -> status' = "waiting" /\ deadline' = "ahead"
         [] type = "wait_resolved"    -> status' = "resume_pending" /\ deadline' = "none"
         [] type = "session_complete" -> /\ status' = IF status \in WAITING THEN status ELSE "succeeded"
                                         /\ UNCHANGED deadline
         [] type = "session_error"    -> status' = "failed" /\ UNCHANGED deadline
         [] type = "session_timeout"  -> status' = "timed_out" /\ UNCHANGED deadline

ReceiveEvent(m) ==
    /\ wire' = wire \ {m}
    /\ \/ Exists /\ Apply(m.type)
       \/ ~Exists /\ UNCHANGED <<status, heartbeat, deadline, recorded>>
    /\ orphans' = IF Hung /\ sweep.at = "idle" /\ status \in ACTIVE /\ status' \notin ACTIVE
                  THEN orphans \cup {job.pod} ELSE orphans
    /\ UNCHANGED <<container, sess, job, launches, pod, asks, procs, faults>>

\* The request fails, or the client gives up on it (HTTP timeout) and the
\* gateway handles it later: then nobody waits for it (`from` is 0).
LoseEvent(m) ==
    /\ m.from # 0 /\ Fault
    /\ \/ wire' = wire \ {m}
       \/ wire' = (wire \ {m}) \cup {[m EXCEPT !.from = 0]}
    /\ UNCHANGED <<row, kube, procs>>

\* heartbeat_loop of a live pod, received.
ReceiveHeartbeat ==
    /\ Exists /\ \E p \in Pods : pod[p] \in Alive
    /\ heartbeat # "fresh" /\ heartbeat' = "fresh"
    /\ UNCHANGED <<status, deadline, container, sess, recorded, kube, wire, procs, faults>>

\* Rerun reads the status, then resets the row without looking again.  The
\* wait columns, the approvals and the Job stay.
RerunReads ==
    /\ operator = "none" /\ status \in RERUNNABLE /\ Fault
    /\ operator' = "rerun"
    /\ UNCHANGED <<row, kube, wire, consumer, monitor, sweep>>

RerunWrites ==
    /\ operator = "rerun"
    /\ IF Exists
         THEN /\ status' = "queued" /\ container' = FALSE /\ heartbeat' = "none"
              /\ recorded' = {} /\ sess' = "none"
         ELSE UNCHANGED <<status, container, heartbeat, recorded, sess>>
    /\ operator' = "none"
    /\ UNCHANGED <<deadline, kube, wire, consumer, monitor, sweep, faults>>

\* Delete cancels the Job the row names, then removes the rows.
DeleteCancels ==
    /\ operator = "none" /\ Exists /\ Fault
    /\ job' = IF container THEN NoJob ELSE job
    /\ operator' = "delete"
    /\ UNCHANGED <<row, launches, orphans, pod, asks, wire, consumer, monitor, sweep>>

DeleteCommits ==
    /\ operator = "delete"
    /\ status' = "deleted" /\ recorded' = {} /\ sess' = "none" /\ container' = FALSE
    /\ heartbeat' = "none" /\ deadline' = "none"
    /\ operator' = "none"
    /\ UNCHANGED <<kube, wire, consumer, monitor, sweep, faults>>

-----------------------------------------------------------------------------
Consumer == Dequeue \/ AdmitResumed \/ Launch \/ LaunchFails \/ RecordLaunch \/ SpawnFailed
Monitor  == MonitorReads \/ MonitorWrites \/ MonitorCleansUp
Sweep    == (\E kind \in {"lost", "timed_out", "waiting"} : SweepReads(kind)) \/ SweepWrites \/ SweepCancels
Pod(p)   == Ask(p) \/ HumanAnswers(p) \/ AskTimesOut(p) \/ Admitted(p) \/ AdmissionFails(p)
              \/ SessionEnds(p) \/ Exit(p)
Clock    == HeartbeatExpires \/ DeadlinePasses
Operator == RerunReads \/ RerunWrites \/ DeleteCancels \/ DeleteCommits

Next ==
    \/ Consumer \/ Monitor \/ Sweep \/ Clock \/ Operator \/ ManagerCrash \/ ReceiveHeartbeat
    \/ \E p \in Pods : Pod(p)
    \/ \E m \in wire : ReceiveEvent(m) \/ LoseEvent(m)

Spec == Init /\ [][Next]_vars

\* The loops keep running, requests are handled, pods make progress (the
\* harness has a progress watchdog, a turn limit and limits for human waits),
\* and time passes.
Fairness ==
    /\ WF_vars(Consumer) /\ WF_vars(Monitor) /\ WF_vars(Sweep)
    /\ WF_vars(HeartbeatExpires) /\ WF_vars(DeadlinePasses)
    /\ WF_vars(RerunWrites \/ DeleteCommits)
    /\ WF_vars(\E m \in wire : ReceiveEvent(m))
    /\ \A p \in Pods : WF_vars(Pod(p))

FairSpec == Spec /\ Fairness

-----------------------------------------------------------------------------
\* The lost sweep skips a running task without a heartbeat, and the waiting
\* sweep a waiting task without a deadline, so there must be none: however late
\* events, reruns, sweeps and completions interleave, a row that is running has
\* had a heartbeat since it was last queued, and a row that waits has a deadline.
RunningHasHeartbeat == status = "running" => heartbeat # "none"
WaitingHasDeadline  == status \in WAITING => deadline # "none"
SweepsSeeAll == RunningHasHeartbeat /\ WaitingHasDeadline

\* No task stays active for ever, whichever process dies and whichever event
\* is lost: it ends, or it is deleted.
Settles == status \in ACTIVE ~> status \notin ACTIVE

\* No Job is left behind: also not that of a deleted task, of a failed spawn
\* whose Job was launched, of a sweep whose cancel failed, or of a runtime that was
\* killed without its marker while its task was active.  What nothing removes is the
\* Job of a runtime that was killed so when its task was over, or when the event that
\* ended it was still under way: no sweep looks at such a task.
JobReaped == job.state # "none" ~> job.state = "none" \/ job.pod \in orphans

=============================================================================
