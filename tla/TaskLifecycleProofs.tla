-------------------------- MODULE TaskLifecycleProofs --------------------------
(***************************************************************************)
(* For any number of pods, waits and faults: the sweeps can see every task   *)
(* that runs or waits.                                                       *)
(***************************************************************************)
EXTENDS TaskLifecycle, TLAPS

\* What the monitor will write is never a status that a sweep looks for.
FinalInv == monitor.final \notin {"running"} \cup WAITING

IInv == SweepsSeeAll /\ FinalInv

\* Only known events are under way.
WireInv == wire \in SUBSET [from : 0..MaxLaunches, type : EventTypes]

-------------------------------------------------------------------------------
\* A step that leaves the row's status and clocks alone, and the monitor.
LEMMA RowStays ==
  ASSUME IInv, UNCHANGED <<status, heartbeat, deadline, monitor>>
  PROVE  IInv'
BY DEF IInv, SweepsSeeAll, RunningHasHeartbeat, WaitingHasDeadline, FinalInv

\* A step that writes a status no sweep looks for.
LEMMA RowEnds ==
  ASSUME IInv, UNCHANGED <<heartbeat, deadline, monitor>>,
         status' # status => status' \notin {"running"} \cup WAITING
  PROVE  IInv'
BY DEF IInv, SweepsSeeAll, RunningHasHeartbeat, WaitingHasDeadline, FinalInv

LEMMA ConsumerKeeps == ASSUME IInv, Consumer PROVE IInv'
<1>1. CASE Dequeue
  BY <1>1 DEF Dequeue, IInv, SweepsSeeAll, RunningHasHeartbeat, WaitingHasDeadline, FinalInv, WAITING
<1>2. CASE AdmitResumed \/ SpawnFailed
  BY <1>2, RowEnds DEF AdmitResumed, SpawnFailed, CompleteTask, WAITING
<1>3. CASE Launch \/ LaunchFails \/ RecordLaunch
  BY <1>3, RowStays DEF Launch, LaunchFails, RecordLaunch, row
<1> QED BY <1>1, <1>2, <1>3 DEF Consumer

LEMMA MonitorKeeps == ASSUME IInv, Monitor PROVE IInv'
<1>1. CASE MonitorReads
  <2>1. PICK s \in FinalStatuses : monitor' = [at |-> "write", final |-> s]
    BY <1>1 DEF MonitorReads
  <2>2. s \in {"timed_out", "failed", "succeeded"}
    BY DEF FinalStatuses
  <2>3. FinalInv'
    BY <2>1, <2>2 DEF FinalInv, WAITING
  <2> QED BY <1>1, <2>3 DEF MonitorReads, row, IInv, SweepsSeeAll, RunningHasHeartbeat, WaitingHasDeadline
<1>2. CASE MonitorWrites
  <2>1. status' # status => status' = monitor.final
    BY <1>2 DEF MonitorWrites, CompleteTask
  <2>2. SweepsSeeAll'
    BY <1>2, <2>1 DEF MonitorWrites, IInv, FinalInv, SweepsSeeAll, RunningHasHeartbeat, WaitingHasDeadline
  <2>3. FinalInv'
    BY <1>2 DEF MonitorWrites, IInv, FinalInv
  <2> QED BY <2>2, <2>3 DEF IInv
<1>3. CASE MonitorCleansUp
  BY <1>3 DEF MonitorCleansUp, row, IInv, FinalInv, SweepsSeeAll, RunningHasHeartbeat, WaitingHasDeadline, WAITING
<1> QED BY <1>1, <1>2, <1>3 DEF Monitor

LEMMA SweepKeeps == ASSUME IInv, Sweep PROVE IInv'
<1>1. CASE SweepWrites
  BY <1>1, RowEnds DEF SweepWrites, WAITING
<1>2. ASSUME NEW kind \in {"lost", "timed_out", "waiting"}, SweepReads(kind) PROVE IInv'
  BY <1>2, RowStays DEF SweepReads, row
<1>3. CASE SweepCancels
  BY <1>3, RowStays DEF SweepCancels, row
<1> QED BY <1>1, <1>2, <1>3 DEF Sweep

\* An event that arrives, whenever it does: each refreshes the heartbeat, and the
\* one that makes the row wait sets a deadline.
LEMMA EventKeeps ==
  ASSUME IInv, WireInv, NEW m \in wire, ReceiveEvent(m) \/ LoseEvent(m)
  PROVE  IInv'
<1>1. CASE LoseEvent(m)
  BY <1>1, RowStays DEF LoseEvent, row, procs
<1>2. CASE ReceiveEvent(m) /\ ~(Exists /\ Apply(m.type))
  BY <1>2, RowStays DEF ReceiveEvent, procs
<1>3. CASE ReceiveEvent(m) /\ Apply(m.type)
  <2>1. heartbeat' = "fresh" /\ monitor' = monitor
    BY <1>3 DEF ReceiveEvent, Apply, procs
  <2>2. CASE m.type = "wait_requested"
    BY <1>3, <2>1, <2>2 DEF Apply, IInv, SweepsSeeAll, RunningHasHeartbeat, WaitingHasDeadline, FinalInv
  <2>3. CASE m.type = "wait_resolved"
    BY <1>3, <2>1, <2>3 DEF Apply, IInv, SweepsSeeAll, RunningHasHeartbeat, WaitingHasDeadline, FinalInv, WAITING
  <2>4. CASE m.type \in LifecycleEvents
    BY <1>3, <2>1, <2>4
       DEF Apply, IInv, SweepsSeeAll, RunningHasHeartbeat, WaitingHasDeadline, FinalInv, WAITING, LifecycleEvents
  <2> QED BY <2>2, <2>3, <2>4 DEF WireInv, EventTypes
<1> QED BY <1>1, <1>2, <1>3

LEMMA PodKeeps == ASSUME IInv, NEW p \in Pods, Pod(p) PROVE IInv'
BY RowStays DEF Pod, Ask, HumanAnswers, AskTimesOut, Admitted, AdmissionFails, SessionEnds,
                Exit, row, procs

LEMMA OperatorKeeps == ASSUME IInv, Operator PROVE IInv'
<1>1. CASE RerunReads \/ DeleteCancels
  BY <1>1, RowStays DEF RerunReads, DeleteCancels, row
<1>2. CASE RerunWrites \/ DeleteCommits
  BY <1>2 DEF RerunWrites, DeleteCommits, IInv, SweepsSeeAll, RunningHasHeartbeat,
              WaitingHasDeadline, FinalInv, WAITING
<1> QED BY <1>1, <1>2 DEF Operator

\* Time passes, a pod is heard of, or a session manager dies.
LEMMA RestKeeps ==
  ASSUME IInv, Clock \/ ReceiveHeartbeat \/ ManagerCrash \/ UNCHANGED vars
  PROVE  IInv'
<1>1. CASE Clock \/ ReceiveHeartbeat
  BY <1>1 DEF Clock, HeartbeatExpires, DeadlinePasses, ReceiveHeartbeat, procs, IInv,
              SweepsSeeAll, RunningHasHeartbeat, WaitingHasDeadline, FinalInv
<1>2. CASE ManagerCrash
  BY <1>2 DEF ManagerCrash, row, IInv, SweepsSeeAll, RunningHasHeartbeat, WaitingHasDeadline,
              FinalInv, WAITING
<1>3. CASE UNCHANGED vars
  BY <1>3, RowStays DEF vars, row, procs
<1> QED BY <1>1, <1>2, <1>3

-------------------------------------------------------------------------------
\* A pod reports, an event is received, lost or left behind by its pod.
LEMMA EventsAreKnown == Spec => []WireInv
<1> USE LifecycleAssumption DEF WireInv, Pods
<1>1. Init => WireInv
  BY DEF Init
<1>2. WireInv /\ [Next]_vars => WireInv'
  <2> SUFFICES ASSUME WireInv, [Next]_vars PROVE WireInv'
    OBVIOUS
  <2>1. ASSUME NEW p \in Pods, NEW type \in EventTypes, Report(p, type) PROVE WireInv'
    BY <2>1 DEF Report
  <2>2. ASSUME NEW p \in Pods, Pod(p) PROVE WireInv'
    <3>1. CASE Ask(p) \/ HumanAnswers(p) \/ AdmissionFails(p) \/ SessionEnds(p)
      BY <2>1, <3>1 DEF Ask, HumanAnswers, AdmissionFails, SessionEnds, EventTypes, LifecycleEvents
    <3>2. CASE AskTimesOut(p) \/ Admitted(p)
      BY <3>2 DEF AskTimesOut, Admitted
    <3>3. CASE Exit(p)
      BY <3>3 DEF Exit
    <3> QED BY <2>2, <3>1, <3>2, <3>3 DEF Pod
  <2>3. ASSUME NEW m \in wire, ReceiveEvent(m) \/ LoseEvent(m) PROVE WireInv'
    BY <2>3 DEF ReceiveEvent, LoseEvent
  <2>4. CASE UNCHANGED wire
    BY <2>4
  <2> QED BY <2>2, <2>3, <2>4
       DEF Next, vars, Consumer, Dequeue, AdmitResumed, Launch, LaunchFails, RecordLaunch, SpawnFailed,
           Monitor, MonitorReads, MonitorWrites, MonitorCleansUp, Sweep, SweepReads, SweepWrites,
           SweepCancels, Clock, HeartbeatExpires, DeadlinePasses, Operator, RerunReads, RerunWrites,
           DeleteCancels, DeleteCommits, ManagerCrash, ReceiveHeartbeat
<1> QED BY <1>1, <1>2, PTL DEF Spec

\* However late events, reruns, sweeps and completions interleave, a row that is
\* running has had a heartbeat since it was last queued and a row that waits has a
\* deadline, so that a sweep can end it.
THEOREM EveryTaskIsSeen == Spec => []SweepsSeeAll
<1>1. Init => IInv
  BY DEF Init, IInv, SweepsSeeAll, RunningHasHeartbeat, WaitingHasDeadline, FinalInv, WAITING
<1>2. IInv /\ WireInv /\ [Next]_vars => IInv'
  BY ConsumerKeeps, MonitorKeeps, SweepKeeps, EventKeeps, PodKeeps, OperatorKeeps, RestKeeps DEF Next
<1>3. IInv => SweepsSeeAll
  BY DEF IInv
<1> QED BY <1>1, <1>2, <1>3, EventsAreKnown, PTL DEF Spec
================================================================================
