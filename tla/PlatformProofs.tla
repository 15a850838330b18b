---------------------------- MODULE PlatformProofs ----------------------------
(***************************************************************************)
(* Proofs about the platform for every value of the constants: the limits of *)
(* the task queue and the atomic admission it implements, the releases that  *)
(* sessions start from, the memory an agent hands on, and the files and      *)
(* backup sets a deployment leaves behind.                                   *)
(***************************************************************************)
EXTENDS MCPlatform, FiniteSetTheorems, TLAPS

-----------------------------------------------------------------------------
(* TaskQueue.  The type invariant and DequeueInv are inductive together; the *)
(* limits, the refinement of Admission and the archive property follow.      *)

QueueInv == TypeOK /\ DequeueInv

\* The tasks of a state are finitely many, so are the running ones.
LEMMA RunningFinite ==
    ASSUME NEW w
    PROVE  /\ IsFiniteSet(Running) /\ IsFiniteSet(RunningOf(w))
           /\ Cardinality(Running) \in Nat /\ Cardinality(RunningOf(w)) \in Nat
<1>1. Running \subseteq Tasks /\ RunningOf(w) \subseteq Tasks
  BY DEF Running, RunningOf, A!Running, A!RunningOf
<1>2. QED
  BY <1>1, QueueAssumption, FS_Subset, FS_CardinalityType

\* A step that starts no task takes no slot: counts taken before it stay valid.
LEMMA SlotsStayFree ==
    ASSUME \A t \in Tasks : status'[t] = "running" => status[t] = "running"
    PROVE  /\ Cardinality(Running') <= Cardinality(Running)
           /\ \A w : Cardinality(RunningOf(w)') <= Cardinality(RunningOf(w))
<1>1. Running' \subseteq Running
  BY DEF Running, A!Running
<1>2. ASSUME NEW w PROVE RunningOf(w)' \subseteq RunningOf(w)
  BY DEF RunningOf, A!RunningOf, A!Running
<1>3. ASSUME NEW w PROVE Cardinality(RunningOf(w)') <= Cardinality(RunningOf(w))
  BY <1>2, RunningFinite, FS_Subset
<1>4. QED
  BY <1>1, <1>3, RunningFinite, FS_Subset

\* Starting one task takes one slot.
LEMMA ClaimTakesOneSlot ==
    ASSUME TypeOK, NEW t \in Tasks, status' = [status EXCEPT ![t] = "running"],
           status[t] # "running"
    PROVE  /\ Cardinality(Running') = Cardinality(Running) + 1
           /\ \A w : Cardinality(RunningOf(w)') =
                       IF w = WorkflowOf[t] THEN Cardinality(RunningOf(w)) + 1
                                            ELSE Cardinality(RunningOf(w))
<1>1. Running' = Running \cup {t} /\ t \notin Running
  BY DEF Running, A!Running, TypeOK
<1>2. ASSUME NEW w
      PROVE  RunningOf(w)' = IF w = WorkflowOf[t] THEN RunningOf(w) \cup {t} ELSE RunningOf(w)
  BY DEF RunningOf, A!RunningOf, A!Running, TypeOK
<1>3. ASSUME NEW w PROVE t \notin RunningOf(w)
  BY DEF RunningOf, A!RunningOf, A!Running
<1>4. ASSUME NEW w
      PROVE  Cardinality(RunningOf(w)') =
               IF w = WorkflowOf[t] THEN Cardinality(RunningOf(w)) + 1
                                    ELSE Cardinality(RunningOf(w))
  BY <1>2, <1>3, RunningFinite, FS_AddElement
<1>5. Cardinality(Running') = Cardinality(Running) + 1
  BY <1>1, RunningFinite, FS_AddElement
<1>6. QED
  BY <1>4, <1>5

\* Every step keeps the types.
LEMMA TypeStep == QueueInv /\ [Next]_vars => TypeOK'
<1> SUFFICES ASSUME QueueInv, [Next]_vars PROVE TypeOK'
  OBVIOUS
<1> USE QueueAssumption DEF QueueInv, TypeOK, RUNNABLE_STATUSES, A!RUNNABLE_STATUSES, A!Statuses,
        A!WAITING_STATUSES, A!TERMINAL_STATUSES, A!RERUNNABLE_STATUSES, Labels, Holding,
        rows, txVars, Goto, EndTransaction, ReleaseLocks, WriteStatus
<1>1. ASSUME NEW r \in Replicas, ReadAgents(r) PROVE TypeOK'
  BY <1>1 DEF ReadAgents
<1>2. ASSUME NEW r \in Replicas, LockQueue(r) PROVE TypeOK'
  BY <1>2 DEF LockQueue
<1>3. ASSUME NEW r \in Replicas, CountRunning(r) PROVE TypeOK'
  BY <1>3 DEF CountRunning
<1>4. ASSUME NEW r \in Replicas, SelectCandidate(r) PROVE TypeOK'
  BY <1>4 DEF SelectCandidate, Eligible
<1>5. ASSUME NEW r \in Replicas, CheckWorkflow(r) PROVE TypeOK'
  <2>1. WorkflowOf[picked[r]] \in Workflows
    BY <1>5 DEF CheckWorkflow, DequeueInv, DequeueRelies
  <2>2. QED
    BY <1>5, <2>1 DEF CheckWorkflow
<1>6. ASSUME NEW r \in Replicas, Claim(r) PROVE TypeOK'
  BY <1>6 DEF Claim
<1>7. ASSUME NEW r \in Replicas, AfterClaim(r) PROVE TypeOK'
  <2>1. picked[r] \in Tasks
    BY <1>7 DEF AfterClaim, DequeueInv, DequeueRelies
  <2>2. QED
    BY <1>7, <2>1 DEF AfterClaim
<1>8. ASSUME NEW r \in Replicas, Crash(r) PROVE TypeOK'
  BY <1>8 DEF Crash
<1>9. ASSUME NEW t \in Tasks, CreateTask(t) PROVE TypeOK'
  <2>1. Cardinality({s \in Tasks : created[s] > 0}) \in Nat
    BY FS_Subset, FS_CardinalityType
  <2>2. QED
    BY <1>9, <2>1 DEF CreateTask
<1>10. ASSUME NEW t \in Tasks, ReportWait(t) PROVE TypeOK'
  BY <1>10 DEF ReportWait
<1>11. ASSUME NEW t \in Tasks, ReportResolved(t) PROVE TypeOK'
  BY <1>11 DEF ReportResolved
<1>12. ASSUME NEW t \in Tasks, Finish(t) PROVE TypeOK'
  BY <1>12 DEF Finish
<1>13. ASSUME NEW t \in Tasks, DieWaiting(t) PROVE TypeOK'
  BY <1>13 DEF DieWaiting
<1>14. ASSUME NEW t \in Tasks, WaitingTimeout(t) PROVE TypeOK'
  BY <1>14 DEF WaitingTimeout
<1>15. ASSUME NEW t \in Tasks, LostTask(t) PROVE TypeOK'
  BY <1>15 DEF LostTask
<1>16. ASSUME NEW t \in Tasks, RerunTask(t) PROVE TypeOK'
  BY <1>16 DEF RerunTask
<1>17. ASSUME NEW t \in Tasks, ArchiveTask(t) PROVE TypeOK'
  BY <1>17 DEF ArchiveTask
<1>18. ASSUME NEW w \in Workflows, PauseAgent(w) PROVE TypeOK'
  BY <1>18 DEF PauseAgent
<1>19. CASE UNCHANGED vars
  BY <1>19 DEF vars
<1>20. QED
  BY <1>1, <1>2, <1>3, <1>4, <1>5, <1>6, <1>7, <1>8, <1>9, <1>10, <1>11, <1>12,
     <1>13, <1>14, <1>15, <1>16, <1>17, <1>18, <1>19 DEF Next, Replica, Row

\* A writer that waits for the row lock and starts nothing disturbs no dequeue.
LEMMA RowWriteKeepsInv ==
    ASSUME QueueInv, NEW r \in Replicas, NEW t \in Tasks, rowLock[t] = None,
           pc'[r] = pc[r], picked'[r] = picked[r], UNCHANGED <<queueLock, rowLock>>,
           \A u \in Tasks \ {t} : status'[u] = status[u],
           \A u \in Tasks \ {t} : u \in archived' => u \in archived,
           status'[t] = "running" => status[t] = "running",
           status'[t] # "absent"
    PROVE  DequeueRelies(r)'
<1>1. \A w : /\ Cardinality(Running') <= Cardinality(Running)
             /\ Cardinality(RunningOf(w)') <= Cardinality(RunningOf(w))
  BY SlotsStayFree
<1>2. \A w : Cardinality(Running') \in Nat /\ Cardinality(RunningOf(w)') \in Nat
  <2>1. Running' \subseteq Tasks /\ \A w : RunningOf(w)' \subseteq Tasks
    BY DEF Running, RunningOf, A!Running, A!RunningOf
  <2>2. QED
    BY <2>1, QueueAssumption, FS_Subset, FS_CardinalityType
<1>3. pc[r] \in {"check", "claim"} => picked[r] # t
  BY QueueAssumption DEF QueueInv, DequeueInv, DequeueRelies
<1>4. PlatformSlotFree => PlatformSlotFree'
  BY <1>1, <1>2, RunningFinite, QueueAssumption DEF PlatformSlotFree
<1>5. ASSUME NEW w \in Workflows, WorkflowSlotFree(w) PROVE WorkflowSlotFree(w)'
  BY <1>1, <1>2, <1>5, RunningFinite, QueueAssumption DEF WorkflowSlotFree
<1>6. ASSUME pc[r] = "claim" PROVE WorkflowSlotFree(WorkflowOf[picked[r]])'
  <2>1. WorkflowOf[picked[r]] \in Workflows /\ WorkflowSlotFree(WorkflowOf[picked[r]])
    BY <1>6, QueueAssumption DEF QueueInv, DequeueInv, DequeueRelies
  <2>2. picked[r] \in Tasks /\ picked'[r] = picked[r]
    BY <1>6 DEF QueueInv, DequeueInv, DequeueRelies
  <2>3. QED
    BY <1>5, <2>1, <2>2
<1>7. QED
  BY <1>3, <1>4, <1>6 DEF QueueInv, DequeueInv, DequeueRelies, Holding

\* A step of replica r that writes no row and takes no lock away from another
\* replica keeps what the other replicas rely on.
LEMMA OthersKeepInv ==
    ASSUME QueueInv, NEW r \in Replicas, UNCHANGED <<status, archived>>,
           NEW q \in Replicas \ {r}, pc'[q] = pc[q], picked'[q] = picked[q],
           queueLock = q => queueLock' = q,
           \A t \in Tasks : rowLock[t] = q => rowLock'[t] = q
    PROVE  DequeueRelies(q)'
<1>1. PlatformSlotFree' = PlatformSlotFree /\ \A w : WorkflowSlotFree(w)' = WorkflowSlotFree(w)
  BY DEF PlatformSlotFree, WorkflowSlotFree, Running, RunningOf, A!Running, A!RunningOf
<1>2. QED
  BY <1>1 DEF QueueInv, DequeueInv, DequeueRelies, Holding

\* Every step keeps DequeueInv.
LEMMA InvStep == QueueInv /\ [Next]_vars => DequeueInv'
<1> SUFFICES ASSUME QueueInv, [Next]_vars PROVE DequeueInv'
  OBVIOUS
<1>0. TypeOK /\ DequeueInv
  BY DEF QueueInv
<1> USE DEF DequeueInv
<1>1. ASSUME NEW r \in Replicas, ReadAgents(r) PROVE DequeueInv'
  <2>1. DequeueRelies(r)'
    BY <1>0, <1>1 DEF ReadAgents, DequeueRelies, TypeOK, Goto, Holding
  <2>2. ASSUME NEW q \in Replicas \ {r} PROVE DequeueRelies(q)'
    BY <1>0, <1>1, OthersKeepInv DEF ReadAgents, TypeOK, Goto, rows
  <2>3. QED
    BY <2>1, <2>2
<1>2. ASSUME NEW r \in Replicas, LockQueue(r) PROVE DequeueInv'
  <2>1. DequeueRelies(r)'
    BY <1>0, <1>2 DEF LockQueue, DequeueRelies, TypeOK, Goto, Holding
  <2>2. ASSUME NEW q \in Replicas \ {r} PROVE DequeueRelies(q)'
    BY <1>0, <1>2, OthersKeepInv, QueueAssumption DEF LockQueue, QueueLockFree, TypeOK, Goto, rows
  <2>3. QED
    BY <2>1, <2>2
<1>3. ASSUME NEW r \in Replicas, CountRunning(r) PROVE DequeueInv'
  <2>1. DequeueRelies(r)'
    <3>1. PlatformSlotFree' = PlatformSlotFree
      BY <1>3 DEF CountRunning, rows, PlatformSlotFree, Running, A!Running
    <3>2. QED
      BY <1>0, <1>3, <3>1 DEF CountRunning, DequeueRelies, TypeOK, Goto, Holding, txVars
  <2>2. ASSUME NEW q \in Replicas \ {r} PROVE DequeueRelies(q)'
    BY <1>0, <1>3, OthersKeepInv
       DEF CountRunning, EndTransaction, ReleaseLocks, TypeOK, Goto, rows, txVars
  <2>3. QED
    BY <2>1, <2>2
<1>4. ASSUME NEW r \in Replicas, SelectCandidate(r) PROVE DequeueInv'
  <2>1. DequeueRelies(r)'
    <3>1. PlatformSlotFree' = PlatformSlotFree
      BY <1>4 DEF SelectCandidate, rows, PlatformSlotFree, Running, A!Running
    <3>2. QED
      BY <1>0, <1>4, <3>1
         DEF SelectCandidate, Eligible, DequeueRelies, TypeOK, Goto, Holding, rows
  <2>2. ASSUME NEW q \in Replicas \ {r} PROVE DequeueRelies(q)'
    BY <1>0, <1>4, OthersKeepInv, QueueAssumption
       DEF SelectCandidate, Eligible, EndTransaction, ReleaseLocks, TypeOK, Goto, rows
  <2>3. QED
    BY <2>1, <2>2
<1>5. ASSUME NEW r \in Replicas, CheckWorkflow(r) PROVE DequeueInv'
  <2>1. DequeueRelies(r)'
    <3>1. PlatformSlotFree' = PlatformSlotFree /\ \A w : WorkflowSlotFree(w)' = WorkflowSlotFree(w)
      BY <1>5 DEF CheckWorkflow, rows, PlatformSlotFree, WorkflowSlotFree, Running, RunningOf,
                  A!Running, A!RunningOf
    <3>2. QED
      BY <1>0, <1>5, <3>1 DEF CheckWorkflow, DequeueRelies, TypeOK, Goto, Holding, rows
  <2>2. ASSUME NEW q \in Replicas \ {r} PROVE DequeueRelies(q)'
    BY <1>0, <1>5, OthersKeepInv DEF CheckWorkflow, TypeOK, Goto, rows
  <2>3. QED
    BY <2>1, <2>2
<1>6. ASSUME NEW r \in Replicas, Claim(r) PROVE DequeueInv'
  <2>1. DequeueRelies(r)'
    BY <1>0, <1>6 DEF Claim, DequeueRelies, TypeOK, Goto, Holding
  <2>2. ASSUME NEW q \in Replicas \ {r} PROVE DequeueRelies(q)'
    <3>1. pc[q] \notin Holding
      BY <1>0, <1>6 DEF Claim, DequeueRelies, Holding
    <3>2. QED
      BY <1>0, <1>6, <3>1 DEF Claim, DequeueRelies, TypeOK, Goto, Holding
  <2>3. QED
    BY <2>1, <2>2
<1>7. ASSUME NEW r \in Replicas, AfterClaim(r) PROVE DequeueInv'
  <2>1. picked[r] \in Tasks
    BY <1>0, <1>7 DEF AfterClaim, DequeueRelies
  <2>2. DequeueRelies(r)'
    BY <1>0, <1>7 DEF AfterClaim, DequeueRelies, TypeOK, Goto, Holding
  <2>3. CASE UNCHANGED status
    BY <1>0, <1>7, <2>2, <2>3, OthersKeepInv DEF AfterClaim, TypeOK, Goto
  <2>4. CASE rowLock[picked[r]] = None /\ status' = [status EXCEPT ![picked[r]] = "failed"]
    <3>1. ASSUME NEW q \in Replicas \ {r} PROVE DequeueRelies(q)'
      BY <1>0, <1>7, <2>1, <2>4, RowWriteKeepsInv DEF AfterClaim, Goto, TypeOK
    <3>2. QED
      BY <2>2, <3>1
  <2>5. QED
    BY <1>7, <2>3, <2>4 DEF AfterClaim
<1>8. ASSUME NEW r \in Replicas, Crash(r) PROVE DequeueInv'
  <2>1. DequeueRelies(r)'
    BY <1>0, <1>8 DEF Crash, DequeueRelies, TypeOK, Goto, Holding
  <2>2. ASSUME NEW q \in Replicas \ {r} PROVE DequeueRelies(q)'
    BY <1>0, <1>8, OthersKeepInv
       DEF Crash, EndTransaction, ReleaseLocks, TypeOK, Goto, rows
  <2>3. QED
    BY <2>1, <2>2
<1>9. ASSUME NEW t \in Tasks, Row(t) PROVE DequeueInv'
  <2>1. CASE DieWaiting(t)
    BY <1>0, <2>1 DEF DieWaiting, DequeueRelies, txVars, PlatformSlotFree, WorkflowSlotFree,
                      Running, RunningOf, A!Running, A!RunningOf
  <2>2. CASE ~DieWaiting(t)
    BY <1>0, <1>9, <2>2, RowWriteKeepsInv
       DEF Row, CreateTask, ReportWait, ReportResolved, Finish, WaitingTimeout, LostTask, RerunTask,
           ArchiveTask, WriteStatus, txVars, TypeOK
  <2>3. QED
    BY <2>1, <2>2
<1>10. CASE UNCHANGED <<status, archived, txVars, pc>>
  BY <1>0, <1>10 DEF DequeueRelies, txVars, PlatformSlotFree, WorkflowSlotFree,
                    Running, RunningOf, A!Running, A!RunningOf
<1>11. QED
  BY <1>1, <1>2, <1>3, <1>4, <1>5, <1>6, <1>7, <1>8, <1>9, <1>10
     DEF Next, Replica, PauseAgent, vars, rows

\* The type invariant and what every dequeue relies on hold in every reachable
\* state.
THEOREM Inductive == Spec => []QueueInv
<1>1. Init => QueueInv
  BY QueueAssumption DEF Init, QueueInv, TypeOK, DequeueInv, DequeueRelies, A!Statuses, Labels, Holding
<1>2. QueueInv /\ [Next]_vars => QueueInv'
  BY TypeStep, InvStep DEF QueueInv
<1>3. QED
  BY <1>1, <1>2, PTL DEF Spec

\* Every variable keeps its type.
THEOREM TypeCorrect == Spec => []TypeOK
BY Inductive, PTL DEF QueueInv

\* Whatever the number of session-manager replicas, dequeue_task never exceeds
\* the platform limit or the limit of a workflow.
THEOREM WithinLimits == Spec => []LimitsHold
<1> USE DEF LimitsHold
<1>1. Init => LimitsHold
  <2>1. ASSUME Init PROVE Running = {} /\ \A w : RunningOf(w) = {}
    BY <2>1 DEF Init, Running, RunningOf, A!Running, A!RunningOf
  <2>2. QED
    BY <2>1, FS_EmptySet, QueueAssumption DEF PlatformLimit, WorkflowLimit
<1>2. QueueInv /\ LimitsHold /\ [Next]_vars => LimitsHold'
  <2> SUFFICES ASSUME QueueInv, LimitsHold, [Next]_vars PROVE LimitsHold'
    OBVIOUS
  <2>0. \A w : Cardinality(Running) \in Nat /\ Cardinality(RunningOf(w)) \in Nat
    BY RunningFinite
  <2>1. CASE \E r \in Replicas : Claim(r)
    <3>1. PICK r \in Replicas : Claim(r)
      BY <2>1
    <3>2. /\ picked[r] \in Tasks /\ status[picked[r]] # "running"
          /\ PlatformSlotFree /\ WorkflowSlotFree(WorkflowOf[picked[r]])
      BY <3>1 DEF Claim, QueueInv, DequeueInv, DequeueRelies, RUNNABLE_STATUSES, A!RUNNABLE_STATUSES
    <3>3. /\ Cardinality(Running') = Cardinality(Running) + 1
          /\ \A w : Cardinality(RunningOf(w)') =
                       IF w = WorkflowOf[picked[r]] THEN Cardinality(RunningOf(w)) + 1
                                                    ELSE Cardinality(RunningOf(w))
      BY <3>1, <3>2, ClaimTakesOneSlot DEF Claim, QueueInv
    <3>4. QED
      BY <2>0, <3>2, <3>3, QueueAssumption
         DEF PlatformLimit, WorkflowLimit, PlatformSlotFree, WorkflowSlotFree
  <2>2. CASE ~\E r \in Replicas : Claim(r)
    <3>1. \A t \in Tasks : status'[t] = "running" => status[t] = "running"
      BY <2>2 DEF QueueInv, TypeOK, Next, Replica, Row, ReadAgents, LockQueue, CountRunning,
          SelectCandidate, CheckWorkflow, AfterClaim, Crash, CreateTask, ReportWait, ReportResolved,
          Finish, DieWaiting, WaitingTimeout, LostTask, RerunTask, ArchiveTask, PauseAgent,
          WriteStatus, rows, vars
    <3>2. /\ Cardinality(Running') <= Cardinality(Running)
          /\ \A w : Cardinality(RunningOf(w)') <= Cardinality(RunningOf(w))
      BY <3>1, SlotsStayFree
    <3>3. \A w : Cardinality(Running') \in Nat /\ Cardinality(RunningOf(w)') \in Nat
      <4>1. Running' \subseteq Tasks /\ \A w : RunningOf(w)' \subseteq Tasks
        BY DEF Running, RunningOf, A!Running, A!RunningOf
      <4>2. QED
        BY <4>1, QueueAssumption, FS_Subset, FS_CardinalityType
    <3>4. QED
      BY <2>0, <3>2, <3>3, QueueAssumption DEF PlatformLimit, WorkflowLimit
  <2>3. QED
    BY <2>1, <2>2
<1>3. QED
  BY <1>1, <1>2, Inductive, PTL DEF Spec

\* No archived task is started.
THEOREM ArchiveRespected == Spec => ArchivedNotClaimed
<1>1. QueueInv /\ [Next]_vars =>
        [\A t \in Tasks : status[t] # "running" /\ status'[t] = "running" => t \notin archived]_vars
  <2> SUFFICES ASSUME QueueInv, Next, NEW t \in Tasks, status[t] # "running", status'[t] = "running"
               PROVE  t \notin archived
    OBVIOUS
  <2>1. PICK r \in Replicas : Claim(r)
    BY DEF QueueInv, TypeOK, Next, Replica, Row, ReadAgents, LockQueue, CountRunning,
          SelectCandidate, CheckWorkflow, AfterClaim, Crash, CreateTask, ReportWait, ReportResolved,
          Finish, DieWaiting, WaitingTimeout, LostTask, RerunTask, ArchiveTask, PauseAgent,
          WriteStatus, rows
  <2>2. t = picked[r] /\ picked[r] \notin archived
    BY <2>1 DEF Claim, QueueInv, TypeOK, DequeueInv, DequeueRelies
  <2>3. QED
    BY <2>2
<1>2. QED
  BY <1>1, Inductive, PTL DEF Spec, ArchivedNotClaimed

\* The dequeue protocol implements atomic admission.
THEOREM ImplementsAdmission == Spec => Refinement
<1>1. Init => A!Init
  BY DEF Init, A!Init
<1>2. QueueInv /\ [Next]_vars => [A!Next]_status
  <2> SUFFICES ASSUME QueueInv, [Next]_vars PROVE [A!Next]_status
    OBVIOUS
  <2>1. CASE \E r \in Replicas : Claim(r)
    <3>1. PICK r \in Replicas : Claim(r)
      BY <2>1
    <3>2. /\ picked[r] \in Tasks
          /\ status[picked[r]] \in A!RUNNABLE_STATUSES
          /\ status' = [status EXCEPT ![picked[r]] = "running"]
          /\ PlatformSlotFree /\ WorkflowSlotFree(WorkflowOf[picked[r]])
      BY <3>1 DEF Claim, QueueInv, DequeueInv, DequeueRelies, RUNNABLE_STATUSES
    <3>3. A!Admit(picked[r])
      BY <3>2 DEF A!Admit, PlatformSlotFree, WorkflowSlotFree, Running, RunningOf,
                  A!Cardinality, Cardinality
    <3>4. QED
      BY <3>2, <3>3 DEF A!Next
  <2>2. CASE UNCHANGED status
    BY <2>2
  <2>3. ASSUME NEW t \in Tasks, NEW s \in A!Statuses \ {"running"},
               status' = [status EXCEPT ![t] = s], status[t] = "absent" => s = "queued"
        PROVE  [A!Next]_status
    BY <2>3 DEF A!Next, A!Write
  <2>4. ASSUME NEW r \in Replicas, AfterClaim(r) PROVE [A!Next]_status
    <3>1. picked[r] \in Tasks /\ status[picked[r]] # "absent"
      BY <2>4 DEF AfterClaim, QueueInv, DequeueInv, DequeueRelies
    <3>2. QED
      BY <2>2, <2>3, <2>4, <3>1 DEF AfterClaim, A!Statuses, A!TERMINAL_STATUSES, A!RERUNNABLE_STATUSES
  <2>5. ASSUME NEW t \in Tasks, Row(t) PROVE [A!Next]_status
    BY <2>2, <2>3, <2>5
       DEF Row, CreateTask, ReportWait, ReportResolved, Finish, DieWaiting, WaitingTimeout, LostTask,
           RerunTask, ArchiveTask, WriteStatus, A!Statuses, A!RUNNABLE_STATUSES, A!WAITING_STATUSES,
           A!TERMINAL_STATUSES, A!RERUNNABLE_STATUSES
  <2>6. QED
    BY <2>1, <2>2, <2>4, <2>5
       DEF Next, Replica, ReadAgents, LockQueue, CountRunning, SelectCandidate, CheckWorkflow, Crash,
           PauseAgent, rows, vars
<1>3. QED
  BY <1>1, <1>2, Inductive, PTL DEF Spec, Refinement, A!Spec

-----------------------------------------------------------------------------
(* WorkflowRelease *)

LEMMA ReleaseImplies == ASSUME W!ReleaseInv PROVE W!ReleasesHold
<1>1. W!PointerComplete
  BY DEF W!ReleaseInv, W!PointerInv, W!Published, W!ConfigIn, W!BundleIn, W!PointerComplete
<1>2. W!LaunchWhole
  BY DEF W!ReleaseInv, W!TaskInv, W!Published, W!ConfigIn, W!BundleIn, W!LaunchWhole
<1> QED BY <1>1, <1>2 DEF W!ReleasesHold

LEMMA ReleaseInit == ASSUME W!ReleaseAssumption, W!Init PROVE W!ReleaseInv
<1>1. W!TypeOK
  BY DEF W!Init, W!ReleaseAssumption, W!TypeOK, W!SyncType, W!ReleaseType, W!TaskType, W!Stages, W!NoRelease
<1>2. W!CheckoutInv /\ W!BuildInv /\ W!PointerInv /\ W!TaskInv
  BY DEF W!Init, W!CheckoutInv, W!BuildInv, W!PointerInv, W!TaskInv
<1> QED BY <1>1, <1>2 DEF W!ReleaseInv

\* A release stays published while its objects, its commit and its sync stay.
LEMMA PublishedStays ==
  ASSUME managed' = managed, NEW r, W!Published(r),
         store'[r] = store[r], sync'[r].commit = sync[r].commit,
         sync'[r].stage \in {"record", "done"}
  PROVE  W!Published(r)'
BY DEF W!Published, W!ConfigIn, W!BundleIn

\* Launches and the pointer do not see a sync that works on a release of its own.
LEMMA ReleaseReadersStay ==
  ASSUME W!ReleaseInv, UNCHANGED <<managed, pointer, task>>,
         \A r \in Syncs : sync[r].stage \in {"record", "done"} =>
           /\ store'[r] = store[r] /\ sync'[r].commit = sync[r].commit
           /\ sync'[r].stage \in {"record", "done"}
  PROVE  W!PointerInv' /\ W!TaskInv'
<1>1. ASSUME NEW r, W!Published(r) PROVE W!Published(r)' /\ store'[r] = store[r]
  <2>1. r \in Syncs /\ sync[r].stage \in {"record", "done"}
    BY <1>1 DEF W!Published
  <2> QED BY <1>1, <2>1, PublishedStays
<1>2. W!PointerInv'
  BY <1>1 DEF W!ReleaseInv, W!PointerInv
<1>3. W!TaskInv'
  BY <1>1 DEF W!ReleaseInv, W!TaskInv
<1> QED BY <1>2, <1>3

\* What a sync has built does not depend on the others.
LEMMA ReleaseOtherSyncs ==
  ASSUME NEW s \in Syncs, W!ReleaseInv, managed' = managed,
         \A o \in Syncs : o # s => sync'[o] = sync[o] /\ store'[o] = store[o],
         /\ sync'[s].stage = "build" /\ ~sync'[s].failed =>
              \A w \in Bundles \ sync'[s].todo : W!BundleIn(s, w)'
         /\ sync'[s].stage \in {"config", "manifest", "pointer"} => \A w \in Bundles : W!BundleIn(s, w)'
         /\ sync'[s].stage \in {"manifest", "pointer"} => W!ConfigIn(s)'
         /\ sync'[s].stage = "pointer" => store'[s].manifest
  PROVE  W!BuildInv'
BY DEF W!ReleaseInv, W!BuildInv, W!BundleIn, W!ConfigIn

\* A step of one sync that keeps the types and the checkout and knows what it built.
LEMMA ReleaseSyncStep ==
  ASSUME NEW s \in Syncs, W!ReleaseInv, W!TypeOK', W!CheckoutInv', UNCHANGED <<managed, pointer, task>>,
         \A o \in Syncs : o # s => sync'[o] = sync[o] /\ store'[o] = store[o],
         sync[s].stage \in {"record", "done"} =>
           /\ store'[s] = store[s] /\ sync'[s].commit = sync[s].commit
           /\ sync'[s].stage \in {"record", "done"},
         /\ sync'[s].stage = "build" /\ ~sync'[s].failed =>
              \A w \in Bundles \ sync'[s].todo : W!BundleIn(s, w)'
         /\ sync'[s].stage \in {"config", "manifest", "pointer"} => \A w \in Bundles : W!BundleIn(s, w)'
         /\ sync'[s].stage \in {"manifest", "pointer"} => W!ConfigIn(s)'
         /\ sync'[s].stage = "pointer" => store'[s].manifest
  PROVE  W!ReleaseInv'
<1>1. W!PointerInv' /\ W!TaskInv'
  BY ReleaseReadersStay
<1>2. W!BuildInv'
  BY ReleaseOtherSyncs
<1> QED BY <1>1, <1>2 DEF W!ReleaseInv

\* A managed discovery leaves the checkout; any other leaves a commit.
LEMMA DiscoveredIsCommit ==
  ASSUME W!TypeOK, DefaultRef \in Refs \cup {None}, NEW c \in W!Discovered
  PROVE  c \in Commits /\ (managed => c = checkout)
BY DEF W!TypeOK, W!Discovered

LEMMA ReleaseStartKeeps ==
  ASSUME W!ReleaseAssumption, W!ReleaseInv, NEW s \in Syncs,
         W!StartUnmanaged(s) \/ \E r \in Refs : W!StartManaged(s, r)
  PROVE  W!ReleaseInv'
<1> USE DEF W!ReleaseInv
<1>1. CASE W!StartUnmanaged(s)
  <2>1. W!EffectiveRef \in Refs \cup {None}
    BY DEF W!EffectiveRef, W!TypeOK, W!ReleaseAssumption
  <2>2. W!TypeOK' /\ sync'[s].stage = "fetch" /\ (\A o \in Syncs : o # s => sync'[o] = sync[o])
    BY <1>1, <2>1, ZenonT(60) DEF W!StartUnmanaged, W!TypeOK, W!SyncType, W!Stages
  <2>3. W!CheckoutInv'
    BY <1>1 DEF W!StartUnmanaged, W!CheckoutInv
  <2> QED BY <1>1, <2>2, <2>3, ReleaseSyncStep DEF W!StartUnmanaged
<1>2. ASSUME NEW r \in Refs, W!StartManaged(s, r) PROVE W!ReleaseInv'
  <2>1. /\ W!TypeOK' /\ sync'[s].stage = "discover"
        /\ \A o \in Syncs : o # s => sync'[o] = sync[o]
    <3>0. sync' = [sync EXCEPT ![s].stage = "discover", ![s].ref = r]
      BY <1>2 DEF W!StartManaged
    <3>1. sync' \in [Syncs -> W!SyncType]
      <4>1. sync \in [Syncs -> W!SyncType]
        BY DEF W!TypeOK
      <4> QED BY <3>0, <4>1, ZenonT(60) DEF W!SyncType, W!Stages
    <3>2. checkout' \in Commits /\ pinned' \in Refs \cup {None}
      BY <1>2 DEF W!StartManaged, W!TypeOK
    <3>3. /\ sync'[s].stage = "discover"
          /\ \A o \in Syncs : o # s => sync'[o] = sync[o]
      BY <3>0 DEF W!TypeOK, W!SyncType
    <3> QED BY <1>2, <3>1, <3>2, <3>3 DEF W!StartManaged, W!TypeOK
  <2>2. \A o \in Syncs : sync[o].stage \in {"idle", "done"}
    BY <1>2 DEF W!StartManaged, W!Active
  <2>3. W!CheckoutInv'
    BY <2>1, <2>2 DEF W!CheckoutInv
  <2> QED BY <1>2, <2>1, <2>3, ReleaseSyncStep DEF W!StartManaged
<1> QED BY <1>1, <1>2

\* Up to the label a sync has built nothing.
LEMMA ReleaseFetchKeeps ==
  ASSUME W!ReleaseAssumption, W!ReleaseInv, NEW s \in Syncs, W!Fetch(s) PROVE W!ReleaseInv'
<1> USE DEF W!ReleaseInv
<1>1. ~managed
  BY DEF W!Fetch, W!CheckoutInv
<1>2. W!TypeOK'
  <2>1. checkout' \in Commits
    BY DEF W!Fetch, W!TypeOK, W!SyncType, W!ReleaseAssumption
  <2>2. sync' \in [Syncs -> W!SyncType]
    BY DEF W!Fetch, W!Goes, W!TypeOK, W!SyncType, W!Stages
  <2> QED BY <2>1, <2>2 DEF W!Fetch, W!TypeOK
<1>3. /\ sync'[s].stage \in {"discover", "record"}
      /\ \A o \in Syncs : o # s => sync'[o] = sync[o]
  BY DEF W!Fetch, W!Goes, W!TypeOK, W!SyncType
<1>4. W!CheckoutInv'
  BY <1>1 DEF W!Fetch, W!CheckoutInv
<1> QED BY <1>2, <1>3, <1>4, ReleaseSyncStep DEF W!Fetch

LEMMA ReleaseDiscoverKeeps ==
  ASSUME W!ReleaseAssumption, W!ReleaseInv, NEW s \in Syncs, W!Discover(s) PROVE W!ReleaseInv'
<1> USE DEF W!ReleaseInv
<1>1. checkout' \in Commits /\ (managed => checkout' = checkout)
  BY DiscoveredIsCommit DEF W!Discover, W!ReleaseAssumption
<1>2. /\ W!TypeOK' /\ sync'[s].stage = "label"
      /\ \A o \in Syncs : o # s => sync'[o] = sync[o]
  BY <1>1 DEF W!Discover, W!Goes, W!TypeOK, W!SyncType, W!Stages
<1>3. W!CheckoutInv'
  BY <1>1, <1>2 DEF W!Discover, W!CheckoutInv
<1> QED BY <1>2, <1>3, ReleaseSyncStep DEF W!Discover

LEMMA ReleaseLabelKeeps ==
  ASSUME W!ReleaseInv, NEW s \in Syncs, W!Label(s) PROVE W!ReleaseInv'
<1> USE DEF W!ReleaseInv
<1>1. /\ W!TypeOK' /\ sync'[s].stage = "build" /\ sync'[s].commit = checkout
      /\ sync'[s].todo = Bundles
      /\ \A o \in Syncs : o # s => sync'[o] = sync[o]
  BY ZenonT(60) DEF W!Label, W!TypeOK, W!SyncType, W!Stages
<1>2. W!CheckoutInv'
  BY <1>1 DEF W!Label, W!CheckoutInv
<1> QED BY <1>1, <1>2, ReleaseSyncStep DEF W!Label

\* A bundle is built from what is checked out: in a managed instance the commit of
\* the release.
LEMMA ReleaseBuildKeeps ==
  ASSUME W!ReleaseAssumption, W!ReleaseInv, NEW s \in Syncs, NEW w \in Bundles, W!Build(s, w)
  PROVE  W!ReleaseInv'
<1> USE DEF W!ReleaseInv
<1>1. checkout' \in Commits /\ (managed => checkout' = checkout) /\ checkout' # None
  BY DiscoveredIsCommit DEF W!Build, W!ReleaseAssumption
<1>2. /\ sync' \in [Syncs -> W!SyncType]
      /\ sync'[s].stage = "build" /\ sync'[s].commit = sync[s].commit
      /\ sync'[s].todo = sync[s].todo \ {w}
      /\ ~sync'[s].failed => ~sync[s].failed
      /\ \A o \in Syncs : o # s => sync'[o] = sync[o]
  BY DEF W!Build, W!TypeOK, W!SyncType
<1>3. store' \in [Syncs -> W!ReleaseType]
  <2>1. CASE store' = store
    BY <2>1 DEF W!TypeOK
  <2>2. CASE store' = [store EXCEPT ![s].bundles[w] = checkout']
    <3> DEFINE bundles == [store[s].bundles EXCEPT ![w] = checkout']
    <3>1. store[s] \in W!ReleaseType
      BY DEF W!TypeOK
    <3>2. bundles \in [Bundles -> Commits \cup {None}]
      BY <1>1, <3>1 DEF W!ReleaseType
    <3>3. [store[s] EXCEPT !.bundles = bundles] \in W!ReleaseType
      BY <3>1, <3>2 DEF W!ReleaseType
    <3>4. store' = [store EXCEPT ![s] = [store[s] EXCEPT !.bundles = bundles]]
      BY <2>2
    <3> QED BY <3>3, <3>4 DEF W!TypeOK
  <2> QED BY <2>1, <2>2 DEF W!Build
<1>4. \A o \in Syncs : o # s => store'[o] = store[o]
  BY DEF W!Build, W!TypeOK
<1>5. W!TypeOK'
  BY <1>1, <1>2, <1>3 DEF W!Build, W!TypeOK
<1>6. W!CheckoutInv'
  BY <1>1, <1>2 DEF W!Build, W!CheckoutInv
<1>7. ASSUME ~sync'[s].failed, NEW v \in Bundles \ sync'[s].todo PROVE W!BundleIn(s, v)'
  <2>0. sync[s].stage = "build" /\ ~sync[s].failed /\ UNCHANGED managed
    BY <1>2, <1>7 DEF W!Build
  <2>1. store' = [store EXCEPT ![s].bundles[w] = checkout']
    BY <1>7, <1>2 DEF W!Build, W!TypeOK, W!SyncType
  <2>2. CASE v = w
    <3>1. store'[s].bundles[v] = checkout'
      BY <2>1, <2>2 DEF W!TypeOK, W!ReleaseType
    <3>2. managed => checkout' = sync'[s].commit
      BY <1>1, <1>2, <2>0 DEF W!CheckoutInv
    <3> QED BY <1>1, <2>0, <3>1, <3>2 DEF W!BundleIn
  <2>3. CASE v # w
    <3>1. store'[s].bundles[v] = store[s].bundles[v]
      BY <2>1, <2>3 DEF W!TypeOK, W!ReleaseType
    <3>2. W!BundleIn(s, v)
      BY <1>2, <1>7, <2>0, <2>3 DEF W!BuildInv
    <3> QED BY <1>2, <2>0, <3>1, <3>2 DEF W!BundleIn
  <2> QED BY <2>2, <2>3
<1>8. sync[s].stage = "build" /\ UNCHANGED <<managed, pointer, task>>
  BY DEF W!Build
<1> QED BY <1>2, <1>4, <1>5, <1>6, <1>7, <1>8, ReleaseSyncStep

\* The release is published object by object; the pointer is last.
LEMMA ReleasePublishKeeps ==
  ASSUME W!ReleaseAssumption, W!ReleaseInv, NEW s \in Syncs,
         W!Built(s) \/ W!PublishConfig(s) \/ W!PublishManifest(s) \/ W!PublishFails(s)
  PROVE  W!ReleaseInv'
<1> USE DEF W!ReleaseInv
<1>1. /\ sync' \in [Syncs -> W!SyncType]
      /\ sync'[s].commit = sync[s].commit /\ sync'[s].todo = sync[s].todo
      /\ \A o \in Syncs : o # s => sync'[o] = sync[o]
  BY DEF W!Built, W!PublishConfig, W!PublishManifest, W!PublishFails, W!Goes, W!TypeOK, W!SyncType, W!Stages
<1>2. UNCHANGED <<managed, checkout, pointer, task, origin, pinned>>
  BY DEF W!Built, W!PublishConfig, W!PublishManifest, W!PublishFails
<1>3. CASE W!Built(s)
  <2>1. sync'[s].stage = IF sync[s].failed THEN "record" ELSE "config"
    BY <1>3 DEF W!Built, W!Goes, W!TypeOK, W!SyncType
  <2>2. sync[s].stage = "build" /\ sync[s].todo = {} /\ store' = store
    BY <1>3 DEF W!Built
  <2>3. W!TypeOK' /\ W!CheckoutInv'
    BY <1>1, <1>2, <2>1, <2>2 DEF W!TypeOK, W!CheckoutInv
  <2>4. ~sync[s].failed => \A w \in Bundles : W!BundleIn(s, w)'
    BY <1>1, <1>2, <2>2 DEF W!BuildInv, W!BundleIn
  <2> QED BY <1>1, <1>2, <2>1, <2>2, <2>3, <2>4, ReleaseSyncStep
<1>4. CASE W!PublishConfig(s)
  <2>1. sync'[s].stage = "manifest" /\ sync[s].stage = "config"
    BY <1>4 DEF W!PublishConfig, W!Goes, W!TypeOK, W!SyncType
  <2>2. /\ store' \in [Syncs -> W!ReleaseType]
        /\ store'[s].config = checkout /\ store'[s].bundles = store[s].bundles
        /\ \A o \in Syncs : o # s => store'[o] = store[o]
    BY <1>4 DEF W!PublishConfig, W!TypeOK, W!ReleaseType
  <2>3. W!TypeOK' /\ W!CheckoutInv'
    BY <1>1, <1>2, <2>1, <2>2 DEF W!TypeOK, W!CheckoutInv
  <2>4. W!ConfigIn(s)'
    BY <1>1, <1>2, <2>1, <2>2 DEF W!ConfigIn, W!CheckoutInv, W!TypeOK, W!ReleaseAssumption
  <2>5. \A w \in Bundles : W!BundleIn(s, w)'
    BY <1>1, <1>2, <2>1, <2>2 DEF W!BuildInv, W!BundleIn
  <2> QED BY <1>1, <1>2, <2>1, <2>2, <2>3, <2>4, <2>5, ReleaseSyncStep
<1>5. CASE W!PublishManifest(s)
  <2>1. sync'[s].stage = "pointer" /\ sync[s].stage = "manifest"
    BY <1>5 DEF W!PublishManifest, W!Goes, W!TypeOK, W!SyncType
  <2>2. /\ store' \in [Syncs -> W!ReleaseType]
        /\ store'[s].manifest = TRUE /\ store'[s].bundles = store[s].bundles
        /\ store'[s].config = store[s].config
        /\ \A o \in Syncs : o # s => store'[o] = store[o]
    BY <1>5 DEF W!PublishManifest, W!TypeOK, W!ReleaseType
  <2>3. W!TypeOK' /\ W!CheckoutInv'
    BY <1>1, <1>2, <2>1, <2>2 DEF W!TypeOK, W!CheckoutInv
  <2>4. W!ConfigIn(s)' /\ \A w \in Bundles : W!BundleIn(s, w)'
    BY <1>1, <1>2, <2>1, <2>2 DEF W!BuildInv, W!BundleIn, W!ConfigIn
  <2> QED BY <1>1, <1>2, <2>1, <2>2, <2>3, <2>4, ReleaseSyncStep
<1>6. CASE W!PublishFails(s)
  <2>1. sync'[s].stage = "record" /\ sync[s].stage \in {"config", "manifest", "pointer"} /\ store' = store
    BY <1>6 DEF W!PublishFails, W!TypeOK, W!SyncType
  <2>2. W!TypeOK' /\ W!CheckoutInv'
    BY <1>1, <1>2, <2>1 DEF W!TypeOK, W!CheckoutInv
  <2> QED BY <1>1, <1>2, <2>1, <2>2, ReleaseSyncStep
<1> QED BY <1>3, <1>4, <1>5, <1>6

\* When the pointer moves to a release, all of it is there.
LEMMA ReleaseMovePointerKeeps ==
  ASSUME W!ReleaseInv, NEW s \in Syncs, W!MovePointer(s) PROVE W!ReleaseInv'
<1> USE DEF W!ReleaseInv
<1>1. /\ sync' \in [Syncs -> W!SyncType] /\ sync'[s].stage = "record"
      /\ sync'[s].commit = sync[s].commit
      /\ \A o \in Syncs : o # s => sync'[o] = sync[o]
  BY DEF W!MovePointer, W!Goes, W!TypeOK, W!SyncType, W!Stages
<1>2. /\ sync[s].stage = "pointer" /\ pointer' = s
      /\ UNCHANGED <<managed, origin, checkout, pinned, store, task>>
  BY DEF W!MovePointer
<1>3. W!TypeOK'
  BY <1>1, <1>2 DEF W!TypeOK
<1>4. W!CheckoutInv' /\ W!BuildInv'
  BY <1>1, <1>2 DEF W!CheckoutInv, W!BuildInv, W!BundleIn, W!ConfigIn
<1>5. W!Published(s)'
  BY <1>1, <1>2 DEF W!BuildInv, W!Published, W!BundleIn, W!ConfigIn
<1>6. ASSUME NEW r, W!Published(r) PROVE W!Published(r)'
  BY <1>1, <1>2, <1>6 DEF W!Published, W!BundleIn, W!ConfigIn
<1>7. W!TaskInv'
  BY <1>2, <1>6 DEF W!TaskInv
<1> QED BY <1>2, <1>3, <1>4, <1>5, <1>7 DEF W!PointerInv

LEMMA ReleaseEndKeeps ==
  ASSUME W!ReleaseInv, NEW s \in Syncs, W!Record(s) \/ W!Crash(s) PROVE W!ReleaseInv'
<1> USE DEF W!ReleaseInv
<1>1. /\ sync' \in [Syncs -> W!SyncType] /\ sync'[s].stage = "done"
      /\ sync'[s].commit = sync[s].commit
      /\ \A o \in Syncs : o # s => sync'[o] = sync[o]
  BY DEF W!Record, W!Crash, W!Goes, W!TypeOK, W!SyncType, W!Stages
<1>2. UNCHANGED <<managed, origin, checkout, pinned, store, pointer, task>>
  BY DEF W!Record, W!Crash
<1>3. W!TypeOK' /\ W!CheckoutInv'
  BY <1>1, <1>2 DEF W!TypeOK, W!CheckoutInv
<1> QED BY <1>1, <1>2, <1>3, ReleaseSyncStep

\* A launch reads a release that nobody changes any more.
LEMMA ReleaseLaunchKeeps ==
  ASSUME W!ReleaseInv, NEW t \in Launches,
         W!ReadConfig(t) \/ W!ReadBundle(t) \/ \E w \in Bundles : W!ReadPointer(t, w)
  PROVE  W!ReleaseInv'
<1> USE DEF W!ReleaseInv
<1>1. UNCHANGED <<managed, origin, checkout, pinned, sync, store, pointer>>
  BY DEF W!ReadConfig, W!ReadBundle, W!ReadPointer
<1>2. W!CheckoutInv' /\ W!BuildInv' /\ W!PointerInv' /\ (\A r : W!Published(r) => W!Published(r)')
  BY <1>1 DEF W!CheckoutInv, W!BuildInv, W!PointerInv, W!Published, W!BundleIn, W!ConfigIn
<1>3. ASSUME NEW w \in Bundles, W!ReadPointer(t, w) PROVE W!TypeOK' /\ W!TaskInv'
  <2>1. /\ task' \in [Launches -> W!TaskType]
        /\ task'[t].stage = "release" /\ task'[t].release = pointer /\ task'[t].workflow = w
        /\ \A o \in Launches : o # t => task'[o] = task[o]
    <3>1. task' = [task EXCEPT ![t].stage = "release", ![t].workflow = w, ![t].release = pointer]
      BY <1>3 DEF W!ReadPointer
    <3>2. task \in [Launches -> W!TaskType] /\ pointer \in Syncs \cup {None}
      BY DEF W!TypeOK
    <3>3. task' \in [Launches -> W!TaskType]
      BY <3>1, <3>2, ZenonT(60) DEF W!TaskType
    <3> QED BY <3>1, <3>2, <3>3 DEF W!TaskType
  <2> QED BY <1>1, <1>2, <2>1 DEF W!TypeOK, W!TaskInv, W!PointerInv
<1>4. ASSUME W!ReadConfig(t) PROVE W!TypeOK' /\ W!TaskInv'
  <2> DEFINE c == IF W!ConfigRelease(t) = None THEN None ELSE store[W!ConfigRelease(t)].config
  <2>1. W!ConfigRelease(t) \in Syncs \cup {None}
    BY DEF W!ConfigRelease, W!TypeOK, W!TaskType
  <2>2. c \in Commits \cup {None}
    BY <2>1 DEF W!TypeOK, W!ReleaseType
  <2>3. task' = [task EXCEPT ![t].stage = "config", ![t].config = c] /\ task[t].stage = "release"
    BY <1>4 DEF W!ReadConfig
  <2> HIDE DEF c
  <2>4. /\ task' \in [Launches -> W!TaskType]
        /\ task'[t].stage = "config" /\ task'[t].config = c
        /\ task'[t].release = task[t].release /\ task'[t].workflow = task[t].workflow
        /\ \A o \in Launches : o # t => task'[o] = task[o]
    BY <2>2, <2>3 DEF W!TypeOK, W!TaskType
  <2>5. task[t].release # None => c = store[task[t].release].config
    BY DEF c, W!ConfigRelease
  <2> QED BY <1>1, <1>2, <2>4, <2>5 DEF W!TypeOK, W!TaskInv
<1>5. ASSUME W!ReadBundle(t) PROVE W!TypeOK' /\ W!TaskInv'
  <2> DEFINE b == IF task[t].release = None THEN None
                  ELSE store[task[t].release].bundles[task[t].workflow]
  <2>1. b \in Commits \cup {None}
    BY DEF W!TypeOK, W!TaskType, W!ReleaseType, W!TaskInv
  <2>2. task' = [task EXCEPT ![t].stage = "launched", ![t].bundle = b] /\ task[t].stage = "config"
    BY <1>5 DEF W!ReadBundle
  <2>3. task[t].release # None => b = store[task[t].release].bundles[task[t].workflow]
    OBVIOUS
  <2> HIDE DEF b
  <2>4. /\ task' \in [Launches -> W!TaskType]
        /\ task'[t].stage = "launched" /\ task'[t].bundle = b
        /\ task'[t].release = task[t].release /\ task'[t].workflow = task[t].workflow
        /\ task'[t].config = task[t].config
        /\ \A o \in Launches : o # t => task'[o] = task[o]
    BY <2>1, <2>2 DEF W!TypeOK, W!TaskType
  <2> QED BY <1>1, <1>2, <2>2, <2>3, <2>4 DEF W!TypeOK, W!TaskInv
<1> QED BY <1>2, <1>3, <1>4, <1>5

\* The repository moves, an operator pins a ref, or a discovery checks another commit out.
LEMMA ReleaseOthersKeep ==
  ASSUME W!ReleaseAssumption, W!ReleaseInv,
         \/ \E r \in Refs, c \in Commits : W!Push(r, c)
         \/ \E r \in Refs : W!Pin(r)
         \/ W!Rediscover
         \/ UNCHANGED W!vars
  PROVE  W!ReleaseInv'
<1> USE DEF W!ReleaseInv
<1>1. UNCHANGED <<managed, sync, store, pointer, task>>
  BY DEF W!Push, W!Pin, W!Rediscover, W!vars
<1>2. checkout' \in Commits /\ (managed => checkout' = checkout)
  <2>1. CASE W!Rediscover
    BY <2>1, DiscoveredIsCommit DEF W!Rediscover, W!ReleaseAssumption
  <2> QED BY <2>1 DEF W!Push, W!Pin, W!vars, W!TypeOK
<1>3. origin' \in [Refs -> Commits] /\ pinned' \in Refs \cup {None}
  BY DEF W!Push, W!Pin, W!Rediscover, W!vars, W!TypeOK
<1>4. W!TypeOK'
  BY <1>1, <1>2, <1>3 DEF W!TypeOK
<1>5. W!CheckoutInv'
  BY <1>1, <1>2 DEF W!CheckoutInv
<1>6. W!BuildInv' /\ W!PointerInv' /\ W!TaskInv'
  BY <1>1 DEF W!BuildInv, W!PointerInv, W!TaskInv, W!Published, W!BundleIn, W!ConfigIn
<1> QED BY <1>4, <1>5, <1>6

-------------------------------------------------------------------------------
\* The active pointer names a release that is complete, in a managed instance all of
\* one commit, and every launch that found a release gets the configuration and the
\* bundle of that one, however often the pointer moves and whatever fails.
THEOREM ReleasesAreWhole == MCSpec => []ReleasesHold
<1>1. MCInit => W!ReleaseInv
  BY Assumptions, ReleaseInit DEF MCInit
<1>2. W!ReleaseInv /\ [MCNext]_mcvars => W!ReleaseInv'
  <2>1. W!ReleaseInv /\ [W!Next]_W!vars => W!ReleaseInv'
    BY Assumptions, ReleaseStartKeeps, ReleaseFetchKeeps, ReleaseDiscoverKeeps, ReleaseLabelKeeps,
       ReleaseBuildKeeps, ReleasePublishKeeps, ReleaseMovePointerKeeps, ReleaseEndKeeps,
       ReleaseLaunchKeeps, ReleaseOthersKeep DEF W!Next
  <2>2. [MCNext]_mcvars => [W!Next]_W!vars
    BY DEF MCNext, mcvars, release, W!vars
  <2> QED BY <2>1, <2>2
<1>3. W!ReleaseInv => ReleasesHold
  BY ReleaseImplies DEF ReleasesHold
<1> QED BY <1>1, <1>2, <1>3, PTL DEF MCSpec

-----------------------------------------------------------------------------
(* AgentMemory *)

\* What the archives hold are files, never None; the marker is no session.
LEMMA MemoryNames ==
  /\ Marker \notin Sessions /\ Marker # None
  /\ \A files \in SUBSET (Sessions \cup {Marker}) : M!Extracted(files) = files
  /\ M!Extracted(None) = {}
BY Assumptions DEF M!MemoryAssumption, M!Extracted

LEMMA MemoryInit == M!Init => M!MemoryInv
<1> SUFFICES ASSUME M!Init PROVE M!MemoryInv
  OBVIOUS
<1>1. M!TypeOK
  BY DEF M!Init, M!TypeOK
<1>3. M!MarkerInv
  BY DEF M!Init, M!MarkerInv
<1>2. M!HandOnInv /\ M!MemoryKept
  BY DEF M!Init, M!HandOnInv, M!Uploading, M!MemoryKept
<1> QED BY <1>1, <1>2, <1>3 DEF M!MemoryInv

\* A session starts with the latest archive, or its pod fails.
LEMMA RestoreKeeps ==
  ASSUME M!MemoryInv, NEW j \in Sessions, M!Restore(j)
  PROVE  M!MemoryInv'
<1>1. CASE M!Start(j, latest)
  <2> DEFINE found == M!Extracted(latest)
  <2>1. /\ M!TypeOK /\ M!MarkerInv /\ M!MemoryKept
        /\ runtime[j] = "new" /\ helper[j] = "none"
        /\ found \in SUBSET Sessions
        /\ dir' = [dir EXCEPT ![j] = found]
        /\ runtime' = [runtime EXCEPT ![j] = "running"]
        /\ helper' = [helper EXCEPT ![j] = "waiting"]
        /\ overlapped' = (overlapped \/ \E o \in Sessions : M!Uploading(o))
        /\ UNCHANGED <<archive, latest>>
    <3>1. latest \in (SUBSET Sessions) \cup {None}
      BY DEF M!MemoryInv, M!TypeOK
    <3>2. found \in SUBSET Sessions
      <4>1. CASE latest = None
        BY <4>1, MemoryNames
      <4>2. CASE latest \in SUBSET Sessions
        <5>1. latest \in SUBSET (Sessions \cup {Marker})
          BY <4>2
        <5> QED BY <4>2, <5>1, MemoryNames
      <4> QED BY <3>1, <4>1, <4>2
    <3> QED BY <1>1, <3>2 DEF M!MemoryInv, M!MarkerInv, M!Start
  <2>2. found' = found
    BY <2>1 DEF M!Extracted
  <2>3. Marker \notin Sessions
    BY MemoryNames
  <2> HIDE DEF found
  <2>4. M!TypeOK'
    BY <2>1 DEF M!TypeOK
  <2>5. M!MarkerInv'
    BY <2>1, <2>3 DEF M!MarkerInv, M!TypeOK
  <2>6. ASSUME ~overlapped' PROVE M!HandOnInv' /\ ~overlapped
    <3>1. ~overlapped /\ \A o \in Sessions : ~M!Uploading(o)
      BY <2>1, <2>6
    <3>2. \A o \in Sessions : M!Uploading(o)' => o = j
      BY <2>1, <3>1 DEF M!Uploading, M!TypeOK
    <3>3. \A o \in Sessions : helper'[o] # "read"
      BY <2>1, <3>1 DEF M!Uploading, M!TypeOK
    <3>4. found \subseteq dir'[j]
      BY <2>1 DEF M!TypeOK
    <3> QED BY <2>2, <3>1, <3>2, <3>3, <3>4 DEF M!HandOnInv, found
  <2>7. M!MemoryKept'
    BY <2>1, <2>2, <2>6 DEF M!MemoryKept, M!TypeOK, found
  <2> QED BY <2>4, <2>5, <2>6, <2>7 DEF M!MemoryInv
<1>2. CASE ~M!Start(j, latest)
  <2>1. /\ M!TypeOK /\ M!MarkerInv /\ M!MemoryKept /\ (~overlapped => M!HandOnInv)
        /\ runtime[j] = "new" /\ helper[j] = "none"
        /\ runtime' = [runtime EXCEPT ![j] = "killed"]
        /\ helper' = [helper EXCEPT ![j] = "dead"]
        /\ UNCHANGED <<dir, archive, latest, overlapped>>
    BY <1>2 DEF M!Restore, M!MemoryInv, M!MarkerInv
  <2>2. M!TypeOK' /\ M!MarkerInv'
    BY <2>1 DEF M!TypeOK, M!MarkerInv
  <2>3. M!Extracted(latest)' = M!Extracted(latest)
    BY <2>1 DEF M!Extracted
  <2>4. (~overlapped => M!HandOnInv)' /\ M!MemoryKept'
    BY <2>1, <2>3 DEF M!TypeOK, M!HandOnInv, M!Uploading, M!MemoryKept
  <2> QED BY <2>2, <2>4 DEF M!MemoryInv
<1> QED BY <1>1, <1>2

LEMMA WriteKeeps ==
  ASSUME M!MemoryInv, NEW j \in Sessions, M!Write(j)
  PROVE  M!MemoryInv'
<1>1. M!TypeOK /\ M!MarkerInv /\ M!MemoryKept /\ (~overlapped => M!HandOnInv)
  BY DEF M!MemoryInv
<1>2. M!Extracted(latest)' = M!Extracted(latest) /\ Marker \notin M!Extracted(latest) /\ overlapped' = overlapped
  BY <1>1, MemoryNames DEF M!Write, M!Extracted, M!TypeOK
<1>3. M!TypeOK'
  BY <1>1 DEF M!Write, M!TypeOK
<1>4. M!MarkerInv'
  BY <1>1, MemoryNames DEF M!Write, M!TypeOK, M!MarkerInv
<1>5. ~overlapped => M!HandOnInv'
  BY <1>1, <1>2, MemoryNames DEF M!Write, M!TypeOK, M!MarkerInv, M!HandOnInv, M!Uploading
<1>6. M!MemoryKept'
  BY <1>1, <1>2, MemoryNames DEF M!Write, M!TypeOK, M!MarkerInv, M!HandOnInv, M!Uploading, M!MemoryKept
<1> QED BY <1>2, <1>3, <1>4, <1>5, <1>6 DEF M!MemoryInv

LEMMA FinishKeeps ==
  ASSUME M!MemoryInv, NEW j \in Sessions, M!Finish(j)
  PROVE  M!MemoryInv'
<1>1. M!TypeOK /\ M!MarkerInv /\ M!MemoryKept /\ (~overlapped => M!HandOnInv)
  BY DEF M!MemoryInv
<1>2. M!Extracted(latest)' = M!Extracted(latest) /\ Marker \notin M!Extracted(latest) /\ overlapped' = overlapped
  BY <1>1, MemoryNames DEF M!Finish, M!Extracted, M!TypeOK
<1>3. M!TypeOK'
  BY <1>1 DEF M!Finish, M!TypeOK
<1>4. M!MarkerInv'
  BY <1>1, MemoryNames DEF M!Finish, M!TypeOK, M!MarkerInv
<1>5. ~overlapped => M!HandOnInv'
  BY <1>1, <1>2, MemoryNames DEF M!Finish, M!TypeOK, M!MarkerInv, M!HandOnInv, M!Uploading
<1>6. M!MemoryKept'
  BY <1>1, <1>2, MemoryNames DEF M!Finish, M!TypeOK, M!MarkerInv, M!HandOnInv, M!Uploading, M!MemoryKept
<1> QED BY <1>2, <1>3, <1>4, <1>5, <1>6 DEF M!MemoryInv

LEMMA TerminateKeeps ==
  ASSUME M!MemoryInv, NEW j \in Sessions, M!Terminate(j)
  PROVE  M!MemoryInv'
<1>1. M!TypeOK /\ M!MarkerInv /\ M!MemoryKept /\ (~overlapped => M!HandOnInv)
  BY DEF M!MemoryInv
<1>2. M!Extracted(latest)' = M!Extracted(latest) /\ Marker \notin M!Extracted(latest) /\ overlapped' = overlapped
  BY <1>1, MemoryNames DEF M!Terminate, M!Extracted, M!TypeOK
<1>3. M!TypeOK'
  BY <1>1 DEF M!Terminate, M!TypeOK
<1>4. M!MarkerInv'
  BY <1>1, MemoryNames DEF M!Terminate, M!TypeOK, M!MarkerInv
<1>5. ~overlapped => M!HandOnInv'
  BY <1>1, <1>2, MemoryNames DEF M!Terminate, M!TypeOK, M!MarkerInv, M!HandOnInv, M!Uploading
<1>6. M!MemoryKept'
  BY <1>1, <1>2, MemoryNames DEF M!Terminate, M!TypeOK, M!MarkerInv, M!HandOnInv, M!Uploading, M!MemoryKept
<1> QED BY <1>2, <1>3, <1>4, <1>5, <1>6 DEF M!MemoryInv

LEMMA KillKeeps ==
  ASSUME M!MemoryInv, NEW j \in Sessions, M!Kill(j)
  PROVE  M!MemoryInv'
<1>1. M!TypeOK /\ M!MarkerInv /\ M!MemoryKept /\ (~overlapped => M!HandOnInv)
  BY DEF M!MemoryInv
<1>2. M!Extracted(latest)' = M!Extracted(latest) /\ Marker \notin M!Extracted(latest) /\ overlapped' = overlapped
  BY <1>1, MemoryNames DEF M!Kill, M!Extracted, M!TypeOK
<1>3. M!TypeOK'
  BY <1>1 DEF M!Kill, M!TypeOK
<1>4. M!MarkerInv'
  BY <1>1, MemoryNames DEF M!Kill, M!TypeOK, M!MarkerInv
<1>5. ~overlapped => M!HandOnInv'
  BY <1>1, <1>2, MemoryNames DEF M!Kill, M!TypeOK, M!MarkerInv, M!HandOnInv, M!Uploading
<1>6. M!MemoryKept'
  BY <1>1, <1>2, MemoryNames DEF M!Kill, M!TypeOK, M!MarkerInv, M!HandOnInv, M!Uploading, M!MemoryKept
<1> QED BY <1>2, <1>3, <1>4, <1>5, <1>6 DEF M!MemoryInv

LEMMA SeeMarkerKeeps ==
  ASSUME M!MemoryInv, NEW j \in Sessions, M!SeeMarker(j)
  PROVE  M!MemoryInv'
<1>1. M!TypeOK /\ M!MarkerInv /\ M!MemoryKept /\ (~overlapped => M!HandOnInv)
  BY DEF M!MemoryInv
<1>2. M!Extracted(latest)' = M!Extracted(latest) /\ Marker \notin M!Extracted(latest) /\ overlapped' = overlapped
  BY <1>1, MemoryNames DEF M!SeeMarker, M!Extracted, M!TypeOK
<1>3. M!TypeOK'
  BY <1>1 DEF M!SeeMarker, M!TypeOK
<1>4. M!MarkerInv'
  BY <1>1, MemoryNames DEF M!SeeMarker, M!TypeOK, M!MarkerInv
<1>5. ~overlapped => M!HandOnInv'
  BY <1>1, <1>2, MemoryNames DEF M!SeeMarker, M!TypeOK, M!MarkerInv, M!HandOnInv, M!Uploading
<1>6. M!MemoryKept'
  BY <1>1, <1>2, MemoryNames DEF M!SeeMarker, M!TypeOK, M!MarkerInv, M!HandOnInv, M!Uploading, M!MemoryKept
<1> QED BY <1>2, <1>3, <1>4, <1>5, <1>6 DEF M!MemoryInv

LEMMA ReadKeeps ==
  ASSUME M!MemoryInv, NEW j \in Sessions, M!Read(j)
  PROVE  M!MemoryInv'
<1>1. M!TypeOK /\ M!MarkerInv /\ M!MemoryKept /\ (~overlapped => M!HandOnInv)
  BY DEF M!MemoryInv
<1>2. M!Extracted(latest)' = M!Extracted(latest) /\ Marker \notin M!Extracted(latest) /\ overlapped' = overlapped
  BY <1>1, MemoryNames DEF M!Read, M!Extracted, M!TypeOK
<1>3. M!TypeOK'
  BY <1>1 DEF M!Read, M!TypeOK
<1>4. M!MarkerInv'
  BY <1>1, MemoryNames DEF M!Read, M!TypeOK, M!MarkerInv
<1>5. ~overlapped => M!HandOnInv'
  BY <1>1, <1>2, MemoryNames DEF M!Read, M!TypeOK, M!MarkerInv, M!HandOnInv, M!Uploading
<1>6. M!MemoryKept'
  BY <1>1, <1>2, MemoryNames DEF M!Read, M!TypeOK, M!MarkerInv, M!HandOnInv, M!Uploading, M!MemoryKept
<1> QED BY <1>2, <1>3, <1>4, <1>5, <1>6 DEF M!MemoryInv

LEMMA PutVersionKeeps ==
  ASSUME M!MemoryInv, NEW j \in Sessions, M!PutVersion(j)
  PROVE  M!MemoryInv'
<1>1. M!TypeOK /\ M!MarkerInv /\ M!MemoryKept /\ (~overlapped => M!HandOnInv)
  BY DEF M!MemoryInv
<1>2. M!Extracted(latest)' = M!Extracted(latest) /\ Marker \notin M!Extracted(latest) /\ overlapped' = overlapped
  BY <1>1, MemoryNames DEF M!PutVersion, M!Extracted, M!TypeOK
<1>3. M!TypeOK'
  BY <1>1 DEF M!PutVersion, M!TypeOK
<1>4. M!MarkerInv'
  BY <1>1, MemoryNames DEF M!PutVersion, M!TypeOK, M!MarkerInv
<1>5. ~overlapped => M!HandOnInv'
  BY <1>1, <1>2, MemoryNames DEF M!PutVersion, M!TypeOK, M!MarkerInv, M!HandOnInv, M!Uploading
<1>6. M!MemoryKept'
  BY <1>1, <1>2, MemoryNames DEF M!PutVersion, M!TypeOK, M!MarkerInv, M!HandOnInv, M!Uploading, M!MemoryKept
<1> QED BY <1>2, <1>3, <1>4, <1>5, <1>6 DEF M!MemoryInv

LEMMA HelperDiesKeeps ==
  ASSUME M!MemoryInv, NEW j \in Sessions, M!HelperDies(j)
  PROVE  M!MemoryInv'
<1>1. M!TypeOK /\ M!MarkerInv /\ M!MemoryKept /\ (~overlapped => M!HandOnInv)
  BY DEF M!MemoryInv
<1>2. M!Extracted(latest)' = M!Extracted(latest) /\ Marker \notin M!Extracted(latest) /\ overlapped' = overlapped
  BY <1>1, MemoryNames DEF M!HelperDies, M!Extracted, M!TypeOK
<1>3. M!TypeOK'
  BY <1>1 DEF M!HelperDies, M!TypeOK
<1>4. M!MarkerInv'
  BY <1>1, MemoryNames DEF M!HelperDies, M!TypeOK, M!MarkerInv
<1>5. ~overlapped => M!HandOnInv'
  BY <1>1, <1>2, MemoryNames DEF M!HelperDies, M!TypeOK, M!MarkerInv, M!HandOnInv, M!Uploading
<1>6. M!MemoryKept'
  BY <1>1, <1>2, MemoryNames DEF M!HelperDies, M!TypeOK, M!MarkerInv, M!HandOnInv, M!Uploading, M!MemoryKept
<1> QED BY <1>2, <1>3, <1>4, <1>5, <1>6 DEF M!MemoryInv

\* The new archive has all that the one before it had.
LEMMA PutLatestKeeps ==
  ASSUME M!MemoryInv, NEW j \in Sessions, M!PutLatest(j)
  PROVE  M!MemoryInv'
<1>1. /\ M!TypeOK /\ M!MarkerInv /\ M!MemoryKept /\ (~overlapped => M!HandOnInv)
      /\ helper[j] = "read" /\ helper' = [helper EXCEPT ![j] = "latest"]
      /\ latest' = archive[j]
      /\ UNCHANGED <<runtime, dir, archive, overlapped>>
  BY DEF M!MemoryInv, M!PutLatest
<1>2. M!Extracted(latest)' = archive[j] /\ archive[j] \in SUBSET Sessions
  BY <1>1, MemoryNames DEF M!TypeOK, M!MarkerInv, M!Extracted
<1>3. M!TypeOK' /\ M!MarkerInv'
  BY <1>1, <1>2 DEF M!TypeOK, M!MarkerInv
<1>4. ASSUME ~overlapped
      PROVE  /\ M!Extracted(latest) \subseteq archive[j]
             /\ runtime[j] = "ended" => archive[j] = dir[j]
             /\ \A k \in Sessions : ~M!Uploading(k)'
  <2>1. M!HandOnInv /\ M!Uploading(j)
    BY <1>1, <1>4 DEF M!Uploading
  <2> QED BY <1>1, <2>1 DEF M!HandOnInv, M!Uploading, M!TypeOK
<1>5. ~overlapped => M!HandOnInv'
  <2>1. \A k \in Sessions : ~M!Uploading(k)' => helper'[k] # "read"
    BY DEF M!Uploading
  <2> QED BY <1>4, <2>1 DEF M!HandOnInv
<1>6. M!MemoryKept'
  BY <1>1, <1>2, <1>4 DEF M!MemoryKept, M!TypeOK
<1> QED BY <1>1, <1>3, <1>5, <1>6 DEF M!MemoryInv

LEMMA MemoryStays ==
  ASSUME M!MemoryInv, UNCHANGED <<runtime, helper, dir, archive, latest, overlapped>>
  PROVE  M!MemoryInv'
BY DEF M!MemoryInv, M!TypeOK, M!MarkerInv, M!HandOnInv, M!Uploading, M!Extracted, M!MemoryKept

\* What a session that ended by itself had in its volume is in the latest archive from
\* its upload on, whatever fails and however often sessions and housekeeping run.
THEOREM MemoryIsKept == MCSpec => []MemoryKept
<1>1. MCInit => M!MemoryInv
  BY MemoryInit DEF MCInit
<1>2. M!MemoryInv /\ [MCNext]_mcvars => M!MemoryInv'
  <2>1. M!MemoryInv /\ M!Next => M!MemoryInv'
    <3> SUFFICES ASSUME M!MemoryInv, M!Next PROVE M!MemoryInv'
      OBVIOUS
    <3>1. CASE \E n \in 1..Len(versions) : M!ListVersions(n)
      BY <3>1, MemoryStays DEF M!ListVersions
    <3>2. ASSUME NEW j \in Sessions, M!DeleteVersion(j) PROVE M!MemoryInv'
      BY <3>2, MemoryStays DEF M!DeleteVersion
    <3> QED BY <3>1, <3>2, RestoreKeeps, WriteKeeps, FinishKeeps, TerminateKeeps, KillKeeps,
               SeeMarkerKeeps, ReadKeeps, PutLatestKeeps, PutVersionKeeps, HelperDiesKeeps DEF M!Next
  <2>2. UNCHANGED memory /\ M!MemoryInv => M!MemoryInv'
    BY MemoryStays DEF memory
  <2> QED BY <2>1, <2>2 DEF MCNext, mcvars
<1>3. M!MemoryInv => MemoryKept
  BY DEF M!MemoryInv, MemoryKept
<1> QED BY <1>1, <1>2, <1>3, PTL DEF MCSpec

-----------------------------------------------------------------------------
(* Deployment.  The guard file keeps at most one writer past the lock, what  *)
(* a writer has copied or moved so far is of one moment, and so the end of   *)
(* every writer is whole, whichever step failed.                             *)

\* What holds of a deployment after every step, writer by writer.
DeploymentHeld == D!TypeOK /\ D!GuardInv /\ \A w \in D!Writers : D!WriterInv(w)

\* The writers are of three kinds; what a deployment makes of the site is a site.
LEMMA DeploymentNames ==
  /\ Deployments \cap Clis = {} /\ Deployments \cap Nightlies = {} /\ Clis \cap Nightlies = {}
  /\ D!Applying \subseteq D!Working
  /\ \A c \in SiteCommits : D!SiteOf(c) \in D!SiteType /\ D!SiteOf(D!SiteOf(c).checkout) = D!SiteOf(c)
  /\ D!Blank \in D!MemType
<1>1. ASSUME NEW c \in SiteCommits
      PROVE  D!SiteOf(c) \in D!SiteType /\ D!SiteOf(c).checkout = c
  BY DEF D!SiteOf, D!SiteType
<1>2. D!Blank \in D!MemType
  BY DEF D!Blank, D!MemType, D!SetType
<1> QED BY <1>1, <1>2, Assumptions DEF D!DeploymentAssumption, D!Applying, D!Working

LEMMA DeploymentInit == D!Init => DeploymentHeld
<1> SUFFICES ASSUME D!Init PROVE DeploymentHeld
  OBVIOUS
<1>1. Installed \in SiteCommits
  BY Assumptions DEF D!DeploymentAssumption
<1>2. D!TypeOK
  <2>1. site \in D!SiteType /\ mem \in [D!Writers -> D!MemType]
    BY <1>1, DeploymentNames DEF D!Init
  <2>2. sets \in [{"nightly", "deployment"} -> Seq(D!SetType)]
    BY DEF D!Init
  <2> QED BY <1>1, <2>1, <2>2 DEF D!Init, D!TypeOK, D!Working
<1>3. \A w \in D!Writers : stage[w] = "idle"
  BY DEF D!Init
<1>4. D!GuardInv /\ \A w \in D!Writers : D!WriterInv(w)
  BY <1>3 DEF D!GuardInv, D!Working, D!Applying, D!WriterInv, D!Kind, D!Prepared, D!Moved,
              D!EndsAsAimed, D!HasBackup, D!OfOneMoment
<1> QED BY <1>2, <1>4 DEF DeploymentHeld

\* What a writer who is not at work, or for whom nothing changes, relies on.
LEMMA IdleWriter ==
  ASSUME NEW w \in D!Writers, D!WriterInv(w), stage'[w] = stage[w], mem'[w] = mem[w],
         \/ stage[w] \notin D!Working
         \/ UNCHANGED <<site, sets>> /\ (w \in recovering' <=> w \in recovering)
  PROVE  D!WriterInv(w)'
<1>1. CASE stage[w] \notin D!Working
  BY <1>1 DEF D!WriterInv, D!Working, D!Applying, D!Kind, D!Prepared, D!Moved, D!EndsAsAimed,
              D!HasBackup, D!OfOneMoment
<1>2. CASE UNCHANGED <<site, sets>> /\ (w \in recovering' <=> w \in recovering)
  <2>1. D!Aim(w)' = D!Aim(w)
    BY <1>2 DEF D!Aim
  <2> QED BY <1>2, <2>1 DEF D!WriterInv, D!Kind, D!Prepared, D!Moved, D!EndsAsAimed,
                            D!HasBackup, D!OfOneMoment
<1> QED BY <1>1, <1>2

\* A step of one writer, who is at work alone, takes a free guard, or changes nothing
\* that another one relies on.
LEMMA WriterStep ==
  ASSUME NEW w \in D!Writers, DeploymentHeld, D!TypeOK', D!WriterInv(w)',
         \A v \in D!Writers \ {w} :
           stage'[v] = stage[v] /\ mem'[v] = mem[v] /\ (v \in recovering' <=> v \in recovering),
         \/ (stage[w] \in D!Working \/ ~guard) /\ (stage'[w] \in D!Working => guard')
         \/ UNCHANGED <<site, sets, guard>> /\ stage'[w] \notin D!Working
  PROVE  DeploymentHeld'
<1>1. D!GuardInv /\ \A v \in D!Writers : D!WriterInv(v)
  BY DEF DeploymentHeld
<1>2. CASE (stage[w] \in D!Working \/ ~guard) /\ (stage'[w] \in D!Working => guard')
  <2>1. \A v \in D!Writers \ {w} : stage[v] \notin D!Working
    BY <1>1, <1>2 DEF D!GuardInv
  <2>2. D!GuardInv'
    BY <1>2, <2>1 DEF D!GuardInv, D!Working
  <2>3. \A v \in D!Writers \ {w} : D!WriterInv(v)'
    BY <1>1, <2>1, IdleWriter
  <2> QED BY <2>2, <2>3 DEF DeploymentHeld
<1>3. CASE UNCHANGED <<site, sets, guard>> /\ stage'[w] \notin D!Working
  <2>1. D!GuardInv'
    BY <1>1, <1>3 DEF D!GuardInv, D!Working
  <2>2. \A v \in D!Writers \ {w} : D!WriterInv(v)'
    BY <1>1, <1>3, IdleWriter
  <2> QED BY <2>1, <2>2 DEF DeploymentHeld
<1> QED BY <1>2, <1>3

\* One writer's stage, and perhaps what it knows: the types are as before.
LEMMA StageTyped ==
  ASSUME NEW w \in D!Writers, D!TypeOK, NEW s, NEW m \in D!MemType,
         s \in D!Working \cup {"idle", "planned", "listed", "queued", "succeeded", "failed", "dead"},
         stage' = [stage EXCEPT ![w] = s], mem' = [mem EXCEPT ![w] = m],
         tip' \in SiteCommits, site' \in D!SiteType, guard' \in BOOLEAN,
         recovering' \subseteq Deployments,
         sets' \in [{"nightly", "deployment"} -> Seq(D!SetType)]
  PROVE  /\ D!TypeOK' /\ stage'[w] = s /\ mem'[w] = m
         /\ \A v \in D!Writers \ {w} : stage'[v] = stage[v] /\ mem'[v] = mem[v]
BY DEF D!TypeOK

\* A writer that stops promises nothing.
LEMMA GivesUp ==
  ASSUME NEW w \in D!Writers, DeploymentHeld, stage[w] \in D!Working,
         NEW s \in {"succeeded", "failed", "dead"}, stage' = [stage EXCEPT ![w] = s],
         mem' = [mem EXCEPT ![w] = D!Blank], site' \in D!SiteType, guard' \in BOOLEAN,
         UNCHANGED <<tip, recovering, sets>>
  PROVE  DeploymentHeld'
<1>1. D!TypeOK
  BY DEF DeploymentHeld
<1>2. /\ D!TypeOK' /\ stage'[w] = s
      /\ \A v \in D!Writers \ {w} : stage'[v] = stage[v] /\ mem'[v] = mem[v]
  <2>1. /\ tip' \in SiteCommits /\ recovering' \subseteq Deployments
        /\ sets' \in [{"nightly", "deployment"} -> Seq(D!SetType)]
    BY <1>1 DEF D!TypeOK
  <2> QED BY <1>1, <2>1, StageTyped, DeploymentNames
<1>3. stage'[w] \notin D!Working /\ stage'[w] # "queued"
  BY <1>2 DEF D!Working
<1>4. D!WriterInv(w)'
  BY <1>3 DEF D!WriterInv, D!Working, D!Applying, D!Kind, D!Prepared, D!Moved, D!EndsAsAimed,
              D!HasBackup, D!OfOneMoment
<1> QED BY <1>2, <1>3, <1>4, WriterStep

LEMMA PushKeeps ==
  ASSUME DeploymentHeld, NEW c \in SiteCommits, D!Push(c)
  PROVE  DeploymentHeld'
<1>1. D!TypeOK' /\ D!GuardInv'
  BY DEF DeploymentHeld, D!Push, D!TypeOK, D!GuardInv
<1>2. \A w \in D!Writers : D!WriterInv(w)'
  BY IdleWriter DEF DeploymentHeld, D!Push
<1> QED BY <1>1, <1>2 DEF DeploymentHeld

\* Asking for a deployment changes nothing but what is asked.
LEMMA AskKeeps ==
  ASSUME DeploymentHeld, NEW w \in D!Writers,
         \/ w \in Deployments /\ (D!Plan(w) \/ D!List(w) \/ D!Create(w))
         \/ D!Resolve(w)
  PROVE  DeploymentHeld'
<1>1. D!TypeOK /\ D!WriterInv(w)
  BY DEF DeploymentHeld
<1>2. PICK s \in {"planned", "listed", "queued"} : stage' = [stage EXCEPT ![w] = s]
  BY DEF D!Plan, D!List, D!Create, D!Resolve, D!Goes
<1>3. UNCHANGED <<site, guard, recovering, unheld, sets, tip>>
  BY DEF D!Plan, D!List, D!Create, D!Resolve
<1>4. PICK m \in D!MemType : mem' = [mem EXCEPT ![w] = m] /\ (D!Resolve(w) => m.asked \in SiteCommits)
  <2>1. CASE mem' = [mem EXCEPT ![w].asked = tip]
    <3>1. [mem[w] EXCEPT !.asked = tip] \in D!MemType
      BY <1>1 DEF D!TypeOK, D!MemType
    <3>2. mem' = [mem EXCEPT ![w] = [mem[w] EXCEPT !.asked = tip]]
      BY <2>1, <1>1 DEF D!TypeOK
    <3>3. [mem[w] EXCEPT !.asked = tip].asked \in SiteCommits
      BY <1>1 DEF D!TypeOK, D!MemType
    <3> QED BY <3>1, <3>2, <3>3
  <2>2. CASE mem' = mem /\ ~D!Resolve(w)
    <3>1. mem' = [mem EXCEPT ![w] = mem[w]] /\ mem[w] \in D!MemType
      BY <1>1, <2>2 DEF D!TypeOK
    <3> QED BY <2>2, <3>1
  <2> QED BY <2>1, <2>2, <1>1 DEF D!Plan, D!List, D!Create, D!Resolve
<1>5. /\ D!TypeOK' /\ stage'[w] = s /\ mem'[w] = m
      /\ \A v \in D!Writers \ {w} : stage'[v] = stage[v] /\ mem'[v] = mem[v]
  <2>1. /\ tip' \in SiteCommits /\ site' \in D!SiteType /\ guard' \in BOOLEAN
        /\ recovering' \subseteq Deployments
        /\ sets' \in [{"nightly", "deployment"} -> Seq(D!SetType)]
    BY <1>1, <1>3 DEF D!TypeOK
  <2> QED BY <1>1, <1>2, <1>4, <2>1, StageTyped
<1>6. stage'[w] \notin D!Working
  BY <1>5 DEF D!Working
<1>7. D!WriterInv(w)'
  <2>1. D!Kind(w)'
    BY <1>4, <1>5, DeploymentNames DEF D!Kind, D!Applying, D!Resolve
  <2> QED BY <1>6, <2>1 DEF D!WriterInv, D!Working, D!Applying, D!Prepared, D!Moved,
                            D!EndsAsAimed, D!HasBackup, D!OfOneMoment
<1> QED BY <1>3, <1>5, <1>6, <1>7, WriterStep

LEMMA TakeLockKeeps ==
  ASSUME DeploymentHeld, NEW w \in D!Writers, D!TakeLock(w)
  PROVE  DeploymentHeld'
<1>1. D!TypeOK /\ D!WriterInv(w) /\ D!Kind(w) /\ mem[w] \in D!MemType
  BY DEF DeploymentHeld, D!WriterInv, D!TypeOK
<1>2. UNCHANGED <<tip, site, mem, recovering, sets>> /\ mem' = [mem EXCEPT ![w] = mem[w]]
  BY <1>1 DEF D!TakeLock, D!TypeOK
<1>3. PICK s \in {"failed", "backup", "preflight"} :
        /\ stage' = [stage EXCEPT ![w] = s] /\ guard' \in BOOLEAN
        /\ IF guard THEN s = "failed" /\ guard' = guard
                    ELSE guard' = TRUE /\ s = IF w \in Nightlies THEN "backup" ELSE "preflight"
  BY <1>1 DEF D!TakeLock, D!Goes, D!TypeOK
<1>4. /\ D!TypeOK' /\ stage'[w] = s /\ mem'[w] = mem[w]
      /\ \A v \in D!Writers \ {w} : stage'[v] = stage[v] /\ mem'[v] = mem[v]
  <2>1. /\ tip' \in SiteCommits /\ site' \in D!SiteType
        /\ recovering' \subseteq Deployments
        /\ sets' \in [{"nightly", "deployment"} -> Seq(D!SetType)]
        /\ s \in D!Working \cup {"failed"}
    BY <1>1, <1>2 DEF D!TypeOK, D!Working
  <2> QED BY <1>1, <1>2, <1>3, <2>1, StageTyped
<1>5. D!WriterInv(w)'
  <2>1. s = "preflight" /\ w \in Clis => mem[w].asked \in SiteCommits
    BY <1>1, <1>3 DEF D!Kind, D!TakeLock
  <2>2. D!Kind(w)'
    BY <1>3, <1>4, <2>1 DEF D!Kind, D!Applying
  <2>3. D!Prepared(w)'
    BY <1>3, <1>4, DeploymentNames DEF D!Prepared, D!Deployers
  <2> QED BY <1>3, <1>4, <2>2, <2>3 DEF D!WriterInv, D!Applying, D!Moved,
                            D!EndsAsAimed, D!HasBackup, D!OfOneMoment
<1>6. stage'[w] \in D!Working => ~guard /\ guard'
  BY <1>3, <1>4 DEF D!Working
<1> QED BY <1>2, <1>3, <1>4, <1>5, <1>6, WriterStep

LEMMA PreflightKeeps ==
  ASSUME DeploymentHeld, NEW w \in D!Writers, D!Preflight(w)
  PROVE  DeploymentHeld'
<1>1. D!TypeOK /\ D!Kind(w) /\ mem[w] \in D!MemType /\ stage[w] = "preflight"
      /\ stage[w] \in D!Working /\ guard /\ tip \in SiteCommits
  BY DEF DeploymentHeld, D!WriterInv, D!TypeOK, D!Preflight, D!GuardInv, D!Working
<1>2. w \in D!Deployers /\ D!Target(w) \in SiteCommits /\ w \notin Nightlies
  BY <1>1 DEF D!Kind, D!Target, D!Deployers, D!Writers
<1>3. CASE D!Goes(w, "failed") /\ D!Unlock(w) /\ UNCHANGED <<tip, site, recovering, sets>>
  <2>1. site' \in D!SiteType /\ guard' \in BOOLEAN
    BY <1>1, <1>3 DEF D!TypeOK, D!Unlock
  <2> QED BY <1>1, <1>3, <2>1, GivesUp DEF D!Unlock, D!Goes
<1>4. CASE /\ D!Goes(w, "backup")
           /\ mem' = [mem EXCEPT ![w].before = site, ![w].goal = D!SiteOf(D!Target(w))]
           /\ UNCHANGED <<tip, site, guard, recovering, sets>>
  <2> DEFINE g == D!SiteOf(D!Target(w))
             m == [mem[w] EXCEPT !.before = site, !.goal = g]
  <2>1. g \in D!SiteType /\ D!SiteOf(g.checkout) = g
    BY <1>2, DeploymentNames
  <2>2. mem' = [mem EXCEPT ![w] = m]
    BY <1>1, <1>4 DEF D!TypeOK
  <2> HIDE DEF g
  <2>3. m \in D!MemType /\ m.before = site /\ m.goal = g
    BY <1>1, <2>1 DEF D!TypeOK, D!MemType
  <2> HIDE DEF m
  <2>4. /\ D!TypeOK' /\ stage'[w] = "backup" /\ mem'[w] = m
        /\ \A v \in D!Writers \ {w} : stage'[v] = stage[v] /\ mem'[v] = mem[v]
    <3>1. /\ tip' \in SiteCommits /\ site' \in D!SiteType /\ guard' \in BOOLEAN
          /\ recovering' \subseteq Deployments
          /\ sets' \in [{"nightly", "deployment"} -> Seq(D!SetType)]
          /\ "backup" \in D!Working
      BY <1>1, <1>4 DEF D!TypeOK, D!Working
    <3> QED BY <1>1, <1>4, <2>2, <2>3, <3>1, StageTyped DEF D!Goes
  <2>5. D!Prepared(w)'
    BY <1>4, <2>1, <2>3, <2>4 DEF D!Prepared
  <2>6. D!WriterInv(w)'
    BY <2>4, <2>5, <1>2 DEF D!WriterInv, D!Kind, D!Applying, D!Moved,
                            D!EndsAsAimed, D!HasBackup, D!OfOneMoment
  <2> QED BY <1>1, <1>4, <2>4, <2>6, WriterStep
<1> QED BY <1>3, <1>4 DEF D!Preflight

\* A step in the middle of a writer's work, which keeps what it knows.
LEMMA WorkTyped ==
  ASSUME NEW w \in D!Writers, DeploymentHeld, stage[w] \in D!Working, NEW s \in D!Working,
         stage' = [stage EXCEPT ![w] = s], site' \in D!SiteType,
         UNCHANGED <<tip, guard, mem, recovering, sets>>
  PROVE  /\ D!TypeOK' /\ stage'[w] = s /\ mem'[w] = mem[w] /\ guard
         /\ (D!WriterInv(w)' => DeploymentHeld')
<1>1. D!TypeOK /\ mem[w] \in D!MemType /\ mem' = [mem EXCEPT ![w] = mem[w]] /\ guard
  BY DEF DeploymentHeld, D!TypeOK, D!GuardInv
<1>2. /\ D!TypeOK' /\ stage'[w] = s /\ mem'[w] = mem[w]
      /\ \A v \in D!Writers \ {w} : stage'[v] = stage[v] /\ mem'[v] = mem[v]
  <2>1. /\ tip' \in SiteCommits /\ guard' \in BOOLEAN /\ recovering' \subseteq Deployments
        /\ sets' \in [{"nightly", "deployment"} -> Seq(D!SetType)]
    BY <1>1 DEF D!TypeOK
  <2> QED BY <1>1, <2>1, StageTyped
<1> QED BY <1>1, <1>2, WriterStep

\* The repository is in the recovery set, as the deployment found it.
LEMMA CopyCheckoutKeeps ==
  ASSUME DeploymentHeld, NEW w \in D!Writers, D!CopyCheckout(w)
  PROVE  DeploymentHeld'
<1> DEFINE m == [mem[w] EXCEPT !.copy.checkout = site.checkout]
<1>1. /\ D!TypeOK /\ D!WriterInv(w) /\ mem[w] \in D!MemType /\ site \in D!SiteType
      /\ stage[w] = "backup" /\ stage[w] \in D!Working /\ guard
      /\ stage' = [stage EXCEPT ![w] = "backup values"]
      /\ mem' = [mem EXCEPT ![w] = m]
      /\ UNCHANGED <<tip, site, guard, recovering, sets>>
  BY DEF DeploymentHeld, D!TypeOK, D!CopyCheckout, D!GuardInv, D!Working, D!Goes
<1>2. m \in D!MemType /\ m.before = mem[w].before /\ m.goal = mem[w].goal
      /\ m.copy.checkout = site.checkout
  BY <1>1 DEF D!MemType, D!SetType, D!SiteType
<1> HIDE DEF m
<1>3. /\ D!TypeOK' /\ stage'[w] = "backup values" /\ mem'[w] = m
      /\ \A v \in D!Writers \ {w} : stage'[v] = stage[v] /\ mem'[v] = mem[v]
  <2>1. /\ tip' \in SiteCommits /\ site' \in D!SiteType /\ guard' \in BOOLEAN
        /\ recovering' \subseteq Deployments
        /\ sets' \in [{"nightly", "deployment"} -> Seq(D!SetType)]
        /\ "backup values" \in D!Working
    BY <1>1 DEF D!TypeOK, D!Working
  <2> QED BY <1>1, <1>2, <2>1, StageTyped
<1>4. D!Prepared(w)'
  BY <1>1, <1>2, <1>3 DEF D!WriterInv, D!Prepared
<1>5. D!WriterInv(w)'
  BY <1>3, <1>4 DEF D!WriterInv, D!Kind, D!Applying, D!Moved, D!EndsAsAimed, D!HasBackup,
                    D!OfOneMoment
<1> QED BY <1>1, <1>3, <1>5, WriterStep

\* The newest set is the one that was just made; at least one is kept.
LEMMA RotatedFirst ==
  ASSUME NEW set \in D!SetType, NEW old \in Seq(D!SetType)
  PROVE  /\ D!Rotated(<<set>> \o old) \in Seq(D!SetType)
         /\ D!Rotated(<<set>> \o old)[1] = set
<1> DEFINE all == <<set>> \o old
           n == IF Len(all) < SetsKept THEN Len(all) ELSE SetsKept
<1>1. all \in Seq(D!SetType) /\ Len(all) >= 1 /\ all[1] = set
  OBVIOUS
<1>2. SetsKept \in Nat \ {0}
  BY Assumptions DEF D!DeploymentAssumption
<1>3. n \in 1..Len(all)
  BY <1>1, <1>2
<1> HIDE DEF all, n
<1>4. SubSeq(all, 1, n) \in Seq(D!SetType) /\ SubSeq(all, 1, n)[1] = all[1]
  BY <1>1, <1>3
<1> QED BY <1>1, <1>4 DEF D!Rotated, all, n

LEMMA PublishSetKeeps ==
  ASSUME DeploymentHeld, NEW w \in D!Writers, D!Publish(w)
  PROVE  DeploymentHeld'
<1> DEFINE kind == IF w \in Nightlies THEN "nightly" ELSE "deployment"
           set == [mem[w].copy EXCEPT !.helm = site.helm]
           m == [mem[w] EXCEPT !.copy = set]
           next == IF w \in Nightlies THEN "complete"
                   ELSE IF mem[w].goal = None THEN "failed" ELSE "checkout"
<1>1. /\ D!TypeOK /\ D!WriterInv(w) /\ mem[w] \in D!MemType /\ site \in D!SiteType
      /\ stage[w] = "backup values" /\ stage[w] \in D!Working /\ guard
      /\ stage' = [stage EXCEPT ![w] = next]
      /\ mem' = [mem EXCEPT ![w].copy = set]
      /\ sets' = [sets EXCEPT ![kind] = D!Rotated(<<set>> \o @)]
      /\ UNCHANGED <<tip, site, guard, recovering>>
  BY DEF DeploymentHeld, D!TypeOK, D!Publish, D!GuardInv, D!Working, D!Goes
<1>2. /\ mem[w].copy.checkout = site.checkout
      /\ w \notin Nightlies =>
           /\ mem[w].before = site /\ mem[w].goal \in D!SiteType
           /\ mem[w].goal = D!SiteOf(mem[w].goal.checkout)
  BY <1>1 DEF D!WriterInv, D!Prepared, D!Deployers, D!Writers
<1>3. set \in D!SetType /\ set = [checkout |-> site.checkout, helm |-> site.helm]
  <2>1. mem[w].copy \in D!SetType /\ mem[w].copy.checkout = site.checkout
    BY <1>1, <1>2 DEF D!MemType
  <2>2. site.helm \in SiteCommits
    BY <1>1 DEF D!SiteType
  <2> QED BY <2>1, <2>2 DEF D!SetType
<1> HIDE DEF set
<1>4. m \in D!MemType /\ m.before = mem[w].before /\ m.goal = mem[w].goal /\ m.copy = set
  BY <1>1, <1>3 DEF D!MemType
<1>5. mem' = [mem EXCEPT ![w] = m]
  BY <1>1 DEF D!TypeOK
<1> HIDE DEF m
<1>6. next \in {"complete", "failed", "checkout"} /\ (next = "complete" <=> w \in Nightlies)
  OBVIOUS
<1> HIDE DEF next
<1>7. /\ sets' \in [{"nightly", "deployment"} -> Seq(D!SetType)]
      /\ sets'[kind][1] = set /\ kind \in {"nightly", "deployment"}
  <2>1. sets \in [{"nightly", "deployment"} -> Seq(D!SetType)] /\ kind \in {"nightly", "deployment"}
    BY <1>1 DEF D!TypeOK
  <2> HIDE DEF kind
  <2>2. sets[kind] \in Seq(D!SetType)
    BY <2>1
  <2> DEFINE new == D!Rotated(<<set>> \o sets[kind])
  <2>3. new \in Seq(D!SetType) /\ new[1] = set
    BY <1>3, <2>2, RotatedFirst
  <2>4. sets' = [sets EXCEPT ![kind] = new]
    BY <1>1, <2>1
  <2> HIDE DEF new
  <2> QED BY <2>1, <2>3, <2>4
<1>8. /\ D!TypeOK' /\ stage'[w] = next /\ mem'[w] = m
      /\ \A v \in D!Writers \ {w} : stage'[v] = stage[v] /\ mem'[v] = mem[v]
  <2>1. /\ tip' \in SiteCommits /\ site' \in D!SiteType /\ guard' \in BOOLEAN
        /\ recovering' \subseteq Deployments
        /\ next \in D!Working \cup {"failed"}
    BY <1>1, <1>6 DEF D!TypeOK, D!Working
  <2> QED BY <1>1, <1>4, <1>5, <1>7, <2>1, StageTyped
<1>9. w \notin Nightlies => D!HasBackup(w)' /\ D!Moved(w)' /\ D!EndsAsAimed(w)'
  <2> SUFFICES ASSUME w \notin Nightlies PROVE D!HasBackup(w)' /\ D!Moved(w)' /\ D!EndsAsAimed(w)'
    OBVIOUS
  <2>1. sets'["deployment"][1] = set /\ next \in {"failed", "checkout"}
    BY <1>6, <1>7
  <2>2. D!HasBackup(w)'
    BY <1>1, <1>2, <1>3, <1>4, <1>8, <2>1 DEF D!HasBackup
  <2>3. D!Moved(w)' /\ D!EndsAsAimed(w)'
    BY <1>1, <1>2, <1>4, <1>8, <2>1 DEF D!Moved, D!Applying, D!EndsAsAimed
  <2> QED BY <2>2, <2>3
<1>10. w \in Nightlies => D!OfOneMoment(w)' /\ D!Moved(w)' /\ w \notin D!Deployers
  BY <1>1, <1>3, <1>4, <1>6, <1>8, DeploymentNames
     DEF D!OfOneMoment, D!Moved, D!Applying, D!Deployers
<1>11. D!Kind(w)' /\ D!Prepared(w)'
  BY <1>6, <1>8 DEF D!Kind, D!Applying, D!Prepared
<1>12. D!WriterInv(w)'
  BY <1>9, <1>10, <1>11 DEF D!WriterInv
<1> QED BY <1>1, <1>8, <1>12, WriterStep

\* Who moves the parts of the site is a deployment, and knows where to.
LEMMA MovingWriter ==
  ASSUME DeploymentHeld, NEW w \in D!Writers, stage[w] \in D!Applying
  PROVE  /\ w \in D!Deployers /\ w \notin Nightlies /\ D!Moved(w) /\ D!HasBackup(w)
         /\ mem[w].before \in D!SiteType /\ mem[w].goal \in D!SiteType
         /\ D!Aim(w) \in D!SiteType /\ site \in D!SiteType
         /\ (UNCHANGED <<mem, recovering>> => D!Aim(w)' = D!Aim(w))
<1>1. D!WriterInv(w) /\ site \in D!SiteType
  BY DEF DeploymentHeld, D!TypeOK
<1>2. w \in D!Deployers /\ w \notin Nightlies /\ D!Moved(w)
  BY <1>1 DEF D!WriterInv, D!Kind, D!Deployers, D!Writers
<1>3. mem[w].before \in D!SiteType /\ mem[w].goal \in D!SiteType
  BY <1>2 DEF D!Moved
<1> QED BY <1>1, <1>2, <1>3 DEF D!WriterInv, D!Aim

\* The checkout, the Secret and the Helm values are replaced as wholes.
LEMMA MoveCheckoutKeeps ==
  ASSUME DeploymentHeld, NEW w \in D!Writers, D!MoveCheckout(w)
  PROVE  DeploymentHeld'
<1> DEFINE aim == D!Aim(w)
<1>1. /\ stage[w] = "checkout" /\ stage' = [stage EXCEPT ![w] = "secret"]
      /\ site' = [site EXCEPT !["checkout"] = aim["checkout"]]
      /\ UNCHANGED <<tip, guard, mem, recovering, unheld, sets>>
  BY DEF D!MoveCheckout, D!Put, D!Goes
<1>2. stage[w] \in D!Applying /\ stage[w] \in D!Working /\ "secret" \in D!Working
  BY <1>1 DEF D!Applying, D!Working
<1>3. /\ w \in D!Deployers /\ w \notin Nightlies /\ D!Moved(w) /\ D!HasBackup(w)
      /\ aim \in D!SiteType /\ site \in D!SiteType /\ aim' = aim
  BY <1>1, <1>2, MovingWriter
<1> HIDE DEF aim
<1>4. /\ site' \in D!SiteType /\ site'.checkout = aim.checkout
      /\ \A n \in Extras : site'.extras[n] = site.extras[n]
      /\ site'.secret = site.secret
      /\ site'.helm = site.helm
  BY <1>1, <1>3 DEF D!SiteType
<1>5. /\ stage'[w] = "secret" /\ mem'[w] = mem[w]
      /\ (D!WriterInv(w)' => DeploymentHeld')
  BY <1>1, <1>2, <1>4, WorkTyped
<1>6. D!Moved(w)'
  BY <1>1, <1>2, <1>3, <1>4, <1>5 DEF D!Moved, D!Applying, aim
<1> QED BY <1>1, <1>2, <1>3, <1>5, <1>6 DEF D!WriterInv, D!Kind, D!Prepared, D!EndsAsAimed, D!HasBackup,
                                  D!Applying

LEMMA ReplaceSecretKeeps ==
  ASSUME DeploymentHeld, NEW w \in D!Writers, D!ReplaceSecret(w)
  PROVE  DeploymentHeld'
<1> DEFINE aim == D!Aim(w)
<1>1. /\ stage[w] = "secret" /\ stage' = [stage EXCEPT ![w] = "helm"]
      /\ site' = [site EXCEPT !["secret"] = aim["secret"]]
      /\ UNCHANGED <<tip, guard, mem, recovering, unheld, sets>>
  BY DEF D!ReplaceSecret, D!Put, D!Goes
<1>2. stage[w] \in D!Applying /\ stage[w] \in D!Working /\ "helm" \in D!Working
  BY <1>1 DEF D!Applying, D!Working
<1>3. /\ w \in D!Deployers /\ w \notin Nightlies /\ D!Moved(w) /\ D!HasBackup(w)
      /\ aim \in D!SiteType /\ site \in D!SiteType /\ aim' = aim
  BY <1>1, <1>2, MovingWriter
<1> HIDE DEF aim
<1>4. /\ site' \in D!SiteType /\ site'.secret = aim.secret
      /\ \A n \in Extras : site'.extras[n] = site.extras[n]
      /\ site'.checkout = site.checkout
      /\ site'.helm = site.helm
  BY <1>1, <1>3 DEF D!SiteType
<1>5. /\ stage'[w] = "helm" /\ mem'[w] = mem[w]
      /\ (D!WriterInv(w)' => DeploymentHeld')
  BY <1>1, <1>2, <1>4, WorkTyped
<1>6. D!Moved(w)'
  BY <1>1, <1>2, <1>3, <1>4, <1>5 DEF D!Moved, D!Applying, aim
<1> QED BY <1>1, <1>2, <1>3, <1>5, <1>6 DEF D!WriterInv, D!Kind, D!Prepared, D!EndsAsAimed, D!HasBackup,
                                  D!Applying

LEMMA UpgradeHelmKeeps ==
  ASSUME DeploymentHeld, NEW w \in D!Writers, D!UpgradeHelm(w)
  PROVE  DeploymentHeld'
<1> DEFINE aim == D!Aim(w)
<1>1. /\ stage[w] = "helm" /\ stage' = [stage EXCEPT ![w] = "extras"]
      /\ site' = [site EXCEPT !["helm"] = aim["helm"]]
      /\ UNCHANGED <<tip, guard, mem, recovering, unheld, sets>>
  BY DEF D!UpgradeHelm, D!Put, D!Goes
<1>2. stage[w] \in D!Applying /\ stage[w] \in D!Working /\ "extras" \in D!Working
  BY <1>1 DEF D!Applying, D!Working
<1>3. /\ w \in D!Deployers /\ w \notin Nightlies /\ D!Moved(w) /\ D!HasBackup(w)
      /\ aim \in D!SiteType /\ site \in D!SiteType /\ aim' = aim
  BY <1>1, <1>2, MovingWriter
<1> HIDE DEF aim
<1>4. /\ site' \in D!SiteType /\ site'.helm = aim.helm
      /\ \A n \in Extras : site'.extras[n] = site.extras[n]
      /\ site'.checkout = site.checkout
      /\ site'.secret = site.secret
  BY <1>1, <1>3 DEF D!SiteType
<1>5. /\ stage'[w] = "extras" /\ mem'[w] = mem[w]
      /\ (D!WriterInv(w)' => DeploymentHeld')
  BY <1>1, <1>2, <1>4, WorkTyped
<1>6. D!Moved(w)'
  BY <1>1, <1>2, <1>3, <1>4, <1>5 DEF D!Moved, D!Applying, aim
<1> QED BY <1>1, <1>2, <1>3, <1>5, <1>6 DEF D!WriterInv, D!Kind, D!Prepared, D!EndsAsAimed, D!HasBackup,
                                  D!Applying

LEMMA MoveExtraKeeps ==
  ASSUME DeploymentHeld, NEW w \in D!Writers, NEW n \in Extras, D!MoveExtra(w, n)
  PROVE  DeploymentHeld'
<1> DEFINE aim == D!Aim(w)
<1>1. /\ stage[w] = "extras" /\ site' = [site EXCEPT !.extras[n] = aim.extras[n]]
      /\ UNCHANGED <<tip, guard, stage, mem, recovering, unheld, sets>>
  BY DEF D!MoveExtra
<1>2. stage[w] \in D!Applying /\ stage[w] \in D!Working /\ stage' = [stage EXCEPT ![w] = stage[w]]
  BY <1>1 DEF DeploymentHeld, D!TypeOK, D!Applying, D!Working
<1>3. /\ w \in D!Deployers /\ w \notin Nightlies /\ D!Moved(w) /\ D!HasBackup(w)
      /\ aim \in D!SiteType /\ site \in D!SiteType /\ aim' = aim
      /\ aim = mem[w].before \/ aim = mem[w].goal
  BY <1>1, <1>2, MovingWriter DEF D!Aim
<1> HIDE DEF aim
<1>4. /\ site' \in D!SiteType /\ site'.checkout = site.checkout /\ site'.secret = site.secret
      /\ site'.helm = site.helm
      /\ \A x \in Extras : site'.extras[x] = IF x = n THEN aim.extras[n] ELSE site.extras[x]
  BY <1>1, <1>3 DEF D!SiteType
<1>5. /\ stage'[w] = stage[w] /\ mem'[w] = mem[w]
      /\ (D!WriterInv(w)' => DeploymentHeld')
  BY <1>1, <1>2, <1>4, WorkTyped
<1>6. D!Moved(w)'
  BY <1>1, <1>2, <1>3, <1>4, <1>5 DEF D!Moved, D!Applying, aim
<1> QED BY <1>1, <1>2, <1>3, <1>5, <1>6 DEF D!WriterInv, D!Kind, D!Prepared, D!EndsAsAimed,
                                  D!HasBackup, D!Applying

\* With nothing left over and nothing missing, the extras are those aimed at.
LEMMA ExtrasThere ==
  ASSUME DeploymentHeld, NEW w \in D!Writers, D!ExtrasDone(w)
  PROVE  site.extras = D!Aim(w).extras
<1> DEFINE aim == D!Aim(w)
           b == mem[w].before
           g == mem[w].goal
<1>1. /\ D!Moved(w) /\ aim \in D!SiteType /\ b \in D!SiteType /\ g \in D!SiteType
      /\ site \in D!SiteType /\ (aim = b \/ aim = g)
      /\ g = D!SiteOf(g.checkout)
      /\ \A n \in Extras : site.extras[n] \in {b.extras[n], g.extras[n]}
  <2>1. stage[w] \in D!Applying
    BY DEF D!ExtrasDone, D!Applying
  <2> QED BY <2>1, MovingWriter DEF D!Aim, D!Moved
<1>2. \A n \in Extras : g.extras[n] = IF n \in Wanted(g.checkout) THEN g.checkout ELSE None
  <2>1. g.extras = D!SiteOf(g.checkout).extras
    BY <1>1
  <2> HIDE DEF g
  <2> QED BY <2>1 DEF D!SiteOf
<1>3. ASSUME NEW n \in Extras PROVE site.extras[n] = aim.extras[n]
  <2>1. /\ ~(aim.extras[n] # None /\ site.extras[n] # aim.extras[n])
        /\ ~(/\ aim.extras[n] = None
             /\ n \in Wanted(g.checkout) \/ b.extras[n] # None
             /\ site.extras[n] # None)
    BY DEF D!ExtrasDone, D!Leftover, D!Missing
  <2> HIDE DEF aim, b, g
  <2> QED BY <1>1, <1>2, <2>1
<1>4. site.extras \in [Extras -> SiteCommits \cup {None}] /\ aim.extras \in [Extras -> SiteCommits \cup {None}]
  BY <1>1 DEF D!SiteType
<1> HIDE DEF aim
<1>5. site.extras = aim.extras
  BY <1>3, <1>4
<1> QED BY <1>5 DEF aim

LEMMA ExtrasDoneKeeps ==
  ASSUME DeploymentHeld, NEW w \in D!Writers, D!ExtrasDone(w)
  PROVE  DeploymentHeld'
<1> DEFINE aim == D!Aim(w)
<1>1. /\ stage[w] = "extras" /\ stage' = [stage EXCEPT ![w] = "activate"]
      /\ UNCHANGED <<tip, site, guard, mem, recovering, unheld, sets>>
      /\ site.extras = aim.extras
  BY ExtrasThere DEF D!ExtrasDone, D!Goes
<1>2. stage[w] \in D!Applying /\ stage[w] \in D!Working /\ "activate" \in D!Working
  BY <1>1 DEF D!Applying, D!Working
<1>3. /\ w \in D!Deployers /\ w \notin Nightlies /\ D!Moved(w) /\ D!HasBackup(w)
      /\ site' \in D!SiteType /\ aim' = aim
  BY <1>1, <1>2, MovingWriter
<1> HIDE DEF aim
<1>4. /\ stage'[w] = "activate" /\ mem'[w] = mem[w]
      /\ (D!WriterInv(w)' => DeploymentHeld')
  BY <1>1, <1>2, <1>3, WorkTyped
<1>5. D!Moved(w)'
  BY <1>1, <1>2, <1>3, <1>4 DEF D!Moved, D!Applying, aim
<1> QED BY <1>1, <1>2, <1>3, <1>4, <1>5 DEF D!WriterInv, D!Kind, D!Prepared, D!EndsAsAimed,
                                  D!HasBackup, D!Applying

\* All five parts are where the deployment, or its recovery, wants them.
LEMMA ActivateKeeps ==
  ASSUME DeploymentHeld, NEW w \in D!Writers, D!Activate(w)
  PROVE  DeploymentHeld'
<1> DEFINE aim == D!Aim(w)
           s == IF w \in recovering THEN "restored" ELSE "complete"
<1>1. /\ stage[w] = "activate" /\ stage' = [stage EXCEPT ![w] = s]
      /\ site' = [site EXCEPT !.active = site.checkout]
      /\ UNCHANGED <<tip, guard, mem, recovering, unheld, sets>>
  BY DEF D!Activate, D!Goes
<1>2. stage[w] \in D!Applying /\ stage[w] \in D!Working /\ s \in D!Working
  BY <1>1 DEF D!Applying, D!Working
<1>3. /\ w \in D!Deployers /\ w \notin Nightlies /\ D!Moved(w)
      /\ aim \in D!SiteType /\ site \in D!SiteType
      /\ mem[w].before \in D!SiteType /\ mem[w].goal \in D!SiteType
      /\ aim = IF w \in recovering THEN mem[w].before ELSE mem[w].goal
  BY <1>1, <1>2, MovingWriter DEF D!Aim
<1>4. /\ site.checkout = aim.checkout /\ site.secret = aim.secret /\ site.helm = aim.helm
      /\ site.extras = aim.extras /\ mem[w].goal = D!SiteOf(mem[w].goal.checkout)
  BY <1>1, <1>2, <1>3 DEF D!Moved
<1>5. mem[w].goal.active = mem[w].goal.checkout
  BY <1>4 DEF D!SiteOf
<1> HIDE DEF aim
<1>6. site' \in D!SiteType /\ site' = [aim EXCEPT !.active = aim.checkout]
  BY <1>1, <1>3, <1>4 DEF D!SiteType
<1>7. /\ stage'[w] = s /\ mem'[w] = mem[w]
      /\ (D!WriterInv(w)' => DeploymentHeld')
  <2> HIDE DEF s
  <2> QED BY <1>1, <1>2, <1>6, WorkTyped
<1>8. D!EndsAsAimed(w)'
  <2>1. CASE w \in recovering
    BY <1>3, <1>6, <1>7, <2>1 DEF D!EndsAsAimed
  <2>2. CASE w \notin recovering
    <3>1. [mem[w].goal EXCEPT !.active = mem[w].goal.checkout] = mem[w].goal
      BY <1>3, <1>5 DEF D!SiteType
    <3> QED BY <1>3, <1>6, <1>7, <2>2, <3>1 DEF D!EndsAsAimed
  <2> QED BY <2>1, <2>2
<1> QED BY <1>3, <1>7, <1>8 DEF D!WriterInv, D!Kind, D!Prepared, D!Moved, D!HasBackup, D!Applying

\* An exception: the site may have got the part that was being moved.
LEMMA FailKeeps ==
  ASSUME DeploymentHeld, NEW w \in D!Writers, D!Fail(w)
  PROVE  DeploymentHeld'
<1>1. /\ D!TypeOK /\ stage[w] \in D!Working /\ guard /\ site' \in D!Tried(w)
      /\ UNCHANGED <<tip, sets>> /\ site \in D!SiteType
  BY DEF DeploymentHeld, D!TypeOK, D!Fail, D!Working, D!Applying, D!GuardInv
<1>2. /\ site' \in D!SiteType
      /\ \A n \in Extras : site'.extras[n] = site.extras[n]
  <2>1. CASE site' = site
    BY <1>1, <2>1
  <2>2. ASSUME NEW part1 \in {"checkout", "secret", "helm"}, stage[w] = part1,
               site' = [site EXCEPT ![part1] = D!Aim(w)[part1]]
        PROVE  site' \in D!SiteType /\ \A n \in Extras : site'.extras[n] = site.extras[n]
    <3>1. D!Aim(w) \in D!SiteType
      BY <2>2, MovingWriter DEF D!Applying
    <3> QED BY <1>1, <2>2, <3>1 DEF D!SiteType
  <2> QED BY <1>1, <2>1, <2>2 DEF D!Tried
<1>3. CASE w \in Deployments \ recovering /\ stage[w] \in D!Applying
  <2>1. /\ stage' = [stage EXCEPT ![w] = "checkout"] /\ recovering' = recovering \cup {w}
        /\ UNCHANGED <<guard, mem, unheld>>
    BY <1>3 DEF D!Fail, D!Goes
  <2>2. w \in D!Deployers /\ w \notin Nightlies /\ D!Moved(w) /\ D!HasBackup(w)
    BY <1>3, MovingWriter
  <2>3. /\ D!TypeOK' /\ stage'[w] = "checkout" /\ mem'[w] = mem[w]
        /\ \A v \in D!Writers \ {w} : stage'[v] = stage[v] /\ mem'[v] = mem[v]
    <3>1. /\ tip' \in SiteCommits /\ guard' \in BOOLEAN /\ recovering' \subseteq Deployments
          /\ sets' \in [{"nightly", "deployment"} -> Seq(D!SetType)]
          /\ mem[w] \in D!MemType /\ mem' = [mem EXCEPT ![w] = mem[w]]
          /\ "checkout" \in D!Working
      BY <1>1, <1>3, <2>1 DEF D!TypeOK, D!Working
    <3> QED BY <1>1, <1>2, <2>1, <3>1, StageTyped
  <2>4. D!Moved(w)'
    BY <1>2, <1>3, <2>2, <2>3 DEF D!Moved, D!Applying
  <2>5. D!WriterInv(w)'
    BY <1>1, <1>3, <2>2, <2>3, <2>4 DEF D!WriterInv, D!Kind, D!Prepared, D!EndsAsAimed, D!HasBackup, D!Applying
  <2> QED BY <1>1, <2>1, <2>3, <2>5, WriterStep
<1>4. CASE ~(w \in Deployments \ recovering /\ stage[w] \in D!Applying)
  <2>1. D!Goes(w, "failed") /\ D!Unlock(w) /\ UNCHANGED recovering
    BY <1>4 DEF D!Fail
  <2>2. guard' \in BOOLEAN
    BY <1>1, <2>1 DEF D!TypeOK, D!Unlock
  <2> QED BY <1>1, <1>2, <2>1, <2>2, GivesUp DEF D!Goes, D!Unlock
<1> QED BY <1>3, <1>4

LEMMA FinishKillKeeps ==
  ASSUME DeploymentHeld, NEW w \in D!Writers, D!Finish(w) \/ D!Kill(w)
  PROVE  DeploymentHeld'
<1>1. D!TypeOK
  BY DEF DeploymentHeld
<1>2. /\ stage[w] \in D!Working /\ mem' = [mem EXCEPT ![w] = D!Blank]
      /\ site' \in D!SiteType /\ guard' \in BOOLEAN /\ UNCHANGED <<tip, recovering, sets>>
  BY <1>1 DEF D!Finish, D!Kill, D!Unlock, D!Working, D!TypeOK
<1>3. PICK s \in {"succeeded", "failed", "dead"} : stage' = [stage EXCEPT ![w] = s]
  BY DEF D!Finish, D!Kill, D!Goes
<1> QED BY <1>2, <1>3, GivesUp

LEMMA ClearGuardKeeps ==
  ASSUME DeploymentHeld, D!ClearGuard
  PROVE  DeploymentHeld'
<1>1. D!TypeOK' /\ D!GuardInv'
  BY DEF DeploymentHeld, D!ClearGuard, D!TypeOK, D!GuardInv, D!Working
<1>2. \A w \in D!Writers : D!WriterInv(w)'
  BY IdleWriter DEF DeploymentHeld, D!ClearGuard
<1> QED BY <1>1, <1>2 DEF DeploymentHeld

LEMMA DeploymentStays ==
  ASSUME DeploymentHeld, UNCHANGED deployment
  PROVE  DeploymentHeld'
<1>1. D!TypeOK' /\ D!GuardInv'
  BY DEF DeploymentHeld, deployment, D!TypeOK, D!GuardInv, D!Working
<1>2. \A w \in D!Writers : D!WriterInv(w)'
  BY IdleWriter DEF DeploymentHeld, deployment
<1> QED BY <1>1, <1>2 DEF DeploymentHeld

\* A command line that loses its guard never gets it back.
LEMMA DeploymentStep ==
  ASSUME D!DeploymentInv, D!Next
  PROVE  D!DeploymentInv'
<1> SUFFICES ASSUME unheld' = {} PROVE DeploymentHeld'
  BY DEF D!DeploymentInv, DeploymentHeld
<1>1. \A w : ~D!Disconnect(w) /\ ~D!Abandon(w)
  BY DEF D!Disconnect, D!Abandon
<1>2. unheld = {}
  BY <1>1 DEF D!Next, D!Push, D!Plan, D!List, D!Create, D!Resolve, D!Work, D!TakeLock, D!Preflight,
     D!Unlock, D!CopyCheckout, D!Publish, D!MoveCheckout, D!ReplaceSecret, D!UpgradeHelm, D!Put,
     D!MoveExtra, D!ExtrasDone, D!Activate, D!Finish, D!Fail, D!Kill, D!ClearGuard
<1>3. DeploymentHeld
  BY <1>2 DEF D!DeploymentInv, DeploymentHeld
<1>4. CASE \E c \in SiteCommits : D!Push(c)
  BY <1>3, <1>4, PushKeeps
<1>5. CASE \/ \E j \in Deployments : D!Plan(j) \/ D!List(j) \/ D!Create(j)
           \/ \E w \in Clis : D!Resolve(w)
  BY <1>3, <1>5, AskKeeps DEF D!Writers
<1>6. ASSUME NEW w \in D!Writers, D!Work(w) \/ D!Fail(w) \/ D!Kill(w)
      PROVE  DeploymentHeld'
  BY <1>3, <1>6, TakeLockKeeps, PreflightKeeps, CopyCheckoutKeeps, PublishSetKeeps, MoveCheckoutKeeps,
     ReplaceSecretKeeps, UpgradeHelmKeeps, MoveExtraKeeps, ExtrasDoneKeeps, ActivateKeeps,
     FailKeeps, FinishKillKeeps DEF D!Work
<1>7. CASE D!ClearGuard
  BY <1>3, <1>7, ClearGuardKeeps
<1> QED BY <1>1, <1>4, <1>5, <1>6, <1>7 DEF D!Next

\* A deployment that says it is complete has moved all five parts and one that says it
\* restored the previous state has put them back; there is a recovery set of the site it
\* found, and a nightly set is of one moment: until a command line loses its guard.
THEOREM DeploymentsAreWhole == MCSpec => []DeploymentsWhole
<1>1. MCInit => D!DeploymentInv
  BY DeploymentInit DEF MCInit, DeploymentHeld, D!DeploymentInv
<1>2. D!DeploymentInv /\ [MCNext]_mcvars => D!DeploymentInv'
  <2>1. D!DeploymentInv /\ UNCHANGED deployment => D!DeploymentInv'
    <3>1. UNCHANGED deployment => UNCHANGED unheld
      BY DEF deployment
    <3> QED BY <3>1, DeploymentStays DEF D!DeploymentInv, DeploymentHeld
  <2> QED BY <2>1, DeploymentStep DEF MCNext, mcvars
<1>3. D!DeploymentInv => DeploymentsWhole
  BY DEF D!DeploymentInv, D!WriterInv, DeploymentsWhole, D!DeploymentsWhole, D!EndsWhole,
         D!BackedUp, D!NightlyWhole, D!Deployers, D!Writers
<1> QED BY <1>1, <1>2, <1>3, PTL DEF MCSpec

=============================================================================
