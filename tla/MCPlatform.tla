------------------------------ MODULE MCPlatform ------------------------------
(* The platform that runs sessions: the task queue, with two workflows that  *)
(* differ in limit and priority; the deployments that replace the platform;  *)
(* the releases of the workflow repository that sessions start from; and the *)
(* memory they hand on.  They share no state here, so a behaviour runs one of *)
(* them and the others stay as they began.                                   *)
EXTENDS TaskQueue, Sequences, TLC

CONSTANTS
  Deployments, Clis, Nightlies, SiteCommits, Installed, Valid, Extras, Wanted(_), Claims,
  SetsKept, MaxDeployFaults,                                     \* Deployment
  Syncs, Launches, Bundles, Refs, DefaultRef, Tags, Commits, Origin,
  MaxReleaseFaults,                                              \* WorkflowRelease
  Sessions, Marker, VersionsKept, MaxMemoryFaults                \* AgentMemory

VARIABLES
  part,
  tip, site, guard, stage, mem, recovering, unheld, sets, deployFaults,
  managed, origin, checkout, pinned, row, sync, store, pointer, task, releaseFaults,
  runtime, helper, dir, archive, latest, versions, doomed, overlapped, memoryFaults

D == INSTANCE Deployment WITH
       Jobs <- Deployments, Commits <- SiteCommits, Initial <- Installed, Names <- Extras,
       Keep <- SetsKept, MaxFaults <- MaxDeployFaults, faults <- deployFaults

W == INSTANCE WorkflowRelease WITH
       Tasks <- Launches, Workflows <- Bundles, MaxFaults <- MaxReleaseFaults,
       faults <- releaseFaults

M == INSTANCE AgentMemory WITH
       Jobs <- Sessions, Keep <- VersionsKept, MaxFaults <- MaxMemoryFaults,
       faults <- memoryFaults

ASSUME Assumptions ==
  D!DeploymentAssumption /\ W!ReleaseAssumption /\ M!MemoryAssumption

-----------------------------------------------------------------------------
\* The values of the constants: p1 and p2 are alike, also as the replicas of the
\* queue, and so are q1 and q2.
CONSTANTS p1, p2, q1, q2, t1, t2, t3, alerts, reports, main, tag

MCWorkflowOf == (t1 :> alerts @@ t2 :> alerts @@ t3 :> reports)
MCLimit == (alerts :> 1 @@ reports :> 2)
MCPriority == (alerts :> 0 @@ reports :> 1)
MCWanted(c) == CASE c = 1 -> {"x"} [] c = 2 -> {"y"} [] OTHER -> {"x", "y"}
MCOrigin == (main :> 1 @@ tag :> 2)

\* Names that no definition tells apart.
Symmetry == Permutations({p1, p2}) \cup Permutations({q1, q2})

-----------------------------------------------------------------------------
deployment == <<tip, site, guard, stage, mem, recovering, unheld, sets, deployFaults>>
release == <<managed, origin, checkout, pinned, row, sync, store, pointer, task, releaseFaults>>
memory == <<runtime, helper, dir, archive, latest, versions, doomed, overlapped, memoryFaults>>

mcvars == <<part, vars, deployment, release, memory>>

MCInit ==
  /\ part \in {"queue", "deployment", "release", "memory"}
  /\ Init /\ D!Init /\ W!Init /\ M!Init
  /\ part # "release" => ~managed /\ \A r \in Refs : Origin[r] >= checkout

MCNext ==
  /\ UNCHANGED part
  /\ \/ part = "queue"      /\ Next   /\ UNCHANGED <<deployment, release, memory>>
     \/ part = "deployment" /\ D!Next /\ UNCHANGED <<vars, release, memory>>
     \/ part = "release"    /\ W!Next /\ UNCHANGED <<vars, deployment, memory>>
     \/ part = "memory"     /\ M!Next /\ UNCHANGED <<vars, deployment, release>>

MCSpec == MCInit /\ [][MCNext]_mcvars

-----------------------------------------------------------------------------
\* The properties of the parts.
DeploymentsWhole == D!DeploymentsWhole
ReleasesHold == W!ReleasesHold
MemoryKept == M!MemoryKept
===============================================================================
