---------------------------- MODULE AgentMemory ----------------------------
(* The project memory of one workflow: each session Job restores the latest *)
(* archive into a volume of its own, the runtime works on it, and a helper   *)
(* container uploads it when the runtime says it is done                     *)
(* (session-manager/memory_sync.py, runtime/session_entrypoint.py and the    *)
(* pod of session-manager/runtime_launchers.py).  Housekeeping prunes the    *)
(* older versions (shared/lib/housekeeping.py).                              *)
(*                                                                           *)
(* A file is abstracted to the session that wrote it.  A session may start   *)
(* as soon as the task before it has reported its end, while that one's      *)
(* helper is still uploading.                                                *)
EXTENDS Integers, Sequences, FiniteSets, SequencesExt

CONSTANTS Jobs, Marker, None,
          Keep,          \* AGENT_MEMORY_VERSIONS_TO_KEEP
          MaxFaults

MemoryAssumption ==
  /\ {Marker, None} \cap Jobs = {} /\ Marker # None
  /\ \A files \in SUBSET (Jobs \cup {Marker}) : files # None
  /\ Keep \in Nat \ {0} /\ MaxFaults \in Nat

VARIABLES
  runtime,    \* "new", "running", "stopping", "ended", "killed"
  helper,     \* "none", "waiting", "seen", "read", "latest", "done" or "dead"
  dir,        \* the files in the volume of each Job
  archive,    \* what the helper has read
  latest,     \* the archive latest.tar.gz, or None
  versions,   \* the timestamped archives, oldest first
  doomed,     \* versions that housekeeping is about to delete
  overlapped, \* history: a Job restored while another had yet to upload
  faults

vars == <<runtime, helper, dir, archive, latest, versions, doomed, overlapped,
          faults>>

Init ==
  /\ runtime = [j \in Jobs |-> "new"] /\ helper = [j \in Jobs |-> "none"]
  /\ dir = [j \in Jobs |-> {}] /\ archive = [j \in Jobs |-> {}]
  /\ latest = None /\ versions = <<>> /\ doomed = {}
  /\ overlapped = FALSE /\ faults = 0

Fault == faults < MaxFaults /\ faults' = faults + 1

Uploading(j) == helper[j] \in {"waiting", "seen", "read"}

-----------------------------------------------------------------------------
(* The init container *)

Extracted(files) == IF files = None THEN {} ELSE files

Start(j, files) ==
  /\ runtime[j] = "new"
  /\ dir' = [dir EXCEPT ![j] = Extracted(files)]
  /\ runtime' = [runtime EXCEPT ![j] = "running"]
  /\ helper' = [helper EXCEPT ![j] = "waiting"]
  /\ overlapped' = (overlapped \/ \E o \in Jobs : Uploading(o))
  /\ UNCHANGED <<archive, latest, versions, doomed>>

\* Mutant: a download that fails is taken for a first session.
RestoreAnyway(j) ==
  \/ Start(j, latest) /\ UNCHANGED faults
  \/ Fault /\ Start(j, None)

(* Only an object that does not exist makes a first session.  Any other      *)
(* failure fails the pod, and the runtime never starts.                      *)
Restore(j) ==
  \/ Start(j, latest) /\ UNCHANGED faults
  \/ /\ Fault /\ runtime[j] = "new"
     /\ runtime' = [runtime EXCEPT ![j] = "killed"]
     /\ helper' = [helper EXCEPT ![j] = "dead"]
     /\ UNCHANGED <<dir, archive, latest, versions, doomed, overlapped>>

-----------------------------------------------------------------------------
(* The runtime container *)

(* The agent writes; on SIGTERM its processes may still do so for a while.   *)
Write(j) ==
  /\ runtime[j] \in {"running", "stopping"} /\ j \notin dir[j]
  /\ dir' = [dir EXCEPT ![j] = @ \cup {j}]
  /\ UNCHANGED <<runtime, helper, archive, latest, versions, doomed, overlapped,
                 faults>>

(* The session ends, whatever its outcome, and the marker is the last thing  *)
(* that it writes.                                                           *)
Finish(j) ==
  /\ runtime[j] = "running"
  /\ runtime' = [runtime EXCEPT ![j] = "ended"]
  /\ dir' = [dir EXCEPT ![j] = @ \cup {Marker}]
  /\ UNCHANGED <<helper, archive, latest, versions, doomed, overlapped, faults>>

(* The Job is deleted: the signal handler writes the marker first, and the   *)
(* containers have a grace period left.                                      *)
Terminate(j) ==
  /\ Fault /\ runtime[j] = "running"
  /\ runtime' = [runtime EXCEPT ![j] = "stopping"]
  /\ dir' = [dir EXCEPT ![j] = @ \cup {Marker}]
  /\ UNCHANGED <<helper, archive, latest, versions, doomed, overlapped>>

(* The runtime is killed, or fails between preparing the workspace and the   *)
(* try block: there is no marker, and the helper waits until it is killed.   *)
Kill(j) ==
  /\ runtime[j] = "stopping" \/ (runtime[j] = "running" /\ faults < MaxFaults)
  /\ faults' = IF runtime[j] = "running" THEN faults + 1 ELSE faults
  /\ runtime' = [runtime EXCEPT ![j] = "killed"]
  /\ UNCHANGED <<helper, dir, archive, latest, versions, doomed, overlapped>>

-----------------------------------------------------------------------------
(* The helper container *)

SeeMarker(j) ==
  /\ helper[j] = "waiting" /\ Marker \in dir[j]
  /\ helper' = [helper EXCEPT ![j] = "seen"]
  /\ dir' = [dir EXCEPT ![j] = @ \ {Marker}]
  /\ UNCHANGED <<runtime, archive, latest, versions, doomed, overlapped, faults>>

(* An empty volume is not uploaded. *)
Read(j) ==
  /\ helper[j] = "seen"
  /\ archive' = [archive EXCEPT ![j] = dir[j]]
  /\ helper' = [helper EXCEPT ![j] = IF dir[j] = {} THEN "done" ELSE "read"]
  /\ UNCHANGED <<runtime, dir, latest, versions, doomed, overlapped, faults>>

PutLatest(j) ==
  /\ helper[j] = "read" /\ helper' = [helper EXCEPT ![j] = "latest"]
  /\ latest' = archive[j]
  /\ UNCHANGED <<runtime, dir, archive, versions, doomed, overlapped, faults>>

(* The name of a version has the second of the upload: two in the same       *)
(* second are one object.                                                    *)
PutVersion(j) ==
  /\ helper[j] = "latest" /\ helper' = [helper EXCEPT ![j] = "done"]
  /\ \/ versions' = Append(versions, [job |-> j, files |-> archive[j]])
     \/ /\ versions # <<>>
        /\ versions' = Append(Front(versions), [job |-> j, files |-> archive[j]])
  /\ UNCHANGED <<runtime, dir, archive, latest, doomed, overlapped, faults>>

(* An upload fails, or the helper is killed with its pod. *)
HelperDies(j) ==
  /\ Fault /\ helper[j] \in {"waiting", "seen", "read", "latest"}
  /\ helper' = [helper EXCEPT ![j] = "dead"]
  /\ UNCHANGED <<runtime, dir, archive, latest, versions, doomed, overlapped>>

-----------------------------------------------------------------------------
(* Housekeeping *)

(* The listing leaves out the latest archive.  The oldest versions go: those *)
(* beyond the number to keep, and any that are too old.                       *)
ListVersions(n) ==
  /\ doomed = {} /\ n \in 1..Len(versions) /\ n >= Len(versions) - Keep
  /\ doomed' = {versions[i].job : i \in 1..n}
  /\ UNCHANGED <<runtime, helper, dir, archive, latest, versions, overlapped,
                 faults>>

(* One object at a time; the pass may end before all of them are gone.       *)
DeleteVersion(j) ==
  /\ j \in doomed /\ doomed' = doomed \ {j}
  /\ \/ /\ versions' = SelectSeq(versions, LAMBDA v : v.job # j)
        /\ UNCHANGED faults
     \/ Fault /\ UNCHANGED versions
  /\ UNCHANGED <<runtime, helper, dir, archive, latest, overlapped>>

-----------------------------------------------------------------------------
Next ==
  \/ \E j \in Jobs :
       \/ Restore(j) \/ Write(j) \/ Finish(j) \/ Terminate(j) \/ Kill(j)
       \/ SeeMarker(j) \/ Read(j) \/ PutLatest(j) \/ PutVersion(j)
       \/ HelperDies(j) \/ DeleteVersion(j)
  \/ \E n \in 1..Len(versions) : ListVersions(n)

Spec == Init /\ [][Next]_vars

-----------------------------------------------------------------------------
(* What a session that ended by itself had in its volume, what it restored  *)
(* included, is in the latest archive from its upload on, through failed     *)
(* restores, killed sessions, later sessions and housekeeping ("backs        *)
(* project memory up ... after each session ... and restores it before the   *)
(* next session", docs/memory.md:96): unless two sessions overlapped.        *)
MemoryKept ==
  ~overlapped =>
    \A j \in Jobs : runtime[j] = "ended" /\ helper[j] \in {"latest", "done"}
                    => dir[j] \ {Marker} \subseteq Extracted(latest)

-----------------------------------------------------------------------------
(* What the property rests on *)

TypeOK ==
  /\ runtime \in [Jobs -> {"new", "running", "stopping", "ended", "killed"}]
  /\ helper \in [Jobs -> {"none", "waiting", "seen", "read", "latest", "done", "dead"}]
  /\ dir \in [Jobs -> SUBSET (Jobs \cup {Marker})]
  /\ archive \in [Jobs -> SUBSET (Jobs \cup {Marker})]
  /\ latest \in (SUBSET Jobs) \cup {None}

(* The marker says that the runtime is through; it is seen once and never    *)
(* archived.                                                                 *)
MarkerInv ==
  \A j \in Jobs :
    /\ runtime[j] = "new" <=> helper[j] = "none"
    /\ runtime[j] = "running" => helper[j] \in {"waiting", "dead"} /\ Marker \notin dir[j]
    /\ helper[j] = "seen" => Marker \notin dir[j]
    /\ helper[j] = "read" => Marker \notin archive[j]

(* Sessions that do not overlap hand on all they restored.                   *)
HandOnInv ==
  /\ \A j, k \in Jobs : Uploading(j) /\ Uploading(k) => j = k
  /\ \A j \in Jobs :
       /\ Uploading(j) => Extracted(latest) \subseteq dir[j]
       /\ helper[j] = "read" =>
            /\ Extracted(latest) \subseteq archive[j]
            /\ runtime[j] = "ended" => archive[j] = dir[j]

(* The inductive invariant of the memory. *)
MemoryInv == TypeOK /\ MarkerInv /\ (~overlapped => HandOnInv) /\ MemoryKept
=============================================================================
