-------------------------- MODULE WorkflowRelease --------------------------
(* How a workflow repository becomes the release that task launches use:   *)
(* the sync pipeline (shared/lib/workflow_repo_sync.py), which fetches,    *)
(* discovers, builds and uploads the bundles, publishes the release and    *)
(* moves the active pointer; and the launches that read the pointer while  *)
(* it moves (session-manager/container_lifecycle.py).                      *)
(*                                                                         *)
(* In a managed instance the deployment holds a lock and has moved the     *)
(* checkout; otherwise any number of syncs share one checkout with every   *)
(* other discovery of workflows, and each discovery checks out the default *)
(* ref.  The mode without an object store is left out.                     *)
EXTENDS Integers, FiniteSets

CONSTANTS Syncs, Tasks, Workflows,
          Refs, DefaultRef,    \* WORKFLOW_REPO_REF, or None
          Tags,                \* the refs that do not move
          Commits, Origin,     \* the commits each ref starts from
          None, MaxFaults

ReleaseAssumption ==
  /\ Tags \subseteq Refs /\ DefaultRef \in Refs \cup {None}
  /\ Origin \in [Refs -> Commits]
  /\ None \notin Refs \cup Commits \cup Syncs /\ MaxFaults \in Nat

VARIABLES
  managed,   \* deployments own the checkout
  origin,    \* the commit each ref names
  checkout,  \* the commit that is checked out
  pinned,    \* the ref that the operator pinned, or None
  row,       \* workflow_repo_state: the last sync and its outcome
  sync,      \* the syncs; each of them makes one release
  store,     \* what each release has in the object store
  pointer,   \* releases/active.json: the active release, or None
  task,      \* the launches and what they got
  faults

vars == <<managed, origin, checkout, pinned, row, sync, store, pointer, task,
          faults>>

NoRelease ==
  [bundles |-> [w \in Workflows |-> None], config |-> None, manifest |-> FALSE]

Init ==
  /\ managed \in BOOLEAN
  /\ origin = Origin /\ checkout \in {origin[r] : r \in Refs}
  /\ pinned = None
  /\ row = [ref |-> None, commit |-> None, status |-> "never"]
  /\ sync = [s \in Syncs |-> [stage |-> "idle", ref |-> None, commit |-> None,
                              todo |-> {}, failed |-> FALSE]]
  /\ store = [s \in Syncs |-> NoRelease]
  /\ pointer = None
  /\ task = [t \in Tasks |-> [stage |-> "queued", workflow |-> None,
                              release |-> None, config |-> None,
                              bundle |-> None]]
  /\ faults = 0

Fault == faults < MaxFaults /\ faults' = faults + 1

Goes(s, next) == sync' = [sync EXCEPT ![s].stage = next]

Active(s) == sync[s].stage \notin {"idle", "done"}

-----------------------------------------------------------------------------
(* The repository and its operator *)

Push(r, c) ==
  /\ r \notin Tags /\ c > origin[r] /\ origin' = [origin EXCEPT ![r] = c]
  /\ UNCHANGED <<managed, checkout, pinned, row, sync, store, pointer, task,
                 faults>>

(* Managed instances answer 410. *)
Pin(r) ==
  /\ ~managed /\ pinned # r /\ pinned' = r
  /\ UNCHANGED <<managed, origin, checkout, row, sync, store, pointer, task,
                 faults>>

(* What any discovery of workflows leaves in the checkout: unless it is     *)
(* managed, the default ref, fetched anew; when that fails, what was there.  *)
Discovered ==
  IF managed \/ DefaultRef = None THEN {checkout}
  ELSE {checkout, origin[DefaultRef]}

(* A launch, a request to the control plane or a provisioner scan. *)
Rediscover ==
  /\ checkout' \in Discovered \ {checkout}
  /\ UNCHANGED <<managed, origin, pinned, row, sync, store, pointer, task,
                 faults>>

-----------------------------------------------------------------------------
(* The sync pipeline *)

EffectiveRef == IF pinned # None THEN pinned ELSE DefaultRef

(* In a managed instance the deployment is alone, has checked out the       *)
(* commit, and clears the pin.                                               *)
StartManaged(s, r) ==
  /\ managed /\ sync[s].stage = "idle" /\ ~\E o \in Syncs : Active(o)
  /\ checkout' = origin[r] /\ pinned' = None
  /\ sync' = [sync EXCEPT ![s].stage = "discover", ![s].ref = r]
  /\ UNCHANGED <<managed, origin, row, store, pointer, task, faults>>

StartUnmanaged(s) ==
  /\ ~managed /\ sync[s].stage = "idle"
  /\ sync' = [sync EXCEPT ![s].stage = "fetch", ![s].ref = EffectiveRef]
  /\ UNCHANGED <<managed, origin, checkout, pinned, row, store, pointer, task,
                 faults>>

(* A fetch that fails ends the sync with an error. *)
Fetch(s) ==
  /\ sync[s].stage = "fetch"
  /\ \/ /\ checkout' = IF sync[s].ref = None THEN checkout
                       ELSE origin[sync[s].ref]
        /\ Goes(s, "discover") /\ UNCHANGED faults
     \/ /\ Fault /\ UNCHANGED checkout
        /\ sync' = [sync EXCEPT ![s].stage = "record", ![s].failed = TRUE]
  /\ UNCHANGED <<managed, origin, pinned, row, store, pointer, task>>

Discover(s) ==
  /\ sync[s].stage = "discover" /\ Goes(s, "label")
  /\ checkout' \in Discovered
  /\ UNCHANGED <<managed, origin, pinned, row, store, pointer, task, faults>>

(* The release is named for the commit that is checked out now. *)
Label(s) ==
  /\ sync[s].stage = "label"
  /\ sync' = [sync EXCEPT ![s].stage = "build", ![s].commit = checkout,
                          ![s].todo = Workflows]
  /\ UNCHANGED <<managed, origin, checkout, pinned, row, store, pointer, task,
                 faults>>

(* Each bundle is built from the roots as a new discovery finds them, and   *)
(* uploaded.  One that fails does not stop the others.                       *)
Build(s, w) ==
  /\ sync[s].stage = "build" /\ w \in sync[s].todo
  /\ checkout' \in Discovered
  /\ \/ /\ store' = [store EXCEPT ![s].bundles[w] = checkout']
        /\ sync' = [sync EXCEPT ![s].todo = @ \ {w}]
        /\ UNCHANGED faults
     \/ /\ Fault /\ UNCHANGED store
        /\ sync' = [sync EXCEPT ![s].todo = @ \ {w}, ![s].failed = TRUE]
  /\ UNCHANGED <<managed, origin, pinned, row, pointer, task>>

(* Only when every bundle was built is the release published. *)
Built(s) ==
  /\ sync[s].stage = "build" /\ sync[s].todo = {}
  /\ Goes(s, IF sync[s].failed THEN "record" ELSE "config")
  /\ UNCHANGED <<managed, origin, checkout, pinned, row, store, pointer, task,
                 faults>>

(* The configuration, the manifest and then the pointer; a failure at any   *)
(* of them leaves the pointer where it was.                                  *)
PublishConfig(s) ==
  /\ sync[s].stage = "config" /\ Goes(s, "manifest")
  /\ store' = [store EXCEPT ![s].config = checkout]
  /\ UNCHANGED <<managed, origin, checkout, pinned, row, pointer, task, faults>>

PublishManifest(s) ==
  /\ sync[s].stage = "manifest" /\ Goes(s, "pointer")
  /\ store' = [store EXCEPT ![s].manifest = TRUE]
  /\ UNCHANGED <<managed, origin, checkout, pinned, row, pointer, task, faults>>

MovePointer(s) ==
  /\ sync[s].stage = "pointer" /\ Goes(s, "record")
  /\ pointer' = s
  /\ UNCHANGED <<managed, origin, checkout, pinned, row, store, task, faults>>

PublishFails(s) ==
  /\ Fault /\ sync[s].stage \in {"config", "manifest", "pointer"}
  /\ sync' = [sync EXCEPT ![s].stage = "record", ![s].failed = TRUE]
  /\ UNCHANGED <<managed, origin, checkout, pinned, row, store, pointer, task>>

Record(s) ==
  /\ sync[s].stage = "record" /\ Goes(s, "done")
  /\ row' = [ref |-> sync[s].ref, commit |-> sync[s].commit,
             status |-> IF sync[s].failed THEN "error" ELSE "ok"]
  /\ UNCHANGED <<managed, origin, checkout, pinned, store, pointer, task,
                 faults>>

(* The process that syncs is stopped: nothing is recorded. *)
Crash(s) ==
  /\ Fault /\ Active(s)
  /\ sync' = [sync EXCEPT ![s].stage = "done", ![s].failed = TRUE]
  /\ UNCHANGED <<managed, origin, checkout, pinned, row, store, pointer, task>>

-----------------------------------------------------------------------------
(* Launching a task *)

(* The pointer and the manifest it names are read once. *)
ReadPointer(t, w) ==
  /\ task[t].stage = "queued"
  /\ task' = [task EXCEPT ![t].stage = "release", ![t].workflow = w,
                          ![t].release = pointer]
  /\ UNCHANGED <<managed, origin, checkout, pinned, row, sync, store, pointer,
                 faults>>

\* Mutant: the pointer is read again for the configuration.
ConfigReleaseAgain(t) == pointer

(* Where there was no release, the pointer is read a second time. *)
ConfigRelease(t) == IF task[t].release # None THEN task[t].release ELSE pointer

ReadConfig(t) ==
  /\ task[t].stage = "release"
  /\ task' = [task EXCEPT ![t].stage = "config",
       ![t].config = IF ConfigRelease(t) = None THEN None
                     ELSE store[ConfigRelease(t)].config]
  /\ UNCHANGED <<managed, origin, checkout, pinned, row, sync, store, pointer,
                 faults>>

(* Without a release the launch has no bundle. *)
ReadBundle(t) ==
  /\ task[t].stage = "config"
  /\ task' = [task EXCEPT ![t].stage = "launched",
       ![t].bundle = IF task[t].release = None THEN None
                     ELSE store[task[t].release].bundles[task[t].workflow]]
  /\ UNCHANGED <<managed, origin, checkout, pinned, row, sync, store, pointer,
                 faults>>

-----------------------------------------------------------------------------
Next ==
  \/ \E r \in Refs, c \in Commits : Push(r, c)
  \/ \E r \in Refs : Pin(r)
  \/ Rediscover
  \/ \E s \in Syncs :
       \/ \E r \in Refs : StartManaged(s, r)
       \/ StartUnmanaged(s) \/ Fetch(s) \/ Discover(s) \/ Label(s)
       \/ \E w \in Workflows : Build(s, w)
       \/ Built(s) \/ PublishConfig(s) \/ PublishManifest(s) \/ MovePointer(s)
       \/ PublishFails(s) \/ Record(s) \/ Crash(s)
  \/ \E t \in Tasks :
       \/ \E w \in Workflows : ReadPointer(t, w)
       \/ ReadConfig(t) \/ ReadBundle(t)

Spec == Init /\ [][Next]_vars

-----------------------------------------------------------------------------
(* The active pointer names a release that is all there, and in a managed   *)
(* instance all of one commit, the one it is named for.                      *)
PointerComplete ==
  pointer # None =>
    /\ store[pointer].manifest /\ store[pointer].config # None
    /\ \A w \in Workflows : store[pointer].bundles[w] # None
    /\ managed => {store[pointer].config}
                    \cup {store[pointer].bundles[w] : w \in Workflows}
                    = {sync[pointer].commit}

(* A launch that found a release runs the bundle and the configuration of   *)
(* that release, however often the pointer moves meanwhile.                  *)
LaunchWhole ==
  \A t \in Tasks :
    LET r == task[t].release IN
    task[t].stage = "launched" /\ r # None =>
      /\ task[t].bundle = store[r].bundles[task[t].workflow]
      /\ task[t].config = store[r].config
      /\ None \notin {task[t].bundle, task[t].config}

(* "Activation uploads a complete release before advancing its active       *)
(* pointer; new tasks use that immutable release" (docs/deployment.md:665). *)
ReleasesHold == PointerComplete /\ LaunchWhole

(* "A UI pin overrides it until changed" (docs/configuration.md:34, of the  *)
(* default ref): a sync of a tag that reports success has released the      *)
(* commit of that tag.                                                       *)
PinOverrides ==
  row.status = "ok" /\ row.ref \in Tags => row.commit = origin[row.ref]

-----------------------------------------------------------------------------
(* What the properties rest on *)

Stages == {"idle", "fetch", "discover", "label", "build", "config", "manifest", "pointer",
           "record", "done"}

SyncType    == [stage : Stages, ref : Refs \cup {None}, commit : Commits \cup {None},
                todo : SUBSET Workflows, failed : BOOLEAN]
ReleaseType == [bundles : [Workflows -> Commits \cup {None}], config : Commits \cup {None},
                manifest : BOOLEAN]
TaskType    == [stage : {"queued", "release", "config", "launched"},
                workflow : Workflows \cup {None}, release : Syncs \cup {None},
                config : Commits \cup {None}, bundle : Commits \cup {None}]

\* What the proof reads has its type; what is checked out is a commit.
TypeOK ==
  /\ managed \in BOOLEAN /\ origin \in [Refs -> Commits] /\ checkout \in Commits
  /\ pinned \in Refs \cup {None} /\ pointer \in Syncs \cup {None}
  /\ sync \in [Syncs -> SyncType]
  /\ store \in [Syncs -> ReleaseType]
  /\ task \in [Tasks -> TaskType]

\* Whether the bundle of w of release s is in place, and of the release's commit where
\* a deployment owns the checkout.
BundleIn(s, w) ==
  store[s].bundles[w] # None /\ (managed => store[s].bundles[w] = sync[s].commit)
ConfigIn(s) ==
  store[s].config # None /\ (managed => store[s].config = sync[s].commit)

\* A managed checkout stays at the commit of the sync that is active.
CheckoutInv ==
  managed =>
    \A s \in Syncs :
      /\ sync[s].stage # "fetch"
      /\ sync[s].stage \in {"build", "config", "manifest", "pointer"} =>
           sync[s].commit = checkout

\* What a sync has put into the store when it is at a stage.
BuildInv ==
  \A s \in Syncs :
    /\ sync[s].stage = "build" /\ ~sync[s].failed =>
         \A w \in Workflows \ sync[s].todo : BundleIn(s, w)
    /\ sync[s].stage \in {"config", "manifest", "pointer"} => \A w \in Workflows : BundleIn(s, w)
    /\ sync[s].stage \in {"manifest", "pointer"} => ConfigIn(s)
    /\ sync[s].stage = "pointer" => store[s].manifest

\* A release that is all there and that no sync works on any more.
Published(s) ==
  /\ s \in Syncs /\ sync[s].stage \in {"record", "done"}
  /\ store[s].manifest /\ ConfigIn(s) /\ \A w \in Workflows : BundleIn(s, w)

PointerInv == pointer # None => Published(pointer)

TaskInv ==
  \A t \in Tasks :
    task[t].release # None =>
      /\ Published(task[t].release)
      /\ task[t].workflow \in Workflows
      /\ task[t].stage \in {"config", "launched"} => task[t].config = store[task[t].release].config
      /\ task[t].stage = "launched" =>
           task[t].bundle = store[task[t].release].bundles[task[t].workflow]

\* The inductive invariant of the releases.
ReleaseInv == TypeOK /\ CheckoutInv /\ BuildInv /\ PointerInv /\ TaskInv
=============================================================================
