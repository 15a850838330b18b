------------------------- MODULE KnowledgeSyncProofs -------------------------
(***************************************************************************)
(* For every number of indexers, runs, versions, revisions and             *)
(* configurations of a source: the version that is served is complete, but *)
(* for what a failed pruning took from it, and a finished run keeps its    *)
(* result, unless it was failed as stale while its sync went on.           *)
(***************************************************************************)
EXTENDS KnowledgeSync, TLAPS

USE DEF histories

-----------------------------------------------------------------------------
(* Types.                                                                  *)

\* The local state of an indexer between two syncs.
LEMMA RestingType ==
    ASSUME NEW p \in {"down", "poll", "serve"}, NEW t \in SUBSET Run
    PROVE  Resting(p, t) \in Local
BY DEF Resting, Local

\* Moving to another place keeps the local state's type.
LEMMA GotoType ==
    ASSUME TypeOK, NEW w \in Worker,
           NEW p \in {"down", "poll", "queue", "list", "serve", "claim", "reject",
                "resolve", "extract", "bundle", "publish", "upload", "promote",
                "configure", "build", "commit"},
           Goto(w, p)
    PROVE  wk' \in [Worker -> Local]
<1>1. [wk[w] EXCEPT !.pc = p] \in Local
  BY DEF TypeOK, Local
<1> QED BY <1>1 DEF TypeOK, Goto

\* The end of a sync or of a process keeps the types of wk and lock.
LEMMA EndType ==
    ASSUME TypeOK, NEW w \in Worker, EndSync(w) \/ EndWorker(w)
    PROVE  wk' \in [Worker -> Local] /\ lock' \in Worker \union {Housekeeper, None}
<1>1. wk[w].todo \ {wk[w].job} \in SUBSET Run
  BY DEF TypeOK, Local
<1>2. \E l \in Local : wk' = [wk EXCEPT ![w] = l]
  BY <1>1, RestingType DEF EndSync, EndWorker
<1> QED BY <1>2 DEF TypeOK, EndSync, EndWorker, Unlocked

LEMMA WriteRunType ==
    ASSUME TypeOK, NEW w \in Worker, NEW s \in RunStatus, WriteRun(w, s)
    PROVE  runs' \in [Run -> RunStatus] /\ expired' \subseteq Run
BY DEF TypeOK, WriteRun

LEMMA LoopTypes ==
    ASSUME TypeOK, NEW w \in Worker, WorkerStart(w) \/ Loop(w) \/ BuildBeat(w) \/ Crash(w)
    PROVE  TypeOK'
<1> USE DEF RunStatus, Terminal, Active
<1>1. CASE WorkerStart(w)
  <2>1. wk' \in [Worker -> Local]
    BY <1>1, GotoType DEF WorkerStart
  <2>2. runs' \in [Run -> RunStatus]
    BY <1>1 DEF WorkerStart, TypeOK
  <2> QED BY <1>1, <2>1, <2>2 DEF WorkerStart, TypeOK
<1>2. CASE ReadDue(w)
  <2>1. wk' \in [Worker -> Local]
    BY <1>2, GotoType DEF ReadDue
  <2> QED BY <1>2, <2>1 DEF ReadDue, TypeOK
<1>3. CASE QueueDue(w)
  <2>1. wk' \in [Worker -> Local]
    BY <1>3, GotoType DEF QueueDue
  <2>2. runs' \in [Run -> RunStatus] /\ due' \in BOOLEAN
    BY <1>3 DEF QueueDue, TypeOK
  <2> QED BY <1>3, <2>1, <2>2 DEF QueueDue, TypeOK
<1>4. CASE ListQueued(w)
  <2>1. \E l \in Local : wk' = [wk EXCEPT ![w] = l]
    BY <1>4, RestingType DEF ListQueued
  <2> QED BY <1>4, <2>1 DEF ListQueued, TypeOK
<1>5. CASE NextPoll(w)
  <2>1. wk' \in [Worker -> Local]
    BY <1>5, GotoType DEF NextPoll
  <2> QED BY <1>5, <2>1 DEF NextPoll, TypeOK
<1>6. CASE TryLock(w)
  <2> DEFINE l(r) == [wk[w] EXCEPT !.pc = "claim", !.job = r, !.fresh = TRUE,
                         !.enabled = source.enabled, !.config = source.config]
  <2>1. \E r \in wk[w].todo : wk' = [wk EXCEPT ![w] = l(r)]
    BY <1>6 DEF TryLock
  <2>2. ASSUME NEW r \in wk[w].todo PROVE l(r) \in Local
    <3>1. wk[w] \in Local /\ source.enabled \in BOOLEAN /\ source.config \in Config
      BY DEF TypeOK
    <3>2. r \in Run
      BY <3>1 DEF Local
    <3> QED BY <3>1, <3>2 DEF Local
  <2> HIDE DEF l
  <2>3. wk' \in [Worker -> Local]
    BY <2>1, <2>2 DEF TypeOK
  <2> QED BY <1>6, <2>3 DEF TryLock, TypeOK
<1>7. CASE Busy(w)
  <2> DEFINE l(r) == [wk[w] EXCEPT !.todo = @ \ {r}]
  <2>1. \E r \in wk[w].todo : wk' = [wk EXCEPT ![w] = l(r)]
    BY <1>7 DEF Busy
  <2>2. ASSUME NEW r \in wk[w].todo PROVE l(r) \in Local
    <3>1. wk[w] \in Local
      BY DEF TypeOK
    <3>2. wk[w].todo \ {r} \in SUBSET Run
      BY <3>1 DEF Local
    <3> QED BY <3>1, <3>2 DEF Local
  <2> HIDE DEF l
  <2>3. wk' \in [Worker -> Local]
    BY <2>1, <2>2 DEF TypeOK
  <2> QED BY <1>7, <2>3 DEF Busy, TypeOK
<1>8. CASE Claim(w)
  <2>1. CASE runs[wk[w].job] = "queued"
    <3>1. wk' \in [Worker -> Local]
      BY <1>8, <2>1, GotoType DEF Claim, FirstPhase
    <3> QED BY <1>8, <2>1, <3>1, WriteRunType DEF Claim, TypeOK
  <2>2. CASE runs[wk[w].job] # "queued"
    BY <1>8, <2>2, EndType DEF Claim, TypeOK
  <2> QED BY <2>1, <2>2
<1>9. CASE Reject(w)
  BY <1>9, EndType, WriteRunType DEF Reject, TypeOK
<1>10. CASE BuildBeat(w)
  BY <1>10 DEF BuildBeat, TypeOK
<1>11. CASE Crash(w)
  BY <1>11, EndType, KnowledgeSyncAssumption DEF Crash, TypeOK
<1> QED BY <1>1, <1>2, <1>3, <1>4, <1>5, <1>6, <1>7, <1>8, <1>9, <1>10, <1>11 DEF Loop

\* Pointing the source at a version, and changing the status of a row.
LEMMA SourceType ==
    ASSUME TypeOK, NEW v \in Version, NEW b \in BOOLEAN
    PROVE  /\ [source EXCEPT !.current = v] \in
                 [kind : Kinds, enabled : BOOLEAN, config : Config,
                  current : Version \union {None}, suspended : BOOLEAN]
           /\ [source EXCEPT !.current = v, !.suspended = b] \in
                 [kind : Kinds, enabled : BOOLEAN, config : Config,
                  current : Version \union {None}, suspended : BOOLEAN]
BY DEF TypeOK

LEMMA VersionType ==
    ASSUME TypeOK, NEW v, NEW s \in VersionStatus
    PROVE  [versions EXCEPT ![v].status = s] \in
                 [Version -> [status : VersionStatus, key : Key \union {None}]]
<1>1. CASE v \in Version
  <2>1. [versions[v] EXCEPT !.status = s] \in [status : VersionStatus, key : Key \union {None}]
    BY <1>1 DEF TypeOK
  <2> QED BY <2>1 DEF TypeOK
<1>2. CASE v \notin Version
  BY <1>2 DEF TypeOK
<1> QED BY <1>1, <1>2

LEMMA CodeGraphTypes ==
    ASSUME TypeOK, NEW w \in Worker, OwnVersion(w), CodeGraph(w)
    PROVE  TypeOK'
<1> USE DEF RunStatus, Terminal, Active, VersionStatus
<1>1. CASE SkipUnchanged(w)
  <2>1. PICK v \in Version : source' = [source EXCEPT !.current = v]
    BY <1>1 DEF SkipUnchanged, Rows
  <2> QED BY <1>1, <2>1, SourceType, EndType, WriteRunType DEF SkipUnchanged, TypeOK
<1>2. CASE StartVersion(w)
  <2> DEFINE k == <<head, wk[w].config>>
             l(v) == [wk[w] EXCEPT !.pc = "extract", !.ver = v, !.key = k]
  <2>1. PICK v \in Version : /\ versions' = [versions EXCEPT ![v] = [status |-> "running", key |-> k]]
                             /\ wk' = [wk EXCEPT ![w] = l(v)]
    BY <1>2 DEF StartVersion, Targets, Rows, Unused
  <2>2. wk[w] \in Local /\ head \in Commit
    BY DEF TypeOK
  <2>3. k \in Key
    BY <1>2, <2>2 DEF StartVersion, Key, OwnVersion, AtRest
  <2>4. l(v) \in Local
    BY <2>2, <2>3 DEF Local
  <2>5. wk' \in [Worker -> Local]
    <3> HIDE DEF l
    <3> QED BY <2>1, <2>4 DEF TypeOK
  <2>6. versions' \in [Version -> [status : VersionStatus, key : Key \union {None}]]
    BY <2>1, <2>3 DEF TypeOK
  <2> QED BY <1>2, <2>5, <2>6 DEF StartVersion, TypeOK
<1>3. CASE ResolveFails(w)
  BY <1>3, EndType, WriteRunType DEF ResolveFails, TypeOK
<1>4. CASE StartPhase(w)
  <2>1. CASE Beats(w)
    <3>1. wk' \in [Worker -> Local]
      BY <1>4, <2>1, GotoType DEF StartPhase, NextPhase
    <3> QED BY <1>4, <2>1, <3>1 DEF StartPhase, TypeOK
  <2>2. CASE ~Beats(w)
    BY <1>4, <2>2, EndType DEF StartPhase, TypeOK
  <2> QED BY <2>1, <2>2, <1>4
<1>5. CASE Publish(w)
  <2>1. wk' \in [Worker -> Local]
    BY <1>5, GotoType DEF Publish
  <2>2. published' \subseteq Key
    BY <1>5 DEF Publish, TypeOK, OwnVersion
  <2> QED BY <1>5, <2>1, <2>2 DEF Publish, TypeOK
<1>6. CASE Promote(w)
  <2>1. wk[w].ver \in Version
    BY <1>6 DEF Promote, OwnVersion
  <2> QED BY <1>6, <2>1, SourceType, VersionType, EndType, WriteRunType DEF Promote, TypeOK
<1>7. CASE VersionFails(w)
  BY <1>7, VersionType, EndType, WriteRunType DEF VersionFails, TypeOK
<1> QED BY <1>1, <1>2, <1>3, <1>4, <1>5, <1>6, <1>7 DEF CodeGraph

\* A failed hybrid sync.
LEMMA FailureTypes ==
    ASSUME TypeOK, NEW w \in Worker, NEW b \in BOOLEAN, HybridFailure(w, b)
    PROVE  TypeOK'
<1> USE DEF RunStatus, Terminal, Active, VersionStatus
<1>1. CASE Beats(w)
  <2>1. source' \in [kind : Kinds, enabled : BOOLEAN, config : Config,
                     current : Version \union {None}, suspended : BOOLEAN]
    BY <1>1 DEF HybridFailure, TypeOK, Local
  <2>2. versions' \in [Version -> [status : VersionStatus, key : Key \union {None}]]
    <3> DEFINE f == [versions EXCEPT ![wk[w].ver].status = "failed"]
    <3>1. versions' = versions \/ versions' = f
      BY <1>1 DEF HybridFailure
    <3>2. f \in [Version -> [status : VersionStatus, key : Key \union {None}]]
      BY VersionType
    <3> HIDE DEF f
    <3> QED BY <3>1, <3>2 DEF TypeOK
  <2> QED BY <1>1, <2>1, <2>2, EndType, WriteRunType DEF HybridFailure, TypeOK
<1>2. CASE ~Beats(w)
  BY <1>2, EndType DEF HybridFailure, TypeOK
<1> QED BY <1>1, <1>2

LEMMA HybridTypes ==
    ASSUME TypeOK, NEW w \in Worker, OwnVersion(w), Hybrid(w)
    PROVE  TypeOK'
<1> USE DEF RunStatus, Terminal, Active, VersionStatus
<1>1. CASE Configure(w)
  <2> DEFINE l(v) == [wk[w] EXCEPT !.pc = "build", !.ver = v]
  <2>1. PICK v \in Version : /\ versions' = [versions EXCEPT ![v].status = "pending"]
                             /\ wk' = [wk EXCEPT ![w] = l(v)]
    BY <1>1 DEF Configure, Unused
  <2>2. l(v) \in Local
    <3>1. wk[w] \in Local
      BY DEF TypeOK
    <3> QED BY <3>1 DEF Local
  <2>3. wk' \in [Worker -> Local]
    <3> HIDE DEF l
    <3> QED BY <2>1, <2>2 DEF TypeOK
  <2> QED BY <1>1, <2>1, <2>3, VersionType DEF Configure, TypeOK
<1>2. CASE BuildDone(w)
  <2> DEFINE k == <<head, wk[w].config>>
             l == [wk[w] EXCEPT !.pc = "commit", !.key = k]
  <2>1. k \in Key
    BY <1>2 DEF BuildDone, Key, OwnVersion, AtRest, TypeOK
  <2>2. l \in Local
    <3>1. wk[w] \in Local
      BY DEF TypeOK
    <3> QED BY <2>1, <3>1 DEF Local
  <2>3. wk' \in [Worker -> Local]
    <3>1. wk' = [wk EXCEPT ![w] = l]
      BY <1>2 DEF BuildDone
    <3> HIDE DEF l
    <3> QED BY <3>1, <2>2 DEF TypeOK
  <2> QED BY <1>2, <2>3 DEF BuildDone, TypeOK
<1>3. CASE BuildFails(w)
  BY <1>3, FailureTypes DEF BuildFails
<1>4. CASE RootRevoked(w)
  BY <1>4, FailureTypes DEF RootRevoked
<1>5. CASE EditedMeanwhile(w)
  BY <1>5, FailureTypes DEF EditedMeanwhile
<1>6. CASE PromoteHybrid(w)
  <2> DEFINE V == [status : VersionStatus, key : Key \union {None}]
             row(v) == [u \in Version |->
                IF u = v THEN [status |-> "succeeded", key |-> wk[w].key]
                ELSE IF u = wk[w].ver THEN NoVersion ELSE versions[u]]
  <2>1. wk[w].ver \in Version /\ wk[w].key \in Key
    BY <1>6 DEF PromoteHybrid, OwnVersion
  <2>2. PICK v \in Version :
            /\ versions' = row(v)
            /\ source' = [source EXCEPT !.current = v, !.suspended = FALSE]
            /\ WriteRun(w, IF versions[v].status = "succeeded" THEN "skipped" ELSE "succeeded")
    BY <1>6, <2>1 DEF PromoteHybrid, Rows
  <2>3. versions' \in [Version -> V]
    BY <2>1, <2>2 DEF TypeOK, NoVersion
  <2>4. runs' \in [Run -> RunStatus] /\ expired' \subseteq Run
    BY <2>2, WriteRunType
  <2> QED BY <1>6, <2>2, <2>3, <2>4, SourceType, EndType DEF PromoteHybrid, TypeOK
<1> QED BY <1>1, <1>2, <1>3, <1>4, <1>5, <1>6 DEF Hybrid

\* The gateway, housekeeping and the environment.
LEMMA OtherTypes ==
    ASSUME TypeOK, Operator \/ Prune \/ Environment
    PROVE  TypeOK'
<1> USE DEF RunStatus, Terminal, Active, VersionStatus
<1>1. ASSUME NEW b \in BOOLEAN, NEW c \in Config, EditBegin(b, c) PROVE TypeOK'
  BY <1>1 DEF EditBegin, TypeOK
<1>2. CASE EditCommit
  <2>1. edit \in [enabled : BOOLEAN, config : Config]
    BY <1>2 DEF EditCommit, TypeOK
  <2>2. source' \in [kind : Kinds, enabled : BOOLEAN, config : Config,
                     current : Version \union {None}, suspended : BOOLEAN]
    BY <1>2, <2>1 DEF EditCommit, TypeOK
  <2>3. ASSUME NEW u \in Worker PROVE [wk[u] EXCEPT !.fresh = FALSE] \in Local
    <3>1. wk[u] \in Local
      BY DEF TypeOK
    <3> QED BY <3>1 DEF Local
  <2>4. wk' \in [Worker -> Local]
    BY <1>2, <2>3 DEF EditCommit
  <2> QED BY <1>2, <2>2, <2>4 DEF EditCommit, TypeOK
<1>3. CASE QueueManual
  BY <1>3 DEF QueueManual, TypeOK
<1>4. CASE PruneObjects
  <2>1. \E failing \in SUBSET Stored, damaged \in SUBSET Stored, K \in SUBSET published :
            victims' = Prunable \ failing /\ published' = K /\ halfPruned' = halfPruned \union damaged
    BY <1>4 DEF PruneObjects
  <2> QED BY <1>4, <2>1 DEF PruneObjects, TypeOK, Prunable, Stored
<1>5. CASE PruneCommit
  BY <1>5 DEF PruneCommit, TypeOK, NoVersion
<1>6. CASE PruneDies
  BY <1>6 DEF PruneDies, TypeOK
<1>7. CASE Environment
  BY <1>7 DEF Environment, IntervalElapses, UpstreamMoves, HeartbeatAges, TypeOK
<1> QED BY <1>1, <1>2, <1>3, <1>4, <1>5, <1>6, <1>7 DEF Operator, Prune

LEMMA TypesKept ==
    ASSUME TypeOK, SyncInv, [Next]_vars
    PROVE  TypeOK'
<1>1. CASE UNCHANGED vars
  BY <1>1 DEF vars, TypeOK
<1> QED
  BY <1>1, LoopTypes, CodeGraphTypes, HybridTypes, OtherTypes DEF Next, Advance, SyncInv

-----------------------------------------------------------------------------
(* The served version.                                                     *)

\* SyncInv is inductive together with the property it is for.
ServedInv == TypeOK /\ SyncInv /\ CurrentServable

\* The parts of an indexer's state that the invariants read are as they were.
SameWork(u) ==
    /\ wk'[u].pc = wk[u].pc
    /\ wk'[u].job = wk[u].job
    /\ wk'[u].config = wk[u].config
    /\ wk'[u].ver = wk[u].ver
    /\ wk'[u].key = wk[u].key

\* An indexer at rest needs only that the lock is not recorded as its own.
LEMMA RestOwn ==
    ASSUME NEW u \in Worker, AtRest(u)', wk'[u].ver = None, lock' # u
    PROVE  OwnVersion(u)'
BY DEF OwnVersion, AtRest, Pc

LEMMA SameRest ==
    ASSUME NEW u \in Worker, AtRest(u), SameWork(u)
    PROVE  AtRest(u)'
BY DEF AtRest, Pc, SameWork

LEMMA SameOwn ==
    ASSUME NEW u \in Worker, OwnVersion(u), SameWork(u), lock' = u <=> lock = u,
           versions' = versions, published \subseteq published', source'.kind = source.kind
    PROVE  OwnVersion(u)'
BY DEF OwnVersion, AtRest, Pc, SameWork

\* A step of one indexer that changes only its own local state.
LEMMA OthersSame ==
    ASSUME TypeOK, NEW w \in Worker, NEW l, wk' = [wk EXCEPT ![w] = l]
    PROVE  /\ wk'[w] = l
           /\ \A u \in Worker \ {w} : SameWork(u)
BY DEF TypeOK, SameWork

\* A sync in progress excludes every other one, and housekeeping.
LEMMA BusyAlone ==
    ASSUME TypeOK, SyncInv, NEW w \in Worker, ~AtRest(w)
    PROVE  /\ lock = w /\ lock # Housekeeper /\ lock # None
           /\ victims = {}
           /\ \A u \in Worker \ {w} : AtRest(u)
BY KnowledgeSyncAssumption, ZenonT(60) DEF SyncInv, OwnVersion, RowsInv

\* Everybody is at rest while nobody, or housekeeping, has the lock.
LEMMA AllRest ==
    ASSUME SyncInv, lock \notin Worker
    PROVE  \A u \in Worker : AtRest(u)
BY DEF SyncInv, OwnVersion

\* Going to another place of the loop changes only the place.
LEMMA GotoOwn ==
    ASSUME TypeOK, NEW w \in Worker, NEW p, Goto(w, p)
    PROVE  /\ wk'[w] = [wk[w] EXCEPT !.pc = p]
           /\ wk'[w].pc = p /\ wk'[w].config = wk[w].config /\ wk'[w].job = wk[w].job
           /\ wk'[w].ver = wk[w].ver /\ wk'[w].key = wk[w].key
           /\ \A u \in Worker \ {w} : SameWork(u)
<1>1. wk[w] \in Local /\ wk' = [wk EXCEPT ![w] = [wk[w] EXCEPT !.pc = p]]
  BY DEF TypeOK, Goto
<1>2. wk'[w] = [wk[w] EXCEPT !.pc = p]
  BY <1>1, OthersSame
<1>3. /\ wk'[w].pc = p /\ wk'[w].config = wk[w].config /\ wk'[w].job = wk[w].job
      /\ wk'[w].ver = wk[w].ver /\ wk'[w].key = wk[w].key
  BY <1>1, <1>2 DEF Local
<1>4. \A u \in Worker \ {w} : SameWork(u)
  BY <1>1, OthersSame
<1> QED BY <1>2, <1>3, <1>4

\* A step of the sync in progress leaves the others at rest.
LEMMA OthersRest ==
    ASSUME TypeOK, SyncInv, NEW w \in Worker, ~AtRest(w), lock' \in {w, None},
           \A u \in Worker \ {w} : SameWork(u)
    PROVE  \A u \in Worker \ {w} : OwnVersion(u)'
<1> SUFFICES ASSUME NEW u \in Worker \ {w} PROVE OwnVersion(u)'
  OBVIOUS
<1>1. AtRest(u)' /\ lock' # u
  BY BusyAlone, SameRest, KnowledgeSyncAssumption
<1>2. wk'[u].ver = None
  BY BusyAlone DEF SameWork, SyncInv, OwnVersion
<1> QED BY <1>1, <1>2, RestOwn

\* The end of a sync leaves everybody at rest.
LEMMA EndOwn ==
    ASSUME TypeOK, SyncInv, NEW w \in Worker, ~AtRest(w), EndSync(w) \/ EndWorker(w)
    PROVE  \A u \in Worker : OwnVersion(u)'
<1>1. lock' = None
  BY BusyAlone DEF EndSync, EndWorker, Unlocked
<1>2. /\ wk'[w].pc \in {"serve", "down"} /\ wk'[w].ver = None
      /\ \A u \in Worker \ {w} : SameWork(u)
  BY OthersSame DEF EndSync, EndWorker, Resting
<1>3. OwnVersion(w)'
  BY <1>1, <1>2, RestOwn, KnowledgeSyncAssumption DEF AtRest, Pc
<1> QED BY <1>1, <1>2, <1>3, OthersRest

\* A step that leaves the rows and the pointer alone and loses no bundle.
LEMMA RowsFrame ==
    ASSUME SyncInv, CurrentServable, UNCHANGED <<versions, victims, halfPruned>>,
           published \subseteq published', source'.kind = source.kind,
           source'.current = source.current, lock = Housekeeper => lock' = Housekeeper
    PROVE  RowsInv' /\ BundlesInv' /\ CurrentServable'
BY DEF SyncInv, RowsInv, BundlesInv, CurrentServable

\* An indexer at rest that does not take the lock stays at rest.
LEMMA LoopRest ==
    ASSUME TypeOK, SyncInv, NEW w \in Worker, AtRest(w), lock' = lock,
           WorkerStart(w) \/ Loop(w) \/ BuildBeat(w) \/ Crash(w)
    PROVE  /\ wk'[w].pc \in {"down", "poll", "queue", "list", "serve"} /\ wk'[w].ver = None
           /\ \A u \in Worker \ {w} : SameWork(u)
<1>1. wk[w].ver = None /\ lock # w
  BY DEF SyncInv, OwnVersion
<1>2. CASE WorkerStart(w)
  BY <1>1, <1>2, GotoOwn DEF WorkerStart
<1>3. CASE ReadDue(w) \/ QueueDue(w) \/ NextPoll(w)
  <2>1. \E p \in {"queue", "list", "poll"} : Goto(w, p)
    BY <1>3 DEF ReadDue, QueueDue, NextPoll
  <2> QED BY <1>1, <2>1, GotoOwn
<1>4. CASE ListQueued(w) \/ Crash(w)
  BY <1>4, OthersSame DEF ListQueued, Crash, EndWorker, Resting
<1>5. CASE Busy(w)
  <2>1. PICK r \in wk[w].todo : wk' = [wk EXCEPT ![w] = [wk[w] EXCEPT !.todo = @ \ {r}]]
    BY <1>5 DEF Busy, TypeOK
  <2>2. wk'[w] = [wk[w] EXCEPT !.todo = @ \ {r}]
    BY <2>1, OthersSame
  <2>3. wk'[w].pc = wk[w].pc /\ wk'[w].ver = wk[w].ver
    BY <2>2 DEF TypeOK, Local
  <2> QED BY <1>1, <1>5, <2>1, <2>3, OthersSame DEF Busy, Pc
<1>6. ~TryLock(w)
  BY KnowledgeSyncAssumption DEF TryLock
<1> QED BY <1>2, <1>3, <1>4, <1>5, <1>6 DEF Loop, Claim, Reject, BuildBeat, AtRest

LEMMA LoopStep ==
    ASSUME ServedInv, NEW w \in Worker, WorkerStart(w) \/ Loop(w) \/ BuildBeat(w) \/ Crash(w)
    PROVE  SyncInv' /\ CurrentServable'
<1> USE DEF ServedInv
<1>1. /\ UNCHANGED <<source, versions, published, victims, halfPruned>>
      /\ lock = Housekeeper => lock' = Housekeeper
  <2>1. UNCHANGED <<source, versions, published, victims, halfPruned>>
    BY DEF WorkerStart, Loop, ReadDue, QueueDue, ListQueued, NextPoll, TryLock, Busy, Claim,
           Reject, BuildBeat, Crash
  <2>2. CASE AtRest(w)
    <3>1. lock' = lock \/ lock = None
      BY <2>2 DEF WorkerStart, Loop, ReadDue, QueueDue, ListQueued, NextPoll, TryLock, Busy,
           Claim, Reject, BuildBeat, Crash, AtRest, EndWorker, Unlocked, SyncInv, OwnVersion
    <3> QED BY <2>1, <3>1, KnowledgeSyncAssumption
  <2>3. CASE ~AtRest(w)
    BY <2>1, <2>3, BusyAlone
  <2> QED BY <2>2, <2>3
<1>2. RowsInv' /\ BundlesInv' /\ CurrentServable'
  BY <1>1, RowsFrame
<1>3. CASE AtRest(w) /\ lock' = lock
  <2>1. wk[w].ver = None /\ lock # w
    BY <1>3 DEF SyncInv, OwnVersion
  <2>2. /\ wk'[w].pc \in {"down", "poll", "queue", "list", "serve"} /\ wk'[w].ver = None
        /\ \A u \in Worker \ {w} : SameWork(u)
    BY <1>3, LoopRest
  <2>3. OwnVersion(w)'
    BY <1>3, <2>1, <2>2, RestOwn DEF AtRest, Pc
  <2>4. \A u \in Worker \ {w} : OwnVersion(u)'
    BY <1>1, <1>3, <2>2, SameOwn DEF SyncInv
  <2> QED BY <1>2, <2>3, <2>4 DEF SyncInv
<1>4. CASE AtRest(w) /\ lock' # lock
  <2>1. TryLock(w)
    BY <1>4 DEF WorkerStart, Loop, ReadDue, QueueDue, ListQueued, NextPoll, Busy,
           Claim, Reject, BuildBeat, Crash, AtRest, EndWorker, Unlocked, SyncInv, OwnVersion
  <2>2. wk[w].ver = None /\ source.config \in Config /\ wk[w] \in Local
    BY <1>4 DEF SyncInv, OwnVersion, TypeOK
  <2>3. /\ wk'[w].pc = "claim" /\ wk'[w].config = source.config /\ wk'[w].ver = None
        /\ \A u \in Worker \ {w} : SameWork(u)
    <3>1. PICK r : wk' = [wk EXCEPT ![w] = [wk[w] EXCEPT
                  !.pc = "claim", !.job = r, !.fresh = TRUE,
                  !.enabled = source.enabled, !.config = source.config]]
      BY <2>1 DEF TryLock, TypeOK
    <3>2. wk'[w] = [wk[w] EXCEPT
                  !.pc = "claim", !.job = r, !.fresh = TRUE,
                  !.enabled = source.enabled, !.config = source.config]
      BY <3>1, OthersSame
    <3>3. wk'[w].pc = "claim" /\ wk'[w].config = source.config /\ wk'[w].ver = wk[w].ver
      BY <2>2, <3>2 DEF Local
    <3> QED BY <2>2, <3>1, <3>3, OthersSame
  <2>4. lock = None /\ lock' = w
    BY <2>1 DEF TryLock
  <2>5. OwnVersion(w)'
    BY <2>2, <2>3, <2>4 DEF OwnVersion, AtRest, Pc
  <2>6. ASSUME NEW u \in Worker \ {w} PROVE OwnVersion(u)'
    <3>1. lock' = u <=> lock = u
      BY <2>4, KnowledgeSyncAssumption
    <3> QED BY <1>1, <2>3, <3>1, SameOwn DEF SyncInv
  <2> QED BY <1>2, <2>5, <2>6 DEF SyncInv
<1>5. CASE ~AtRest(w)
  <2>1. CASE Reject(w) \/ Crash(w) \/ (Claim(w) /\ EndSync(w))
    <3>1. EndSync(w) \/ EndWorker(w)
      BY <2>1 DEF Reject, Crash
    <3> QED BY <1>2, <1>5, <3>1, EndOwn DEF SyncInv
  <2>2. CASE Claim(w) /\ ~EndSync(w)
    <3>1. PICK p \in {"resolve", "configure", "reject"} :
              /\ Goto(w, p)
              /\ p = "configure" => source.kind = "hybrid_vector"
      BY <2>2, KnowledgeSyncAssumption DEF Claim, FirstPhase, TypeOK
    <3>2. lock' = lock /\ lock = w
      BY <1>5, <2>2, BusyAlone DEF Claim
    <3>3. wk[w].ver = None /\ wk[w].config \in Config
      BY <1>5, <2>2 DEF Claim, SyncInv, OwnVersion
    <3>4. OwnVersion(w)'
      BY <1>1, <3>1, <3>2, <3>3, GotoOwn DEF OwnVersion, AtRest, Pc
    <3> QED BY <1>2, <1>5, <3>1, <3>2, <3>4, GotoOwn, OthersRest DEF SyncInv
  <2>3. CASE BuildBeat(w)
    <3>1. \A u \in Worker : SameWork(u)
      BY <2>3 DEF BuildBeat, SameWork
    <3>2. lock' = lock
      BY <2>3 DEF BuildBeat
    <3> QED BY <1>1, <1>2, <3>1, <3>2, SameOwn DEF SyncInv
  <2> QED
    BY <1>5, <2>1, <2>2, <2>3 DEF WorkerStart, Loop, ReadDue, QueueDue, ListQueued, NextPoll,
           TryLock, Busy, AtRest
<1> QED BY <1>3, <1>4, <1>5

\* The row of a sync in progress is not the promoted one: its attempt may fail.
LEMMA FailedRow ==
    ASSUME ServedInv, NEW v \in Version, versions[v].status \notin {"succeeded", "none"},
           victims = {}, versions' = [versions EXCEPT ![v].status = "failed"],
           UNCHANGED <<victims, published, halfPruned>>, source'.current = source.current,
           source'.kind = source.kind
    PROVE  RowsInv' /\ BundlesInv' /\ CurrentServable'
<1> USE DEF ServedInv, SyncInv
<1>1. \A u \in Version : /\ versions'[u].key = versions[u].key
                         /\ versions'[u].status = "succeeded" <=> versions[u].status = "succeeded"
                         /\ versions'[u].status = "none" => versions[u].status = "none"
  BY DEF TypeOK
<1>2. RowsInv'
  BY <1>1 DEF RowsInv
<1>3. BundlesInv'
  BY <1>1 DEF BundlesInv
<1>4. source.current \in Version \union {None}
  BY DEF TypeOK
<1>5. CurrentServable'
  BY <1>1, <1>4 DEF CurrentServable
<1> QED BY <1>2, <1>3, <1>5

LEMMA CodeGraphStep ==
    ASSUME ServedInv, NEW w \in Worker, CodeGraph(w)
    PROVE  SyncInv' /\ CurrentServable'
<1> USE DEF ServedInv
<1>1. ~AtRest(w)
  BY DEF CodeGraph, SkipUnchanged, StartVersion, ResolveFails, StartPhase, Publish, Promote,
         VersionFails, AtRest
<1>2. lock = w /\ lock # Housekeeper /\ victims = {}
  BY <1>1, BusyAlone
<1>3. CASE SkipUnchanged(w)
  <2>1. PICK v \in Version : versions[v].status = "succeeded" /\ source' = [source EXCEPT !.current = v]
    BY <1>3 DEF SkipUnchanged, Rows
  <2>2. source'.current = v /\ source'.kind = source.kind
    BY <2>1 DEF TypeOK
  <2>3. RowsInv' /\ BundlesInv' /\ CurrentServable'
    BY <1>2, <1>3, <2>1, <2>2 DEF SkipUnchanged, SyncInv, RowsInv, BundlesInv, CurrentServable
  <2> QED BY <1>1, <1>3, <2>3, EndOwn DEF SkipUnchanged, SyncInv
<1>4. CASE StartVersion(w)
  <2> DEFINE k == <<head, wk[w].config>>
             l(v) == [wk[w] EXCEPT !.pc = "extract", !.ver = v, !.key = k]
  <2>1. PICK v \in Targets(k) : /\ versions[v].status # "succeeded"
                                /\ versions' = [versions EXCEPT ![v] = [status |-> "running", key |-> k]]
                                /\ wk' = [wk EXCEPT ![w] = l(v)]
    BY <1>4 DEF StartVersion
  <2>2. k \in Key /\ k # None
    <3>1. wk[w].config \in Config /\ head \in Commit
      BY <1>1 DEF SyncInv, OwnVersion, TypeOK
    <3> QED BY <3>1, KnowledgeSyncAssumption DEF Key
  <2> HIDE DEF k
  <2>3. v \in Version /\ \A u \in Version \ {v} : versions[u].key # k
    BY <2>1, <2>2 DEF Targets, Rows, Unused, SyncInv, RowsInv
  <2>4. /\ versions'[v] = [status |-> "running", key |-> k]
        /\ \A u \in Version \ {v} : versions'[u] = versions[u]
    BY <2>1, <2>3 DEF TypeOK
  <2>5. /\ wk'[w].pc = "extract" /\ wk'[w].ver = v /\ wk'[w].key = k
        /\ wk'[w].config = wk[w].config
        /\ \A u \in Worker \ {w} : SameWork(u)
    <3>1. wk[w] \in Local
      BY DEF TypeOK
    <3>2. wk'[w] = l(v) /\ \A u \in Worker \ {w} : SameWork(u)
      BY <2>1, OthersSame
    <3> QED BY <3>1, <3>2 DEF Local
  <2>6. OwnVersion(w)'
    BY <1>1, <1>2, <1>4, <2>2, <2>3, <2>4, <2>5 DEF StartVersion, OwnVersion, AtRest, Pc, SyncInv
  <2>7. RowsInv'
    BY <1>2, <1>4, <2>3, <2>4 DEF StartVersion, RowsInv, SyncInv
  <2>8. BundlesInv'
    BY <1>2, <1>4, <2>3, <2>4 DEF StartVersion, BundlesInv, SyncInv
  <2>9. CurrentServable'
    <3>1. source.current # v /\ source.current \in Version \union {None}
      BY <2>1, <2>3, KnowledgeSyncAssumption DEF CurrentServable, TypeOK
    <3> QED BY <1>4, <2>3, <2>4, <3>1 DEF StartVersion, CurrentServable
  <2>10. lock' = w
    BY <1>2, <1>4 DEF StartVersion
  <2> QED BY <1>1, <2>5, <2>6, <2>7, <2>8, <2>9, <2>10, OthersRest DEF SyncInv
<1>5. CASE ResolveFails(w)
  BY <1>1, <1>2, <1>5, EndOwn, RowsFrame DEF ResolveFails, SyncInv
<1>6. CASE StartPhase(w)
  <2>1. RowsInv' /\ BundlesInv' /\ CurrentServable'
    BY <1>2, <1>6, RowsFrame DEF StartPhase
  <2>2. CASE Beats(w)
    <3>1. Goto(w, NextPhase(Pc(w))) /\ NextPhase(Pc(w)) \in {"bundle", "publish", "upload"}
      BY <1>6, <2>2 DEF StartPhase, NextPhase
    <3>2. OwnVersion(w)'
      BY <1>6, <2>2, <3>1, GotoOwn DEF StartPhase, SyncInv, OwnVersion, AtRest, Pc
    <3> QED BY <1>1, <1>2, <1>6, <2>1, <2>2, <3>1, <3>2, GotoOwn, OthersRest DEF StartPhase, SyncInv
  <2>3. CASE ~Beats(w)
    BY <1>1, <1>6, <2>1, <2>3, EndOwn DEF StartPhase, SyncInv
  <2> QED BY <2>2, <2>3
<1>7. CASE Publish(w)
  <2>1. RowsInv' /\ BundlesInv' /\ CurrentServable'
    BY <1>2, <1>7, RowsFrame DEF Publish
  <2>2. /\ wk'[w].pc = "promote" /\ wk'[w].config = wk[w].config
        /\ wk'[w].ver = wk[w].ver /\ wk'[w].key = wk[w].key
        /\ \A u \in Worker \ {w} : SameWork(u)
    BY <1>7, GotoOwn DEF Publish
  <2>3. OwnVersion(w)'
    BY <1>1, <1>2, <1>7, <2>2 DEF Publish, SyncInv, OwnVersion, AtRest, Pc
  <2> QED BY <1>1, <1>2, <1>7, <2>1, <2>2, <2>3, OthersRest DEF Publish, SyncInv
<1>8. CASE Promote(w)
  <2> DEFINE v == wk[w].ver
  <2>1. /\ v \in Version /\ wk[w].key \in Key /\ wk[w].key \in published
        /\ versions[v] = [status |-> "running", key |-> wk[w].key]
    BY <1>8 DEF Promote, SyncInv, OwnVersion
  <2>2. source'.current = v /\ source'.kind = source.kind
    BY <1>8 DEF Promote, TypeOK
  <2> HIDE DEF v
  <2>3. /\ versions'[v] = [status |-> "succeeded", key |-> wk[w].key]
        /\ \A u \in Version \ {v} : versions'[u] = versions[u]
    <3>1. versions' = [versions EXCEPT ![v].status = "succeeded"]
      BY <1>8 DEF Promote, v
    <3> QED BY <2>1, <3>1 DEF TypeOK
  <2>4. RowsInv'
    BY <1>2, <1>8, <2>1, <2>2, <2>3 DEF Promote, RowsInv, SyncInv
  <2>5. BundlesInv'
    BY <1>2, <1>8, <2>1, <2>2, <2>3 DEF Promote, BundlesInv, SyncInv
  <2>6. CurrentServable'
    BY <1>8, <2>1, <2>2, <2>3 DEF Promote, CurrentServable
  <2> QED BY <1>1, <1>8, <2>4, <2>5, <2>6, EndOwn DEF Promote, SyncInv
<1>9. CASE VersionFails(w)
  <2>1. versions[wk[w].ver].status = "running" /\ wk[w].ver \in Version
    <3>1. OwnVersion(w) /\ Pc(w) \in {"extract", "bundle", "publish", "upload", "promote"}
      BY <1>9 DEF VersionFails, SyncInv
    <3>2. versions[wk[w].ver] = [status |-> "running", key |-> wk[w].key]
      BY <3>1 DEF OwnVersion
    <3> QED BY <3>1, <3>2 DEF OwnVersion
  <2>2. RowsInv' /\ BundlesInv' /\ CurrentServable'
    BY <1>2, <1>9, <2>1, FailedRow DEF VersionFails
  <2> QED BY <1>1, <1>9, <2>2, EndOwn DEF VersionFails, SyncInv
<1> QED BY <1>3, <1>4, <1>5, <1>6, <1>7, <1>8, <1>9 DEF CodeGraph

\* The row of a hybrid sync, once it has one, is pending.
LEMMA FailureStep ==
    ASSUME ServedInv, NEW w \in Worker, NEW b \in BOOLEAN,
           Pc(w) \in {"configure", "build", "commit"}, HybridFailure(w, b)
    PROVE  SyncInv' /\ CurrentServable'
<1> USE DEF ServedInv
<1>1. ~AtRest(w)
  BY DEF AtRest
<1>2. lock = w /\ lock # Housekeeper /\ victims = {}
  BY <1>1, BusyAlone
<1>3. /\ EndSync(w) \/ EndWorker(w)
      /\ UNCHANGED <<published, victims, halfPruned>>
  BY DEF HybridFailure
<1>4. source'.current = source.current /\ source'.kind = source.kind
  BY DEF HybridFailure, TypeOK
<1>5. CASE versions' = versions
  BY <1>1, <1>2, <1>3, <1>4, <1>5, EndOwn, RowsFrame DEF SyncInv
<1>6. CASE versions' # versions
  <2>1. wk[w].ver # None /\ versions' = [versions EXCEPT ![wk[w].ver].status = "failed"]
    BY <1>6 DEF HybridFailure
  <2>2. /\ wk[w].ver \in Version
        /\ versions[wk[w].ver] = [status |-> "pending", key |-> None]
    BY <2>1 DEF SyncInv, OwnVersion
  <2>3. RowsInv' /\ BundlesInv' /\ CurrentServable'
    <3> DEFINE v == wk[w].ver
    <3>1. /\ v \in Version /\ versions[v].status = "pending"
          /\ versions' = [versions EXCEPT ![v].status = "failed"]
      BY <2>1, <2>2
    <3> HIDE DEF v
    <3>2. versions[v].status \notin {"succeeded", "none"}
      BY <3>1
    <3> QED BY <1>2, <1>3, <1>4, <3>1, <3>2, FailedRow
  <2> QED BY <1>1, <1>3, <2>3, EndOwn DEF SyncInv
<1> QED BY <1>5, <1>6

LEMMA HybridStep ==
    ASSUME ServedInv, NEW w \in Worker, Hybrid(w)
    PROVE  SyncInv' /\ CurrentServable'
<1> USE DEF ServedInv
<1>1. ~AtRest(w)
  BY DEF Hybrid, Configure, BuildDone, BuildFails, RootRevoked, EditedMeanwhile, PromoteHybrid,
         AtRest
<1>2. lock = w /\ lock # Housekeeper /\ victims = {}
  BY <1>1, BusyAlone
<1>3. CASE Configure(w)
  <2>1. PICK v \in Unused : /\ versions' = [versions EXCEPT ![v].status = "pending"]
                            /\ wk' = [wk EXCEPT ![w] = [wk[w] EXCEPT !.pc = "build", !.ver = v]]
    BY <1>3 DEF Configure, TypeOK
  <2>2. v \in Version /\ versions[v].status = "none" /\ versions[v].key = None
    BY <2>1 DEF Unused, SyncInv, RowsInv
  <2>3. /\ versions'[v] = [status |-> "pending", key |-> None]
        /\ \A u \in Version \ {v} : versions'[u] = versions[u]
    BY <2>1, <2>2 DEF TypeOK
  <2>4. /\ wk'[w].pc = "build" /\ wk'[w].ver = v /\ wk'[w].config = wk[w].config
        /\ \A u \in Worker \ {w} : SameWork(u)
    <3>1. wk[w] \in Local
      BY DEF TypeOK
    <3>2. /\ wk'[w] = [wk[w] EXCEPT !.pc = "build", !.ver = v]
          /\ \A u \in Worker \ {w} : SameWork(u)
      BY <2>1, OthersSame
    <3> QED BY <3>1, <3>2 DEF Local
  <2>5. OwnVersion(w)'
    BY <1>1, <1>2, <1>3, <2>2, <2>3, <2>4 DEF Configure, OwnVersion, AtRest, Pc, SyncInv
  <2>6. RowsInv'
    BY <1>2, <1>3, <2>2, <2>3 DEF Configure, RowsInv, SyncInv
  <2>7. BundlesInv'
    BY <1>2, <1>3, <2>2, <2>3 DEF Configure, BundlesInv, SyncInv
  <2>8. CurrentServable'
    <3>1. source.current # v /\ source.current \in Version \union {None}
      BY <2>2, KnowledgeSyncAssumption DEF CurrentServable, TypeOK
    <3> QED BY <1>3, <2>2, <2>3, <3>1 DEF Configure, CurrentServable
  <2>9. lock' = w
    BY <1>2, <1>3 DEF Configure
  <2> QED BY <1>1, <2>4, <2>5, <2>6, <2>7, <2>8, <2>9, OthersRest DEF SyncInv
<1>4. CASE BuildDone(w)
  <2> DEFINE k == <<head, wk[w].config>>
  <2>1. k \in Key
    BY <1>1 DEF Key, SyncInv, OwnVersion, TypeOK
  <2>2. /\ wk'[w].pc = "commit" /\ wk'[w].key = k
        /\ wk'[w].ver = wk[w].ver /\ wk'[w].config = wk[w].config
        /\ \A u \in Worker \ {w} : SameWork(u)
    <3>1. wk[w] \in Local
      BY DEF TypeOK
    <3>2. /\ wk'[w] = [wk[w] EXCEPT !.pc = "commit", !.key = k]
          /\ \A u \in Worker \ {w} : SameWork(u)
      BY <1>4, OthersSame DEF BuildDone
    <3> QED BY <3>1, <3>2 DEF Local
  <2> HIDE DEF k
  <2>3. OwnVersion(w)'
    BY <1>1, <1>2, <1>4, <2>1, <2>2 DEF BuildDone, OwnVersion, AtRest, Pc, SyncInv
  <2>4. RowsInv' /\ BundlesInv' /\ CurrentServable'
    BY <1>2, <1>4, RowsFrame DEF BuildDone
  <2>5. lock' = w
    BY <1>2, <1>4 DEF BuildDone
  <2> QED BY <1>1, <2>2, <2>3, <2>4, <2>5, OthersRest DEF SyncInv
<1>5. CASE BuildFails(w) \/ RootRevoked(w) \/ EditedMeanwhile(w)
  BY <1>5, FailureStep DEF BuildFails, RootRevoked, EditedMeanwhile
<1>6. CASE PromoteHybrid(w)
  <2> DEFINE new == wk[w].ver
             k == wk[w].key
  <2>1. /\ new \in Version /\ k \in Key /\ source.kind = "hybrid_vector"
        /\ versions[new] = [status |-> "pending", key |-> None]
    BY <1>6 DEF PromoteHybrid, SyncInv, OwnVersion
  <2>2. k # None
    BY <2>1, KnowledgeSyncAssumption DEF Key
  <2>3. PICK v \in IF Rows(k) = {} THEN {new} ELSE Rows(k) :
            /\ versions' = [u \in Version |->
                IF u = v THEN [status |-> "succeeded", key |-> k]
                ELSE IF u = new THEN NoVersion ELSE versions[u]]
            /\ source' = [source EXCEPT !.current = v, !.suspended = FALSE]
    BY <1>6 DEF PromoteHybrid
  <2>4. source'.current = v /\ source'.kind = "hybrid_vector"
    BY <2>1, <2>3 DEF TypeOK
  <2> HIDE DEF new, k
  <2>5. v \in Version /\ \A u \in Version \ {v} : versions[u].key # k
    BY <2>1, <2>2, <2>3 DEF Rows, SyncInv, RowsInv
  <2>6. /\ versions'[v] = [status |-> "succeeded", key |-> k]
        /\ \A u \in Version \ {v} : versions'[u] = versions[u]
                                       \/ versions'[u] = [status |-> "none", key |-> None]
    BY <2>3, <2>5 DEF NoVersion
  <2>7. victims' = {}
    BY <1>2, <1>6 DEF PromoteHybrid
  <2>8. RowsInv'
    BY <2>1, <2>2, <2>4, <2>5, <2>6, <2>7 DEF RowsInv, SyncInv
  <2>9. BundlesInv'
    BY <2>4 DEF BundlesInv
  <2>10. CurrentServable'
    BY <2>4, <2>5, <2>6 DEF CurrentServable
  <2> QED BY <1>1, <1>6, <2>8, <2>9, <2>10, EndOwn DEF PromoteHybrid, SyncInv
<1> QED BY <1>3, <1>4, <1>5, <1>6 DEF Hybrid

\* Housekeeping deletes neither the served version's bundle nor its row, and
\* where it cannot delete a row whose objects it took, halfPruned has the row.
LEMMA PruneStep ==
    ASSUME ServedInv, Prune
    PROVE  SyncInv' /\ CurrentServable'
<1> USE DEF ServedInv
<1>1. \A u \in Worker : AtRest(u) /\ lock' # u /\ SameWork(u)
  <2>1. lock \notin Worker /\ lock' \notin Worker /\ wk' = wk
    BY KnowledgeSyncAssumption DEF Prune, PruneObjects, PruneCommit, PruneDies
  <2> QED BY <2>1, AllRest DEF SameWork
<1>2. \A u \in Worker : OwnVersion(u)'
  <2> SUFFICES ASSUME NEW u \in Worker PROVE OwnVersion(u)'
    OBVIOUS
  <2>1. AtRest(u)' /\ wk'[u].ver = None
    BY <1>1, SameRest DEF SameWork, SyncInv, OwnVersion
  <2> QED BY <1>1, <2>1, RestOwn
<1>3. source' = source
  BY DEF Prune, PruneObjects, PruneCommit, PruneDies
<1>4. source.current # None => source.current \in Version /\ versions[source.current].key # None
  <2>1. source.current # None => source.current \in Version
    BY DEF TypeOK
  <2>2. None \notin Key
    BY KnowledgeSyncAssumption DEF Key
  <2> QED BY <2>1, <2>2 DEF CurrentServable, SyncInv, RowsInv
<1>5. CASE PruneObjects
  <2>1. PICK failing \in SUBSET Stored, damaged \in SUBSET Stored :
           /\ damaged \subseteq failing
           /\ victims' = Prunable \ failing
           /\ published' = published \ Keys((Stored \ failing) \union damaged)
           /\ halfPruned' = halfPruned \union damaged
    BY <1>5 DEF PruneObjects
  <2>2. victims = {} /\ lock' = Housekeeper /\ versions' = versions
    BY <1>5, KnowledgeSyncAssumption DEF PruneObjects, SyncInv, RowsInv
  <2>3. RowsInv'
    BY <1>3, <2>1, <2>2 DEF RowsInv, SyncInv, Prunable
  <2>4. ASSUME NEW v \in Version, versions[v].status = "succeeded",
               v \notin (Stored \ failing) \union damaged, versions[v].key \in published
        PROVE  versions[v].key \in published'
    <3>1. versions[v].key # None
      BY <2>4, KnowledgeSyncAssumption DEF SyncInv, RowsInv, Key
    <3>2. \A u \in Stored : u \in Version
      BY DEF Stored, Prunable
    <3>3. versions[v].key \notin Keys((Stored \ failing) \union damaged)
      BY <2>4, <3>1, <3>2 DEF Keys, SyncInv, RowsInv
    <3> QED BY <2>1, <2>4, <3>3
  <2>5. ASSUME source.kind = "code_graph", NEW v \in Version \ (victims' \union halfPruned'),
               versions[v].status = "succeeded"
        PROVE  versions[v].key \in published'
    <3>1. v \notin (Stored \ failing) \union damaged
      BY <2>1, <2>5 DEF Stored
    <3>2. versions[v].key \in published
      BY <2>1, <2>2, <2>5 DEF SyncInv, BundlesInv
    <3> QED BY <2>4, <2>5, <3>1, <3>2
  <2>6. BundlesInv'
    BY <1>3, <2>2, <2>5 DEF BundlesInv
  <2>7. CurrentServable'
    <3>1. source.current # None => source.current \in Version \ Prunable
      BY <1>4 DEF Prunable
    <3> QED BY <1>3, <2>1, <2>2, <2>5, <3>1 DEF CurrentServable
  <2> QED BY <1>2, <2>3, <2>6, <2>7 DEF SyncInv
<1>6. CASE PruneCommit
  <2>1. /\ victims' = {} /\ published' = published /\ halfPruned' = halfPruned \ victims
        /\ \A v \in Version : versions'[v] = IF v \in victims THEN NoVersion ELSE versions[v]
    BY <1>6 DEF PruneCommit
  <2>2. RowsInv'
    <3>1. \A v \in Version : versions'[v].key = None \/ (v \notin victims /\ versions'[v] = versions[v])
      BY <2>1 DEF NoVersion
    <3>2. \A v \in Version : v \in victims => versions'[v].status = "none"
      BY <2>1 DEF NoVersion
    <3> QED BY <2>1, <3>1, <3>2 DEF RowsInv, SyncInv
  <2>3. BundlesInv'
    BY <1>3, <2>1 DEF BundlesInv, SyncInv, NoVersion
  <2>4. CurrentServable'
    BY <1>3, <1>4, <2>1 DEF CurrentServable, SyncInv, RowsInv
  <2> QED BY <1>2, <2>2, <2>3, <2>4 DEF SyncInv
<1>7. CASE PruneDies
  <2>1. /\ victims' = {} /\ halfPruned' = halfPruned \union (victims \intersect Stored)
        /\ UNCHANGED <<versions, published>>
    BY <1>7 DEF PruneDies
  <2>2. RowsInv' /\ CurrentServable'
    BY <1>3, <2>1 DEF RowsInv, CurrentServable, SyncInv
  <2>3. ASSUME source.kind = "code_graph", NEW v \in Version \ halfPruned',
               versions[v].status = "succeeded"
        PROVE  versions[v].key \in published
    <3>1. v \notin victims
      BY <1>4, <2>1, <2>3 DEF Stored, Prunable, SyncInv, RowsInv
    <3> QED BY <2>1, <2>3, <3>1 DEF SyncInv, BundlesInv
  <2>4. BundlesInv'
    BY <1>3, <2>1, <2>3 DEF BundlesInv
  <2> QED BY <1>2, <2>2, <2>4 DEF SyncInv
<1> QED BY <1>5, <1>6, <1>7 DEF Prune

LEMMA OtherStep ==
    ASSUME ServedInv, Operator \/ Environment
    PROVE  SyncInv' /\ CurrentServable'
<1> USE DEF ServedInv
<1>1. /\ UNCHANGED <<versions, victims, published, lock, halfPruned>>
      /\ source'.current = source.current /\ source'.kind = source.kind
  BY DEF Operator, Environment, EditBegin, EditCommit, QueueManual, IntervalElapses,
         UpstreamMoves, HeartbeatAges, TypeOK
<1>2. ASSUME NEW u \in Worker PROVE SameWork(u)
  <2>1. CASE wk' = wk
    BY <2>1 DEF SameWork
  <2>2. CASE EditCommit
    <3>1. wk[u] \in Local /\ wk'[u] = [wk[u] EXCEPT !.fresh = FALSE]
      BY <2>2 DEF EditCommit, TypeOK
    <3> QED BY <3>1 DEF SameWork, Local
  <2> QED
    BY <2>1, <2>2 DEF Operator, Environment, EditBegin, QueueManual, IntervalElapses,
           UpstreamMoves, HeartbeatAges
<1>3. \A u \in Worker : OwnVersion(u)'
  BY <1>1, <1>2, SameOwn DEF SyncInv
<1> QED BY <1>1, <1>3, RowsFrame DEF SyncInv

LEMMA ServedInit == Init => ServedInv
<1> SUFFICES ASSUME Init PROVE ServedInv
  OBVIOUS
<1> USE DEF Init
<1>1. TypeOK
  <2>1. source \in [kind : Kinds, enabled : BOOLEAN, config : Config,
                    current : Version \union {None}, suspended : BOOLEAN]
    OBVIOUS
  <2>2. wk \in [Worker -> Local]
    BY RestingType
  <2>3. versions \in [Version -> [status : VersionStatus, key : Key \union {None}]]
    BY DEF NoVersion, VersionStatus
  <2>4. runs \in [Run -> RunStatus]
    BY DEF RunStatus
  <2>5. /\ edit = None /\ expired \subseteq Run /\ due \in BOOLEAN /\ published \subseteq Key
        /\ lock = None /\ head \in Commit /\ victims \subseteq Version
        /\ halfPruned \subseteq Version /\ disowned \subseteq Run
    OBVIOUS
  <2>6. crashes \in 0 .. MaxCrashes
    BY KnowledgeSyncAssumption
  <2> HIDE DEF Init
  <2> QED BY <2>1, <2>2, <2>3, <2>4, <2>5, <2>6 DEF TypeOK
<1>2. \A w \in Worker : OwnVersion(w)
  BY KnowledgeSyncAssumption DEF OwnVersion, AtRest, Pc, Resting
<1>3. RowsInv /\ BundlesInv /\ CurrentServable
  BY DEF RowsInv, BundlesInv, CurrentServable, NoVersion
<1> QED BY <1>1, <1>2, <1>3 DEF ServedInv, SyncInv

LEMMA ServedStep ==
    ASSUME ServedInv, [Next]_vars
    PROVE  ServedInv'
<1>1. TypeOK'
  BY TypesKept DEF ServedInv
<1>2. CASE UNCHANGED vars
  <2>1. \A u \in Worker : OwnVersion(u)'
    BY <1>2, SameOwn DEF vars, ServedInv, SyncInv, SameWork
  <2> QED BY <1>1, <1>2, <2>1, RowsFrame DEF vars, ServedInv, SyncInv
<1>3. CASE Next
  <2>1. SyncInv' /\ CurrentServable'
    BY <1>3, LoopStep, CodeGraphStep, HybridStep, PruneStep, OtherStep DEF Next, Advance
  <2> QED BY <1>1, <2>1 DEF ServedInv
<1> QED BY <1>2, <1>3

\* The version that serving reads has succeeded, and a code-graph version's
\* bundle is complete, whatever the syncs, retries, crashes, edits and prunings
\* before, but for a version that was promoted again after a pruning deleted
\* some of its objects and could not delete its row
\* (promote_knowledge_source_version, prune_knowledge_source_history).
THEOREM Served == Spec => [](TypeOK /\ SyncInv /\ CurrentServable)
<1>1. ServedInv /\ [Next]_vars => ServedInv'
  BY ServedStep
<1>2. Spec => []ServedInv
  BY <1>1, ServedInit, PTL DEF Spec
<1> QED BY <1>2 DEF ServedInv

-----------------------------------------------------------------------------
(* Finished runs.                                                          *)

\* A finished run keeps its result in this step, its row is pruned, or it was
\* failed while its sync went on.
FinishedKept ==
    \A r \in Run : runs[r] \in Terminal /\ r \notin disowned => runs'[r] \in {runs[r], "none"}

\* A step that neither enters nor moves within a sync and ends no live run
\* without leaving a trace of it.
LEMMA RunsFrame ==
    ASSUME RunsInv, \A u \in Worker : AtRest(u)' \/ SameWork(u),
           \A r \in Run : runs[r] = "running" /\ r \notin Orphans =>
                    runs'[r] = "running" \/ r \in disowned',
           disowned \subseteq disowned',
           \A r \in expired' : runs'[r] = "running"
    PROVE  RunsInv'
BY DEF RunsInv, AtRest, Pc, SameWork, Orphans

\* A sync in progress moves on to another phase.
LEMMA RunsMove ==
    ASSUME TypeOK, SyncInv, RunsInv, NEW w \in Worker, ~AtRest(w), Pc(w) # "claim",
           wk'[w].job = wk[w].job, \A u \in Worker \ {w} : SameWork(u),
           runs' = runs, expired' \subseteq expired, disowned' = disowned
    PROVE  RunsInv' /\ FinishedKept
<1>1. \A u \in Worker \ {w} : AtRest(u)'
  BY BusyAlone, SameRest
<1> QED BY <1>1 DEF RunsInv, FinishedKept, AtRest, Pc

\* A sync or its process ends; the run it claimed was running until then, or
\* had been failed meanwhile.
LEMMA RunsEnd ==
    ASSUME TypeOK, SyncInv, RunsInv, NEW w \in Worker, ~AtRest(w),
           EndSync(w) \/ EndWorker(w), disowned' = disowned,
           \/ UNCHANGED <<runs, expired>>
           \/ Pc(w) # "claim" /\ \E s \in Terminal : WriteRun(w, s)
    PROVE  RunsInv' /\ FinishedKept
<1>1. \A u \in Worker : AtRest(u)'
  <2>1. wk'[w].pc \in {"serve", "down"} /\ \A u \in Worker \ {w} : SameWork(u)
    BY OthersSame DEF EndSync, EndWorker, Resting
  <2> QED BY <2>1, BusyAlone, SameRest DEF AtRest, Pc
<1>2. CASE UNCHANGED <<runs, expired>>
  BY <1>1, <1>2 DEF RunsInv, FinishedKept
<1>3. CASE Pc(w) # "claim" /\ \E s \in Terminal : WriteRun(w, s)
  <2>1. wk[w].job \in Run /\ (runs[wk[w].job] = "running" \/ wk[w].job \in disowned)
    BY <1>3 DEF RunsInv
  <2>2. expired' = expired \ {wk[w].job} /\ \A r \in Run \ {wk[w].job} : runs'[r] = runs[r]
    BY <1>3 DEF WriteRun, TypeOK
  <2>3. FinishedKept
    BY <2>1, <2>2 DEF FinishedKept, Terminal
  <2>4. \A r \in expired' : runs'[r] = "running"
    BY <2>2 DEF RunsInv, TypeOK
  <2> QED BY <1>1, <2>3, <2>4 DEF RunsInv
<1> QED BY <1>2, <1>3

LEMMA LoopRuns ==
    ASSUME TypeOK, SyncInv, RunsInv, NEW w \in Worker,
           WorkerStart(w) \/ Loop(w) \/ BuildBeat(w) \/ Crash(w)
    PROVE  RunsInv' /\ FinishedKept
<1>1. CASE AtRest(w) /\ lock' = lock
  <2>1. \A u \in Worker : AtRest(u)' \/ SameWork(u)
    BY <1>1, LoopRest DEF AtRest, Pc
  <2>2. ~Claim(w) /\ ~Reject(w) /\ ~BuildBeat(w)
    BY <1>1 DEF AtRest, Claim, Reject, BuildBeat
  <2>3. /\ expired' \subseteq expired
        /\ \A r \in Run : runs[r] = "running" /\ r \notin Orphans =>
                 runs'[r] = "running" \/ r \in disowned'
        /\ disowned \subseteq disowned'
        /\ \A r \in expired' : runs'[r] = "running"
        /\ FinishedKept
    <3>1. CASE UNCHANGED <<runs, expired, disowned>>
      BY <3>1 DEF RunsInv, FinishedKept
    <3>2. CASE WorkerStart(w)
      BY <3>2 DEF WorkerStart, RunsInv, FinishedKept, Terminal
    <3>3. CASE QueueDue(w) /\ runs' # runs
      <4>1. PICK q \in Run : runs[q] = "none" /\ runs' = [runs EXCEPT ![q] = "queued"]
        BY <3>3 DEF QueueDue
      <4>2. UNCHANGED <<expired, disowned>> /\ \A r \in Run \ {q} : runs'[r] = runs[r]
        BY <3>3, <4>1 DEF QueueDue, TypeOK
      <4> QED BY <4>1, <4>2 DEF RunsInv, FinishedKept, Terminal, TypeOK
    <3> QED
      BY <2>2, <3>1, <3>2, <3>3 DEF Loop, ReadDue, QueueDue, ListQueued, NextPoll, TryLock, Busy, Crash
  <2> QED BY <2>1, <2>3, RunsFrame
<1>2. CASE AtRest(w) /\ lock' # lock
  <2>1. TryLock(w)
    BY <1>2 DEF WorkerStart, Loop, ReadDue, QueueDue, ListQueued, NextPoll, Busy,
           Claim, Reject, BuildBeat, Crash, AtRest, EndWorker, Unlocked, SyncInv, OwnVersion
  <2>2. PICK r \in wk[w].todo : wk' = [wk EXCEPT ![w] = [wk[w] EXCEPT
                  !.pc = "claim", !.job = r, !.fresh = TRUE,
                  !.enabled = source.enabled, !.config = source.config]]
    BY <2>1 DEF TryLock, TypeOK
  <2>3. wk[w] \in Local
    BY DEF TypeOK
  <2>4. /\ wk'[w] = [wk[w] EXCEPT
                  !.pc = "claim", !.job = r, !.fresh = TRUE,
                  !.enabled = source.enabled, !.config = source.config]
        /\ \A u \in Worker \ {w} : SameWork(u)
    BY <2>2, OthersSame
  <2>5. wk'[w].pc = "claim" /\ wk'[w].job = r /\ r \in Run
    BY <2>3, <2>4 DEF Local
  <2>6. \A u \in Worker \ {w} : AtRest(u)'
    BY <2>1, <2>4, AllRest, SameRest, KnowledgeSyncAssumption DEF TryLock
  <2>7. UNCHANGED <<runs, expired, disowned>>
    BY <2>1 DEF TryLock
  <2> QED BY <2>5, <2>6, <2>7 DEF RunsInv, FinishedKept, AtRest, Pc
<1>3. CASE ~AtRest(w)
  <2>1. CASE Reject(w) \/ Crash(w) \/ (Claim(w) /\ EndSync(w))
    <3>1. EndSync(w) \/ EndWorker(w)
      BY <2>1 DEF Reject, Crash
    <3>2. CASE Reject(w) \/ Crash(w)
      BY <1>3, <3>1, <3>2, RunsEnd DEF Reject, Crash, Terminal
    <3>3. CASE Claim(w) /\ runs[wk[w].job] # "queued"
      BY <1>3, <3>1, <3>3, RunsEnd DEF Claim
    <3>4. CASE Claim(w) /\ EndSync(w) /\ runs[wk[w].job] = "queued"
      <4>1. wk'[w].pc = "serve"
        <5>1. wk' = [wk EXCEPT ![w] = Resting("serve", wk[w].todo \ {wk[w].job})]
          BY <3>4 DEF EndSync, TypeOK
        <5>2. wk'[w] = Resting("serve", wk[w].todo \ {wk[w].job})
          BY <5>1, OthersSame
        <5> QED BY <5>2 DEF Resting
      <4>2. \E p \in {"resolve", "configure", "reject"} : Goto(w, p)
        BY <3>4 DEF Claim, FirstPhase
      <4> QED BY <4>1, <4>2, GotoOwn
    <3> QED BY <2>1, <3>2, <3>3, <3>4
  <2>2. CASE Claim(w) /\ ~EndSync(w)
    <3>1. /\ WriteRun(w, "running") /\ runs[wk[w].job] = "queued"
          /\ \E p \in {"resolve", "configure", "reject"} : Goto(w, p)
      BY <2>2 DEF Claim, FirstPhase
    <3>2. wk[w].job \in Run
      BY <1>3 DEF RunsInv
    <3>3. /\ runs'[wk[w].job] = "running" /\ expired' = expired \ {wk[w].job}
          /\ \A r \in Run \ {wk[w].job} : runs'[r] = runs[r]
      BY <3>1, <3>2 DEF WriteRun, TypeOK
    <3>4. wk'[w].job = wk[w].job /\ \A u \in Worker \ {w} : AtRest(u)'
      BY <1>3, <3>1, GotoOwn, BusyAlone, SameRest
    <3> QED BY <3>1, <3>2, <3>3, <3>4 DEF RunsInv, FinishedKept, Terminal, TypeOK, AtRest, Pc
  <2>3. CASE BuildBeat(w)
    BY <1>3, <2>3, RunsMove DEF BuildBeat, SameWork, Pc
  <2> QED
    BY <1>3, <2>1, <2>2, <2>3 DEF WorkerStart, Loop, ReadDue, QueueDue, ListQueued, NextPoll,
           TryLock, Busy, AtRest
<1> QED BY <1>1, <1>2, <1>3

LEMMA CodeGraphRuns ==
    ASSUME TypeOK, SyncInv, RunsInv, NEW w \in Worker, CodeGraph(w)
    PROVE  RunsInv' /\ FinishedKept
<1>1. ~AtRest(w) /\ Pc(w) # "claim"
  BY DEF CodeGraph, SkipUnchanged, StartVersion, ResolveFails, StartPhase, Publish, Promote,
         VersionFails, AtRest
<1>2. CASE SkipUnchanged(w) \/ ResolveFails(w) \/ Promote(w) \/ VersionFails(w)
  <2>1. EndSync(w) /\ disowned' = disowned /\ \E s \in Terminal : WriteRun(w, s)
    BY <1>2 DEF SkipUnchanged, ResolveFails, Promote, VersionFails, Terminal
  <2> QED BY <1>1, <2>1, RunsEnd
<1>3. CASE StartVersion(w)
  <2>1. PICK v : wk' = [wk EXCEPT ![w] = [wk[w] EXCEPT
                    !.pc = "extract", !.ver = v, !.key = <<head, wk[w].config>>]]
    BY <1>3 DEF StartVersion, TypeOK
  <2>2. wk[w] \in Local
    BY DEF TypeOK
  <2>3. /\ wk'[w] = [wk[w] EXCEPT !.pc = "extract", !.ver = v, !.key = <<head, wk[w].config>>]
        /\ \A u \in Worker \ {w} : SameWork(u)
    BY <2>1, OthersSame
  <2>4. wk'[w].job = wk[w].job
    BY <2>2, <2>3 DEF Local
  <2> QED BY <1>1, <1>3, <2>3, <2>4, RunsMove DEF StartVersion
<1>4. CASE StartPhase(w)
  <2>1. CASE Beats(w)
    BY <1>1, <1>4, <2>1, GotoOwn, RunsMove DEF StartPhase
  <2>2. CASE ~Beats(w)
    BY <1>1, <1>4, <2>2, RunsEnd DEF StartPhase
  <2> QED BY <2>1, <2>2
<1>5. CASE Publish(w)
  BY <1>1, <1>5, GotoOwn, RunsMove DEF Publish
<1> QED BY <1>2, <1>3, <1>4, <1>5 DEF CodeGraph

LEMMA HybridRuns ==
    ASSUME TypeOK, SyncInv, RunsInv, NEW w \in Worker, Hybrid(w)
    PROVE  RunsInv' /\ FinishedKept
<1>1. ~AtRest(w) /\ Pc(w) # "claim"
  BY DEF Hybrid, Configure, BuildDone, BuildFails, RootRevoked, EditedMeanwhile, PromoteHybrid,
         AtRest
<1>2. wk[w] \in Local
  BY DEF TypeOK
<1>3. CASE Configure(w)
  <2>1. PICK v : wk' = [wk EXCEPT ![w] = [wk[w] EXCEPT !.pc = "build", !.ver = v]]
    BY <1>3 DEF Configure, TypeOK
  <2>2. /\ wk'[w] = [wk[w] EXCEPT !.pc = "build", !.ver = v]
        /\ \A u \in Worker \ {w} : SameWork(u)
    BY <2>1, OthersSame
  <2>3. wk'[w].job = wk[w].job
    BY <1>2, <2>2 DEF Local
  <2> QED BY <1>1, <1>3, <2>2, <2>3, RunsMove DEF Configure
<1>4. CASE BuildDone(w)
  <2>1. wk' = [wk EXCEPT ![w] = [wk[w] EXCEPT !.pc = "commit", !.key = <<head, wk[w].config>>]]
    BY <1>4 DEF BuildDone, TypeOK
  <2>2. /\ wk'[w] = [wk[w] EXCEPT !.pc = "commit", !.key = <<head, wk[w].config>>]
        /\ \A u \in Worker \ {w} : SameWork(u)
    BY <2>1, OthersSame
  <2>3. wk'[w].job = wk[w].job
    BY <1>2, <2>2 DEF Local
  <2> QED BY <1>1, <1>4, <2>2, <2>3, RunsMove DEF BuildDone
<1>5. ASSUME NEW b \in BOOLEAN, HybridFailure(w, b) PROVE RunsInv' /\ FinishedKept
  BY <1>1, <1>5, RunsEnd DEF HybridFailure, Terminal
<1>6. CASE PromoteHybrid(w)
  <2>1. EndSync(w) /\ disowned' = disowned /\ \E s \in Terminal : WriteRun(w, s)
    BY <1>6 DEF PromoteHybrid, Terminal
  <2> QED BY <1>1, <2>1, RunsEnd
<1> QED
  BY <1>3, <1>4, <1>5, <1>6 DEF Hybrid, BuildFails, RootRevoked, EditedMeanwhile

\* A heartbeat's age ends no run; housekeeping runs while no sync does.
LEMMA OtherRuns ==
    ASSUME TypeOK, SyncInv, RunsInv, Operator \/ Prune \/ Environment
    PROVE  RunsInv' /\ FinishedKept
<1>1. ASSUME NEW u \in Worker PROVE SameWork(u)
  <2>1. CASE wk' = wk
    BY <2>1 DEF SameWork
  <2>2. CASE EditCommit
    <3>1. wk[u] \in Local /\ wk'[u] = [wk[u] EXCEPT !.fresh = FALSE]
      BY <2>2 DEF EditCommit, TypeOK
    <3> QED BY <3>1 DEF SameWork, Local
  <2> QED
    BY <2>1, <2>2 DEF Operator, Prune, Environment, EditBegin, QueueManual, IntervalElapses,
           UpstreamMoves, HeartbeatAges, PruneObjects, PruneCommit, PruneDies
<1>2. CASE UNCHANGED <<runs, expired, disowned>>
  BY <1>1, <1>2, RunsFrame DEF RunsInv, FinishedKept
<1>3. CASE QueueManual
  <2>1. PICK q \in Run : runs[q] = "none" /\ runs' = [runs EXCEPT ![q] = "queued"]
    BY <1>3 DEF QueueManual
  <2>2. UNCHANGED <<expired, disowned>> /\ \A r \in Run \ {q} : runs'[r] = runs[r]
    BY <1>3, <2>1 DEF QueueManual, TypeOK
  <2>3. FinishedKept
    BY <2>1, <2>2 DEF FinishedKept, Terminal
  <2>4. \A r \in Run : runs[r] = "running" => runs'[r] = "running"
    BY <2>1, <2>2
  <2> QED BY <1>1, <2>2, <2>3, <2>4, RunsFrame DEF RunsInv, TypeOK
<1>4. CASE PruneCommit
  <2>1. /\ expired' = expired
        /\ \A r \in Run : runs'[r] = IF runs[r] \in Terminal THEN "none" ELSE runs[r]
    BY <1>4 DEF PruneCommit
  <2>2. FinishedKept
    BY <2>1 DEF FinishedKept
  <2>3. \A r \in expired' : runs'[r] = "running"
    BY <2>1 DEF RunsInv, Terminal, TypeOK
  <2>4. \A u \in Worker : AtRest(u)'
    BY <1>1, <1>4, AllRest, SameRest, KnowledgeSyncAssumption DEF PruneCommit
  <2> QED BY <2>2, <2>3, <2>4 DEF RunsInv
<1>5. ASSUME NEW q \in Run, HeartbeatAges(q) PROVE RunsInv' /\ FinishedKept
  <2>1. /\ UNCHANGED <<runs, disowned>> /\ expired' = expired \union {q}
        /\ runs[q] = "running"
    BY <1>5 DEF HeartbeatAges
  <2>2. \A r \in expired' : runs'[r] = "running"
    BY <2>1 DEF RunsInv
  <2>3. RunsInv'
    BY <1>1, <2>1, <2>2, RunsFrame
  <2> QED BY <2>1, <2>3 DEF FinishedKept
<1> QED
  BY <1>2, <1>3, <1>4, <1>5 DEF Operator, Prune, Environment, EditBegin, EditCommit,
         IntervalElapses, UpstreamMoves, PruneObjects, PruneDies

LEMMA RunsStep ==
    ASSUME TypeOK, SyncInv, RunsInv, [Next]_vars
    PROVE  RunsInv' /\ FinishedKept
<1>1. CASE UNCHANGED vars
  BY <1>1, RunsFrame DEF vars, RunsInv, SameWork, FinishedKept
<1> QED BY <1>1, LoopRuns, CodeGraphRuns, HybridRuns, OtherRuns DEF Next, Advance

\* A finished run keeps its result until it is pruned, unless a starting indexer
\* failed it as stale while another still worked on it (finish_background_job,
\* reconcile_stale_background_jobs): whatever indexers crash and restart, and
\* however long their phases take, nobody else ends or rewrites it.
THEOREM ResultsKept == Spec => []RunsInv /\ FinishedStays
<1> DEFINE I == ServedInv /\ RunsInv
<1>1. Init => I
  <2>1. Init => RunsInv
    BY DEF Init, RunsInv, AtRest, Pc, Resting
  <2> QED BY <2>1, ServedInit
<1>2. I /\ [Next]_vars => I'
  BY ServedStep, RunsStep DEF ServedInv
<1>3. I /\ [Next]_vars => [FinishedKept]_vars
  BY RunsStep DEF ServedInv
<1>4. FinishedStays <=> [][FinishedKept]_vars
  BY DEF FinishedStays, FinishedKept
<1> HIDE DEF I
<1>5. Spec => []I
  BY <1>1, <1>2, PTL DEF Spec
<1>6. I => RunsInv
  BY DEF I
<1> QED BY <1>3, <1>4, <1>5, <1>6, PTL DEF Spec
-----------------------------------------------------------------------------
(* The configuration of what is served.                                    *)

\* The step of one indexer leaves the others' local state alone.
LEMMA OthersKeep ==
    ASSUME TypeOK, NEW w \in Worker, WorkerStart(w) \/ Advance(w) \/ BuildBeat(w) \/ Crash(w)
    PROVE  \A u \in Worker \ {w} : wk'[u] = wk[u]
<1>1. \/ wk' = wk
      \/ \E l : wk' = [wk EXCEPT ![w] = l]
  BY DEF WorkerStart, Advance, Loop, ReadDue, QueueDue, ListQueued, NextPoll, TryLock, Busy,
         Claim, Reject, CodeGraph, SkipUnchanged, StartVersion, ResolveFails, StartPhase,
         Publish, Promote, VersionFails, Hybrid, Configure, BuildDone, BuildFails, RootRevoked,
         EditedMeanwhile, HybridFailure, PromoteHybrid, BuildBeat, Crash, Goto, EndSync, EndWorker
<1> QED BY <1>1 DEF TypeOK

\* An indexer that did not move keeps its part while the configuration stays and
\* only a hybrid sync ends a suspension.
LEMMA ConfigFrame ==
    ASSUME NEW u \in Worker, ConfigOwn(u), wk'[u] = wk[u],
           source'.kind = source.kind, source'.config = source.config,
           source.suspended => source'.suspended \/ source.kind # "code_graph"
    PROVE  ConfigOwn(u)'
BY DEF ConfigOwn, AtRest, Pc

\* An indexer that has ended its sync holds no configuration.
LEMMA ConfigRest ==
    ASSUME TypeOK, NEW w \in Worker, NEW p \in {"down", "serve"}, NEW t,
           wk' = [wk EXCEPT ![w] = Resting(p, t)]
    PROVE  ConfigOwn(w)'
<1>1. wk'[w] = Resting(p, t)
  BY DEF TypeOK
<1>2. wk'[w].pc = p /\ wk'[w].fresh = FALSE
  BY <1>1 DEF Resting
<1> QED BY <1>2 DEF ConfigOwn, AtRest, Pc

\* An indexer that goes to another place takes along what it has read and built.
LEMMA ConfigGoto ==
    ASSUME TypeOK, NEW w \in Worker, ConfigOwn(w), NEW p, Goto(w, p), source' = source,
           p \in {"poll", "queue", "list", "serve"} \/ ~AtRest(w),
           p \in {"resolve", "extract", "bundle", "publish", "upload", "promote"} =>
              source.kind = "code_graph",
           p \in {"extract", "bundle", "publish", "upload", "promote", "commit"} =>
              Pc(w) \in {"extract", "bundle", "publish", "upload", "promote", "commit"}
    PROVE  ConfigOwn(w)'
<1>1. wk[w] \in Local /\ wk'[w] = [wk[w] EXCEPT !.pc = p]
  BY GotoOwn DEF TypeOK
<1>2. /\ wk'[w].pc = p /\ wk'[w].fresh = wk[w].fresh /\ wk'[w].config = wk[w].config
      /\ wk'[w].key = wk[w].key
  BY <1>1 DEF Local
<1> QED BY <1>2 DEF ConfigOwn, AtRest, Pc

LEMMA ConfigWorker ==
    ASSUME TypeOK, NEW w \in Worker, ConfigOwn(w),
           WorkerStart(w) \/ Advance(w) \/ BuildBeat(w) \/ Crash(w)
    PROVE  ConfigOwn(w)'
<1>0. wk[w] \in Local
  BY DEF TypeOK
<1>1. CASE EndSync(w) \/ EndWorker(w) \/ ListQueued(w)
  BY <1>1, ConfigRest DEF EndSync, EndWorker, ListQueued
<1>2. CASE WorkerStart(w) \/ ReadDue(w) \/ QueueDue(w) \/ NextPoll(w)
  <2>1. source' = source /\ \E p \in {"poll", "queue", "list"} : Goto(w, p)
    BY <1>2 DEF WorkerStart, ReadDue, QueueDue, NextPoll
  <2> QED BY <2>1, ConfigGoto
<1>3. CASE Busy(w)
  <2>1. PICK r \in wk[w].todo : wk' = [wk EXCEPT ![w] = [wk[w] EXCEPT !.todo = @ \ {r}]]
    BY <1>3 DEF Busy, TypeOK
  <2>2. wk'[w] = [wk[w] EXCEPT !.todo = @ \ {r}]
    BY <2>1 DEF TypeOK
  <2>3. /\ wk'[w].pc = wk[w].pc /\ wk'[w].fresh = wk[w].fresh /\ wk'[w].config = wk[w].config
        /\ wk'[w].key = wk[w].key
    BY <1>0, <2>2 DEF Local
  <2> QED BY <1>3, <2>3 DEF Busy, ConfigOwn, AtRest, Pc
<1>4. CASE TryLock(w)
  <2>1. PICK r \in wk[w].todo : wk' = [wk EXCEPT ![w] = [wk[w] EXCEPT
                  !.pc = "claim", !.job = r, !.fresh = TRUE,
                  !.enabled = source.enabled, !.config = source.config]]
    BY <1>4 DEF TryLock, TypeOK
  <2>2. wk'[w] = [wk[w] EXCEPT !.pc = "claim", !.job = r, !.fresh = TRUE,
                  !.enabled = source.enabled, !.config = source.config]
    BY <2>1 DEF TypeOK
  <2>3. wk'[w].pc = "claim" /\ wk'[w].config = source.config
    BY <1>0, <2>2 DEF Local
  <2> QED BY <1>4, <2>3 DEF TryLock, ConfigOwn, AtRest, Pc
<1>5. CASE Claim(w) /\ ~EndSync(w)
  <2>1. PICK p \in {"resolve", "configure", "reject"} :
            Goto(w, p) /\ (p = "resolve" => source.kind = "code_graph")
    BY <1>5 DEF Claim, FirstPhase
  <2>2. source' = source /\ ~AtRest(w)
    BY <1>5 DEF Claim, AtRest
  <2> QED BY <2>1, <2>2, ConfigGoto
<1>6. CASE StartVersion(w)
  <2>1. PICK v : wk' = [wk EXCEPT ![w] = [wk[w] EXCEPT
                    !.pc = "extract", !.ver = v, !.key = <<head, wk[w].config>>]]
    BY <1>6 DEF StartVersion, TypeOK
  <2>2. wk'[w] = [wk[w] EXCEPT !.pc = "extract", !.ver = v, !.key = <<head, wk[w].config>>]
    BY <2>1 DEF TypeOK
  <2>3. /\ wk'[w].pc = "extract" /\ wk'[w].key[2] = wk[w].config
        /\ wk'[w].fresh = wk[w].fresh /\ wk'[w].config = wk[w].config
    BY <1>0, <2>2 DEF Local
  <2> QED BY <1>6, <2>3 DEF StartVersion, ConfigOwn, AtRest, Pc
<1>7. CASE StartPhase(w) /\ ~EndWorker(w)
  <2>1. PICK p \in {"bundle", "publish", "upload"} : Goto(w, p)
    BY <1>7 DEF StartPhase, NextPhase
  <2>2. /\ Pc(w) \in {"extract", "bundle", "publish"} /\ source' = source
        /\ ~AtRest(w) /\ source.kind = "code_graph"
    BY <1>7 DEF StartPhase, AtRest, ConfigOwn
  <2> QED BY <2>1, <2>2, ConfigGoto
<1>8. CASE Publish(w)
  <2>1. /\ Pc(w) = "upload" /\ source' = source /\ Goto(w, "promote")
        /\ ~AtRest(w) /\ source.kind = "code_graph"
    BY <1>8 DEF Publish, AtRest, ConfigOwn
  <2> QED BY <2>1, ConfigGoto
<1>9. CASE Configure(w)
  <2>1. PICK v : wk' = [wk EXCEPT ![w] = [wk[w] EXCEPT !.pc = "build", !.ver = v]]
    BY <1>9 DEF Configure, TypeOK
  <2>2. wk'[w] = [wk[w] EXCEPT !.pc = "build", !.ver = v]
    BY <2>1 DEF TypeOK
  <2>3. /\ wk'[w].pc = "build" /\ wk'[w].fresh = wk[w].fresh /\ wk'[w].config = wk[w].config
    BY <1>0, <2>2 DEF Local
  <2> QED BY <1>9, <2>3 DEF Configure, ConfigOwn, AtRest, Pc
<1>10. CASE BuildDone(w)
  <2>1. wk' = [wk EXCEPT ![w] = [wk[w] EXCEPT !.pc = "commit", !.key = <<head, wk[w].config>>]]
    BY <1>10 DEF BuildDone, TypeOK
  <2>2. wk'[w] = [wk[w] EXCEPT !.pc = "commit", !.key = <<head, wk[w].config>>]
    BY <2>1 DEF TypeOK
  <2>3. /\ wk'[w].pc = "commit" /\ wk'[w].key[2] = wk[w].config
        /\ wk'[w].fresh = wk[w].fresh /\ wk'[w].config = wk[w].config
    BY <1>0, <2>2 DEF Local
  <2> QED BY <1>10, <2>3 DEF BuildDone, ConfigOwn, AtRest, Pc
<1>11. CASE BuildBeat(w)
  BY <1>11, ConfigFrame DEF BuildBeat
<1> QED
  BY <1>1, <1>2, <1>3, <1>4, <1>5, <1>6, <1>7, <1>8, <1>9, <1>10, <1>11
     DEF Advance, Loop, CodeGraph, Hybrid, Reject, SkipUnchanged, ResolveFails, Promote,
         VersionFails, BuildFails, RootRevoked, EditedMeanwhile, HybridFailure, PromoteHybrid, Crash

\* The version that is served has the configuration of the source.
ServedConfig ==
    ~source.suspended /\ source.current # None =>
        versions[source.current].key[2] = source.config

\* A step that leaves the pointer, the configuration and the promoted row's
\* identity alone and ends no suspension.
LEMMA ServedConfigFrame ==
    ASSUME TypeOK, ServedConfig, source'.config = source.config,
           source'.current = source.current, source.suspended => source'.suspended,
           source.current \in Version => versions'[source.current].key = versions[source.current].key
    PROVE  ServedConfig'
BY KnowledgeSyncAssumption DEF TypeOK, ServedConfig

LEMMA ConfigSource ==
    ASSUME ServedInv, ConfigInv, NEW w \in Worker,
           WorkerStart(w) \/ Advance(w) \/ BuildBeat(w) \/ Crash(w)
    PROVE  /\ source'.kind = source.kind /\ source'.config = source.config
           /\ source.suspended => source'.suspended \/ source.kind # "code_graph"
           /\ ServedConfig'
<1> DEFINE Goal == /\ source'.kind = source.kind /\ source'.config = source.config
                   /\ source.suspended => source'.suspended \/ source.kind # "code_graph"
                   /\ ServedConfig'
<1>0. TypeOK /\ ConfigOwn(w) /\ OwnVersion(w) /\ ServedConfig
  BY DEF ServedInv, SyncInv, ConfigInv, ServedConfig
<1>1. ASSUME source' = source,
             source.current \in Version => versions'[source.current].key = versions[source.current].key
      PROVE  Goal
  BY <1>0, <1>1, ServedConfigFrame
<1>2. CASE SkipUnchanged(w)
  <2>1. PICK v \in Version : /\ versions[v].key = <<head, wk[w].config>>
                             /\ source' = [source EXCEPT !.current = v]
    BY <1>2 DEF SkipUnchanged, Rows
  <2>2. /\ source'.current = v /\ source'.kind = source.kind /\ source'.config = source.config
        /\ source'.suspended = source.suspended
    BY <1>0, <2>1 DEF TypeOK
  <2>3. ~AtRest(w) /\ source.kind = "code_graph" /\ versions' = versions
    BY <1>0, <1>2 DEF SkipUnchanged, AtRest, ConfigOwn
  <2>4. versions[v].key[2] = wk[w].config
    BY <2>1
  <2> QED BY <1>0, <2>2, <2>3, <2>4 DEF ServedConfig, ConfigOwn
<1>3. CASE StartVersion(w)
  <2>1. PICK v \in Version : /\ versions[v].status # "succeeded"
                             /\ versions' = [versions EXCEPT ![v] =
                                    [status |-> "running", key |-> <<head, wk[w].config>>]]
    BY <1>3 DEF StartVersion, Targets, Rows, Unused
  <2>2. source.current \in Version => source.current # v
    BY <2>1, KnowledgeSyncAssumption DEF ServedInv, CurrentServable
  <2> QED BY <1>0, <1>1, <1>3, <2>1, <2>2 DEF StartVersion, TypeOK
<1>4. CASE Promote(w)
  <2>1. source' = [source EXCEPT !.current = wk[w].ver]
    BY <1>4 DEF Promote
  <2>2. /\ source'.current = wk[w].ver /\ source'.kind = source.kind
        /\ source'.config = source.config /\ source'.suspended = source.suspended
    BY <1>0, <2>1 DEF TypeOK
  <2>3. /\ wk[w].ver \in Version /\ versions[wk[w].ver].key = wk[w].key
        /\ wk[w].key[2] = wk[w].config /\ ~AtRest(w) /\ source.kind = "code_graph"
    BY <1>0, <1>4 DEF Promote, OwnVersion, ConfigOwn, AtRest
  <2>4. versions'[wk[w].ver].key = wk[w].key
    BY <1>0, <1>4, <2>3 DEF Promote, TypeOK
  <2> QED BY <1>0, <2>2, <2>3, <2>4 DEF ServedConfig, ConfigOwn
<1>5. CASE VersionFails(w) \/ Configure(w)
  <2>1. source' = source /\ \E v, st : versions' = [versions EXCEPT ![v].status = st]
    BY <1>5 DEF VersionFails, Configure
  <2> QED BY <1>0, <1>1, <2>1 DEF TypeOK
<1>6. ASSUME NEW b \in BOOLEAN, HybridFailure(w, b) PROVE Goal
  <2>1. \/ versions' = versions
        \/ \E v, st : versions' = [versions EXCEPT ![v].status = st]
    BY <1>6 DEF HybridFailure
  <2>2. source.current \in Version => versions'[source.current].key = versions[source.current].key
    BY <1>0, <2>1 DEF TypeOK
  <2>3. \/ source' = source
        \/ source' = [source EXCEPT !.suspended = source.suspended \/ (b /\ wk[w].fresh)]
    BY <1>0, <1>6 DEF HybridFailure, TypeOK
  <2>4. /\ source'.kind = source.kind /\ source'.config = source.config
        /\ source'.current = source.current
        /\ source.suspended => source'.suspended
    BY <1>0, <2>3 DEF TypeOK
  <2> QED BY <1>0, <2>2, <2>4, ServedConfigFrame
<1>7. CASE PromoteHybrid(w)
  <2>1. PICK v \in Version :
          /\ versions' = [u \in Version |->
                  IF u = v THEN [status |-> "succeeded", key |-> wk[w].key]
                  ELSE IF u = wk[w].ver THEN NoVersion ELSE versions[u]]
          /\ source' = [source EXCEPT !.current = v, !.suspended = FALSE]
    BY <1>0, <1>7 DEF PromoteHybrid, Rows, OwnVersion
  <2>2. /\ source'.current = v /\ source'.kind = source.kind /\ source'.config = source.config
    BY <1>0, <2>1 DEF TypeOK
  <2>3. /\ source.kind # "code_graph" /\ wk[w].key[2] = wk[w].config
        /\ wk[w].config = source.config
    BY <1>0, <1>7 DEF PromoteHybrid, Unedited, OwnVersion, ConfigOwn
  <2>4. versions'[v].key = wk[w].key
    BY <2>1
  <2> QED BY <2>2, <2>3, <2>4 DEF ServedConfig
<1>8. CASE UNCHANGED <<source, versions>>
  BY <1>1, <1>8
<1> QED
  BY <1>2, <1>3, <1>4, <1>5, <1>6, <1>7, <1>8
     DEF WorkerStart, Advance, Loop, ReadDue, QueueDue, ListQueued, NextPoll, TryLock, Busy,
         Claim, Reject, CodeGraph, ResolveFails, StartPhase, Publish, Hybrid, BuildDone,
         BuildFails, RootRevoked, EditedMeanwhile, BuildBeat, Crash

\* Edits, housekeeping and time: only a committed edit touches the source, and it
\* suspends the source when it changes its configuration.
LEMMA ConfigOther ==
    ASSUME ServedInv, ConfigInv, Operator \/ Prune \/ Environment
    PROVE  ConfigInv'
<1>0. TypeOK /\ ServedConfig /\ \A u \in Worker : ConfigOwn(u)
  BY DEF ServedInv, ConfigInv, ServedConfig
<1>1. CASE EditCommit
  <2>1. source' = [source EXCEPT !.enabled = edit.enabled, !.config = edit.config,
                        !.suspended = source.suspended \/ edit.config # source.config]
    BY <1>0, <1>1 DEF EditCommit, TypeOK
  <2>2. /\ source'.config = edit.config /\ source'.kind = source.kind
        /\ source'.current = source.current
        /\ source'.suspended = (source.suspended \/ edit.config # source.config)
    BY <1>0, <2>1 DEF TypeOK
  <2>3. ASSUME NEW u \in Worker PROVE ConfigOwn(u)'
    <3>1. wk'[u] = [wk[u] EXCEPT !.fresh = FALSE] /\ wk[u] \in Local
      BY <1>0, <1>1 DEF EditCommit, TypeOK
    <3>2. /\ wk'[u].pc = wk[u].pc /\ wk'[u].fresh = FALSE /\ wk'[u].config = wk[u].config
          /\ wk'[u].key = wk[u].key
      BY <3>1 DEF Local
    <3> QED BY <1>0, <2>2, <3>2 DEF ConfigOwn, AtRest, Pc
  <2> QED BY <1>0, <1>1, <2>2, <2>3 DEF EditCommit, ConfigInv, ServedConfig
<1>2. CASE PruneCommit
  <2>1. source.current \in Version => versions'[source.current] = versions[source.current]
    BY <1>2 DEF PruneCommit, ServedInv, SyncInv, RowsInv
  <2>2. source' = source /\ wk' = wk
    BY <1>2 DEF PruneCommit
  <2> QED BY <1>0, <2>1, <2>2, ServedConfigFrame, ConfigFrame DEF ConfigInv, ServedConfig
<1>3. CASE UNCHANGED <<source, versions, wk>>
  BY <1>3 DEF ConfigInv, ConfigOwn, AtRest, Pc
<1> QED
  BY <1>1, <1>2, <1>3 DEF Operator, Prune, Environment, EditBegin, QueueManual, PruneObjects,
         PruneDies, IntervalElapses, UpstreamMoves, HeartbeatAges

LEMMA ConfigStep ==
    ASSUME ServedInv, ConfigInv, [Next]_vars
    PROVE  ConfigInv'
<1>1. ASSUME NEW w \in Worker, WorkerStart(w) \/ Advance(w) \/ BuildBeat(w) \/ Crash(w)
      PROVE  ConfigInv'
  <2>1. ConfigOwn(w)'
    BY <1>1, ConfigWorker DEF ServedInv, ConfigInv
  <2>2. \A u \in Worker \ {w} : ConfigOwn(u)'
    BY <1>1, OthersKeep, ConfigSource, ConfigFrame DEF ServedInv, ConfigInv
  <2> QED BY <1>1, <2>1, <2>2, ConfigSource DEF ConfigInv, ServedConfig
<1>2. CASE UNCHANGED vars
  BY <1>2 DEF vars, ConfigInv, ConfigOwn, AtRest, Pc
<1> QED BY <1>1, <1>2, ConfigOther DEF Next

\* While a source can be searched, what it serves was indexed from the roots,
\* scope and connection it has now, whatever edits overlap whatever syncs
\* (update_knowledge_source, _promote of the hybrid indexer).
THEOREM ServedIsOfConfig == Spec => []ServedMatchesConfig
<1> DEFINE I == ServedInv /\ ConfigInv
<1>1. Init => I
  <2>1. Init => ConfigInv
    BY DEF Init, ConfigInv, ConfigOwn, AtRest, Pc, Resting
  <2> QED BY <2>1, ServedInit
<1>2. I /\ [Next]_vars => I'
  BY ServedStep, ConfigStep
<1>3. I => ServedMatchesConfig
  BY DEF ConfigInv, ServedMatchesConfig
<1> HIDE DEF I
<1> QED BY <1>1, <1>2, <1>3, PTL DEF Spec
=============================================================================
