---------------------------- MODULE KnowledgeSync ----------------------------
(***************************************************************************)
(* Synchronization of one Knowledge Source: the indexer's worker loop, the *)
(* background-job rows it claims, the version rows it builds, the pointer  *)
(* to the version that is served, the operator's edits of the source and   *)
(* the housekeeping that prunes old versions.                              *)
(*                                                                         *)
(* The source's kind selects the handler: "code_graph" (GitHub, Graphify    *)
(* bundles in the object store) or "hybrid_vector" (Confluence, rows in    *)
(* PostgreSQL).                                                            *)
(*                                                                         *)
(* A sync uses one ORM session with expire_on_commit=False.  The row locks *)
(* it takes with SELECT ... FOR UPDATE do not refresh objects the session  *)
(* already holds, so the tests "run.status != running" of promote, fail    *)
(* and finish look at the copy that the claim loaded, which says running,  *)
(* unless a rollback expired it.  Only the heartbeat's UPDATE and what     *)
(* follows a rollback see the row itself.                                  *)
(***************************************************************************)
EXTENDS Naturals, FiniteSets

CONSTANTS
    Worker,        \* replicas of the indexer
    Run,           \* ids of background-job rows (bound: rows at a time)
    Version,       \* ids of version rows (bound: rows at a time)
    Commit,        \* revisions the upstream repository or wiki can be at
    Config,        \* values of the source's roots, scope and connection
    Kinds,         \* the kinds of source considered
    None,
    Housekeeper,   \* holder of the source lock while history is pruned
    MaxCrashes,    \* bound on deaths of indexers
    SlowWork,      \* a phase may outlast knowledge_source_stale_run_sec
    Pruning        \* housekeeping runs

ASSUME KnowledgeSyncAssumption ==
    /\ Kinds \subseteq {"code_graph", "hybrid_vector"}
    /\ MaxCrashes \in Nat
    /\ {SlowWork, Pruning} \subseteq BOOLEAN
    /\ None \notin Worker \union Run \union Version \union Commit \union Config \union (Commit \X Config)
    /\ Housekeeper \notin Worker \union {None}

VARIABLES
    source,      \* KnowledgeSource row: kind, enabled, config, current version, suspended
    edit,        \* the values an update transaction is about to commit, or None
    runs,        \* BackgroundJobRun.status per id
    expired,     \* running rows whose heartbeat is older than the stale limit
    due,         \* sync_policy.interval_sec has passed since the last started_at
    versions,    \* KnowledgeSourceVersion rows: status and identity
    published,   \* identities whose bundle is complete in the object store
    lock,        \* holder of the source's advisory lock
    wk,          \* the indexers' local state
    head,        \* the revision upstream is at
    victims,     \* versions that housekeeping is about to delete
    crashes,
    halfPruned,  \* history: rows whose pruning deleted objects and kept the row
    disowned     \* history: runs failed as stale while their sync went on

vars == <<source, edit, runs, expired, due, versions, published, lock, wk,
          head, victims, crashes, halfPruned, disowned>>
histories == <<halfPruned, disowned>>

-----------------------------------------------------------------------------
Terminal == {"succeeded", "skipped", "failed"}
Active == {"queued", "running"}
RunStatus == Active \union Terminal \union {"none"}
VersionStatus == {"none", "pending", "running", "succeeded", "failed"}

\* What identifies a version's content: the revision and the scope it was
\* extracted with (extraction_config_hash, or the page set's hash).
Key == Commit \X Config

NoVersion == [status |-> "none", key |-> None]

\* An indexer between two syncs: p is its place in worker_loop, t the
\* requests of its last listing that it has still to serve.
Resting(p, t) ==
    [pc |-> p, todo |-> t, job |-> None, enabled |-> FALSE, config |-> None,
     fresh |-> FALSE, ver |-> None, key |-> None]

Init ==
    /\ source \in [kind : Kinds, enabled : {TRUE}, config : Config, current : {None},
                   suspended : {FALSE}]
    /\ edit = None
    /\ runs = [r \in Run |-> "none"]
    /\ expired = {}
    /\ due = FALSE
    /\ versions = [v \in Version |-> NoVersion]
    /\ published = {}
    /\ lock = None
    /\ wk = [w \in Worker |-> Resting("down", {})]
    /\ head \in Commit
    /\ victims = {}
    /\ crashes = 0
    /\ halfPruned = {} /\ disowned = {}

Pc(w) == wk[w].pc
Goto(w, p) == wk' = [wk EXCEPT ![w].pc = p]

\* The connection closes: the advisory lock it holds is released.
Unlocked(w) == IF lock = w THEN None ELSE lock

\* run_knowledge_source_sync returns or raises an error the loop logs.
EndSync(w) ==
    /\ wk' = [wk EXCEPT ![w] = Resting("serve", @.todo \ {@.job})]
    /\ lock' = None

\* An exception that worker_loop does not catch ends the process.
EndWorker(w) ==
    /\ wk' = [wk EXCEPT ![w] = Resting("down", {})]
    /\ lock' = Unlocked(w)

\* The sync's ORM session writes the run it claimed.
WriteRun(w, s) ==
    /\ runs' = [runs EXCEPT ![wk[w].job] = s]
    /\ expired' = expired \ {wk[w].job}

\* No update transaction holds the source row.
SourceRowFree == edit = None

-----------------------------------------------------------------------------
(* The worker loop.                                                        *)

\* Runs that no living indexer works on.
Orphans == {r \in Run : runs[r] = "running"
                           /\ \A w \in Worker : wk[w].job # r \/ Pc(w) = "claim"}

\* Startup: running rows without a recent heartbeat are failed.
WorkerStart(w) ==
    /\ Pc(w) = "down"
    /\ runs' = [r \in Run |-> IF r \in expired THEN "failed" ELSE runs[r]]
    /\ expired' = {}
    /\ Goto(w, "poll")
    /\ disowned' = disowned \union (expired \ Orphans)
    /\ UNCHANGED <<source, edit, due, versions, published, lock, head, victims, crashes, halfPruned>>

\* due_source_ids: which sources have to be queued.
ReadDue(w) ==
    /\ Pc(w) = "poll"
    /\ Goto(w, IF source.enabled /\ due THEN "queue" ELSE "list")
    /\ UNCHANGED <<source, edit, runs, expired, due, versions, published, lock, head, victims, crashes, histories>>

\* queue_due_sources inserts a scheduled run, whatever was queued meanwhile.
\* (Bound: none while every id of Run is in use.)
QueueDue(w) ==
    /\ Pc(w) = "queue"
    /\ IF \E r \in Run : runs[r] = "none"
       THEN /\ \E r \in Run : runs[r] = "none" /\ runs' = [runs EXCEPT ![r] = "queued"]
            /\ due' = FALSE
       ELSE UNCHANGED <<runs, due>>
    /\ Goto(w, "list")
    /\ UNCHANGED <<source, edit, expired, versions, published, lock, head, victims, crashes, histories>>

ListQueued(w) ==
    /\ Pc(w) = "list"
    /\ wk' = [wk EXCEPT ![w] = Resting("serve", {r \in Run : runs[r] = "queued"})]
    /\ UNCHANGED <<source, edit, runs, expired, due, versions, published, lock, head, victims, crashes, histories>>

\* The listing is served: the loop sleeps and polls again.
NextPoll(w) ==
    /\ Pc(w) = "serve" /\ wk[w].todo = {}
    /\ Goto(w, "poll")
    /\ UNCHANGED <<source, edit, runs, expired, due, versions, published, lock, head, victims, crashes, histories>>

\* pg_try_advisory_lock, then the first read of the source.  An edit between
\* the two is the same as an edit before both.
TryLock(w) ==
    /\ Pc(w) = "serve"
    /\ lock = None
    /\ lock' = w
    /\ \E r \in wk[w].todo :
        wk' = [wk EXCEPT ![w] = [@ EXCEPT
                  !.pc = "claim", !.job = r, !.fresh = TRUE,
                  !.enabled = source.enabled, !.config = source.config]]
    /\ UNCHANGED <<source, edit, runs, expired, due, versions, published, head, victims, crashes, histories>>

\* KnowledgeSourceBusyError: the request is left for the next poll.
Busy(w) ==
    /\ Pc(w) = "serve"
    /\ lock # None
    /\ \E r \in wk[w].todo : wk' = [wk EXCEPT ![w].todo = @ \ {r}]
    /\ UNCHANGED <<source, edit, runs, expired, due, versions, published, lock, head, victims, crashes, histories>>

FirstPhase == IF source.kind = "code_graph" THEN "resolve" ELSE "configure"

\* claim_background_job: a row that is not queued any more is somebody else's.
Claim(w) ==
    /\ Pc(w) = "claim"
    /\ IF runs[wk[w].job] = "queued"
       THEN /\ WriteRun(w, "running")
            /\ due' = FALSE
            /\ Goto(w, IF wk[w].enabled THEN FirstPhase ELSE "reject")
            /\ UNCHANGED lock
       ELSE /\ EndSync(w)
            /\ UNCHANGED <<runs, expired, due>>
    /\ UNCHANGED <<source, edit, versions, published, head, victims, crashes, histories>>

\* The source was disabled when the sync read it.
Reject(w) ==
    /\ Pc(w) = "reject"
    /\ WriteRun(w, "failed")
    /\ EndSync(w)
    /\ UNCHANGED <<source, edit, due, versions, published, head, victims, crashes, histories>>

\* heartbeat_background_job: FALSE when it raises.
Beats(w) == runs[wk[w].job] = "running"

-----------------------------------------------------------------------------
(* The code-graph handler.                                                 *)

Rows(k) == {v \in Version : versions[v].key = k}
Unused == {v \in Version : versions[v].status = "none"}

\* The row of an identity is unique (uq_knowledge_source_versions_identity).
Targets(k) == IF Rows(k) # {} THEN Rows(k) ELSE Unused

\* The ref is fetched and the version of that commit and scope looked up.  If
\* it succeeded before it is promoted again and the run is skipped; the run's
\* status is written without looking at the row.
SkipUnchanged(w) ==
    /\ Pc(w) = "resolve"
    /\ SourceRowFree
    /\ \E v \in Rows(<<head, wk[w].config>>) :
        /\ versions[v].status = "succeeded"
        /\ source' = [source EXCEPT !.current = v]
    /\ WriteRun(w, "skipped")
    /\ EndSync(w)
    /\ UNCHANGED <<edit, due, versions, published, head, victims, crashes, histories>>

\* Otherwise the version row, new or left by a failed attempt, is running.
StartVersion(w) ==
    LET k == <<head, wk[w].config>> IN
    /\ Pc(w) = "resolve"
    /\ \E v \in Targets(k) :
        /\ versions[v].status # "succeeded"
        /\ versions' = [versions EXCEPT ![v] = [status |-> "running", key |-> k]]
        /\ wk' = [wk EXCEPT ![w] = [@ EXCEPT !.pc = "extract", !.ver = v, !.key = k]]
    /\ UNCHANGED <<source, edit, runs, expired, due, published, lock, head, victims, crashes, histories>>

\* Git, the connection or the configuration failed: there is no version yet.
ResolveFails(w) ==
    /\ Pc(w) = "resolve"
    /\ WriteRun(w, "failed")
    /\ EndSync(w)
    /\ UNCHANGED <<source, edit, due, versions, published, head, victims, crashes, histories>>

NextPhase(p) == CASE p = "extract" -> "bundle"
                  [] p = "bundle" -> "publish"
                  [] p = "publish" -> "upload"

\* A phase starts with a heartbeat.  On a run that is not running it raises
\* after a rollback that expires the session's objects; the handler's use of
\* source.id then raises as well, nothing is written and the process ends.
StartPhase(w) ==
    /\ Pc(w) \in {"extract", "bundle", "publish"}
    /\ IF Beats(w)
       THEN /\ expired' = expired \ {wk[w].job}
            /\ Goto(w, NextPhase(Pc(w)))
            /\ UNCHANGED lock
       ELSE /\ EndWorker(w)
            /\ UNCHANGED expired
    /\ UNCHANGED <<source, edit, runs, due, versions, published, head, victims, crashes, histories>>

\* publish_knowledge_source_bundle has uploaded and verified every object.
Publish(w) ==
    /\ Pc(w) = "upload"
    /\ published' = published \union {wk[w].key}
    /\ Goto(w, "promote")
    /\ UNCHANGED <<source, edit, runs, expired, due, versions, lock, head, victims, crashes, histories>>

\* promote_knowledge_source_version: version, pointer and run in one commit.
Promote(w) ==
    /\ Pc(w) = "promote"
    /\ SourceRowFree
    /\ versions' = [versions EXCEPT ![wk[w].ver].status = "succeeded"]
    /\ source' = [source EXCEPT !.current = wk[w].ver]
    /\ WriteRun(w, "succeeded")
    /\ EndSync(w)
    /\ UNCHANGED <<edit, due, published, head, victims, crashes, histories>>

\* Extraction, bundling, upload or promotion raised: version and run fail.
VersionFails(w) ==
    /\ Pc(w) \in {"bundle", "publish", "upload", "promote"}
    /\ SourceRowFree
    /\ versions' = [versions EXCEPT ![wk[w].ver].status = "failed"]
    /\ WriteRun(w, "failed")
    /\ EndSync(w)
    /\ UNCHANGED <<source, edit, due, published, head, victims, crashes, histories>>

-----------------------------------------------------------------------------
(* The hybrid handler.                                                     *)

\* A new version row for this attempt; its revision is not known yet.
Configure(w) ==
    /\ Pc(w) = "configure"
    /\ \E v \in Unused :
        /\ versions' = [versions EXCEPT ![v].status = "pending"]
        /\ wk' = [wk EXCEPT ![w] = [@ EXCEPT !.pc = "build", !.ver = v]]
    /\ UNCHANGED <<source, edit, runs, expired, due, published, lock, head, victims, crashes, histories>>

\* The page loop beats at most every ten seconds.
BuildBeat(w) ==
    /\ Pc(w) = "build" /\ Beats(w)
    /\ expired' = expired \ {wk[w].job}
    /\ UNCHANGED <<source, edit, runs, due, versions, published, lock, wk, head, victims, crashes, histories>>

\* All pages are fetched, chunked and embedded, not yet committed.
BuildDone(w) ==
    /\ Pc(w) = "build"
    /\ wk' = [wk EXCEPT ![w] = [@ EXCEPT !.pc = "commit", !.key = <<head, wk[w].config>>]]
    /\ UNCHANGED <<source, edit, runs, expired, due, versions, published, lock, head, victims, crashes, histories>>

\* The handler's except clause: after the rollback every row is read again.
\* finish_background_job raises on a run that is not running, before the only
\* commit, and worker_loop does not catch that.
HybridFailure(w, revoked) ==
    /\ SourceRowFree
    /\ IF Beats(w)
       THEN /\ versions' = IF wk[w].ver = None THEN versions
                           ELSE [versions EXCEPT ![wk[w].ver].status = "failed"]
            /\ source' = [source EXCEPT !.suspended = @ \/ (revoked /\ wk[w].fresh)]
            /\ WriteRun(w, "failed")
            /\ EndSync(w)
       ELSE /\ EndWorker(w)
            /\ UNCHANGED <<source, versions, runs, expired>>
    /\ UNCHANGED <<edit, due, published, head, victims, crashes, histories>>

\* Configuration, provider, limits, embeddings or a heartbeat raised.
BuildFails(w) ==
    /\ Pc(w) \in {"configure", "build"}
    /\ HybridFailure(w, FALSE)

\* ConfluenceSecurityError: a configured root is no longer readable.
RootRevoked(w) ==
    /\ Pc(w) = "build"
    /\ HybridFailure(w, TRUE)

\* Mutant: only a disabled source is noticed.
UneditedEnabled(w) == source.enabled

Unedited(w) == source.enabled /\ wk[w].fresh

EditedMeanwhile(w) ==
    /\ Pc(w) = "commit"
    /\ ~Unedited(w)
    /\ HybridFailure(w, FALSE)

\* The new row becomes the version of this revision, or its content moves to
\* the row that has the revision already and the new row is deleted.
PromoteHybrid(w) ==
    LET new == wk[w].ver
        same == Rows(wk[w].key) IN
    /\ Pc(w) = "commit"
    /\ SourceRowFree
    /\ Unedited(w)
    /\ \E v \in IF same = {} THEN {new} ELSE same :
        /\ versions' = [u \in Version |->
                IF u = v THEN [status |-> "succeeded", key |-> wk[w].key]
                ELSE IF u = new THEN NoVersion ELSE versions[u]]
        /\ source' = [source EXCEPT !.current = v, !.suspended = FALSE]
        /\ WriteRun(w, IF versions[v].status = "succeeded" THEN "skipped" ELSE "succeeded")
    /\ EndSync(w)
    /\ UNCHANGED <<edit, due, published, head, victims, crashes, histories>>

-----------------------------------------------------------------------------
(* The gateway: edits of the source and manual syncs.                      *)

NoActiveRun == \A r \in Run : runs[r] \notin Active

\* update_knowledge_source locks the row; roots, scope and connection change
\* only while no run is active.
EditBegin(enabled, config) ==
    /\ SourceRowFree
    /\ config # source.config => NoActiveRun
    /\ edit' = [enabled |-> enabled, config |-> config]
    /\ UNCHANGED <<source, runs, expired, due, versions, published, lock, wk, head, victims, crashes, histories>>

\* The update commits: updated_at differs from what any running sync read.
EditCommit ==
    /\ edit # None
    /\ source' = [source EXCEPT !.enabled = edit.enabled, !.config = edit.config,
                                !.suspended = @ \/ edit.config # source.config]
    /\ wk' = [w \in Worker |-> [wk[w] EXCEPT !.fresh = FALSE]]
    /\ edit' = None
    /\ UNCHANGED <<runs, expired, due, versions, published, lock, head, victims, crashes, histories>>

\* queue_knowledge_source_sync
QueueManual ==
    /\ SourceRowFree
    /\ source.enabled
    /\ NoActiveRun
    /\ \E r \in Run : runs[r] = "none" /\ runs' = [runs EXCEPT ![r] = "queued"]
    /\ due' = FALSE
    /\ UNCHANGED <<source, edit, expired, versions, published, lock, wk, head, victims, crashes, histories>>

-----------------------------------------------------------------------------
(* prune_knowledge_source_history, with keep_latest = 0.                   *)

\* Mutant: the promoted version is not retained.
PrunableAny == {v \in Version : versions[v].status \in {"succeeded", "failed"}}

Prunable == {v \in Version :
    versions[v].status \in {"succeeded", "failed"} /\ v # source.current}

\* Versions with objects in the store: what a code-graph sync promoted.
Stored == {v \in Prunable : source.kind = "code_graph" /\ versions[v].status = "succeeded"}

Keys(V) == {versions[v].key : v \in V}

\* Objects go first, one by one, while the source's advisory lock is held.  An
\* error is caught: that version's row is kept, whatever objects it has lost ...
PruneObjects ==
    /\ Pruning
    /\ lock = None
    /\ lock' = Housekeeper
    /\ \E failing \in SUBSET Stored : \E damaged \in SUBSET failing :
        /\ victims' = Prunable \ failing
        /\ published' = published \ Keys((Stored \ failing) \union damaged)
        /\ halfPruned' = halfPruned \union damaged
    /\ UNCHANGED <<source, edit, runs, expired, due, versions, wk, head, crashes, disowned>>

\* ... and the rows of versions and finished runs in one commit at the end.
PruneCommit ==
    /\ lock = Housekeeper
    /\ versions' = [v \in Version |-> IF v \in victims THEN NoVersion ELSE versions[v]]
    /\ runs' = [r \in Run |-> IF runs[r] \in Terminal THEN "none" ELSE runs[r]]
    /\ victims' = {}
    /\ lock' = None
    /\ halfPruned' = halfPruned \ victims
    /\ disowned' = {r \in disowned : runs[r] \notin Terminal}
    /\ UNCHANGED <<source, edit, expired, due, published, wk, head, crashes>>

\* Without that commit every row stays.
PruneDies ==
    /\ lock = Housekeeper
    /\ victims' = {}
    /\ lock' = None
    /\ halfPruned' = halfPruned \union (victims \intersect Stored)
    /\ UNCHANGED <<source, edit, runs, expired, due, versions, published, wk, head, crashes, disowned>>

-----------------------------------------------------------------------------
(* Time, upstream and failures.                                            *)

IntervalElapses ==
    /\ ~due
    /\ due' = TRUE
    /\ UNCHANGED <<source, edit, runs, expired, versions, published, lock, wk, head, victims, crashes, histories>>

\* A heartbeat ages past the limit: a dead worker's, or that of a long phase.
HeartbeatAges(r) ==
    /\ runs[r] = "running" /\ r \notin expired
    /\ SlowWork \/ r \in Orphans
    /\ expired' = expired \union {r}
    /\ UNCHANGED <<source, edit, runs, due, versions, published, lock, wk, head, victims, crashes, histories>>

\* A push, a forced push back to an earlier commit, or an edited page.
UpstreamMoves ==
    /\ head' \in Commit \ {head}
    /\ UNCHANGED <<source, edit, runs, expired, due, versions, published, lock, wk, victims, crashes, histories>>

\* The indexer dies, or its database connection does: the session is bound to
\* the connection that holds the lock, so nothing of this sync is written after.
Crash(w) ==
    /\ Pc(w) # "down"
    /\ crashes < MaxCrashes
    /\ crashes' = crashes + 1
    /\ EndWorker(w)
    /\ UNCHANGED <<source, edit, runs, expired, due, versions, published, head, victims, histories>>

Loop(w) == ReadDue(w) \/ QueueDue(w) \/ ListQueued(w) \/ NextPoll(w) \/ TryLock(w)
              \/ Busy(w) \/ Claim(w) \/ Reject(w)

CodeGraph(w) == SkipUnchanged(w) \/ StartVersion(w) \/ ResolveFails(w) \/ StartPhase(w)
                   \/ Publish(w) \/ Promote(w) \/ VersionFails(w)

Hybrid(w) == Configure(w) \/ BuildDone(w) \/ BuildFails(w) \/ RootRevoked(w)
                \/ EditedMeanwhile(w) \/ PromoteHybrid(w)

Advance(w) == Loop(w) \/ CodeGraph(w) \/ Hybrid(w)

Operator == EditCommit \/ QueueManual
               \/ \E enabled \in BOOLEAN, config \in Config : EditBegin(enabled, config)

Prune == PruneObjects \/ PruneCommit \/ PruneDies

Environment == IntervalElapses \/ UpstreamMoves \/ \E r \in Run : HeartbeatAges(r)

Next ==
    \/ \E w \in Worker : WorkerStart(w) \/ Advance(w) \/ BuildBeat(w) \/ Crash(w)
    \/ Operator
    \/ Prune
    \/ Environment

Spec == Init /\ [][Next]_vars

-----------------------------------------------------------------------------
(* Properties.                                                             *)

Local == [pc : {"down", "poll", "queue", "list", "serve", "claim", "reject",
                "resolve", "extract", "bundle", "publish", "upload", "promote",
                "configure", "build", "commit"},
          todo : SUBSET Run, job : Run \union {None}, enabled : BOOLEAN,
          config : Config \union {None}, fresh : BOOLEAN,
          ver : Version \union {None}, key : Key \union {None}]

\* The rows, the object store, the lock and the indexers' local state
\* (background_jobs.py, models.py) have the values the code can give them.
TypeOK ==
    /\ source \in [kind : Kinds, enabled : BOOLEAN, config : Config,
                   current : Version \union {None}, suspended : BOOLEAN]
    /\ edit \in [enabled : BOOLEAN, config : Config] \union {None}
    /\ runs \in [Run -> RunStatus]
    /\ expired \subseteq Run
    /\ due \in BOOLEAN
    /\ versions \in [Version -> [status : VersionStatus, key : Key \union {None}]]
    /\ published \subseteq Key
    /\ lock \in Worker \union {Housekeeper, None}
    /\ wk \in [Worker -> Local]
    /\ head \in Commit
    /\ victims \subseteq Version
    /\ crashes \in 0 .. MaxCrashes
    /\ halfPruned \subseteq Version /\ disowned \subseteq Run

\* The version that serving reads has succeeded and its content is in the
\* store: no order of syncs, failed attempts, retries over the same row, dead
\* indexers and prunings leaves the pointer on an incomplete version, unless a
\* pruning of just that version, before it was promoted again, deleted objects
\* and could not delete the row (promote_knowledge_source_version,
\* prune_knowledge_source_history).
CurrentServable ==
    source.current # None =>
        /\ versions[source.current].status = "succeeded"
        /\ source.kind = "code_graph" /\ source.current \notin halfPruned =>
              versions[source.current].key \in published

\* What is served was indexed from the roots, scope and connection the source
\* has now: an edit that overlaps a sync never lets content of the former
\* configuration be served (update_knowledge_source, the check before the
\* hybrid promotion).
ServedMatchesConfig ==
    source.enabled /\ ~source.suspended /\ source.current # None =>
        versions[source.current].key[2] = source.config

\* A finished run keeps its result until its row is pruned, unless a starting
\* indexer failed it as stale while another still worked on it
\* (finish_background_job, reconcile_stale_background_jobs).
FinishedStays ==
    [][\A r \in Run : runs[r] \in Terminal /\ r \notin disowned =>
            runs'[r] \in {runs[r], "none"}]_vars

\* A sync that ends well lets the source be served again
\* (update_knowledge_source's suspension reason).
SyncResumes ==
    [][\A r \in Run : runs[r] = "running" /\ runs'[r] \in {"succeeded", "skipped"}
            => ~source'.suspended]_vars

\* Between two syncs an indexer has no lock, no run and no version.
AtRest(w) == Pc(w) \in {"down", "poll", "queue", "list", "serve"}

\* The version an indexer is about to promote is its own: it has the lock, the
\* row has the identity of what was uploaded, and no other sync and no pruning
\* touches that row.
OwnVersion(w) ==
    /\ lock = w <=> ~AtRest(w)
    /\ ~AtRest(w) => wk[w].config \in Config
    /\ AtRest(w) \/ Pc(w) \in {"claim", "reject", "resolve", "configure"} => wk[w].ver = None
    /\ Pc(w) \in {"extract", "bundle", "publish", "upload", "promote"} =>
          /\ wk[w].ver \in Version /\ wk[w].key \in Key
          /\ versions[wk[w].ver] = [status |-> "running", key |-> wk[w].key]
    /\ Pc(w) = "promote" => wk[w].key \in published
    /\ Pc(w) \in {"configure", "build", "commit"} => source.kind = "hybrid_vector"
    /\ Pc(w) \in {"build", "commit"} =>
          /\ wk[w].ver \in Version
          /\ versions[wk[w].ver] = [status |-> "pending", key |-> None]
    /\ Pc(w) = "commit" => wk[w].key \in Key

\* An identity has one row, a succeeded row has an identity, and housekeeping
\* is about to delete neither the promoted version nor one that is being built.
RowsInv ==
    /\ \A u, v \in Version : versions[u].key = versions[v].key /\ versions[u].key # None => u = v
    /\ \A v \in Version : versions[v].status = "succeeded" => versions[v].key \in Key
    /\ \A v \in Version : versions[v].status = "none" => versions[v].key = None
    /\ lock # Housekeeper => victims = {}
    /\ source.current \notin victims
    /\ \A v \in victims : versions[v].status \in {"succeeded", "failed"}

\* Whoever may still promote a succeeded version finds its bundle, but for the
\* rows that a pruning left without some of it.
BundlesInv ==
    source.kind = "code_graph" =>
        \A v \in Version \ (victims \union halfPruned) :
            versions[v].status = "succeeded" => versions[v].key \in published

\* The inductive invariant behind CurrentServable.
SyncInv == (\A w \in Worker : OwnVersion(w)) /\ RowsInv /\ BundlesInv

\* The run of a sync is running, so nobody else ends it, or it was failed under
\* the sync's feet: the inductive invariant behind FinishedStays.
RunsInv ==
    /\ \A w \in Worker :
          /\ ~AtRest(w) => wk[w].job \in Run
          /\ ~AtRest(w) /\ Pc(w) # "claim" =>
                runs[wk[w].job] = "running" \/ wk[w].job \in disowned
    /\ \A r \in expired : runs[r] = "running"

\* What an indexer builds has the configuration it read, and that is the one of
\* the source: for a hybrid source unless an edit is noticed at the promotion, for
\* a code graph unless the source is suspended, which no sync ends.
ConfigOwn(w) ==
    /\ wk[w].fresh => wk[w].config = source.config
    /\ ~AtRest(w) /\ source.kind = "code_graph" /\ ~source.suspended =>
          wk[w].config = source.config
    /\ Pc(w) \in {"resolve", "extract", "bundle", "publish", "upload", "promote"} =>
          source.kind = "code_graph"
    /\ Pc(w) \in {"extract", "bundle", "publish", "upload", "promote", "commit"} =>
          wk[w].key[2] = wk[w].config

\* The inductive invariant behind ServedMatchesConfig.
ConfigInv ==
    /\ \A w \in Worker : ConfigOwn(w)
    /\ ~source.suspended /\ source.current # None =>
          versions[source.current].key[2] = source.config
=============================================================================
