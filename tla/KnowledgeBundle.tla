--------------------------- MODULE KnowledgeBundle ---------------------------
(* What a sync of a code-graph source publishes, and what the Knowledge MCP  *)
(* accepts of it (shared/lib/knowledge_source_graphify.py, _indexer.py,      *)
(* _publication.py and _cache.py).                                           *)
(*                                                                           *)
(* A sync copies the files of its scope into a snapshot, lets Graphify       *)
(* refresh the output it keeps from one sync to the next, and packs graph,   *)
(* source, logs and a manifest into a bundle.  The objects of a bundle are   *)
(* named by commit and configuration hash and are never overwritten: a sync  *)
(* that finds one must have built the same.  An indexer may die between any  *)
(* two of them.  KnowledgeSync shows that syncs of one source do not         *)
(* overlap, and that an edit of its repository or scope waits for them.      *)
(*                                                                           *)
(* A file is its path, and an artifact is its content: equal checksums are   *)
(* equal contents.                                                           *)
EXTENDS Integers, Sequences, FiniteSets

CONSTANTS Commits, Urls, Scopes, Files, None,
          Tree,          \* files of each commit
          InScope,       \* files that each scope includes and does not exclude
          Pseudo,        \* path of a node that is no file of the repository
          Logs,          \* what Graphify prints
          MaxFaults, MaxEdits

(* What an object may hold: a graph or source, a log, a manifest.            *)
Parts     == [graph : SUBSET Files, source : SUBSET Files, log : Logs]
Manifests == [url : Urls, scope : Scopes, commit : Commits, parts : Parts]

BundleAssumption ==
  /\ Tree \in [Commits -> SUBSET Files] /\ InScope \in [Scopes -> SUBSET Files]
  /\ Pseudo \notin Files /\ MaxFaults \in Nat /\ MaxEdits \in Nat
  /\ \A object \in SUBSET Files : object # None
  /\ \A manifest \in Manifests : manifest # None

Keys == Commits \X Scopes   \* prefix of the object names, of one source

ArtifactOrder == <<"graph", "source", "log", "manifest">>
Artifacts == {"graph", "source", "log", "manifest"}

VARIABLES
  upstream,  \* commit of the ref
  registry,  \* repository and scope of the source
  synced,    \* a sync has succeeded since the last edit
  snapshot,  \* files in the indexer's snapshot directory
  work,      \* Graphify's output: the files it indexed and those its nodes name
  stage,     \* of the sync: "idle", "extract", "build", "publish" or "promote"
  key,       \* what it syncs
  bundle,    \* what it has built
  position,  \* the artifact it publishes
  store,     \* the objects
  version,   \* status of the row of each key
  sums,      \* artifact_checksums of the row
  current,   \* current_successful_version_id
  edits, faults

vars == <<upstream, registry, synced, snapshot, work, stage, key, bundle,
          position, store, version, sums, current, edits, faults>>

NoObjects == [a \in Artifacts |-> None]

Init ==
  /\ upstream \in Commits /\ registry \in [url : Urls, scope : Scopes]
  /\ synced = FALSE /\ snapshot = {} /\ work = [indexed |-> {}, named |-> {}]
  /\ stage = "idle" /\ key = None /\ bundle = NoObjects /\ position = 1
  /\ store = [k \in Keys |-> NoObjects] /\ version = [k \in Keys |-> "none"]
  /\ sums = [k \in Keys |-> NoObjects] /\ current = None
  /\ edits = 0 /\ faults = 0

Fault == faults < MaxFaults /\ faults' = faults + 1

-----------------------------------------------------------------------------
(* The repository moves, and the operator edits the source *)

Push(c) ==
  /\ upstream' = c
  /\ UNCHANGED <<registry, synced, snapshot, work, stage, key, bundle, position,
                 store, version, sums, current, edits, faults>>

Edit(url, scope) ==
  /\ stage = "idle" /\ edits < MaxEdits /\ edits' = edits + 1
  /\ registry' = [url |-> url, scope |-> scope] /\ registry' # registry
  /\ synced' = FALSE
  /\ UNCHANGED <<upstream, snapshot, work, stage, key, bundle, position, store,
                 version, sums, current, faults>>

-----------------------------------------------------------------------------
(* A sync *)

Scoped(commit, scope) == Tree[commit] \cap InScope[scope]

(* The URL is no part of the key, although the manifest has it.              *)
Prepare ==
  LET k == <<upstream, registry.scope>> IN
  /\ stage = "idle"
  /\ snapshot' = Scoped(upstream, registry.scope)
  /\ IF version[k] = "succeeded"
       THEN /\ current' = k /\ synced' = TRUE
            /\ UNCHANGED <<stage, key, version>>
       ELSE /\ stage' = "extract" /\ key' = k
            /\ version' = [version EXCEPT ![k] = "running"]
            /\ UNCHANGED <<current, synced>>
  /\ UNCHANGED <<upstream, registry, work, bundle, position, store, sums, edits,
                 faults>>

Ended == stage' = "idle" /\ key' = None /\ bundle' = NoObjects /\ position' = 1

Failed ==
  /\ version' = [version EXCEPT ![key] = "failed"] /\ Ended
  /\ UNCHANGED <<upstream, registry, synced, snapshot, store, sums, current, edits>>

(* Graphify is external: it may keep files that are gone, and name paths of  *)
(* its own.  Output that does not hold together fails the sync.              *)
Extract ==
  /\ stage = "extract"
  /\ \/ /\ \E kept \in {{}, work.indexed}, own \in {{}, {Pseudo}} :
             work' = [indexed |-> snapshot \cup kept,
                      named   |-> snapshot \cup kept \cup own]
        /\ stage' = "build"
        /\ UNCHANGED <<upstream, registry, synced, snapshot, key, bundle, position,
                       store, version, sums, current, edits, faults>>
     \/ Fault /\ Failed /\ UNCHANGED work

Normalized(named) == named \cap snapshot

(* The manifest has the checksums of the others.                             *)
Packed(log) ==
  LET parts == [graph |-> Normalized(work.named), source |-> snapshot, log |-> log]
  IN  [graph |-> parts.graph, source |-> parts.source, log |-> parts.log,
       manifest |-> [url |-> registry.url, scope |-> key[2], commit |-> key[1],
                     parts |-> parts]]

Build ==
  /\ stage = "build"
  /\ IF work.indexed \subseteq snapshot
       THEN /\ \E log \in Logs : bundle' = Packed(log)
            /\ stage' = "publish"
            /\ UNCHANGED <<upstream, registry, synced, snapshot, key, position,
                           store, version, sums, current, edits>>
       ELSE Failed
  /\ UNCHANGED <<work, faults>>

Artifact == ArtifactOrder[position]
Uploaded == store' = [store EXCEPT ![key][Artifact] = bundle[Artifact]]
Matches  == store[key][Artifact] = bundle[Artifact]

Onward ==
  /\ IF position = Len(ArtifactOrder)
       THEN stage' = "promote" /\ UNCHANGED position
       ELSE position' = position + 1 /\ UNCHANGED stage
  /\ UNCHANGED <<upstream, registry, synced, snapshot, work, key, bundle, version,
                 sums, current, edits, faults>>

\* Mutant: an object that exists is taken for this one.
PublishTrusting ==
  /\ stage = "publish" /\ Onward
  /\ IF store[key][Artifact] = None THEN Uploaded ELSE UNCHANGED store

Publish ==
  /\ stage = "publish"
  /\ \/ store[key][Artifact] = None /\ Uploaded /\ Onward
     \/ Matches /\ Onward /\ UNCHANGED store
     \/ /\ store[key][Artifact] # None /\ ~Matches
        /\ Failed /\ UNCHANGED <<work, faults>>
     \/ Fault /\ Failed /\ UNCHANGED work

Promote ==
  /\ stage = "promote" /\ Ended
  /\ version' = [version EXCEPT ![key] = "succeeded"]
  /\ sums' = [sums EXCEPT ![key] = bundle]
  /\ current' = key /\ synced' = TRUE
  /\ UNCHANGED <<upstream, registry, snapshot, work, store, edits, faults>>

(* The indexer dies; its row stays running until a later sync takes it over. *)
Crash ==
  /\ stage # "idle" /\ Fault /\ Ended
  /\ UNCHANGED <<upstream, registry, synced, snapshot, work, store, version, sums,
                 current, edits>>

-----------------------------------------------------------------------------
Next ==
  \/ \E c \in Commits : Push(c)
  \/ \E url \in Urls, scope \in Scopes : Edit(url, scope)
  \/ Prepare \/ Extract \/ Build \/ Publish \/ Promote \/ Crash

Spec == Init /\ [][Next]_vars

-----------------------------------------------------------------------------
(* What the Knowledge MCP checks before it serves the promoted version: the  *)
(* checksums of the row, the identity of the manifest, its checksums, and    *)
(* that the files the graph names are in the archive.                        *)
Downloads(k) ==
  \A a \in {"manifest", "graph", "source"} : store[k][a] # None /\ store[k][a] = sums[k][a]

Identity(k) ==
  LET manifest == store[k]["manifest"] IN
  <<manifest.commit, manifest.url, manifest.scope>> = <<k[1], registry.url, registry.scope>>

ServingGraph(k) ==
  LET manifest == store[k]["manifest"] IN
  /\ manifest.parts.graph = store[k]["graph"] /\ manifest.parts.source = store[k]["source"]
  /\ store[k]["graph"] \subseteq store[k]["source"]

(* Every version that was ever promoted still downloads, its artifacts are   *)
(* of one build, and its archive holds the files of its scope and no other,  *)
(* whatever failed, died or was edited on the way.                            *)
BundleWhole ==
  \A k \in Keys : version[k] = "succeeded" =>
    /\ Downloads(k) /\ ServingGraph(k)
    /\ store[k]["source"] = Scoped(k[1], k[2])

(* Once a sync has succeeded after an edit, the Knowledge MCP can hydrate    *)
(* the version the source points to: an edit suspends serving with the words *)
(* "queue a successful sync to resume serving".                               *)
SyncedServes ==
  stage = "idle" /\ synced => Downloads(current) /\ Identity(current)
==============================================================================
