--------------------------- MODULE ServingProofs ---------------------------
(***************************************************************************)
(* How knowledge is published, indexed and served, for every value of the    *)
(* constants.                                                                *)
(*                                                                           *)
(* Publication: for any number of faults and edits, a version that was ever  *)
(* promoted has its objects, all of one build, and its archive holds the     *)
(* files of its commit and scope.  Then the cache of the Knowledge MCP       *)
(* (ServingInv), the hybrid index (IndexInv), the search of a hybrid source  *)
(* (RetrievalInv) and the graph tools (QueriesInv), as MCServing puts them   *)
(* beside the publication.                                                   *)
(***************************************************************************)
EXTENDS MCServing, FiniteSetTheorems, TLAPS

-----------------------------------------------------------------------------
(* Publication.                                                            *)

\* The types of what the proof reads.
TypeOK ==
  /\ upstream \in Commits /\ registry \in [url : Urls, scope : Scopes]
  /\ stage \in {"idle", "extract", "build", "publish", "promote"}
  /\ position \in 1..4
  /\ store = [k \in Keys |-> [a \in Artifacts |-> store[k][a]]]
  /\ version = [k \in Keys |-> version[k]]
  /\ sums = [k \in Keys |-> sums[k]]

\* A sync works on a version that has not succeeded, from a snapshot of its files.
KeyInv ==
  stage # "idle" =>
    /\ key \in Keys /\ version[key] # "succeeded"
    /\ snapshot = Scoped(key[1], key[2])

\* What is built holds together.
BundleInv ==
  stage \in {"publish", "promote"} =>
    /\ bundle["source"] = snapshot
    /\ bundle["graph"] \in SUBSET snapshot
    /\ bundle["manifest"] \in Manifests
    /\ bundle["manifest"].parts.graph = bundle["graph"]
    /\ bundle["manifest"].parts.source = bundle["source"]

\* The objects before the position of the sync are the ones it built.
StoreInv ==
  /\ stage \notin {"publish", "promote"} => position = 1
  /\ \A i \in 1..4 :
       stage = "promote" \/ (stage = "publish" /\ i < position) =>
         store[key][ArtifactOrder[i]] = bundle[ArtifactOrder[i]]

IInv == TypeOK /\ KeyInv /\ BundleInv /\ StoreInv /\ BundleWhole

-------------------------------------------------------------------------------
LEMMA OrderOfArtifacts ==
  /\ ArtifactOrder[1] = "graph" /\ ArtifactOrder[2] = "source"
  /\ ArtifactOrder[3] = "log" /\ ArtifactOrder[4] = "manifest"
  /\ Len(ArtifactOrder) = 4
BY DEF ArtifactOrder

\* The files of a scope at a commit are files.
LEMMA ScopedFiles ==
  ASSUME BundleAssumption, NEW k \in Keys
  PROVE  Scoped(k[1], k[2]) \in SUBSET Files
BY DEF BundleAssumption, Keys, Scoped

\* A succeeded version keeps what it has while its row and objects stay.
LEMMA WholeStays ==
  ASSUME BundleWhole,
         \A k \in Keys : version'[k] = "succeeded" =>
           version[k] = "succeeded" /\ store'[k] = store[k] /\ sums'[k] = sums[k]
  PROVE  BundleWhole'
BY DEF BundleWhole, Downloads, ServingGraph

LEMMA InitHolds == BundleAssumption /\ Init => IInv
BY DEF Init, IInv, TypeOK, KeyInv, BundleInv, StoreInv, BundleWhole, NoObjects

\* A sync that has failed leaves every succeeded version as it was.
LEMMA FailedKeeps ==
  ASSUME IInv, stage # "idle", Failed
  PROVE  IInv'
<1>1. stage' = "idle" /\ version'[key] # "succeeded"
      /\ (\A k \in Keys : k # key => version'[k] = version[k])
  BY DEF Failed, Ended, IInv, TypeOK, KeyInv
<1>2. TypeOK'
  <2>1. version' = [k \in Keys |-> version'[k]]
    BY DEF Failed, IInv, TypeOK
  <2> QED BY <2>1 DEF Failed, Ended, IInv, TypeOK
<1>3. KeyInv' /\ BundleInv' /\ StoreInv'
  BY <1>1 DEF KeyInv, BundleInv, StoreInv, Failed, Ended
<1>4. BundleWhole'
  BY <1>1, WholeStays DEF Failed, IInv
<1> QED BY <1>2, <1>3, <1>4 DEF IInv

LEMMA PrepareKeeps ==
  ASSUME IInv, Prepare PROVE IInv'
<1> DEFINE k == <<upstream, registry.scope>>
<1>0. k \in Keys /\ k[1] = upstream /\ k[2] = registry.scope
  BY DEF IInv, TypeOK, Keys
<1>1. CASE version[k] = "succeeded"
  <2>1. stage' = "idle" /\ UNCHANGED <<upstream, registry, position, store, version, sums>>
    BY <1>1 DEF Prepare
  <2>2. TypeOK'
    BY <2>1 DEF IInv, TypeOK
  <2>3. KeyInv' /\ BundleInv' /\ StoreInv'
    BY <2>1 DEF Prepare, KeyInv, BundleInv, StoreInv, IInv
  <2>4. BundleWhole'
    BY <2>1, WholeStays DEF IInv
  <2> QED BY <2>2, <2>3, <2>4 DEF IInv
<1>2. CASE version[k] # "succeeded"
  <2>1. /\ stage' = "extract" /\ key' = k /\ snapshot' = Scoped(k[1], k[2])
        /\ version' = [version EXCEPT ![k] = "running"]
        /\ UNCHANGED <<upstream, registry, position, store, sums>>
    BY <1>0, <1>2 DEF Prepare
  <2>2. TypeOK'
    BY <2>1 DEF IInv, TypeOK
  <2>3. version'[k] = "running" /\ (\A j \in Keys : j # k => version'[j] = version[j])
    BY <1>0, <2>1 DEF IInv, TypeOK
  <2>4. KeyInv'
    BY <1>0, <2>1, <2>3 DEF KeyInv
  <2>5. BundleInv' /\ StoreInv'
    BY <2>1 DEF Prepare, IInv, BundleInv, StoreInv
  <2>6. BundleWhole'
    BY <2>1, <2>3, WholeStays DEF IInv
  <2> QED BY <2>2, <2>4, <2>5, <2>6 DEF IInv
<1> QED BY <1>1, <1>2

LEMMA ExtractKeeps ==
  ASSUME IInv, Extract PROVE IInv'
<1>1. CASE Failed
  BY <1>1, FailedKeeps DEF Extract
<1>2. CASE ~Failed
  <2>1. /\ stage = "extract" /\ stage' = "build"
        /\ UNCHANGED <<upstream, registry, snapshot, key, position, store, version, sums>>
    BY <1>2 DEF Extract
  <2>2. TypeOK' /\ KeyInv' /\ BundleInv' /\ StoreInv'
    BY <2>1 DEF IInv, TypeOK, KeyInv, BundleInv, StoreInv
  <2>3. BundleWhole'
    BY <2>1, WholeStays DEF IInv
  <2> QED BY <2>2, <2>3 DEF IInv
<1> QED BY <1>1, <1>2

LEMMA BuildKeeps ==
  ASSUME BundleAssumption, IInv, Build PROVE IInv'
<1>1. CASE ~(work.indexed \subseteq snapshot)
  BY <1>1, FailedKeeps DEF Build
<1>2. CASE work.indexed \subseteq snapshot
  <2>1. PICK log \in Logs : bundle' = Packed(log)
    BY <1>2 DEF Build
  <2>2. /\ stage = "build" /\ stage' = "publish"
        /\ UNCHANGED <<upstream, registry, snapshot, key, position, store, version, sums>>
    BY <1>2 DEF Build
  <2>3. TypeOK' /\ KeyInv'
    BY <2>2 DEF IInv, TypeOK, KeyInv
  <2>4. key \in Keys /\ snapshot \in SUBSET Files
    BY <2>2, ScopedFiles DEF IInv, KeyInv
  <2> DEFINE graph == Normalized(work.named)
             parts == [graph |-> graph, source |-> snapshot, log |-> log]
             manifest == [url |-> registry.url, scope |-> key[2], commit |-> key[1], parts |-> parts]
  <2>5. graph \in SUBSET snapshot
    BY DEF Normalized
  <2>6. parts \in Parts
    BY <2>4, <2>5 DEF Parts
  <2>7. manifest \in Manifests
    BY <2>4, <2>6 DEF Manifests, Keys, IInv, TypeOK
  <2>8. /\ bundle'["graph"] = graph /\ bundle'["source"] = snapshot
        /\ bundle'["manifest"] = manifest
    BY <2>1 DEF Packed
  <2>9. manifest.parts.graph = graph /\ manifest.parts.source = snapshot
    OBVIOUS
  <2>10. BundleInv'
    BY <2>2, <2>5, <2>7, <2>8, <2>9 DEF BundleInv
  <2>11. StoreInv'
    BY <2>2 DEF IInv, TypeOK, StoreInv
  <2>12. BundleWhole'
    BY <2>2, WholeStays DEF IInv
  <2> QED BY <2>3, <2>10, <2>11, <2>12 DEF IInv
<1> QED BY <1>1, <1>2

\* Publishing one object goes on only with the object that was built in place.
LEMMA PublishKeeps ==
  ASSUME IInv, Publish PROVE IInv'
<1>1. CASE Failed
  BY <1>1, FailedKeeps DEF Publish
<1>2. CASE ~Failed
  <2>1. /\ stage = "publish" /\ Onward
        /\ (Uploaded /\ store[key][Artifact] = None) \/ (Matches /\ UNCHANGED store)
    BY <1>2 DEF Publish
  <2>2. /\ key \in Keys /\ position \in 1..4 /\ Artifact \in Artifacts
        /\ version[key] # "succeeded"
    BY <2>1, OrderOfArtifacts DEF IInv, TypeOK, KeyInv, Artifact, Artifacts
  <2>3. UNCHANGED <<upstream, registry, snapshot, key, bundle, version, sums>>
    BY <2>1 DEF Onward
  <2>4. /\ store'[key][Artifact] = bundle[Artifact]
        /\ \A k \in Keys, a \in Artifacts :
             k # key \/ a # Artifact => store'[k][a] = store[k][a]
        /\ \A k \in Keys : k # key => store'[k] = store[k]
        /\ store' = [k \in Keys |-> [a \in Artifacts |-> store'[k][a]]]
    <3>1. CASE Matches /\ UNCHANGED store
      BY <3>1 DEF Matches, IInv, TypeOK
    <3>2. CASE Uploaded
      BY <2>2, <3>2 DEF Uploaded, IInv, TypeOK
    <3> QED BY <2>1, <3>1, <3>2
  <2>5. /\ stage' \in {"publish", "promote"}
        /\ \/ position = 4 /\ stage' = "promote" /\ position' = 4
           \/ position # 4 /\ stage' = "publish" /\ position' = position + 1
    BY <2>1, <2>2, OrderOfArtifacts DEF Onward
  <2>6. TypeOK'
    <3>1. position' \in 1..4
      BY <2>2, <2>5
    <3> QED BY <2>3, <2>4, <2>5, <3>1 DEF IInv, TypeOK
  <2>7. KeyInv' /\ BundleInv'
    BY <2>1, <2>3, <2>5 DEF IInv, KeyInv, BundleInv
  <2>8. StoreInv'
    <3>1. ASSUME NEW i \in 1..4, i < position
          PROVE  store'[key][ArtifactOrder[i]] = bundle[ArtifactOrder[i]]
      <4>1. store[key][ArtifactOrder[i]] = bundle[ArtifactOrder[i]]
        BY <2>1, <3>1 DEF IInv, StoreInv
      <4>2. ArtifactOrder[i] \in Artifacts
        BY <3>1, OrderOfArtifacts DEF Artifacts
      <4>3. CASE ArtifactOrder[i] = Artifact
        BY <2>4, <4>3
      <4>4. CASE ArtifactOrder[i] # Artifact
        BY <2>2, <2>4, <4>1, <4>2, <4>4
      <4> QED BY <4>3, <4>4
    <3>2. store'[key][ArtifactOrder[position]] = bundle[ArtifactOrder[position]]
      BY <2>4 DEF Artifact
    <3>3. ASSUME NEW i \in 1..4, stage' = "promote" \/ (stage' = "publish" /\ i < position')
          PROVE  i < position \/ i = position
      BY <2>2, <2>5, <3>3
    <3> QED BY <2>3, <2>5, <3>1, <3>2, <3>3 DEF StoreInv
  <2>9. BundleWhole'
    BY <2>2, <2>3, <2>4, WholeStays DEF IInv
  <2> QED BY <2>6, <2>7, <2>8, <2>9 DEF IInv
<1> QED BY <1>1, <1>2

\* The row of a version is marked succeeded when all objects it names are its own.
LEMMA PromoteKeeps ==
  ASSUME BundleAssumption, IInv, Promote PROVE IInv'
<1>1. /\ stage = "promote" /\ stage' = "idle" /\ position' = 1
      /\ UNCHANGED <<upstream, registry, store>>
      /\ version' = [version EXCEPT ![key] = "succeeded"]
      /\ sums' = [sums EXCEPT ![key] = bundle]
  BY DEF Promote, Ended
<1>2. key \in Keys /\ snapshot = Scoped(key[1], key[2])
  BY <1>1 DEF IInv, KeyInv
<1>3. TypeOK'
  <2>1. version' = [k \in Keys |-> version'[k]]
    BY <1>1 DEF IInv, TypeOK
  <2>2. sums' = [k \in Keys |-> sums'[k]]
    BY <1>1 DEF IInv, TypeOK
  <2> QED BY <1>1, <2>1, <2>2 DEF IInv, TypeOK
<1>4. KeyInv' /\ BundleInv' /\ StoreInv'
  BY <1>1 DEF KeyInv, BundleInv, StoreInv
<1>5. /\ store[key]["graph"] = bundle["graph"] /\ store[key]["source"] = bundle["source"]
      /\ store[key]["manifest"] = bundle["manifest"]
  BY <1>1, OrderOfArtifacts DEF IInv, StoreInv
<1>6. /\ bundle["source"] = snapshot /\ bundle["graph"] \in SUBSET snapshot
      /\ bundle["manifest"] \in Manifests
      /\ bundle["manifest"].parts.graph = bundle["graph"]
      /\ bundle["manifest"].parts.source = bundle["source"]
  BY <1>1 DEF IInv, BundleInv
<1>7. bundle["graph"] # None /\ bundle["source"] # None /\ bundle["manifest"] # None
  <2>1. snapshot \in SUBSET Files
    BY <1>2, ScopedFiles
  <2> QED BY <1>6, <2>1 DEF BundleAssumption
<1>8. ASSUME NEW k \in Keys, version'[k] = "succeeded"
      PROVE  (Downloads(k) /\ ServingGraph(k) /\ store[k]["source"] = Scoped(k[1], k[2]))'
  <2>1. CASE k = key
    <3>1. sums'[k] = bundle /\ store'[k] = store[k]
      BY <1>1, <1>2, <2>1 DEF IInv, TypeOK
    <3> QED BY <1>2, <1>5, <1>6, <1>7, <2>1, <3>1 DEF Downloads, ServingGraph
  <2>2. CASE k # key
    <3>1. sums'[k] = sums[k] /\ store'[k] = store[k] /\ version[k] = "succeeded"
      BY <1>1, <1>2, <1>8, <2>2 DEF IInv, TypeOK
    <3> QED BY <3>1 DEF IInv, BundleWhole, Downloads, ServingGraph
  <2> QED BY <2>1, <2>2
<1>9. BundleWhole'
  BY <1>8 DEF BundleWhole
<1> QED BY <1>3, <1>4, <1>9 DEF IInv

\* Whatever dies or changes between two steps of a sync.
LEMMA OthersKeep ==
  ASSUME IInv,
         \/ \E c \in Commits : Push(c)
         \/ \E url \in Urls, scope \in Scopes : Edit(url, scope)
         \/ Crash
         \/ UNCHANGED vars
  PROVE  IInv'
<1>1. UNCHANGED <<store, version, sums>>
  BY DEF Push, Edit, Crash, vars
<1>2. BundleWhole'
  BY <1>1, WholeStays DEF IInv
<1>3. ASSUME NEW c \in Commits, Push(c) PROVE TypeOK' /\ KeyInv' /\ BundleInv' /\ StoreInv'
  BY <1>3 DEF Push, IInv, TypeOK, KeyInv, BundleInv, StoreInv
<1>4. ASSUME NEW url \in Urls, NEW scope \in Scopes, Edit(url, scope)
      PROVE  TypeOK' /\ KeyInv' /\ BundleInv' /\ StoreInv'
  BY <1>4 DEF Edit, IInv, TypeOK, KeyInv, BundleInv, StoreInv
<1>5. ASSUME Crash PROVE TypeOK' /\ KeyInv' /\ BundleInv' /\ StoreInv'
  BY <1>5 DEF Crash, Ended, IInv, TypeOK, KeyInv, BundleInv, StoreInv
<1>6. ASSUME UNCHANGED vars PROVE TypeOK' /\ KeyInv' /\ BundleInv' /\ StoreInv'
  BY <1>6 DEF vars, IInv, TypeOK, KeyInv, BundleInv, StoreInv
<1> QED BY <1>2, <1>3, <1>4, <1>5, <1>6 DEF IInv

-------------------------------------------------------------------------------
\* Every version that was ever promoted still downloads, its objects are of one
\* build and its archive has the files of its commit and scope, whatever failed,
\* died or was edited on the way.
THEOREM PublishedWhole == Spec => []BundleWhole
<1>1. Init => IInv
  BY Assumptions, InitHolds
<1>2. IInv /\ [Next]_vars => IInv'
  BY Assumptions, PrepareKeeps, ExtractKeeps, BuildKeeps, PublishKeeps, PromoteKeeps, OthersKeep DEF Next
<1>3. IInv => BundleWhole
  BY DEF IInv
<1> QED BY <1>1, <1>2, <1>3, PTL DEF Spec

-----------------------------------------------------------------------------
(* The cache of the Knowledge MCP.  Its slots: s1 current, s2 servable, s3   *)
(* granted, s4 refresh, s5 row, s6 hydrated, s7 served, s8 disk, s9 order,   *)
(* s10 doomed, s11 pinned, s12 budget, s13 faults, s14 switches.             *)

LEMMA NoVersionIsNone == V!NoVersion \notin Versions
BY Assumptions DEF V!ServingAssumption, V!NoVersion

\* A step of the refresh that neither swaps, removes nor replaces anything.
LEMMA ServingQuiet ==
    ASSUME V!ServingInv, V!TypeOK', UNCHANGED <<s7, s11>>,
           s4' # "removes" \/ (s4 = "removes" /\ s10' = s10),
           \A v \in Versions : s8'[v] = "absent" => s8[v] = "absent",
           s4 = "replaces" => s4' = "replaces" /\ s5' = s5,
           s4' \in {"hydrates", "replaces"} => s6' = V!NoVersion /\ s5' \in Versions,
           s4' = "swaps" => s6' = V!NoVersion \/ (s4 = "swaps" /\ s6' = s6)
    PROVE  V!ServingInv'
<1>1. ASSUME NEW v \in Versions \cup {V!NoVersion}, V!Stays(v)
      PROVE  V!Stays(v)'
  BY <1>1 DEF V!Stays
<1>2. /\ s7 \in Versions \cup {V!NoVersion} /\ s6' \in Versions \cup {V!NoVersion}
      /\ \A c \in Calls : s11[c] \in Versions \cup {V!NoVersion}
  BY DEF V!ServingInv, V!TypeOK
<1>3. s4' = "swaps" => V!Stays(s6)'
  <2>1. CASE s6' = V!NoVersion
    BY <2>1 DEF V!Stays
  <2>2. CASE s4 = "swaps" /\ s6' = s6
    BY <1>1, <1>2, <2>2 DEF V!ServingInv
  <2> QED BY <2>1, <2>2
<1>4. \A v \in {s7} \cup {s11[c] : c \in Calls} :
        V!Stays(v)' /\ (s4' = "removes" /\ v # V!NoVersion => v \notin s10')
  BY <1>1, <1>2 DEF V!ServingInv
<1> QED BY <1>3, <1>4 DEF V!ServingInv

LEMMA ServingInit == V!Init => V!ServingInv
BY DEF V!Init, V!ServingInv, V!TypeOK, V!Stays

LEMMA ServingTypes == V!TypeOK /\ V!Next => V!TypeOK'
<1> SUFFICES ASSUME V!TypeOK, V!Next PROVE V!TypeOK'
  OBVIOUS
<1> USE DEF V!TypeOK
<1>1. CASE V!Promote \/ V!Switch
  BY <1>1 DEF V!Promote, V!Switch, V!cache
<1>2. CASE V!Select
  BY <1>2 DEF V!Select, V!Without, V!registry, V!cache
<1>3. CASE V!HydrationFails \/ V!Load \/ V!ChooseDoomed \/ V!Finish
  BY <1>3 DEF V!HydrationFails, V!Load, V!ChooseDoomed, V!Finish, V!registry, V!cache
<1>4. CASE V!Replace \/ V!Install
  BY <1>4 DEF V!Replace, V!Install, V!registry
<1>5. CASE V!Swap
  BY <1>5 DEF V!Swap, V!Without, V!registry, V!cache
<1>6. CASE V!RemoveTree
  BY <1>6 DEF V!RemoveTree, V!registry
<1>7. CASE V!Damage
  BY <1>7 DEF V!Damage, V!registry
<1>8. CASE V!Crash
  BY <1>8 DEF V!Crash, V!registry, V!cache
<1>9. ASSUME NEW c \in Calls, V!Return(c) \/ \E task \in Tasks : V!Call(c, task) PROVE V!TypeOK'
  BY <1>9 DEF V!Return, V!Call, V!registry, V!cache
<1> QED BY <1>1, <1>2, <1>3, <1>4, <1>5, <1>6, <1>7, <1>8, <1>9 DEF V!Next, V!Refresh

\* The directory a refresh takes away is the one it puts back.
LEMMA ReplaceKeeps ==
    ASSUME V!ServingInv, V!TypeOK', V!Replace \/ V!Install
    PROVE  V!ServingInv'
<1>1. /\ UNCHANGED <<s5, s6, s7, s11>> /\ s5 \in Versions /\ s6 = V!NoVersion
      /\ \/ s4 = "hydrates" /\ s4' = "replaces" /\ s8' = [s8 EXCEPT ![s5] = "absent"]
         \/ s4 = "replaces" /\ s4' = "hydrates" /\ s8' = [s8 EXCEPT ![s5] = "whole"]
  BY DEF V!Replace, V!Install, V!ServingInv, V!registry
<1>2. /\ \A v \in Versions \ {s5} : s8'[v] = s8[v]
      /\ s4' = "hydrates" => s8'[s5] = "whole"
  BY <1>1 DEF V!ServingInv, V!TypeOK
<1>3. \A v \in Versions \cup {V!NoVersion} : V!Stays(v) => V!Stays(v)'
  BY <1>1, <1>2, NoVersionIsNone DEF V!Stays
<1>4. /\ s7 \in Versions \cup {V!NoVersion}
      /\ \A c \in Calls : s11[c] \in Versions \cup {V!NoVersion}
  BY DEF V!ServingInv, V!TypeOK
<1> QED BY <1>1, <1>3, <1>4 DEF V!ServingInv

\* What is served after a swap was on disk when it was loaded.
LEMMA SwapKeeps ==
    ASSUME V!ServingInv, V!TypeOK', V!Swap \/ V!Select
    PROVE  V!ServingInv'
<1>1. /\ UNCHANGED <<s8, s11>> /\ s4 \in {"swaps", "waits"}
      /\ s4' \in {"hydrates", "swaps", "cleans"}
      /\ s7' \in {s7, s6, V!NoVersion} /\ (s4 = "waits" => s7' # s6 \/ s7' \in {s7, V!NoVersion})
      /\ s4' \in {"hydrates", "swaps"} => s6' = V!NoVersion
      /\ s4' = "hydrates" => s5' \in Versions
  BY DEF V!Swap, V!Select, V!Without, V!registry, V!cache, V!ServingInv, V!TypeOK
<1>2. \A v : s4 \notin {"replaces"} /\ V!Stays(v) => V!Stays(v)'
  BY <1>1 DEF V!Stays
<1>3. V!Stays(s7)'
  BY <1>1, <1>2 DEF V!Stays, V!ServingInv
<1> QED BY <1>1, <1>2, <1>3 DEF V!ServingInv, V!Stays

\* A cleanup has nothing on its list that was held when it made the list.
LEMMA CleanupKeeps ==
    ASSUME V!ServingInv, V!TypeOK', V!ChooseDoomed \/ V!RemoveTree
    PROVE  V!ServingInv'
<1>1. CASE V!ChooseDoomed
  <2>1. /\ UNCHANGED <<s5, s6, s7, s8, s11>> /\ s4 = "cleans" /\ s4' = "removes"
        /\ \A v \in {s7} \cup {s11[c] : c \in Calls} : v \notin s10'
    BY <1>1 DEF V!ChooseDoomed, V!Retained, V!Held, V!registry, V!cache
  <2> QED BY <2>1 DEF V!ServingInv, V!Stays
<1>2. CASE V!RemoveTree
  <2>1. PICK v \in s10 : s8' = [s8 EXCEPT ![v] = "absent"] /\ s10' = s10 \ {v}
    BY <1>2 DEF V!RemoveTree
  <2>2. UNCHANGED <<s4, s5, s6, s7, s11>> /\ s4 = "removes"
    BY <1>2 DEF V!RemoveTree, V!registry
  <2>3. \A u \in Versions \ {v} : s8'[u] = s8[u]
    BY <2>1 DEF V!ServingInv, V!TypeOK
  <2>4. /\ s7 \in Versions \cup {V!NoVersion}
        /\ \A c \in Calls : s11[c] \in Versions \cup {V!NoVersion}
    BY DEF V!ServingInv, V!TypeOK
  <2>5. \A u \in {s7} \cup {s11[c] : c \in Calls} :
          V!Stays(u) /\ (u = V!NoVersion \/ (u # v /\ u \notin s10'))
    BY <2>1, <2>2 DEF V!ServingInv
  <2>6. \A u \in {s7} \cup {s11[c] : c \in Calls} : V!Stays(u)'
    BY <2>2, <2>3, <2>4, <2>5 DEF V!Stays
  <2> QED BY <2>2, <2>5, <2>6 DEF V!ServingInv
<1> QED BY <1>1, <1>2

LEMMA ServingStep == V!ServingInv /\ V!Next => V!ServingInv'
<1> SUFFICES ASSUME V!ServingInv, V!Next PROVE V!ServingInv'
  OBVIOUS
<1>0. V!TypeOK'
  BY ServingTypes DEF V!ServingInv
<1>1. CASE V!Promote \/ V!Switch
  BY <1>0, <1>1, ServingQuiet DEF V!Promote, V!Switch, V!cache, V!ServingInv
<1>2. CASE V!HydrationFails \/ V!Finish
  BY <1>0, <1>2, ServingQuiet DEF V!HydrationFails, V!Finish, V!registry, V!cache, V!ServingInv
<1>3. CASE V!Load
  <2>1. /\ UNCHANGED <<s5, s7, s8, s11>> /\ s4 = "hydrates" /\ s4' = "swaps"
        /\ s6' = s5 /\ s8[s5] = "whole"
    BY <1>3 DEF V!Load, V!CachedVersionMatches, V!registry, V!cache
  <2> QED BY <1>0, <2>1 DEF V!ServingInv, V!Stays
<1>4. CASE V!Replace \/ V!Install
  BY <1>0, <1>4, ReplaceKeeps
<1>5. CASE V!Swap \/ V!Select
  BY <1>0, <1>5, SwapKeeps
<1>6. CASE V!ChooseDoomed \/ V!RemoveTree
  BY <1>0, <1>6, CleanupKeeps
<1>7. CASE V!Damage
  <2>1. UNCHANGED <<s4, s5, s6, s7, s10, s11>>
    BY <1>7 DEF V!Damage, V!registry
  <2>2. \A v \in Versions : s8'[v] = "absent" => s8[v] = "absent"
    BY <1>7 DEF V!Damage, V!ServingInv, V!TypeOK
  <2> QED BY <1>0, <2>1, <2>2, ServingQuiet DEF V!ServingInv
<1>8. CASE V!Crash
  BY <1>0, <1>8 DEF V!Crash, V!registry, V!cache, V!ServingInv, V!Stays
<1>9. ASSUME NEW c \in Calls, V!Return(c) \/ \E task \in Tasks : V!Call(c, task)
      PROVE  V!ServingInv'
  <2>1. /\ UNCHANGED <<s4, s5, s6, s7, s8, s10>>
        /\ \A d \in Calls : s11'[d] \in {s11[d], s7, V!NoVersion}
    BY <1>9 DEF V!Return, V!Call, V!registry, V!cache, V!ServingInv, V!TypeOK
  <2>2. V!Stays(V!NoVersion) /\ \A v : V!Stays(v)' <=> V!Stays(v)
    BY <2>1 DEF V!Stays
  <2>3. \A v \in {s7} \cup {s11'[d] : d \in Calls} :
          v = V!NoVersion \/ v \in {s7} \cup {s11[d] : d \in Calls}
    BY <2>1
  <2>4. \A v \in {s7} \cup {s11'[d] : d \in Calls} : V!Stays(v)'
    BY <2>2, <2>3 DEF V!ServingInv
  <2> QED BY <1>0, <2>1, <2>2, <2>3, <2>4 DEF V!ServingInv
<1> QED BY <1>1, <1>2, <1>3, <1>4, <1>5, <1>6, <1>7, <1>8, <1>9 DEF V!Next, V!Refresh

LEMMA ServingHolds == MCSpec => [](part = "serving" => V!ServingInv)
<1>1. MCInit => (part = "serving" => V!ServingInv)
  BY ServingInit DEF MCInit
<1>2. (part = "serving" => V!ServingInv) /\ [MCNext]_<<part, vars, slots>> => (part = "serving" => V!ServingInv)'
  <2>1. CASE UNCHANGED <<part, vars, slots>>
    BY <2>1 DEF slots, V!ServingInv, V!TypeOK, V!Stays
  <2>2. CASE MCNext
    BY <2>2, ServingStep DEF MCNext
  <2> QED BY <2>1, <2>2
<1> QED BY <1>1, <1>2, PTL DEF MCSpec

\* A directory that a call has pinned (KnowledgeSourceServingRegistry.pin) stays until
\* the call returns: _cleanup_unpinned_versions never removes it, whatever is promoted,
\* suspended or swapped meanwhile; only the refresh that puts a whole directory in the
\* place of a damaged one takes it away.
THEOREM PinnedStay == MCSpec => []PinnedStays
<1>1. (part = "serving" => V!ServingInv) => PinnedStays
  BY DEF PinnedStays, V!PinnedStays, V!ServingInv, V!Stays
<1> QED BY <1>1, ServingHolds, PTL

-----------------------------------------------------------------------------
(* The hybrid index.  Its slots: s1 space, s2 rules, s3 model, s4 stored,    *)
(* s5 session, s6 versions, s7 current, s8 build, s9 changes.                *)

\* Rows that grow keep what they hold.
LEMMA HoldsGrows ==
    ASSUME NEW rows, NEW more, rows.docs \subseteq more.docs, rows.chunks \subseteq more.chunks,
           X!ChunksTrue(more),
           NEW doc, NEW rev, NEW byRules, NEW config, X!Holds(rows, doc, rev, byRules, config)
    PROVE  X!Holds(more, doc, rev, byRules, config)
<1>1. X!ChunksOf(rows, doc, config) \subseteq X!ChunksOf(more, doc, config)
  BY DEF X!ChunksOf
<1>2. \A c \in X!ChunksOf(more, doc, config) : c.ordinal \in Ordinals
  BY DEF X!ChunksOf, X!ChunksTrue
<1>3. {c.ordinal : c \in X!ChunksOf(rows, doc, config)} = Ordinals
  BY DEF X!Holds
<1>4. {c.ordinal : c \in X!ChunksOf(more, doc, config)} = Ordinals
  BY <1>1, <1>2, <1>3
<1>5. X!Written(more, doc, rev, byRules)
  BY DEF X!Holds, X!Written
<1> QED BY <1>4, <1>5 DEF X!Holds

\* The promoted version stays where rows are only added.
LEMMA CurrentStays ==
    ASSUME X!CurrentHeld(s4), s7' = s7,
           s4.docs \subseteq s4'.docs, s4.chunks \subseteq s4'.chunks, X!ChunksTrue(s4')
    PROVE  X!CurrentHeld(s4)'
BY HoldsGrows DEF X!CurrentHeld

\* A build that goes on with the pages it has.
LEMMA BuildStays ==
    ASSUME X!BuildHeld, s8.stage # "idle", s8'.stage = s8.stage, s8'.left \subseteq s8.left,
           s8'.seen = s8.seen, s8'.members = s8.members, s8'.rules = s8.rules,
           s8'.model = s8.model, s8'.doc = s8.doc,
           s5.docs \subseteq s5'.docs, s5.chunks \subseteq s5'.chunks, X!ChunksTrue(s5')
    PROVE  X!BuildHeld'
<1>1. \A p \in DOMAIN s8'.members :
        /\ p \in DOMAIN s8'.seen
        /\ X!Holds(s5', s8'.members[p], s8'.seen[p].rev, s8'.rules, s8'.model)
  BY HoldsGrows DEF X!BuildHeld
<1>2. s8'.stage = "chunk" =>
        /\ s8'.doc.page \in DOMAIN s8'.seen
        /\ X!Written(s5', s8'.doc, s8'.seen[s8'.doc.page].rev, s8'.rules)
  BY DEF X!BuildHeld, X!Written
<1> QED BY <1>1, <1>2 DEF X!BuildHeld

LEMMA IndexInit == X!Init => X!IndexInv
<1> SUFFICES ASSUME X!Init PROVE X!IndexInv
  OBVIOUS
<1>1. s2 \in Rules /\ s3 \in Models
  BY Assumptions DEF X!Init, X!IndexAssumption
<1>2. s1 \in [X!Pages -> [rev : X!Rev, place : {0, 1}, open : BOOLEAN]]
  BY DEF X!Init, X!Rev
<1>3. s8 = X!Idle /\ s5 = s4 /\ s4 = [docs |-> {}, chunks |-> {}] /\ s7 = Empty /\ s6 = {}
  BY DEF X!Init
<1>4. s8.stage = "idle" /\ s8.members = <<>> /\ DOMAIN s8.members = {}
  BY <1>3 DEF X!Idle
<1>5. X!TypeOK
  BY <1>1, <1>2, <1>3 DEF X!TypeOK, X!Idle
<1>6. X!BuildHeld
  BY <1>3, <1>4 DEF X!BuildHeld
<1> QED BY <1>3, <1>5, <1>6 DEF X!IndexInv, X!ChunksTrue, X!CurrentHeld

\* The space, the source and the settings may change under a build.
LEMMA ChangeSpace ==
    ASSUME X!IndexInv, X!Change
    PROVE  X!IndexInv'
<1> USE DEF X!IndexInv
<1>1. /\ UNCHANGED <<s4, s5, s6, s7>>
      /\ s8' = s8 \/ s8' = [s8 EXCEPT !.edited = s8.stage # "idle"]
  BY DEF X!Change
<1>2. s1' \in [X!Pages -> [rev : X!Rev, place : {0, 1}, open : BOOLEAN]]
  <2> DEFINE R == [rev : X!Rev, place : {0, 1}, open : BOOLEAN]
  <2>1. s1 \in [X!Pages -> R] /\ Page \in X!Pages
    BY DEF X!TypeOK, X!Pages
  <2>2. CASE s1' = s1
    BY <2>1, <2>2
  <2>3. ASSUME NEW p \in X!Pages, s1' = [s1 EXCEPT ![p].rev = @ + 1] PROVE s1' \in [X!Pages -> R]
    <3>1. [s1[p] EXCEPT !.rev = @ + 1] \in R
      BY <2>1 DEF X!Rev
    <3> HIDE DEF R
    <3> QED BY <2>1, <2>3, <3>1
  <2>4. ASSUME s1' = [s1 EXCEPT ![Page].place = 1 - @] PROVE s1' \in [X!Pages -> R]
    <3> DEFINE moved == [s1[Page] EXCEPT !.place = 1 - @]
    <3>1. moved \in R
      BY <2>1
    <3>2. s1' = [s1 EXCEPT ![Page] = moved]
      BY <2>4
    <3> HIDE DEF R, moved
    <3> QED BY <2>1, <3>1, <3>2
  <2>5. ASSUME NEW p \in X!Pages, s1' = [s1 EXCEPT ![p].open = ~@] PROVE s1' \in [X!Pages -> R]
    <3>1. [s1[p] EXCEPT !.open = ~@] \in R
      BY <2>1
    <3> HIDE DEF R
    <3> QED BY <2>1, <2>5, <3>1
  <2> QED BY <2>2, <2>3, <2>4, <2>5 DEF X!Change
<1>3. s2' \in Rules /\ s3' \in Models
  BY DEF X!Change, X!TypeOK
<1>4. /\ s8'.stage = s8.stage /\ s8'.left = s8.left /\ s8'.seen = s8.seen /\ s8'.members = s8.members
      /\ s8'.rules = s8.rules /\ s8'.model = s8.model /\ s8'.doc = s8.doc
      /\ s8' = [stage |-> s8'.stage, rules |-> s8'.rules, model |-> s8'.model,
                edited |-> s8'.edited, left |-> s8'.left, seen |-> s8'.seen,
                members |-> s8'.members, doc |-> s8'.doc]
  BY <1>1 DEF X!TypeOK
<1>5. X!TypeOK'
  BY <1>1, <1>2, <1>3, <1>4 DEF X!TypeOK
<1>6. X!BuildHeld'
  BY <1>1, <1>4 DEF X!BuildHeld
<1> QED BY <1>1, <1>5, <1>6 DEF X!ChunksTrue, X!CurrentHeld

\* A build begins, or is given up with what no heartbeat committed.
LEMMA BeginAbort ==
    ASSUME X!IndexInv, X!Begin \/ X!Fail
    PROVE  X!IndexInv'
<1> USE DEF X!IndexInv
<1>1. /\ UNCHANGED <<s1, s2, s3, s4, s6, s7>> /\ s5' = s4
      /\ s8' = X!Idle \/ s8' = [X!Idle EXCEPT !.stage = "discover", !.rules = s2, !.model = s3,
                                              !.left = X!Pages]
  BY DEF X!Begin, X!Fail, X!Abort, X!world
<1>2. /\ s8'.stage \in {"idle", "discover"} /\ s8'.members = <<>>
      /\ s8' = [stage |-> s8'.stage, rules |-> s8'.rules, model |-> s8'.model,
                edited |-> s8'.edited, left |-> s8'.left, seen |-> s8'.seen,
                members |-> s8'.members, doc |-> s8'.doc]
  <2>1. CASE s8' = X!Idle
    BY <2>1 DEF X!Idle
  <2>2. CASE s8' = [X!Idle EXCEPT !.stage = "discover", !.rules = s2, !.model = s3, !.left = X!Pages]
    BY <2>2 DEF X!Idle
  <2> QED BY <1>1, <2>1, <2>2
<1>3. X!TypeOK'
  BY <1>1, <1>2 DEF X!TypeOK
<1>4. X!BuildHeld'
  <2>1. DOMAIN s8'.members = {}
    BY <1>2
  <2> QED BY <1>1, <1>2, <2>1 DEF X!BuildHeld
<1>5. X!ChunksTrue(s5)'
  BY <1>1 DEF X!ChunksTrue
<1> QED BY <1>1, <1>3, <1>4, <1>5 DEF X!CurrentHeld

\* A beat commits the session.
LEMMA HeartbeatKeeps ==
    ASSUME X!IndexInv, X!Heartbeat
    PROVE  X!IndexInv'
<1> USE DEF X!IndexInv
<1>1. UNCHANGED <<s1, s2, s3, s5, s6, s7, s8>> /\ s4' = s5 /\ s8.stage # "idle"
  BY DEF X!Heartbeat, X!world
<1>2. X!TypeOK'
  BY <1>1 DEF X!TypeOK
<1>3. X!ChunksTrue(s5)' /\ X!ChunksTrue(s4')
  BY <1>1 DEF X!ChunksTrue
<1>4. X!CurrentHeld(s4)'
  BY <1>1, <1>3, CurrentStays
<1>5. X!BuildHeld'
  BY <1>1 DEF X!BuildHeld
<1> QED BY <1>1, <1>2, <1>3, <1>4, <1>5

\* What the steps of a build have in common that leave the committed rows alone.
LEMMA BuildMoves ==
    ASSUME X!IndexInv, UNCHANGED <<s1, s2, s3, s4, s6, s7>>,
           s5' = [docs |-> s5'.docs, chunks |-> s5'.chunks],
           s5.docs \subseteq s5'.docs, s5.chunks \subseteq s5'.chunks, X!ChunksTrue(s5'),
           s8'.stage \in {"discover", "read", "chunk"},
           s8' = [stage |-> s8'.stage, rules |-> s8'.rules, model |-> s8'.model,
                  edited |-> s8'.edited, left |-> s8'.left, seen |-> s8'.seen,
                  members |-> s8'.members, doc |-> s8'.doc],
           X!BuildHeld'
    PROVE  X!IndexInv'
<1>1. X!TypeOK'
  BY DEF X!IndexInv, X!TypeOK
<1>2. X!CurrentHeld(s4)'
  BY DEF X!IndexInv, X!CurrentHeld
<1> QED BY <1>1, <1>2 DEF X!IndexInv, X!ChunksTrue

\* Fields of a build that a step leaves alone.
LEMMA BuildIs ==
    ASSUME X!IndexInv
    PROVE  /\ s8 = [stage |-> s8.stage, rules |-> s8.rules, model |-> s8.model,
                     edited |-> s8.edited, left |-> s8.left, seen |-> s8.seen,
                     members |-> s8.members, doc |-> s8.doc]
           /\ s5 = [docs |-> s5.docs, chunks |-> s5.chunks]
BY DEF X!IndexInv, X!TypeOK

LEMMA DiscoverKeeps ==
    ASSUME X!IndexInv, NEW p \in X!Pages, X!Discover(p)
    PROVE  X!IndexInv'
<1>1. UNCHANGED <<s1, s2, s3, s4, s5, s6, s7>> /\ s8.stage = "discover"
  BY DEF X!Discover, X!world
<1>2. PICK seen : s8' = [s8 EXCEPT !.left = @ \ {p}, !.seen = seen]
  <2>1. CASE ~X!Refused(p)
    BY <2>1 DEF X!Discover
  <2>2. CASE X!Refused(p)
    <3>1. s8' = [s8 EXCEPT !.left = @ \ {p}]
      BY <2>2 DEF X!Discover
    <3>2. s8' = [s8 EXCEPT !.left = @ \ {p}, !.seen = s8.seen]
      BY <3>1, BuildIs
    <3> QED BY <3>2
  <2> QED BY <2>1, <2>2
<1>3. /\ s8'.stage = "discover" /\ s8'.members = s8.members
      /\ s8' = [stage |-> s8'.stage, rules |-> s8'.rules, model |-> s8'.model,
                edited |-> s8'.edited, left |-> s8'.left, seen |-> s8'.seen,
                members |-> s8'.members, doc |-> s8'.doc]
  BY <1>1, <1>2, BuildIs
<1>4. X!BuildHeld'
  <2>1. s8'.members = <<>>
    BY <1>1, <1>3 DEF X!IndexInv, X!BuildHeld
  <2>2. DOMAIN s8'.members = {}
    BY <2>1
  <2> QED BY <1>3, <2>1, <2>2 DEF X!BuildHeld
<1> QED BY <1>1, <1>3, <1>4, BuildIs, BuildMoves DEF X!IndexInv

\* Every page that was seen is read.
LEMMA DiscoveredKeeps ==
    ASSUME X!IndexInv, X!Discovered
    PROVE  X!IndexInv'
<1>1. /\ UNCHANGED <<s1, s2, s3, s4, s5, s6, s7>> /\ s8.stage = "discover"
      /\ s8' = [s8 EXCEPT !.stage = "read", !.left = DOMAIN s8.seen]
  BY DEF X!Discovered, X!world
<1>2. /\ s8'.stage = "read" /\ s8'.members = s8.members /\ s8'.seen = s8.seen
      /\ s8'.left = DOMAIN s8.seen
      /\ s8' = [stage |-> s8'.stage, rules |-> s8'.rules, model |-> s8'.model,
                edited |-> s8'.edited, left |-> s8'.left, seen |-> s8'.seen,
                members |-> s8'.members, doc |-> s8'.doc]
  BY <1>1, BuildIs
<1>3. X!BuildHeld'
  <2>1. s8'.members = <<>>
    BY <1>1, <1>2 DEF X!IndexInv, X!BuildHeld
  <2>2. DOMAIN s8'.members = {}
    BY <2>1
  <2> QED BY <1>2, <2>2 DEF X!BuildHeld
<1> QED BY <1>1, <1>2, <1>3, BuildIs, BuildMoves DEF X!IndexInv

\* The document of a page that is read or reused has the text of the revision the
\* build discovered, under its rules.
LEMMA ReadKeeps ==
    ASSUME X!IndexInv, NEW p \in X!Pages, X!Read(p)
    PROVE  X!IndexInv'
<1> DEFINE doc == X!Document(p, IF X!Reusable(p) THEN s7.docs[p].content
                                ELSE X!Content(s8.seen[p].rev, s8.rules), s8.seen[p].place)
<1>1. /\ UNCHANGED <<s1, s2, s3, s4, s6, s7>> /\ s8.stage = "read" /\ p \in s8.left
      /\ p \in DOMAIN s8.seen
  BY DEF X!Read, X!world, X!IndexInv, X!BuildHeld
<1>2. /\ doc.page = p
      /\ doc.content = X!Content(s8.seen[p].rev, s8.rules)
  BY DEF X!Reusable, X!Document, X!IndexInv, X!CurrentHeld, X!Holds, X!Written
<1>3. \/ /\ s5' = [s5 EXCEPT !.docs = @ \cup {doc}]
         /\ s8' = [s8 EXCEPT !.stage = "chunk", !.left = @ \ {p}, !.doc = doc]
      \/ s5' = s5 /\ s8' = [s8 EXCEPT !.left = @ \ {p}]
  BY DEF X!Read
<1> HIDE DEF doc
<1>4. CASE s5' = s5 /\ s8' = [s8 EXCEPT !.left = @ \ {p}]
  <2>1. /\ s8'.stage = "read" /\ s8'.members = s8.members /\ s8'.seen = s8.seen
        /\ s8'.left = s8.left \ {p} /\ s8'.rules = s8.rules /\ s8'.model = s8.model
        /\ s8'.doc = s8.doc
        /\ s8' = [stage |-> s8'.stage, rules |-> s8'.rules, model |-> s8'.model,
                  edited |-> s8'.edited, left |-> s8'.left, seen |-> s8'.seen,
                  members |-> s8'.members, doc |-> s8'.doc]
    BY <1>1, <1>4, BuildIs
  <2>2. X!ChunksTrue(s5')
    BY <1>4 DEF X!IndexInv
  <2>3. X!BuildHeld'
    BY <1>1, <1>4, <2>1, <2>2, BuildStays DEF X!IndexInv
  <2> QED BY <1>1, <1>4, <2>1, <2>2, <2>3, BuildIs, BuildMoves DEF X!IndexInv
<1>5. CASE /\ s5' = [s5 EXCEPT !.docs = @ \cup {doc}]
           /\ s8' = [s8 EXCEPT !.stage = "chunk", !.left = @ \ {p}, !.doc = doc]
  <2>1. /\ s8'.stage = "chunk" /\ s8'.members = s8.members /\ s8'.seen = s8.seen
        /\ s8'.left = s8.left \ {p} /\ s8'.rules = s8.rules /\ s8'.model = s8.model
        /\ s8'.doc = doc
        /\ s8' = [stage |-> s8'.stage, rules |-> s8'.rules, model |-> s8'.model,
                  edited |-> s8'.edited, left |-> s8'.left, seen |-> s8'.seen,
                  members |-> s8'.members, doc |-> s8'.doc]
    BY <1>5, BuildIs
  <2>2. /\ s5' = [docs |-> s5'.docs, chunks |-> s5'.chunks]
        /\ s5'.docs = s5.docs \cup {doc} /\ s5'.chunks = s5.chunks
    BY <1>5, BuildIs
  <2>3. X!ChunksTrue(s5')
    BY <2>2 DEF X!IndexInv, X!ChunksTrue
  <2>4. \A q \in DOMAIN s8'.members :
          q \in DOMAIN s8'.seen /\ X!Holds(s5', s8'.members[q], s8'.seen[q].rev, s8'.rules, s8'.model)
    BY <2>1, <2>2, <2>3, HoldsGrows DEF X!IndexInv, X!BuildHeld
  <2>5. X!Written(s5', doc, s8.seen[doc.page].rev, s8.rules)
    BY <1>2, <2>2 DEF X!Written
  <2>6. s8'.left \subseteq DOMAIN s8'.seen
    BY <1>1, <2>1 DEF X!IndexInv, X!BuildHeld
  <2>7. X!BuildHeld'
    BY <1>1, <1>2, <2>1, <2>4, <2>5, <2>6 DEF X!BuildHeld
  <2> QED BY <1>1, <2>1, <2>2, <2>3, <2>7, BuildMoves
<1> QED BY <1>3, <1>4, <1>5

\* A vector is the chunk's own even where another document's is taken.
LEMMA EmbedKeeps ==
    ASSUME X!IndexInv, NEW n \in Ordinals, X!Embed(n)
    PROVE  X!IndexInv'
<1> DEFINE fresh  == X!Embedding(X!Fingerprint(s8.doc, n), s8.model)
           vector == IF X!SameText(n) = {} THEN fresh ELSE (CHOOSE c \in X!SameText(n) : TRUE).vector
           chunk  == [doc |-> s8.doc, ordinal |-> n, config |-> s8.model, vector |-> vector]
<1>1. /\ UNCHANGED <<s1, s2, s3, s4, s6, s7, s8>> /\ s8.stage = "chunk"
      /\ s5' = [s5 EXCEPT !.chunks = @ \cup {chunk}]
  BY DEF X!Embed, X!world
<1>2. vector = fresh
  <2>1. CASE X!SameText(n) = {}
    BY <2>1
  <2>2. CASE X!SameText(n) # {}
    <3>1. PICK c \in X!SameText(n) : vector = c.vector
      BY <2>2
    <3> HIDE DEF vector
    <3>2. c \in s5.chunks /\ c.config = s8.model
          /\ X!Fingerprint(c.doc, c.ordinal) = X!Fingerprint(s8.doc, n)
      BY <3>1 DEF X!SameText
    <3>3. c.vector = X!Embedding(X!Fingerprint(c.doc, c.ordinal), c.config)
      BY <3>2 DEF X!IndexInv, X!ChunksTrue
    <3> QED BY <3>1, <3>2, <3>3
  <2> QED BY <2>1, <2>2
<1>3. /\ chunk.ordinal \in Ordinals
      /\ chunk.vector = X!Embedding(X!Fingerprint(chunk.doc, chunk.ordinal), chunk.config)
  <2> HIDE DEF vector
  <2> QED BY <1>2
<1> HIDE DEF chunk
<1>4. /\ s5' = [docs |-> s5'.docs, chunks |-> s5'.chunks]
      /\ s5'.docs = s5.docs /\ s5'.chunks = s5.chunks \cup {chunk}
  BY <1>1, BuildIs
<1>5. X!ChunksTrue(s5')
  BY <1>3, <1>4 DEF X!IndexInv, X!ChunksTrue
<1>6. X!BuildHeld'
  BY <1>1, <1>4, <1>5, BuildStays DEF X!IndexInv
<1> QED BY <1>1, <1>4, <1>5, <1>6, BuildIs, BuildMoves

\* A page joins the membership with all its chunks.
LEMMA PageDoneKeeps ==
    ASSUME X!IndexInv, X!PageDone
    PROVE  X!IndexInv'
<1> DEFINE members == [q \in {s8.doc.page} \cup DOMAIN s8.members |->
                          IF q = s8.doc.page THEN s8.doc ELSE s8.members[q]]
<1>1. /\ UNCHANGED <<s1, s2, s3, s4, s5, s6, s7>> /\ s8.stage = "chunk"
      /\ {c.ordinal : c \in X!ChunksOf(s5, s8.doc, s8.model)} = Ordinals
      /\ s8' = [s8 EXCEPT !.stage = "read", !.doc = Empty, !.members = members]
  BY DEF X!PageDone, X!world
<1>2. \A q \in DOMAIN members :
        q \in DOMAIN s8.seen /\ X!Holds(s5, members[q], s8.seen[q].rev, s8.rules, s8.model)
  BY <1>1 DEF X!IndexInv, X!BuildHeld, X!Holds
<1> HIDE DEF members
<1>3. /\ s8'.stage = "read" /\ s8'.members = members /\ s8'.seen = s8.seen
      /\ s8'.left = s8.left /\ s8'.rules = s8.rules /\ s8'.model = s8.model
      /\ s8' = [stage |-> s8'.stage, rules |-> s8'.rules, model |-> s8'.model,
                edited |-> s8'.edited, left |-> s8'.left, seen |-> s8'.seen,
                members |-> s8'.members, doc |-> s8'.doc]
  BY <1>1, BuildIs
<1>4. s8'.left \subseteq DOMAIN s8'.seen
  BY <1>1, <1>3 DEF X!IndexInv, X!BuildHeld
<1>5. X!BuildHeld'
  BY <1>1, <1>2, <1>3, <1>4 DEF X!BuildHeld
<1> QED BY <1>1, <1>3, <1>5, BuildIs, BuildMoves DEF X!IndexInv

\* What is promoted is what the build read.
LEMMA PromoteHolds ==
    ASSUME X!IndexInv, X!Promote
    PROVE  X!IndexInv'
<1> DEFINE promoted == [docs |-> s8.members, rules |-> s8.rules, config |-> s8.model,
                        revs |-> [p \in DOMAIN s8.members |-> s8.seen[p].rev]]
<1>1. /\ UNCHANGED <<s1, s2, s3, s5>> /\ s4' = s5 /\ s8' = X!Idle
      /\ s7' = promoted /\ s6' = s6 \cup {promoted}
      /\ s8.stage = "read" /\ Root \in DOMAIN s8.members
  BY DEF X!Promote, X!world
<1>2. \A p \in DOMAIN s8.members : X!Holds(s5, s8.members[p], s8.seen[p].rev, s8.rules, s8.model)
  BY DEF X!IndexInv, X!BuildHeld
<1>3. X!CurrentHeld(s4)'
  <2>1. /\ s7'.docs = s8.members /\ s7'.rules = s8.rules /\ s7'.config = s8.model
        /\ \A p \in DOMAIN s8.members : s7'.revs[p] = s8.seen[p].rev
    BY <1>1
  <2> HIDE DEF promoted
  <2> QED BY <1>1, <1>2, <2>1 DEF X!CurrentHeld
<1>4. /\ s8'.stage = "idle" /\ s8'.members = <<>>
      /\ s8' = [stage |-> s8'.stage, rules |-> s8'.rules, model |-> s8'.model,
                edited |-> s8'.edited, left |-> s8'.left, seen |-> s8'.seen,
                members |-> s8'.members, doc |-> s8'.doc]
  BY <1>1 DEF X!Idle
<1> HIDE DEF promoted
<1>5. X!TypeOK'
  BY <1>1, <1>4 DEF X!TypeOK, X!IndexInv
<1>6. X!BuildHeld'
  <2>1. DOMAIN s8'.members = {}
    BY <1>4
  <2> QED BY <1>1, <1>4, <2>1 DEF X!BuildHeld
<1>7. X!ChunksTrue(s5)'
  BY <1>1 DEF X!IndexInv, X!ChunksTrue
<1>8. s7' \in s6' /\ s4'.docs \subseteq s5'.docs /\ s4'.chunks \subseteq s5'.chunks
  BY <1>1
<1> QED BY <1>3, <1>5, <1>6, <1>7, <1>8 DEF X!IndexInv

\* Pruning keeps the promoted version, and what it has.
LEMMA PruneKeeps ==
    ASSUME X!IndexInv, X!Prune
    PROVE  X!IndexInv'
<1>1. PICK kept \in SUBSET s6 :
        /\ s7 # Empty => s7 \in kept
        /\ s6' = kept
        /\ s4' = [docs |-> {d \in s4.docs : \E v \in kept : \E p \in DOMAIN v.docs : v.docs[p] = d},
                  chunks |-> {c \in s4.chunks : \E v \in kept :
                       v.config = c.config /\ \E p \in DOMAIN v.docs : v.docs[p] = c.doc}]
        /\ s5' = s4'
  BY DEF X!Prune
<1>2. UNCHANGED <<s1, s2, s3, s7, s8>> /\ s8.stage = "idle"
  BY DEF X!Prune, X!world
<1>3. /\ s4' = [docs |-> s4'.docs, chunks |-> s4'.chunks]
      /\ s4'.chunks \subseteq s4.chunks
      /\ \A d \in s4.docs : (\E v \in kept : \E p \in DOMAIN v.docs : v.docs[p] = d) => d \in s4'.docs
      /\ \A c \in s4.chunks : (\E v \in kept : v.config = c.config /\ \E p \in DOMAIN v.docs : v.docs[p] = c.doc)
                             => c \in s4'.chunks
  BY <1>1
<1>4. X!CurrentHeld(s4)'
  <2> SUFFICES ASSUME s7 # Empty, NEW p \in DOMAIN s7.docs
               PROVE  X!Holds(s4', s7.docs[p], s7.revs[p], s7.rules, s7.config)
    BY <1>2 DEF X!CurrentHeld, X!IndexInv
  <2>1. X!Holds(s4, s7.docs[p], s7.revs[p], s7.rules, s7.config) /\ s7 \in kept
    BY <1>1 DEF X!IndexInv, X!CurrentHeld
  <2>2. s7.docs[p] \in s4'.docs
    BY <1>3, <2>1 DEF X!Holds, X!Written
  <2>3. X!ChunksOf(s4', s7.docs[p], s7.config) = X!ChunksOf(s4, s7.docs[p], s7.config)
    BY <1>3, <2>1 DEF X!ChunksOf
  <2> QED BY <2>1, <2>2, <2>3 DEF X!Holds, X!Written
<1>5. X!TypeOK'
  BY <1>1, <1>2, <1>3 DEF X!TypeOK, X!IndexInv
<1>6. X!BuildHeld'
  <2>1. s8'.stage = "idle" /\ s8'.members = <<>>
    BY <1>2 DEF X!IndexInv, X!BuildHeld
  <2>2. DOMAIN s8'.members = {}
    BY <2>1
  <2> QED BY <1>1, <2>1, <2>2 DEF X!BuildHeld
<1>7. X!ChunksTrue(s5)'
  BY <1>1, <1>3 DEF X!IndexInv, X!ChunksTrue
<1> QED BY <1>1, <1>2, <1>4, <1>5, <1>6, <1>7 DEF X!IndexInv

LEMMA IndexStep == X!IndexInv /\ X!Next => X!IndexInv'
<1> SUFFICES ASSUME X!IndexInv, X!Next PROVE X!IndexInv'
  OBVIOUS
<1>1. CASE X!Change \/ X!Begin \/ X!Fail \/ X!Heartbeat
  BY <1>1, ChangeSpace, BeginAbort, HeartbeatKeeps
<1>2. CASE X!Discovered \/ X!PageDone \/ X!Promote \/ X!Prune
  BY <1>2, DiscoveredKeeps, PageDoneKeeps, PromoteHolds, PruneKeeps
<1>3. ASSUME NEW p \in X!Pages, X!Discover(p) \/ X!Read(p) PROVE X!IndexInv'
  BY <1>3, DiscoverKeeps, ReadKeeps
<1>4. ASSUME NEW n \in Ordinals, X!Embed(n) PROVE X!IndexInv'
  BY <1>4, EmbedKeeps
<1> QED BY <1>1, <1>2, <1>3, <1>4 DEF X!Next

LEMMA IndexHolds == MCSpec => [](part = "index" => X!IndexInv)
<1>1. MCInit => (part = "index" => X!IndexInv)
  BY IndexInit DEF MCInit
<1>2. (part = "index" => X!IndexInv) /\ [MCNext]_<<part, vars, slots>> => (part = "index" => X!IndexInv)'
  <2>1. CASE UNCHANGED <<part, vars, slots>>
    BY <2>1 DEF slots, X!IndexInv, X!TypeOK, X!CurrentHeld, X!BuildHeld, X!ChunksTrue
  <2>2. CASE MCNext
    BY <2>2, IndexStep DEF MCNext
  <2> QED BY <2>1, <2>2
<1> QED BY <1>1, <1>2, PTL DEF MCSpec

\* The promoted version of a Confluence source has its root; each of its documents is
\* the page at the revision recorded for it, scrubbed by the rules recorded for it, and
\* has every chunk with a vector of the version's model for its own text, whatever
\* failed builds, reuse and pruning left (build_knowledge_source_hybrid_index).
THEOREM SnapshotsAreFaithful == MCSpec => []SnapshotFaithful
<1>1. (part = "index" => X!IndexInv) => SnapshotFaithful
  <2> SUFFICES ASSUME part = "index", X!IndexInv, s7 # Empty
               PROVE  X!SnapshotFaithful
    BY DEF SnapshotFaithful, X!SnapshotFaithful
  <2>1. \A c \in s4.chunks : c.vector = X!Embedding(X!Fingerprint(c.doc, c.ordinal), c.config)
    BY DEF X!IndexInv, X!ChunksTrue
  <2>2. ASSUME NEW p \in DOMAIN s7.docs, NEW c \in X!ChunksOf(s4, s7.docs[p], s7.config)
        PROVE  c.vector = X!Embedding(X!Fingerprint(s7.docs[p], c.ordinal), s7.config)
    BY <2>1, <2>2 DEF X!ChunksOf
  <2> QED BY <2>2 DEF X!SnapshotFaithful, X!IndexInv, X!CurrentHeld, X!Holds, X!Written
<1> QED BY <1>1, IndexHolds, PTL

-----------------------------------------------------------------------------
(* The search of a hybrid source.  Its slots: s1 source, s2 stored,          *)
(* s3 overlaps, s4 limit, s5 stage, s6 pinned, s7 dense, s8 lexical,         *)
(* s9 candidates, s10 reranked, s11 results, s12 truncated, s13 used.        *)

\* A better rank weighs more.
LEMMA RanksDiffer ==
    ASSUME NEW q \in 1..LaneLimit, NEW r \in 1..LaneLimit
    PROVE  /\ Scale \div (60 + q) \in Nat /\ Scale \div (60 + q) > 0
           /\ q # r => Scale \div (60 + q) # Scale \div (60 + r)
<1>1. Scale \in Nat \ {0} /\ LaneLimit \in Nat /\ q \in Nat /\ r \in Nat
  BY Assumptions DEF H!RetrievalAssumption
<1>2. Scale % (60 + q) = 0 /\ Scale % (60 + r) = 0
  BY Assumptions DEF H!RetrievalAssumption
<1>3. PICK m \in Int : Scale = m * (60 + q) /\ m = Scale \div (60 + q)
  BY <1>1, <1>2
<1>4. PICK n \in Int : Scale = n * (60 + r) /\ n = Scale \div (60 + r)
  BY <1>1, <1>2
<1>5. m > 0
  BY <1>1, <1>3
<1>6. ASSUME q # r PROVE m # n
  <2>1. SUFFICES ASSUME m = n PROVE FALSE
    OBVIOUS
  <2>2. m * (60 + q) = m * (60 + r)
    BY <1>3, <1>4, <2>1
  <2> QED BY <1>1, <1>5, <1>6, <2>2
<1> QED BY <1>3, <1>4, <1>5, <1>6

LEMMA LaneIs ==
    ASSUME NEW l \in H!Lanes
    PROVE  /\ l \in Seq(Chunks) /\ Len(l) <= LaneLimit /\ Len(l) \in Nat /\ DOMAIN l = 1..Len(l)
           /\ H!IsInjective(l)
<1>1. LaneLimit \in Nat
  BY Assumptions DEF H!RetrievalAssumption
<1>2. PICK m \in 0..LaneLimit : l \in [1..m -> Chunks]
  BY DEF H!Lanes, H!SeqOf
<1>3. H!IsInjective(l)
  BY DEF H!Lanes
<1> QED BY <1>1, <1>2, <1>3

\* The score of a chunk in a lane says whether the lane has it, and where.
LEMMA ScoreIs ==
    ASSUME NEW l \in H!Lanes, NEW c
    PROVE  /\ H!Score(l, c) \in Nat
           /\ H!Score(l, c) > 0 <=> c \in H!ToSet(l)
           /\ \A b : H!Score(l, b) = H!Score(l, c) /\ H!Score(l, c) > 0 => b = c
<1>1. \A x \in H!ToSet(l) : \E r \in 1..LaneLimit :
        r \in DOMAIN l /\ l[r] = x /\ H!Score(l, x) = Scale \div (60 + r)
  <2>1. SUFFICES ASSUME NEW x \in H!ToSet(l)
                 PROVE  \E r \in 1..LaneLimit :
                          r \in DOMAIN l /\ l[r] = x /\ H!Score(l, x) = Scale \div (60 + r)
    OBVIOUS
  <2> DEFINE r == CHOOSE r \in DOMAIN l : l[r] = x
  <2>2. r \in DOMAIN l /\ l[r] = x
    BY <2>1 DEF H!ToSet
  <2>3. r \in 1..LaneLimit
    BY <2>2, LaneIs, Assumptions DEF H!RetrievalAssumption
  <2>4. H!Score(l, x) = Scale \div (60 + r)
    BY <2>1 DEF H!Score
  <2> QED BY <2>2, <2>3, <2>4
<1>2. \A x : x \notin H!ToSet(l) => H!Score(l, x) = 0
  BY DEF H!Score
<1>3. H!Score(l, c) \in Nat /\ (H!Score(l, c) > 0 <=> c \in H!ToSet(l))
  BY <1>1, <1>2, RanksDiffer
<1>4. ASSUME NEW b, H!Score(l, b) = H!Score(l, c), H!Score(l, c) > 0 PROVE b = c
  <2>1. c \in H!ToSet(l) /\ b \in H!ToSet(l)
    BY <1>2, <1>3, <1>4
  <2>2. PICK r \in 1..LaneLimit : r \in DOMAIN l /\ l[r] = c /\ H!Score(l, c) = Scale \div (60 + r)
    BY <1>1, <2>1
  <2>3. PICK q \in 1..LaneLimit : q \in DOMAIN l /\ l[q] = b /\ H!Score(l, b) = Scale \div (60 + q)
    BY <1>1, <2>1
  <2> QED BY <1>4, <2>2, <2>3, RanksDiffer
<1> QED BY <1>3, <1>4

LEMMA Parameters ==
    /\ Chunks \subseteq Nat /\ \A c \in Chunks : ContentLength(c) \in Nat
    /\ MaxContent \in Nat /\ MaxResponse \in Nat /\ Overhead \in Nat
    /\ LaneLimit \in Nat /\ RerankCandidates \in Nat
    /\ \A l \in ResponseLimits : l \in Nat /\ l <= LaneLimit /\ l > 0
    /\ \A p \in Pairs : \E a, b \in Chunks : a # b /\ p = {a, b}
BY Assumptions DEF H!RetrievalAssumption

\* A chunk that both lanes prefer has the higher score.
LEMMA BetterScores ==
    ASSUME NEW d \in H!Lanes, NEW l \in H!Lanes,
           NEW a, NEW b \in H!ToSet(d) \cup H!ToSet(l), a # b,
           H!Score(d, a) >= H!Score(d, b), H!Score(l, a) >= H!Score(l, b)
    PROVE  H!Score(d, a) + H!Score(l, a) > H!Score(d, b) + H!Score(l, b)
<1> DEFINE da == H!Score(d, a)
           db == H!Score(d, b)
           la == H!Score(l, a)
           lb == H!Score(l, b)
<1>1. da \in Nat /\ db \in Nat /\ la \in Nat /\ lb \in Nat /\ da >= db /\ la >= lb
  BY ScoreIs
<1>2. db > 0 \/ lb > 0
  BY ScoreIs
<1>3. (db > 0 => da # db) /\ (lb > 0 => la # lb)
  BY ScoreIs
<1> HIDE DEF da, db, la, lb
<1>4. da + la > db + lb
  BY <1>1, <1>2, <1>3
<1> QED BY <1>4 DEF da, db, la, lb

LEMMA EmptyLane == <<>> \in H!Lanes
<1>1. <<>> \in [1..0 -> Chunks] /\ 0 \in 0..LaneLimit
  BY Parameters
<1>2. H!IsInjective(<<>>)
  BY DEF H!IsInjective
<1> QED BY <1>1, <1>2 DEF H!Lanes, H!SeqOf

LEMMA RetrievalInit == H!Init => H!RetrievalInv
<1> SUFFICES ASSUME H!Init PROVE H!RetrievalInv
  OBVIOUS
<1>1. /\ s11 = <<>> /\ s9 = <<>> /\ s7 = <<>> /\ s8 = <<>>
      /\ s13 = 0 /\ s12 = FALSE /\ s10 = FALSE /\ s5 = "pin" /\ s4 \in ResponseLimits
      /\ s3 \in SUBSET Pairs
  BY DEF H!Init
<1>2. /\ <<>> \in Seq(Chunks) /\ <<>> \in Seq(Chunks \X Nat)
      /\ Len(<<>>) = 0 /\ DOMAIN <<>> = {}
  OBVIOUS
<1>3. H!TypeOK
  BY <1>1, <1>2, EmptyLane DEF H!TypeOK
<1>4. H!EarlyInv /\ H!FoundInv /\ H!ApartInv /\ H!OrderInv
  BY <1>1 DEF H!EarlyInv, H!FoundInv, H!ApartInv, H!OrderInv, H!Ready
<1>5. H!PackedInv
  BY <1>1, <1>2, Parameters DEF H!PackedInv, H!ToSet
<1> QED BY <1>3, <1>4, <1>5 DEF H!RetrievalInv

\* What happens to the source leaves the call as it is.
LEMMA CallStays ==
    ASSUME H!RetrievalInv, UNCHANGED H!call
    PROVE  H!RetrievalInv'
<1>1. UNCHANGED <<s3, s4, s5, s7, s8, s9, s10, s11, s13,
                  s12>>
  BY DEF H!call
<1>2. H!Held' = H!Held /\ H!Ready' = H!Ready
  BY <1>1 DEF H!Held, H!Returned, H!Ready
<1>3. H!TypeOK' /\ H!EarlyInv' /\ H!PackedInv'
  BY <1>1 DEF H!RetrievalInv, H!TypeOK, H!EarlyInv, H!PackedInv
<1>4. H!FoundInv' /\ H!ApartInv'
  BY <1>1, <1>2 DEF H!RetrievalInv, H!FoundInv, H!ApartInv, H!Overlap
<1>5. H!OrderInv'
  BY <1>1, <1>2 DEF H!RetrievalInv, H!OrderInv, H!Better
<1> QED BY <1>3, <1>4, <1>5 DEF H!RetrievalInv

\* Before the lanes are fused, only the types say anything.
LEMMA EarlyKeeps ==
    ASSUME H!RetrievalInv, H!Pin \/ H!Dense
    PROVE  H!RetrievalInv'
<1>1. /\ UNCHANGED <<s3, s4, s8, s9, s10, s11, s13, s12>>
      /\ s5 \in {"pin", "embed"} /\ s5' \in {"embed", "lexical", "refused"}
      /\ s7' \in H!Lane \cup {<<>>, s7}
  BY DEF H!Pin, H!Dense
<1>2. H!TypeOK'
  BY <1>1, EmptyLane DEF H!RetrievalInv, H!TypeOK, H!Lane
<1>3. H!EarlyInv'
  BY <1>1 DEF H!RetrievalInv, H!EarlyInv
<1>4. H!FoundInv' /\ H!ApartInv' /\ H!OrderInv'
  BY <1>1 DEF H!FoundInv, H!ApartInv, H!OrderInv, H!Ready
<1>5. H!PackedInv'
  BY <1>1 DEF H!RetrievalInv, H!PackedInv
<1> QED BY <1>2, <1>3, <1>4, <1>5 DEF H!RetrievalInv

\* A chunk does not overlap itself.
LEMMA PairsApart ==
    ASSUME s3 \in SUBSET Pairs, NEW x, NEW y, {x, y} \in s3
    PROVE  x # y
<1>1. PICK a, b \in Chunks : a # b /\ {x, y} = {a, b}
  BY Parameters
<1>2. a \in {x, y} /\ b \in {x, y}
  BY <1>1
<1> QED BY <1>1, <1>2

\* A set of positions has a listing of its length.
LEMMA ListingIs ==
    ASSUME NEW n \in Nat, NEW K \in SUBSET (1..n), NEW kept \in H!Listing(K)
    PROVE  /\ Len(kept) = Cardinality(K) /\ Len(kept) \in Nat
           /\ DOMAIN kept = 1..Len(kept) /\ H!ToSet(kept) = K
           /\ \A i \in DOMAIN kept : kept[i] \in 1..n
           /\ \A i, j \in DOMAIN kept : i < j => kept[i] < kept[j]
<1> DEFINE m == Cardinality(K)
<1>1. IsFiniteSet(1..n)
  BY FS_Interval
<1>2. IsFiniteSet(K)
  BY <1>1, FS_Subset
<1>3. m \in Nat
  BY <1>2, FS_CardinalityType
<1>4. kept \in [1..m -> K] /\ H!ToSet(kept) = K
      /\ \A i, j \in DOMAIN kept : i < j => kept[i] < kept[j]
  <2>1. H!Cardinality(K) = m
    BY DEF H!Cardinality, Cardinality
  <2> QED BY <2>1 DEF H!Listing
<1> HIDE DEF m
<1>5. kept \in [1..m -> K]
  BY <1>4
<1>6. kept \in Seq(K)
  BY <1>3, <1>5
<1>7. Len(kept) = m /\ DOMAIN kept = 1..m
  BY <1>3, <1>5, <1>6
<1>8. \A i \in DOMAIN kept : kept[i] \in 1..n
  BY <1>5
<1> QED BY <1>3, <1>4, <1>7, <1>8 DEF m

LEMMA FusedIs ==
    ASSUME NEW d \in H!Lanes, NEW l \in H!Lanes, NEW s \in H!Fused(d, l)
    PROVE  /\ Len(s) \in Nat /\ DOMAIN s = 1..Len(s)
           /\ H!ToSet(s) = H!ToSet(d) \cup H!ToSet(l) /\ H!ToSet(s) \subseteq Chunks
           /\ \A i, j \in DOMAIN s : i < j =>
                ~(/\ H!Score(d, s[j]) >= H!Score(d, s[i]) /\ H!Score(l, s[j]) >= H!Score(l, s[i])
                  /\ s[i] # s[j])
<1> DEFINE chunks == H!ToSet(d) \cup H!ToSet(l)
<1>1. IsFiniteSet(H!ToSet(d)) /\ IsFiniteSet(H!ToSet(l))
  <2>1. ASSUME NEW x \in H!Lanes PROVE IsFiniteSet(H!ToSet(x))
    <3>1. DOMAIN x = 1..Len(x) /\ Len(x) \in Nat
      BY LaneIs
    <3>2. IsFiniteSet(1..Len(x))
      BY <3>1, FS_Interval
    <3>3. x \in Surjection(1..Len(x), H!ToSet(x))
      BY <3>1, LaneIs DEF H!ToSet, Surjection
    <3> QED BY <3>2, <3>3, FS_Surjection
  <2> QED BY <2>1
<1>2. Cardinality(chunks) \in Nat
  BY <1>1, FS_Union, FS_CardinalityType
<1>3. /\ s \in [1..Cardinality(chunks) -> chunks] /\ H!ToSet(s) = chunks
      /\ \A i, j \in DOMAIN s : i < j =>
           \/ H!Score(d, s[i]) + H!Score(l, s[i]) > H!Score(d, s[j]) + H!Score(l, s[j])
           \/ H!Score(d, s[i]) + H!Score(l, s[i]) = H!Score(d, s[j]) + H!Score(l, s[j])
  <2>1. H!Cardinality(chunks) = Cardinality(chunks)
    BY DEF H!Cardinality, Cardinality
  <2> QED BY <2>1 DEF H!Fused
<1>4. Len(s) \in Nat /\ DOMAIN s = 1..Len(s)
  BY <1>2, <1>3
<1>5. chunks \subseteq Chunks
  BY LaneIs DEF H!ToSet
<1>6. ASSUME NEW i \in DOMAIN s, NEW j \in DOMAIN s, i < j, s[i] # s[j],
             H!Score(d, s[j]) >= H!Score(d, s[i]), H!Score(l, s[j]) >= H!Score(l, s[i])
      PROVE  FALSE
  <2>1. s[i] \in chunks
    BY <1>3
  <2>2. H!Score(d, s[j]) + H!Score(l, s[j]) > H!Score(d, s[i]) + H!Score(l, s[i])
    BY <1>6, <2>1, BetterScores
  <2>3. /\ H!Score(d, s[i]) \in Nat /\ H!Score(l, s[i]) \in Nat
        /\ H!Score(d, s[j]) \in Nat /\ H!Score(l, s[j]) \in Nat
    BY ScoreIs
  <2>4. \/ H!Score(d, s[i]) + H!Score(l, s[i]) > H!Score(d, s[j]) + H!Score(l, s[j])
        \/ H!Score(d, s[i]) + H!Score(l, s[i]) = H!Score(d, s[j]) + H!Score(l, s[j])
    BY <1>3, <1>6
  <2> QED BY <2>2, <2>3, <2>4
<1> QED BY <1>3, <1>4, <1>5, <1>6

LEMMA LexicalKeeps ==
    ASSUME H!RetrievalInv, H!Lexical
    PROVE  H!RetrievalInv'
<1>1. /\ UNCHANGED <<s3, s4, s7, s10, s11, s13, s12>>
      /\ s5 = "lexical" /\ s5' = "rerank" /\ s8' \in H!Lane
  BY DEF H!Lexical
<1>2. s7 \in H!Lanes /\ s8' \in H!Lanes
  BY <1>1, EmptyLane DEF H!RetrievalInv, H!TypeOK, H!Lane
<1>3. PICK s \in H!Fused(s7, s8') : \E K \in H!Deduplicate(s) : \E kept \in H!Listing(K) :
          s9' = [k \in 1..H!Least(Len(kept), LaneLimit) |-> s[kept[k]]]
  BY DEF H!Lexical
<1>4. PICK K \in H!Deduplicate(s) : \E kept \in H!Listing(K) :
          s9' = [k \in 1..H!Least(Len(kept), LaneLimit) |-> s[kept[k]]]
  BY <1>3
<1>5. PICK kept \in H!Listing(K) :
          s9' = [k \in 1..H!Least(Len(kept), LaneLimit) |-> s[kept[k]]]
  BY <1>4
<1>6. /\ Len(s) \in Nat /\ DOMAIN s = 1..Len(s)
      /\ H!ToSet(s) = H!ToSet(s7) \cup H!ToSet(s8') /\ H!ToSet(s) \subseteq Chunks
      /\ \A i, j \in DOMAIN s : i < j =>
           ~(/\ H!Score(s7, s[j]) >= H!Score(s7, s[i])
             /\ H!Score(s8', s[j]) >= H!Score(s8', s[i]) /\ s[i] # s[j])
  BY <1>2, FusedIs
<1>7. /\ K \in SUBSET (1..Len(s))
      /\ \A i \in 1..Len(s) : i \in K <=> ~\E j \in K : j < i /\ {s[i], s[j]} \in s3
  BY <1>6 DEF H!Deduplicate, H!Overlap
<1>8. /\ Len(kept) = Cardinality(K) /\ Len(kept) \in Nat
      /\ DOMAIN kept = 1..Len(kept) /\ H!ToSet(kept) = K
      /\ \A i \in DOMAIN kept : kept[i] \in 1..Len(s)
      /\ \A i, j \in DOMAIN kept : i < j => kept[i] < kept[j]
  BY <1>6, <1>7, ListingIs
<1> DEFINE n == H!Least(Len(kept), LaneLimit)
<1>9. n \in Nat /\ n <= Len(kept) /\ (n < LaneLimit => n = Len(kept))
  BY <1>8, Parameters DEF H!Least
<1>10. /\ s9' = [k \in 1..n |-> s[kept[k]]]
       /\ \A k \in 1..n : k \in DOMAIN kept /\ kept[k] \in DOMAIN s /\ s[kept[k]] \in Chunks
  BY <1>5, <1>6, <1>8, <1>9 DEF H!ToSet
<1> HIDE DEF n
<1>11. s9' \in Seq(Chunks) /\ Len(s9') = n /\ DOMAIN s9' = 1..n
  BY <1>9, <1>10
<1>12. s11' = <<>> /\ s13' = 0 /\ ~s12' /\ ~s10' /\ Len(s11') = 0
  BY <1>1 DEF H!RetrievalInv, H!EarlyInv
<1>13. H!Returned' = {} /\ H!Held' = {s[kept[k]] : k \in 1..n}
  BY <1>10, <1>11, <1>12 DEF H!Returned, H!Held, H!ToSet
<1>14. H!TypeOK'
  BY <1>1, <1>2, <1>11 DEF H!RetrievalInv, H!TypeOK
<1>15. H!EarlyInv'
  BY <1>1, <1>12 DEF H!EarlyInv
<1>16. H!FoundInv'
  <2> SUFFICES ASSUME Len(s11') + Len(s9') < LaneLimit,
                      NEW c \in H!ToSet(s7') \cup H!ToSet(s8')
               PROVE  c \in H!Held' \/ \E k \in H!Held' : {c, k} \in s3'
    BY DEF H!FoundInv, H!Overlap
  <2>0. n < LaneLimit /\ c \in H!ToSet(s)
    BY <1>1, <1>6, <1>9, <1>11, <1>12
  <2>1. \A i \in K : s[i] \in H!Held'
    <3> SUFFICES ASSUME NEW i \in K PROVE s[i] \in H!Held'
      OBVIOUS
    <3>1. PICK k \in DOMAIN kept : kept[k] = i
      BY <1>8 DEF H!ToSet
    <3> QED BY <1>8, <1>9, <1>13, <2>0, <3>1
  <2>2. PICK i \in 1..Len(s) : s[i] = c
    BY <1>6, <2>0 DEF H!ToSet
  <2> QED BY <1>1, <1>7, <2>1, <2>2
<1>17. H!ApartInv'
  <2> SUFFICES ASSUME NEW i \in 1..n, NEW j \in 1..n, {s[kept[i]], s[kept[j]]} \in s3
               PROVE  FALSE
    BY <1>1, <1>13 DEF H!ApartInv, H!Overlap
  <2>1. s[kept[i]] # s[kept[j]]
    BY PairsApart DEF H!RetrievalInv, H!TypeOK
  <2>2. kept[i] \in K /\ kept[j] \in K /\ kept[i] \in 1..Len(s) /\ kept[j] \in 1..Len(s)
    BY <1>8, <1>10 DEF H!ToSet
  <2>3. kept[i] < kept[j] \/ kept[j] < kept[i]
    BY <2>1, <2>2, <1>6
  <2>4. {s[kept[j]], s[kept[i]]} \in s3
    OBVIOUS
  <2> QED BY <1>7, <2>2, <2>3, <2>4
<1>18. H!OrderInv'
  <2>1. ASSUME NEW i \in 1..n, NEW j \in 1..n, i < j,
               H!Better(s[kept[j]], s[kept[i]])'
        PROVE  FALSE
    <3>1. kept[i] < kept[j] /\ kept[i] \in DOMAIN s /\ kept[j] \in DOMAIN s
      BY <1>8, <1>10, <2>1
    <3>2. /\ H!Score(s7, s[kept[j]]) >= H!Score(s7, s[kept[i]])
          /\ H!Score(s8', s[kept[j]]) >= H!Score(s8', s[kept[i]])
          /\ s[kept[i]] # s[kept[j]]
      BY <1>1, <2>1 DEF H!Better
    <3> QED BY <1>6, <3>1, <3>2
  <2>2. DOMAIN s11' = {}
    BY <1>12
  <2>3. \A i, j \in DOMAIN s9' : i < j => ~H!Better(s9[j], s9[i])'
    BY <1>10, <1>11, <2>1
  <2> QED BY <2>2, <2>3 DEF H!OrderInv
<1>19. H!PackedInv'
  BY <1>1 DEF H!RetrievalInv, H!PackedInv
<1> QED BY <1>14, <1>15, <1>16, <1>17, <1>18, <1>19 DEF H!RetrievalInv

LEMMA RerankKeeps ==
    ASSUME H!RetrievalInv, H!Rerank
    PROVE  H!RetrievalInv'
<1>1. /\ UNCHANGED <<s3, s4, s7, s8, s11, s13, s12>>
      /\ s5 = "rerank" /\ s5' = "pack"
  BY DEF H!Rerank
<1>2. /\ s9 \in Seq(Chunks) /\ s11 = <<>> /\ ~s12
      /\ s10 \in BOOLEAN
  BY <1>1 DEF H!RetrievalInv, H!TypeOK, H!EarlyInv
<1>3. CASE UNCHANGED <<s9, s10>>
  <2>1. H!Held' = H!Held /\ H!Ready' /\ H!Ready
    BY <1>1, <1>3 DEF H!Held, H!Returned, H!Ready
  <2>2. H!TypeOK' /\ H!EarlyInv' /\ H!PackedInv'
    BY <1>1, <1>3 DEF H!RetrievalInv, H!TypeOK, H!EarlyInv, H!PackedInv
  <2>3. H!FoundInv' /\ H!ApartInv'
    BY <1>1, <1>3, <2>1 DEF H!RetrievalInv, H!FoundInv, H!ApartInv, H!Overlap
  <2>4. H!OrderInv'
    BY <1>1, <1>3, <2>1 DEF H!RetrievalInv, H!OrderInv, H!Better
  <2> QED BY <2>2, <2>3, <2>4 DEF H!RetrievalInv
<1>4. ASSUME NEW n, n = H!Least(Len(s9), RerankCandidates), n > 0,
             NEW order \in [1..n -> 1..n], H!ToSet(order) = 1..n,
             s9' = [k \in DOMAIN s9 |->
                              s9[IF k <= n THEN order[k] ELSE k]],
             s10' = TRUE
      PROVE  H!RetrievalInv'
  <2> DEFINE from(k) == IF k <= n THEN order[k] ELSE k
  <2>1. n \in Nat /\ n <= Len(s9) /\ Len(s9) \in Nat
    BY <1>2, <1>4, Parameters DEF H!Least
  <2>2. DOMAIN s9 = 1..Len(s9)
    BY <1>2
  <2>3. \A k \in 1..Len(s9) : from(k) \in 1..Len(s9)
    BY <2>1
  <2>4. \A i \in 1..Len(s9) : \E k \in 1..Len(s9) : from(k) = i
    <3> SUFFICES ASSUME NEW i \in 1..Len(s9)
                 PROVE  \E k \in 1..Len(s9) : from(k) = i
      OBVIOUS
    <3>1. CASE i > n
      BY <2>1, <3>1
    <3>2. CASE i <= n
      <4>1. PICK k \in 1..n : order[k] = i
        BY <1>4, <2>1, <3>2 DEF H!ToSet
      <4> QED BY <2>1, <4>1
    <3> QED BY <2>1, <3>1, <3>2
  <2>5. s9' = [k \in 1..Len(s9) |-> s9[from(k)]]
    BY <1>4, <2>2
  <2> HIDE DEF from
  <2>6. /\ s9' \in Seq(Chunks) /\ Len(s9') = Len(s9)
        /\ DOMAIN s9' = 1..Len(s9)
    BY <1>2, <2>1, <2>3, <2>5
  <2>7. H!ToSet(s9') = H!ToSet(s9)
    BY <2>2, <2>3, <2>4, <2>5, <2>6 DEF H!ToSet
  <2>8. H!Held' = H!Held /\ H!Ready' /\ H!Ready
    BY <1>1, <2>7 DEF H!Held, H!Returned, H!Ready
  <2>9. H!TypeOK' /\ H!EarlyInv' /\ H!PackedInv'
    BY <1>1, <1>4, <2>6 DEF H!RetrievalInv, H!TypeOK, H!EarlyInv, H!PackedInv
  <2>10. H!FoundInv' /\ H!ApartInv'
    BY <1>1, <2>6, <2>8 DEF H!RetrievalInv, H!FoundInv, H!ApartInv, H!Overlap
  <2>11. H!OrderInv'
    BY <1>4 DEF H!OrderInv
  <2> QED BY <2>9, <2>10, <2>11 DEF H!RetrievalInv
<1>5. UNCHANGED <<s9, s10>> \/
      \E n \in {H!Least(Len(s9), RerankCandidates)} :
        /\ n > 0
        /\ \E order \in [1..n -> 1..n] :
              /\ H!ToSet(order) = 1..n
              /\ s9' = [k \in DOMAIN s9 |->
                                  s9[IF k <= n THEN order[k] ELSE k]]
        /\ s10' = TRUE
  BY DEF H!Rerank
<1> QED BY <1>3, <1>4, <1>5

\* A character that does not fit is what a response is marked for.
LEMMA FitsIs ==
    ASSUME s13 \in Nat, s13 <= MaxResponse, NEW c \in Chunks
    PROVE  /\ H!Fits(c) \in Nat /\ H!Fits(c) <= ContentLength(c)
           /\ H!Fits(c) > 0 => s13 + Overhead + H!Fits(c) <= MaxResponse
<1>1. /\ MaxResponse \in Nat /\ Overhead \in Nat /\ MaxContent \in Nat
      /\ ContentLength(c) \in Nat
  BY Parameters
<1> QED BY <1>1 DEF H!Fits, H!Least

LEMMA PackKeeps ==
    ASSUME H!RetrievalInv, H!Pack
    PROVE  H!RetrievalInv'
<1> DEFINE c == Head(s9)
<1>1. /\ UNCHANGED <<s3, s4, s5, s7, s8, s10>>
      /\ s5 = "pack" /\ s9 # <<>> /\ Len(s11) < s4
      /\ s9' = Tail(s9)
  BY DEF H!Pack
<1>2. /\ s9 \in Seq(Chunks) /\ s11 \in Seq(Chunks \X Nat) /\ s13 \in Nat
      /\ s12 \in BOOLEAN /\ s13 <= MaxResponse /\ s4 \in Nat
  BY Parameters DEF H!RetrievalInv, H!TypeOK, H!PackedInv
<1>3. c \in Chunks /\ s9' \in Seq(Chunks) /\ Len(s9) = Len(s9') + 1
      /\ Len(s9') \in Nat /\ Len(s11) \in Nat
  BY <1>1, <1>2
<1>5. /\ \A i \in DOMAIN s9' : i + 1 \in DOMAIN s9 /\ s9'[i] = s9[i + 1]
      /\ \A i \in DOMAIN s9' : i \in Nat /\ i + 1 > 1
      /\ 1 \in DOMAIN s9 /\ c = s9[1]
      /\ \A i \in DOMAIN s9 : i = 1 \/ i - 1 \in DOMAIN s9'
      /\ \A i \in DOMAIN s9 : i \in Nat /\ (i - 1) + 1 = i
  BY <1>1, <1>2
<1> HIDE DEF c
<1>4. H!ToSet(s9) = {c} \cup H!ToSet(s9')
  <2>1. H!ToSet(s9') \subseteq H!ToSet(s9) /\ c \in H!ToSet(s9)
    BY <1>5 DEF H!ToSet
  <2>2. ASSUME NEW i \in DOMAIN s9
        PROVE  s9[i] \in {c} \cup H!ToSet(s9')
    <3>1. CASE i = 1
      BY <1>5, <3>1
    <3>2. CASE i - 1 \in DOMAIN s9'
      <4>1. s9'[i - 1] = s9[i]
        BY <1>5, <3>2
      <4> QED BY <3>2, <4>1 DEF H!ToSet
    <3> QED BY <1>5, <3>1, <3>2
  <2> QED BY <2>1, <2>2 DEF H!ToSet
<1> DEFINE fit == H!Fits(c)
<1>6. /\ fit \in Nat /\ fit <= ContentLength(c)
      /\ fit > 0 => s13 + Overhead + fit <= MaxResponse
      /\ Overhead \in Nat /\ ContentLength(c) \in Nat
  BY <1>2, <1>3, FitsIs, Parameters
<1> USE DEF c
<1>7. \/ fit = 0 /\ s12' = TRUE /\ UNCHANGED <<s11, s13>>
      \/ /\ fit # 0
         /\ s11' = Append(s11, <<c, fit>>)
         /\ s13' = s13 + Overhead + fit
         /\ s12' = (s12 \/ fit < ContentLength(c))
  BY DEF H!Pack
<1>8. H!Ready' /\ H!Ready
  BY <1>1 DEF H!Ready
<1> HIDE DEF c, fit
<1>9. CASE fit = 0
  <2>1. s12' = TRUE /\ UNCHANGED <<s11, s13>>
    BY <1>7, <1>9
  <2>2. H!Returned' = H!Returned /\ H!Held' \subseteq H!Held
    BY <1>4, <2>1 DEF H!Held, H!Returned
  <2>3. H!TypeOK' /\ H!EarlyInv' /\ H!PackedInv' /\ H!FoundInv'
    BY <1>1, <1>3, <2>1 DEF H!RetrievalInv, H!TypeOK, H!EarlyInv, H!PackedInv, H!FoundInv
  <2>4. H!ApartInv'
    BY <1>1, <1>8, <2>2 DEF H!RetrievalInv, H!ApartInv, H!Overlap
  <2>5. H!OrderInv'
    <3> SUFFICES ASSUME ~s10 PROVE H!OrderInv'
      BY <1>1 DEF H!OrderInv
    <3>1. /\ \A i, j \in DOMAIN s9 : i < j => ~H!Better(s9[j], s9[i])
          /\ \A i, j \in DOMAIN s11 : i < j => ~H!Better(s11[j][1], s11[i][1])
          /\ \A i \in DOMAIN s11, j \in DOMAIN s9 : ~H!Better(s9[j], s11[i][1])
      BY <1>8 DEF H!RetrievalInv, H!OrderInv
    <3>2. \A x, y : H!Better(x, y)' <=> H!Better(x, y)
      BY <1>1 DEF H!Better
    <3>3. \A i, j \in DOMAIN s9' : i < j => ~H!Better(s9'[j], s9'[i])
      BY <1>5, <3>1
    <3> QED BY <1>5, <2>1, <3>1, <3>2, <3>3 DEF H!OrderInv
  <2> QED BY <2>3, <2>4, <2>5 DEF H!RetrievalInv
<1>10. CASE fit # 0
  <2>1. /\ s11' = Append(s11, <<c, fit>>)
        /\ s13' = s13 + Overhead + fit
        /\ s12' = (s12 \/ fit < ContentLength(c))
    BY <1>7, <1>10
  <2>2. /\ s11' \in Seq(Chunks \X Nat) /\ Len(s11') = Len(s11) + 1
        /\ \A i \in DOMAIN s11 : i \in DOMAIN s11' /\ s11'[i] = s11[i]
                                     /\ i < Len(s11')
        /\ Len(s11') \in DOMAIN s11' /\ s11'[Len(s11')] = <<c, fit>>
        /\ \A i \in DOMAIN s11' : i \in DOMAIN s11 \/ i = Len(s11')
        /\ \A i \in DOMAIN s11' : i \in Nat /\ i <= Len(s11')
    <3> DEFINE e == <<c, fit>>
    <3>1. e \in Chunks \X Nat /\ s11 \in Seq(Chunks \X Nat) /\ s11' = Append(s11, e)
      BY <1>2, <1>3, <1>6, <2>1
    <3> HIDE DEF e
    <3>2. /\ s11' \in Seq(Chunks \X Nat) /\ Len(s11') = Len(s11) + 1 /\ Len(s11) \in Nat
          /\ DOMAIN s11 = 1..Len(s11) /\ DOMAIN s11' = 1..(Len(s11) + 1)
          /\ \A i \in 1..Len(s11) : s11'[i] = s11[i]
          /\ s11'[Len(s11) + 1] = e
      BY <3>1
    <3> QED BY <3>2 DEF e
  <2>3. H!ToSet(s11') = H!ToSet(s11) \cup {<<c, fit>>}
    BY <2>2 DEF H!ToSet
  <2>4. H!Returned' = H!Returned \cup {c} /\ H!Held' = H!Held
    <3>1. <<c, fit>>[1] = c
      OBVIOUS
    <3>2. H!Returned' = H!Returned \cup {c}
      BY <2>3, <3>1 DEF H!Returned
    <3> QED BY <1>4, <3>2 DEF H!Held
  <2>5. H!TypeOK' /\ H!EarlyInv'
    BY <1>1, <1>2, <1>3, <1>6, <2>1, <2>2 DEF H!RetrievalInv, H!TypeOK, H!EarlyInv
  <2>6. H!PackedInv'
    <3>1. s13' <= MaxResponse /\ Len(s11') <= s4'
      BY <1>1, <1>2, <1>3, <1>6, <1>10, <2>1, <2>2
    <3>2. ~s12' => ~s12 /\ fit = ContentLength(c)
      <4>1. ~s12' => ~s12 /\ ~(fit < ContentLength(c))
        BY <2>1, Zenon
      <4>2. ~(fit < ContentLength(c)) => fit = ContentLength(c)
        BY <1>6
      <4> QED BY <4>1, <4>2
    <3>3. <<c, fit>>[1] = c /\ <<c, fit>>[2] = fit
      OBVIOUS
    <3>4. ~s12' => \A r \in H!ToSet(s11') : r[2] = ContentLength(r[1])
      BY <2>3, <3>2, <3>3 DEF H!RetrievalInv, H!PackedInv
    <3> QED BY <3>1, <3>4 DEF H!PackedInv
  <2>7. H!FoundInv'
    <3>1. Len(s11') + Len(s9') = Len(s11) + Len(s9)
      BY <1>3, <2>2
    <3>2. ~s12' => ~s12
      BY <1>2, <2>1
    <3> QED BY <1>1, <1>8, <2>4, <3>1, <3>2 DEF H!RetrievalInv, H!FoundInv, H!Overlap
  <2>8. H!ApartInv'
    BY <1>1, <1>8, <2>4 DEF H!RetrievalInv, H!ApartInv, H!Overlap
  <2>9. H!OrderInv'
    <3> SUFFICES ASSUME ~s10 PROVE H!OrderInv'
      BY <1>1 DEF H!OrderInv
    <3>1. /\ \A i, j \in DOMAIN s9 : i < j => ~H!Better(s9[j], s9[i])
          /\ \A i, j \in DOMAIN s11 : i < j => ~H!Better(s11[j][1], s11[i][1])
          /\ \A i \in DOMAIN s11, j \in DOMAIN s9 : ~H!Better(s9[j], s11[i][1])
      BY <1>8 DEF H!RetrievalInv, H!OrderInv
    <3>2. \A x, y : H!Better(x, y)' <=> H!Better(x, y)
      BY <1>1 DEF H!Better
    <3>3. \A i, j \in DOMAIN s9' : i < j => ~H!Better(s9'[j], s9'[i])
      BY <1>5, <3>1
    <3>4. \A j \in DOMAIN s9' : ~H!Better(s9'[j], c)
      BY <1>5, <3>1
    <3>5. \A i \in DOMAIN s11 : ~H!Better(c, s11[i][1])
      BY <1>5, <3>1
    <3>6. <<c, fit>>[1] = c
      OBVIOUS
    <3>7. \A i, j \in DOMAIN s11' : i < j => ~H!Better(s11'[j][1], s11'[i][1])
      BY <2>2, <3>1, <3>5, <3>6
    <3>8. \A i \in DOMAIN s11', j \in DOMAIN s9' : ~H!Better(s9'[j], s11'[i][1])
      BY <1>5, <2>2, <3>1, <3>4, <3>6
    <3> QED BY <3>2, <3>3, <3>7, <3>8 DEF H!OrderInv
  <2> QED BY <2>5, <2>6, <2>7, <2>8, <2>9 DEF H!RetrievalInv
<1> QED BY <1>9, <1>10

LEMMA RespondKeeps ==
    ASSUME H!RetrievalInv, H!Respond
    PROVE  H!RetrievalInv'
<1>1. /\ UNCHANGED <<s3, s4, s7, s8, s9, s10, s11, s13, s12>>
      /\ s5 = "pack" /\ s5' = "answered" /\ (s9 = <<>> \/ Len(s11) = s4)
  BY DEF H!Respond
<1>2. H!Held' = H!Held /\ H!Ready' /\ H!Ready
  BY <1>1 DEF H!Held, H!Returned, H!Ready
<1>3. H!TypeOK' /\ H!EarlyInv' /\ H!PackedInv'
  BY <1>1 DEF H!RetrievalInv, H!TypeOK, H!EarlyInv, H!PackedInv
<1>4. H!FoundInv' /\ H!ApartInv'
  BY <1>1, <1>2 DEF H!RetrievalInv, H!FoundInv, H!ApartInv, H!Overlap
<1>5. H!OrderInv'
  BY <1>1, <1>2 DEF H!RetrievalInv, H!OrderInv, H!Better
<1> QED BY <1>3, <1>4, <1>5 DEF H!RetrievalInv

LEMMA RetrievalStep == H!RetrievalInv /\ H!Next => H!RetrievalInv'
<1> SUFFICES ASSUME H!RetrievalInv, H!Next PROVE H!RetrievalInv'
  OBVIOUS
<1>1. CASE H!Promote \/ H!Suspend \/ H!Prune
  BY <1>1, CallStays DEF H!Promote, H!Suspend, H!Prune
<1> QED BY <1>1, EarlyKeeps, LexicalKeeps, RerankKeeps, PackKeeps, RespondKeeps DEF H!Next

LEMMA HonestFollows ==
    ASSUME H!RetrievalInv
    PROVE  H!ResponseHonest
<1> SUFFICES ASSUME s5 = "answered" PROVE H!ResponseHonest
  BY DEF H!ResponseHonest
<1>1. H!Ready /\ (s9 = <<>> \/ Len(s11) = s4)
  BY DEF H!RetrievalInv, H!EarlyInv, H!Ready
<1>2. /\ s11 \in Seq(Chunks \X Nat) /\ Len(s11) \in Nat
      /\ s4 \in Nat /\ s4 <= LaneLimit /\ LaneLimit \in Nat
      /\ s7 \in H!Lanes /\ s8 \in H!Lanes
  BY Parameters DEF H!RetrievalInv, H!TypeOK
<1>3. \A r \in H!ToSet(s11) : r[1] \in H!Returned
  BY DEF H!Returned
<1>4. \A a, b \in H!Returned : ~H!Overlap(a, b)
  BY <1>1 DEF H!RetrievalInv, H!ApartInv, H!Held
<1>5. s13 <= MaxResponse /\ Len(s11) <= s4
      /\ (~s12 => \A r \in H!ToSet(s11) : r[2] = ContentLength(r[1]))
  BY DEF H!RetrievalInv, H!PackedInv
<1>6. ASSUME ~s12, Len(s11) < s4, NEW c \in H!ToSet(s7) \cup H!ToSet(s8)
      PROVE  \/ \E r \in H!ToSet(s11) : r[1] = c /\ r[2] = ContentLength(c)
             \/ \E k \in H!Returned : H!Overlap(c, k)
  <2>1. s9 = <<>>
    BY <1>1, <1>2, <1>6
  <2>2. H!Held = H!Returned /\ Len(s9) = 0
    BY <2>1 DEF H!Held, H!ToSet
  <2>3. c \in H!Returned \/ \E k \in H!Returned : H!Overlap(c, k)
    BY <1>1, <1>2, <1>6, <2>2 DEF H!RetrievalInv, H!FoundInv
  <2> QED BY <1>5, <1>6, <2>3 DEF H!Returned
<1>7. ASSUME ~s10, NEW i \in DOMAIN s11, NEW j \in DOMAIN s11,
             H!Better(s11[j][1], s11[i][1])
      PROVE  j < i
  <2>1. ~(i < j)
    BY <1>1, <1>7 DEF H!RetrievalInv, H!OrderInv
  <2>2. i # j
    BY <1>7 DEF H!Better
  <2>3. i \in Nat /\ j \in Nat
    BY <1>2
  <2> QED BY <2>1, <2>2, <2>3
<1> QED BY <1>4, <1>5, <1>6, <1>7 DEF H!ResponseHonest

LEMMA RetrievalHolds == MCSpec => [](part = "retrieval" => H!RetrievalInv)
<1>1. MCInit => (part = "retrieval" => H!RetrievalInv)
  BY RetrievalInit DEF MCInit
<1>2. (part = "retrieval" => H!RetrievalInv) /\ [MCNext]_<<part, vars, slots>> => (part = "retrieval" => H!RetrievalInv)'
  <2>1. CASE UNCHANGED <<part, vars, slots>>
    BY <2>1, CallStays DEF slots, H!call
  <2>2. CASE MCNext
    BY <2>2, RetrievalStep DEF MCNext
  <2> QED BY <2>1, <2>2
<1> QED BY <1>1, <1>2, PTL DEF MCSpec

\* What a search of a hybrid source returns can be relied on (KnowledgeSourceRetriever.
\* search): unless it is marked truncated, a chunk that a lane found is in it whole,
\* repeats one that was kept, or better ones reached the limit; without a reranker no
\* chunk precedes one that both lanes prefer; no two of its chunks overlap; and the
\* response keeps within its size.
THEOREM ResponsesAreHonest == MCSpec => []ResponseHonest
<1>1. (part = "retrieval" => H!RetrievalInv) => ResponseHonest
  BY HonestFollows DEF ResponseHonest
<1> QED BY <1>1, RetrievalHolds, PTL

-----------------------------------------------------------------------------
(* The graph tools of the Knowledge MCP.  Their slots: s1 links, s2 ask,     *)
(* s3 queue, s4 answer, s5 done.                                             *)

\* The members of a finite set in an order are a sequence of them.
LEMMA ListedIs ==
    ASSUME NEW S, IsFiniteSet(S), NEW before, NEW f \in Q!Listing(S, before)
    PROVE  /\ f \in Seq(S) /\ Len(f) \in Nat /\ DOMAIN f = 1..Len(f) /\ Q!ToSet(f) = S
           /\ \A i, j \in DOMAIN f : i < j => <<f[i], f[j]>> \in before
<1> DEFINE m == Cardinality(S)
<1>1. m \in Nat
  BY FS_CardinalityType
<1>2. /\ f \in [1..m -> S] /\ Q!ToSet(f) = S
      /\ \A i, j \in DOMAIN f : i < j => <<f[i], f[j]>> \in before
  <2>1. Q!Cardinality(S) = m
    BY DEF Q!Cardinality, Cardinality
  <2> QED BY <2>1 DEF Q!Listing
<1> HIDE DEF m
<1>3. f \in [1..m -> S]
  BY <1>2
<1>4. f \in Seq(S) /\ Len(f) = m /\ DOMAIN f = 1..m
  BY <1>1, <1>3
<1> QED BY <1>1, <1>2, <1>4

LEMMA LinksFinite ==
    ASSUME Q!TypeOK
    PROVE  /\ DOMAIN s1 = 1..Len(s1) /\ Len(s1) \in Nat
           /\ \A S \in SUBSET DOMAIN s1 : IsFiniteSet(S)
           /\ \A i \in DOMAIN s1 : Q!Source(i) \in Nodes /\ Q!Target(i) \in Nodes
<1>1. s1 \in Seq(Links)
  BY DEF Q!TypeOK
<1>2. DOMAIN s1 = 1..Len(s1) /\ Len(s1) \in Nat
  BY <1>1
<1>3. IsFiniteSet(DOMAIN s1)
  BY <1>2, FS_Interval
<1>4. \A i \in DOMAIN s1 : s1[i] \in Nodes \X Nodes
  BY <1>1, Assumptions DEF Q!QueriesAssumption
<1> QED BY <1>2, <1>3, <1>4, FS_Subset DEF Q!Source, Q!Target

LEMMA AskIs ==
    ASSUME Q!TypeOK
    PROVE  /\ s2.tool \in {"paths", "neighbors", "explain", "overview", "search"}
           /\ s2.limit \in Nat \ {0}
           /\ s2.tool = "paths" => s2.depth \in Nat \ {0}
BY Assumptions DEF Q!TypeOK, Q!Asks, Q!QueriesAssumption

\* The nodes on a path.
LEMMA TrailIs ==
    ASSUME NEW p \in Seq(DOMAIN s1)
    PROVE  /\ Len(p) \in Nat /\ DOMAIN p = 1..Len(p)
           /\ DOMAIN Q!Trail(p) = 1..(Len(p) + 1) /\ Len(Q!Trail(p)) = Len(p) + 1
           /\ Q!Trail(p)[1] = s2.from /\ \A k \in 1..Len(p) : Q!Trail(p)[k + 1] = Q!Target(p[k])
           /\ Q!Last(Q!Trail(p)) = Q!Trail(p)[Len(p) + 1]
<1> DEFINE T == {Q!Target(i) : i \in DOMAIN s1} \cup {s2.from}
           t == [k \in DOMAIN p |-> Q!Target(p[k])]
<1>1. Len(p) \in Nat /\ DOMAIN p = 1..Len(p) /\ \A k \in DOMAIN p : p[k] \in DOMAIN s1
  OBVIOUS
<1>2. t \in [1..Len(p) -> T]
  BY <1>1
<1>3. t \in Seq(T) /\ Len(t) = Len(p)
  BY <1>1, <1>2
<1>4. <<s2.from>> \in Seq(T) /\ Len(<<s2.from>>) = 1
  OBVIOUS
<1>5. \A k \in 1..Len(p) : t[k] = Q!Target(p[k])
  BY <1>1
<1>6. Q!Trail(p) = <<s2.from>> \o t
  BY DEF Q!Trail
<1> HIDE DEF t, T
<1>7. /\ DOMAIN Q!Trail(p) = 1..(Len(p) + 1) /\ Len(Q!Trail(p)) = Len(p) + 1
      /\ Q!Trail(p)[1] = s2.from /\ \A k \in 1..Len(p) : Q!Trail(p)[k + 1] = t[k]
  BY <1>1, <1>3, <1>4, <1>6
<1> QED BY <1>1, <1>5, <1>7 DEF Q!Last

\* Whether a path is a walk.
LEMMA WalkIs ==
    ASSUME s2.depth \in Nat, NEW w
    PROVE  w \in Q!SimpleWalks <=>
             /\ w \in Seq(DOMAIN s1) /\ Len(w) <= s2.depth
             /\ \A k \in 1..Len(w) : Q!Source(w[k]) = Q!Trail(w)[k]
             /\ \A j, k \in 1..(Len(w) + 1) : Q!Trail(w)[j] = Q!Trail(w)[k] => j = k
<1>1. w \in Q!Walks <=> w \in Seq(DOMAIN s1) /\ Len(w) <= s2.depth
  <2>1. ASSUME w \in Q!Walks PROVE w \in Seq(DOMAIN s1) /\ Len(w) <= s2.depth
    <3>1. PICK n \in 0..s2.depth : w \in [1..n -> DOMAIN s1]
      BY <2>1 DEF Q!Walks
    <3> QED BY <3>1
  <2>2. ASSUME w \in Seq(DOMAIN s1), Len(w) <= s2.depth PROVE w \in Q!Walks
    <3>1. Len(w) \in 0..s2.depth /\ w \in [1..Len(w) -> DOMAIN s1]
      BY <2>2
    <3> QED BY <3>1 DEF Q!Walks
  <2> QED BY <2>1, <2>2
<1>2. w \in Seq(DOMAIN s1) => DOMAIN w = 1..Len(w) /\ DOMAIN Q!Trail(w) = 1..(Len(w) + 1)
  BY TrailIs
<1> QED BY <1>1, <1>2 DEF Q!SimpleWalks, Q!IsInjective

LEMMA AppendIs ==
    ASSUME NEW p \in Seq(DOMAIN s1), NEW i \in DOMAIN s1
    PROVE  /\ Append(p, i) \in Seq(DOMAIN s1) /\ Len(Append(p, i)) = Len(p) + 1
           /\ \A k \in 1..Len(p) : Append(p, i)[k] = p[k]
           /\ Append(p, i)[Len(p) + 1] = i
           /\ \A k \in 1..(Len(p) + 1) : Q!Trail(Append(p, i))[k] = Q!Trail(p)[k]
           /\ Q!Trail(Append(p, i))[Len(p) + 2] = Q!Target(i) /\ Q!Last(Q!Trail(Append(p, i))) = Q!Target(i)
<1> DEFINE q == Append(p, i)
<1>1. /\ q \in Seq(DOMAIN s1) /\ Len(q) = Len(p) + 1 /\ Len(p) \in Nat
      /\ \A k \in 1..Len(p) : q[k] = p[k]
      /\ q[Len(p) + 1] = i
  OBVIOUS
<1> HIDE DEF q
<1>2. /\ Q!Trail(q)[1] = s2.from /\ \A k \in 1..Len(q) : Q!Trail(q)[k + 1] = Q!Target(q[k])
      /\ Q!Last(Q!Trail(q)) = Q!Trail(q)[Len(q) + 1]
  BY <1>1, TrailIs
<1>3. Q!Trail(p)[1] = s2.from /\ \A k \in 1..Len(p) : Q!Trail(p)[k + 1] = Q!Target(p[k])
  BY TrailIs
<1>4. ASSUME NEW k \in 1..(Len(p) + 1) PROVE Q!Trail(q)[k] = Q!Trail(p)[k]
  <2>1. CASE k = 1
    BY <1>2, <1>3, <2>1
  <2>2. CASE k # 1
    <3>1. k - 1 \in 1..Len(p) /\ k - 1 \in 1..Len(q) /\ (k - 1) + 1 = k
      BY <1>1, <2>2
    <3> QED BY <1>1, <1>2, <1>3, <3>1
  <2> QED BY <2>1, <2>2
<1>5. Q!Trail(q)[Len(p) + 2] = Q!Target(i)
  <2>1. Len(p) + 1 \in 1..Len(q) /\ (Len(p) + 1) + 1 = Len(p) + 2
    BY <1>1
  <2> QED BY <1>1, <1>2, <2>1
<1>6. Q!Last(Q!Trail(q)) = Q!Target(i)
  BY <1>1, <1>2, <1>5
<1> QED BY <1>1, <1>4, <1>5, <1>6 DEF q

\* A walk goes on along every fresh link.
LEMMA WalksGoOn ==
    ASSUME s2.depth \in Nat, NEW p \in Q!SimpleWalks, Len(p) < s2.depth, NEW i \in Q!Fresh(p)
    PROVE  /\ Append(p, i) \in Q!SimpleWalks /\ i \in DOMAIN s1
<1> DEFINE q == Append(p, i)
<1>1. /\ p \in Seq(DOMAIN s1) /\ Len(p) \in Nat
      /\ \A k \in 1..Len(p) : Q!Source(p[k]) = Q!Trail(p)[k]
      /\ \A j, k \in 1..(Len(p) + 1) : Q!Trail(p)[j] = Q!Trail(p)[k] => j = k
  BY WalkIs
<1>2. i \in DOMAIN s1 /\ Q!Source(i) = Q!Trail(p)[Len(p) + 1]
      /\ \A k \in 1..(Len(p) + 1) : Q!Trail(p)[k] # Q!Target(i)
  BY <1>1, TrailIs DEF Q!Fresh, Q!ToSet
<1>3. /\ q \in Seq(DOMAIN s1) /\ Len(q) = Len(p) + 1
      /\ \A k \in 1..Len(p) : q[k] = p[k]
      /\ q[Len(p) + 1] = i
      /\ \A k \in 1..(Len(p) + 1) : Q!Trail(q)[k] = Q!Trail(p)[k]
      /\ Q!Trail(q)[Len(p) + 2] = Q!Target(i)
  BY <1>1, <1>2, AppendIs
<1> HIDE DEF q
<1>4. ASSUME NEW k \in 1..Len(q) PROVE Q!Source(q[k]) = Q!Trail(q)[k]
  <2>1. CASE k = Len(p) + 1
    BY <1>1, <1>2, <1>3, <2>1
  <2>2. CASE k \in 1..Len(p)
    BY <1>1, <1>3, <2>2
  <2> QED BY <1>1, <1>3, <2>1, <2>2
<1>5. ASSUME NEW j \in 1..(Len(q) + 1), NEW k \in 1..(Len(q) + 1), Q!Trail(q)[j] = Q!Trail(q)[k]
      PROVE  j = k
  <2>1. (j \in 1..(Len(p) + 1) \/ j = Len(p) + 2) /\ (k \in 1..(Len(p) + 1) \/ k = Len(p) + 2)
    BY <1>1, <1>3
  <2> QED BY <1>1, <1>2, <1>3, <1>5, <2>1
<1>6. Len(q) <= s2.depth
  BY <1>1, <1>3
<1>7. q \in Q!SimpleWalks
  BY <1>3, <1>4, <1>5, <1>6, WalkIs
<1> QED BY <1>2, <1>7 DEF q

\* A walk that is still to be found goes on from its beginning along a fresh link.
LEMMA WalksComeFrom ==
    ASSUME s2.depth \in Nat, NEW w \in Q!Arriving, NEW p \in Q!SimpleWalks, Q!Prefix(p, w),
           \A k \in DOMAIN p : Q!Target(p[k]) # s2.to
    PROVE  /\ Len(p) < s2.depth
           /\ \E i \in Q!Fresh(p) : \/ Q!Target(i) = s2.to /\ w = Append(p, i)
                                    \/ Q!Target(i) # s2.to /\ Q!Prefix(Append(p, i), w)
<1>1. /\ p \in Seq(DOMAIN s1) /\ Len(p) \in Nat /\ DOMAIN p = 1..Len(p)
      /\ w \in Seq(DOMAIN s1) /\ Len(w) \in Nat /\ DOMAIN w = 1..Len(w)
      /\ Len(w) <= s2.depth /\ w # <<>>
      /\ \A k \in 1..Len(w) : Q!Source(w[k]) = Q!Trail(w)[k]
      /\ \A j, k \in 1..(Len(w) + 1) : Q!Trail(w)[j] = Q!Trail(w)[k] => j = k
  BY WalkIs, TrailIs DEF Q!Arriving
<1>2. Len(w) > 0
  BY <1>1
<1>3. /\ Q!Trail(w)[1] = s2.from /\ \A k \in 1..Len(w) : Q!Trail(w)[k + 1] = Q!Target(w[k])
      /\ Q!Trail(w)[Len(w) + 1] = s2.to /\ Q!Target(w[Len(w)]) = s2.to
  <2>1. /\ Q!Trail(w)[1] = s2.from /\ \A k \in 1..Len(w) : Q!Trail(w)[k + 1] = Q!Target(w[k])
        /\ Q!Last(Q!Trail(w)) = Q!Trail(w)[Len(w) + 1]
    BY <1>1, TrailIs
  <2>2. Len(w) \in 1..Len(w)
    BY <1>1, <1>2
  <2>3. Q!Last(Q!Trail(w)) = s2.to
    BY DEF Q!Arriving
  <2> QED BY <2>1, <2>2, <2>3
<1>4. /\ Q!Trail(p)[1] = s2.from /\ \A k \in 1..Len(p) : Q!Trail(p)[k + 1] = Q!Target(p[k])
      /\ Q!Last(Q!Trail(p)) = Q!Trail(p)[Len(p) + 1] /\ DOMAIN Q!Trail(p) = 1..(Len(p) + 1)
  BY <1>1, TrailIs
<1>5. Len(p) <= Len(w) /\ \A k \in 1..Len(p) : p[k] = w[k]
  BY <1>1 DEF Q!Prefix
<1>6. Len(p) < Len(w)
  <2>1. ASSUME Len(p) = Len(w) PROVE FALSE
    <3>1. Len(w) \in DOMAIN p /\ p[Len(w)] = w[Len(w)]
      BY <1>1, <1>2, <1>5, <2>1
    <3> QED BY <1>3, <3>1
  <2>2. Len(p) # Len(w) /\ Len(p) <= Len(w) /\ Len(p) \in Nat /\ Len(w) \in Nat
    BY <1>1, <1>5, <2>1
  <2> QED BY <2>2
<1>7. \A k \in 1..(Len(p) + 1) : Q!Trail(p)[k] = Q!Trail(w)[k]
  <2> SUFFICES ASSUME NEW k \in 1..(Len(p) + 1) PROVE Q!Trail(p)[k] = Q!Trail(w)[k]
    OBVIOUS
  <2>1. CASE k = 1
    BY <1>3, <1>4, <2>1
  <2>2. CASE k # 1
    <3>1. k - 1 \in 1..Len(p) /\ k - 1 \in 1..Len(w) /\ (k - 1) + 1 = k
      BY <1>1, <1>6, <2>2
    <3> QED BY <1>3, <1>4, <1>5, <3>1
  <2> QED BY <2>1, <2>2
<1> DEFINE i == w[Len(p) + 1]
<1>8. /\ Len(p) + 1 \in 1..Len(w) /\ i \in DOMAIN s1
      /\ Q!Source(i) = Q!Trail(w)[Len(p) + 1] /\ Q!Target(i) = Q!Trail(w)[Len(p) + 2]
  <2>1. Len(p) + 1 \in 1..Len(w) /\ (Len(p) + 1) + 1 = Len(p) + 2
    BY <1>1, <1>6
  <2> QED BY <1>1, <1>3, <2>1
<1>9. i \in Q!Fresh(p)
  <2>1. Q!Source(i) = Q!Last(Q!Trail(p))
    BY <1>1, <1>4, <1>7, <1>8
  <2>2. \A k \in 1..(Len(p) + 1) : Q!Trail(p)[k] # Q!Target(i)
    BY <1>1, <1>6, <1>7, <1>8
  <2> QED BY <1>4, <1>8, <2>1, <2>2 DEF Q!Fresh, Q!ToSet
<1> DEFINE q == Append(p, i)
<1>10. /\ q \in Seq(DOMAIN s1) /\ Len(q) = Len(p) + 1 /\ DOMAIN q = 1..(Len(p) + 1)
       /\ \A k \in 1..(Len(p) + 1) : q[k] = w[k]
  <2> HIDE DEF i
  <2>1. /\ q \in Seq(DOMAIN s1) /\ Len(q) = Len(p) + 1 /\ q[Len(p) + 1] = i
        /\ \A k \in 1..Len(p) : q[k] = p[k]
    BY <1>1, <1>8
  <2>2. i = w[Len(p) + 1]
    BY DEF i
  <2> HIDE DEF q
  <2> QED BY <1>1, <1>5, <2>1, <2>2
<1> HIDE DEF i, q
<1>11. Q!Prefix(q, w)
  BY <1>1, <1>6, <1>10 DEF Q!Prefix
<1>12. ASSUME Q!Target(i) = s2.to PROVE w = q
  <2>1. Len(p) + 2 = Len(w) + 1
    <3>1. Len(p) + 2 \in 1..(Len(w) + 1) /\ Len(w) + 1 \in 1..(Len(w) + 1)
      BY <1>1, <1>6
    <3> QED BY <1>1, <1>3, <1>8, <1>12, <3>1
  <2>2. Len(w) \in Nat /\ Len(p) \in Nat /\ Len(q) = Len(p) + 1
    BY <1>1, <1>10
  <2>3. Len(w) = Len(q)
    BY <2>1, <2>2
  <2>4. w \in Seq(DOMAIN s1) /\ q \in Seq(DOMAIN s1)
        /\ \A k \in 1..Len(q) : q[k] = w[k]
    BY <1>1, <1>10
  <2> QED BY <2>3, <2>4
<1>13. Len(p) < s2.depth
  BY <1>1, <1>6
<1> QED BY <1>9, <1>11, <1>12, <1>13 DEF q

\* What the search has built.
LEMMA FrameOfWalks ==
    ASSUME UNCHANGED <<s1, s2>>
    PROVE  Q!SimpleWalks' = Q!SimpleWalks /\ Q!Arriving' = Q!Arriving
<1>1. /\ DOMAIN s1' = DOMAIN s1 /\ Q!Walks' = Q!Walks
      /\ \A i : Q!Source(i)' = Q!Source(i) /\ Q!Target(i)' = Q!Target(i)
  BY DEF Q!Walks, Q!Source, Q!Target
<1>2. \A p : Q!Trail(p)' = Q!Trail(p)
  BY <1>1 DEF Q!Trail
<1>3. Q!SimpleWalks' = Q!SimpleWalks
  BY <1>1, <1>2 DEF Q!SimpleWalks
<1> QED BY <1>2, <1>3 DEF Q!Arriving

\* How the beginnings of an extended path relate to those of the path.
LEMMA PrefixIs ==
    ASSUME NEW D, NEW p \in Seq(D), NEW q \in Seq(D), NEW i \in D, NEW j \in D
    PROVE  /\ Q!Prefix(p, p) /\ Q!Prefix(p, Append(p, i))
           /\ Q!Prefix(q, Append(p, i)) => Q!Prefix(q, p) \/ Q!Prefix(p, q)
           /\ Q!Prefix(Append(p, i), q) => Q!Prefix(p, q)
           /\ Q!Prefix(Append(p, i), Append(p, j)) => i = j
<1>1. /\ Len(p) \in Nat /\ Len(q) \in Nat
      /\ DOMAIN p = 1..Len(p) /\ DOMAIN q = 1..Len(q)
  OBVIOUS
<1>2. \A e \in {i, j} : /\ Append(p, e) \in Seq(D) /\ Len(Append(p, e)) = Len(p) + 1
                        /\ DOMAIN Append(p, e) = 1..(Len(p) + 1)
                        /\ Append(p, e)[Len(p) + 1] = e
                        /\ \A k \in 1..Len(p) : Append(p, e)[k] = p[k]
  OBVIOUS
<1>3. Q!Prefix(p, p) /\ Q!Prefix(p, Append(p, i))
  BY <1>1, <1>2 DEF Q!Prefix
<1>4. ASSUME Q!Prefix(q, Append(p, i)) PROVE Q!Prefix(q, p) \/ Q!Prefix(p, q)
  <2>1. Len(q) <= Len(p) + 1 /\ \A k \in 1..Len(q) : Append(p, i)[k] = q[k]
    BY <1>1, <1>2, <1>4 DEF Q!Prefix
  <2>2. CASE Len(q) <= Len(p)
    BY <1>1, <1>2, <2>1, <2>2 DEF Q!Prefix
  <2>3. CASE Len(q) = Len(p) + 1
    BY <1>1, <1>2, <2>1, <2>3 DEF Q!Prefix
  <2>4. Len(q) <= Len(p) + 1 /\ Len(q) \in Nat /\ Len(p) \in Nat
    BY <1>1, <2>1
  <2>5. Len(q) <= Len(p) \/ Len(q) = Len(p) + 1
    BY <2>4
  <2> QED BY <2>2, <2>3, <2>5
<1>5. Q!Prefix(Append(p, i), q) => Q!Prefix(p, q)
  BY <1>1, <1>2 DEF Q!Prefix
<1>6. Q!Prefix(Append(p, i), Append(p, j)) => i = j
  BY <1>1, <1>2 DEF Q!Prefix
<1> QED BY <1>3, <1>4, <1>5, <1>6

LEMMA ConcatIs ==
    ASSUME NEW T, NEW s \in Seq(T), NEW t \in Seq(T), NEW u, u = s \o t
    PROVE  /\ u \in Seq(T) /\ Len(s) \in Nat
           /\ \A k \in DOMAIN s : k \in DOMAIN u /\ u[k] = s[k]
           /\ \A k \in DOMAIN t : Len(s) + k \in DOMAIN u /\ u[Len(s) + k] = t[k]
           /\ \A k \in DOMAIN u :
                \/ k \in DOMAIN s /\ u[k] = s[k]
                \/ k \notin DOMAIN s /\ \E m \in DOMAIN t : k = Len(s) + m /\ u[k] = t[m]
<1>1. /\ u \in Seq(T) /\ Len(s) \in Nat /\ Len(t) \in Nat /\ Len(u) = Len(s) + Len(t)
      /\ DOMAIN s = 1..Len(s) /\ DOMAIN t = 1..Len(t) /\ DOMAIN u = 1..(Len(s) + Len(t))
      /\ \A k \in 1..Len(s) : u[k] = s[k]
      /\ \A k \in 1..Len(t) : u[Len(s) + k] = t[k]
  OBVIOUS
<1>2. ASSUME NEW k \in DOMAIN u, k \notin DOMAIN s
      PROVE  \E m \in DOMAIN t : k = Len(s) + m /\ u[k] = t[m]
  <2>1. k - Len(s) \in 1..Len(t) /\ k = Len(s) + (k - Len(s))
    BY <1>1, <1>2
  <2> QED BY <1>1, <2>1
<1> QED BY <1>1, <1>2

\* One turn of the loop: what it takes, and what it adds.
Turn(path, arriving, further) ==
    /\ s3 # <<>> /\ path = s3[1]
    /\ \A k \in DOMAIN path : Q!Target(path[k]) # s2.to
    /\ \A j, k \in DOMAIN arriving : arriving[j] = arriving[k] => j = k
    /\ \A j, k \in DOMAIN further : further[j] = further[k] => j = k
    /\ \A k \in DOMAIN arriving : /\ Q!Target(arriving[k]) = s2.to
                                  /\ Append(path, arriving[k]) \in Q!Arriving
    /\ \A k \in DOMAIN further : /\ Q!Target(further[k]) # s2.to
                                 /\ Append(path, further[k]) \in Q!SimpleWalks
    /\ Len(path) < s2.depth => Q!ToSet(arriving) \cup Q!ToSet(further) = Q!Fresh(path)
    /\ s4' = s4 \o [k \in DOMAIN arriving |-> Append(path, arriving[k])]
    /\ s3' = Tail(s3) \o [k \in DOMAIN further |-> Append(path, further[k])]

LEMMA ExpandIs ==
    ASSUME Q!QueriesInv, Q!Expand
    PROVE  \E path \in Q!SimpleWalks : \E arriving, further \in Seq(DOMAIN s1) :
             Turn(path, arriving, further)
<1> DEFINE path == Head(s3)
           next == IF Len(path) >= s2.depth THEN {} ELSE Q!Fresh(path)
<1>1. /\ s2.tool = "paths" /\ s3 # <<>>
      /\ \E arriving \in Q!Listing({i \in next : Q!Target(i) = s2.to}, Q!FileOrder) :
         \E further \in Q!Listing({i \in next : Q!Target(i) # s2.to}, Q!FileOrder) :
              /\ s4' = s4 \o [k \in DOMAIN arriving |-> Append(path, arriving[k])]
              /\ s3' = Tail(s3) \o [k \in DOMAIN further |-> Append(path, further[k])]
  BY DEF Q!Expand
<1>2. Q!TypeOK /\ Q!WalksInv
  BY <1>1 DEF Q!QueriesInv, Q!PathsInv
<1>3. path = s3[1] /\ 1 \in DOMAIN s3
  BY <1>1, <1>2 DEF Q!TypeOK
<1>4. path \in Q!SimpleWalks /\ \A k \in DOMAIN path : Q!Target(path[k]) # s2.to
  BY <1>2, <1>3 DEF Q!WalksInv
<1>5. s2.depth \in Nat
  BY <1>1, <1>2, AskIs
<1>6. path \in Seq(DOMAIN s1) /\ Len(path) \in Nat
  BY <1>4, <1>5, WalkIs
<1> HIDE DEF path
<1>7. \A i \in next : i \in DOMAIN s1 /\ Append(path, i) \in Q!SimpleWalks
  BY <1>4, <1>5, <1>6, WalksGoOn
<1>8. Len(path) < s2.depth => next = Q!Fresh(path)
  BY <1>5, <1>6
<1> HIDE DEF next
<1>9. PICK arriving \in Q!Listing({i \in next : Q!Target(i) = s2.to}, Q!FileOrder) :
         \E further \in Q!Listing({i \in next : Q!Target(i) # s2.to}, Q!FileOrder) :
              /\ s4' = s4 \o [k \in DOMAIN arriving |-> Append(path, arriving[k])]
              /\ s3' = Tail(s3) \o [k \in DOMAIN further |-> Append(path, further[k])]
  BY <1>1
<1>10. PICK further \in Q!Listing({i \in next : Q!Target(i) # s2.to}, Q!FileOrder) :
              /\ s4' = s4 \o [k \in DOMAIN arriving |-> Append(path, arriving[k])]
              /\ s3' = Tail(s3) \o [k \in DOMAIN further |-> Append(path, further[k])]
  BY <1>9
<1>11. ASSUME NEW S \in SUBSET DOMAIN s1, NEW f \in Q!Listing(S, Q!FileOrder)
       PROVE  /\ f \in Seq(DOMAIN s1) /\ Q!ToSet(f) = S /\ \A k \in DOMAIN f : f[k] \in S
              /\ \A j, k \in DOMAIN f : f[j] = f[k] => j = k
  <2>1. IsFiniteSet(S)
    BY <1>2, LinksFinite
  <2>2. /\ f \in Seq(S) /\ Len(f) \in Nat /\ DOMAIN f = 1..Len(f) /\ Q!ToSet(f) = S
        /\ \A i, j \in DOMAIN f : i < j => <<f[i], f[j]>> \in Q!FileOrder
    BY <2>1, ListedIs
  <2>3. \A k \in DOMAIN f : f[k] \in S
    BY <2>2
  <2>4. f \in Seq(DOMAIN s1)
    BY <2>2
  <2>5. ASSUME NEW j \in DOMAIN f, NEW k \in DOMAIN f, f[j] = f[k], j # k PROVE FALSE
    <3>1. j < k \/ k < j
      BY <2>2, <2>5
    <3>2. \A a, b : <<a, b>> \in Q!FileOrder => a < b
      BY DEF Q!FileOrder
    <3>3. f[j] < f[k] \/ f[k] < f[j]
      BY <2>2, <3>1, <3>2
    <3>4. f[j] \in Nat
      BY <1>2, <2>3, LinksFinite
    <3> QED BY <2>5, <3>3, <3>4
  <2> QED BY <2>2, <2>3, <2>4, <2>5
<1>12. /\ {i \in next : Q!Target(i) = s2.to} \in SUBSET DOMAIN s1
       /\ {i \in next : Q!Target(i) # s2.to} \in SUBSET DOMAIN s1
  BY <1>7
<1>13. /\ arriving \in Seq(DOMAIN s1) /\ Q!ToSet(arriving) = {i \in next : Q!Target(i) = s2.to}
       /\ \A k \in DOMAIN arriving : arriving[k] \in next /\ Q!Target(arriving[k]) = s2.to
       /\ \A j, k \in DOMAIN arriving : arriving[j] = arriving[k] => j = k
  BY <1>11, <1>12
<1>14. /\ further \in Seq(DOMAIN s1) /\ Q!ToSet(further) = {i \in next : Q!Target(i) # s2.to}
       /\ \A k \in DOMAIN further : further[k] \in next /\ Q!Target(further[k]) # s2.to
       /\ \A j, k \in DOMAIN further : further[j] = further[k] => j = k
  BY <1>11, <1>12
<1>15. \A k \in DOMAIN arriving : Append(path, arriving[k]) \in Q!Arriving
  <2> SUFFICES ASSUME NEW k \in DOMAIN arriving PROVE Append(path, arriving[k]) \in Q!Arriving
    OBVIOUS
  <2>1. Append(path, arriving[k]) \in Q!SimpleWalks /\ arriving[k] \in DOMAIN s1
    BY <1>7, <1>13
  <2>2. Q!Last(Q!Trail(Append(path, arriving[k]))) = s2.to /\ Len(Append(path, arriving[k])) = Len(path) + 1
    BY <1>6, <1>13, <2>1, AppendIs
  <2>3. Append(path, arriving[k]) # <<>>
    BY <1>6, <2>2
  <2> QED BY <2>1, <2>2, <2>3 DEF Q!Arriving
<1>16. Len(path) < s2.depth => Q!ToSet(arriving) \cup Q!ToSet(further) = Q!Fresh(path)
  BY <1>8, <1>13, <1>14
<1>17. \A k \in DOMAIN further : Append(path, further[k]) \in Q!SimpleWalks
  BY <1>7, <1>14
<1>18. Turn(path, arriving, further)
  BY <1>1, <1>3, <1>4, <1>10, <1>13, <1>14, <1>15, <1>16, <1>17 DEF Turn
<1> QED BY <1>4, <1>13, <1>14, <1>18

LEMMA ExpandKeeps ==
    ASSUME Q!QueriesInv, Q!Expand
    PROVE  Q!QueriesInv'
<1>1. /\ UNCHANGED <<s1, s2, s5>> /\ s2.tool = "paths" /\ ~s5
  BY DEF Q!Expand
<1>2. Q!TypeOK /\ Q!WalksInv /\ Q!BeginsInv /\ Q!BreadthInv /\ Q!OnceInv
  BY <1>1 DEF Q!QueriesInv, Q!PathsInv
<1>3. PICK path \in Q!SimpleWalks : \E arriving, further \in Seq(DOMAIN s1) :
             Turn(path, arriving, further)
  BY ExpandIs
<1>4. PICK arriving \in Seq(DOMAIN s1), further \in Seq(DOMAIN s1) : Turn(path, arriving, further)
  BY <1>3
<1> DEFINE W == Seq(DOMAIN s1)
           found == [k \in DOMAIN arriving |-> Append(path, arriving[k])]
           more == [k \in DOMAIN further |-> Append(path, further[k])]
           rest == Tail(s3)
<1>5. /\ s2.depth \in Nat /\ s3 \in Seq(W) /\ s4 \in Seq(W) /\ path \in W
      /\ s3 # <<>> /\ path = s3[1]
  BY <1>1, <1>2, <1>4, AskIs, WalkIs DEF Q!TypeOK, Turn
<1>6. found \in Seq(W) /\ DOMAIN found = DOMAIN arriving
      /\ \A k \in DOMAIN found : found[k] = Append(path, arriving[k])
  <2>1. \A k \in DOMAIN arriving : Append(path, arriving[k]) \in W
    BY <1>5
  <2>2. DOMAIN arriving = 1..Len(arriving) /\ Len(arriving) \in Nat
    BY <1>4
  <2> HIDE DEF W
  <2> QED BY <2>1, <2>2
<1>7. more \in Seq(W) /\ DOMAIN more = DOMAIN further
      /\ \A k \in DOMAIN more : more[k] = Append(path, further[k])
  <2>1. \A k \in DOMAIN further : Append(path, further[k]) \in W
    BY <1>5
  <2>2. DOMAIN further = 1..Len(further) /\ Len(further) \in Nat
    BY <1>4
  <2> HIDE DEF W
  <2> QED BY <2>1, <2>2
<1> HIDE DEF W
<1>8. /\ rest \in Seq(W) /\ 1 \in DOMAIN s3
      /\ \A k \in DOMAIN rest : k + 1 \in DOMAIN s3 /\ rest[k] = s3[k + 1] /\ k \in Nat /\ k > 0
      /\ \A k \in DOMAIN s3 : k \in Nat /\ (k = 1 \/ (k - 1 \in DOMAIN rest /\ (k - 1) + 1 = k))
  <2>1. /\ rest \in Seq(W) /\ Len(s3) \in Nat \ {0} /\ DOMAIN s3 = 1..Len(s3)
        /\ DOMAIN rest = 1..(Len(s3) - 1)
        /\ \A k \in 1..(Len(s3) - 1) : rest[k] = s3[k + 1]
    BY <1>5
  <2> QED BY <2>1
<1>9. s4' = s4 \o found /\ s3' = rest \o more
  BY <1>4 DEF Turn
<1> HIDE DEF found, more, rest
<1>20. /\ s4' \in Seq(W)
       /\ \A k \in DOMAIN s4 : k \in DOMAIN s4' /\ s4'[k] = s4[k]
       /\ \A k \in DOMAIN found : Len(s4) + k \in DOMAIN s4' /\ s4'[Len(s4) + k] = found[k]
       /\ \A k \in DOMAIN s4' :
            \/ k \in DOMAIN s4 /\ s4'[k] = s4[k]
            \/ k \notin DOMAIN s4 /\ \E m \in DOMAIN found : k = Len(s4) + m /\ s4'[k] = found[m]
  <2>1. s4 \in Seq(W) /\ found \in Seq(W) /\ s4' = s4 \o found
    BY <1>5, <1>6, <1>9
  <2> QED BY <2>1, ConcatIs
<1>21. /\ s3' \in Seq(W)
       /\ \A k \in DOMAIN rest : k \in DOMAIN s3' /\ s3'[k] = rest[k]
       /\ \A k \in DOMAIN more : Len(rest) + k \in DOMAIN s3' /\ s3'[Len(rest) + k] = more[k]
       /\ \A k \in DOMAIN s3' :
            \/ k \in DOMAIN rest /\ s3'[k] = rest[k]
            \/ k \notin DOMAIN rest /\ \E m \in DOMAIN more : k = Len(rest) + m /\ s3'[k] = more[m]
  <2>1. rest \in Seq(W) /\ more \in Seq(W) /\ s3' = rest \o more
    BY <1>7, <1>8, <1>9
  <2> QED BY <2>1, ConcatIs
<1>10. /\ s4' \in Seq(W) /\ s3' \in Seq(W)
       /\ \A k \in DOMAIN s4 : k \in DOMAIN s4' /\ s4'[k] = s4[k]
       /\ \A k \in DOMAIN arriving : \E m \in DOMAIN s4' : s4'[m] = Append(path, arriving[k])
       /\ \A k \in DOMAIN rest : k \in DOMAIN s3' /\ s3'[k] = s3[k + 1]
       /\ \A k \in DOMAIN further : \E m \in DOMAIN s3' : s3'[m] = Append(path, further[k])
  <2>1. \A k \in DOMAIN arriving : \E m \in DOMAIN s4' : s4'[m] = Append(path, arriving[k])
    BY <1>6, <1>20
  <2>2. \A k \in DOMAIN further : \E m \in DOMAIN s3' : s3'[m] = Append(path, further[k])
    BY <1>7, <1>21
  <2>3. \A k \in DOMAIN rest : k \in DOMAIN s3' /\ s3'[k] = s3[k + 1]
    BY <1>8, <1>21
  <2> QED BY <1>20, <1>21, <2>1, <2>2, <2>3
<1> DEFINE Old(k) == k \in DOMAIN s4 /\ s4'[k] = s4[k]
           New(k) == /\ k \notin DOMAIN s4
                     /\ \E m \in DOMAIN arriving : k = Len(s4) + m /\ s4'[k] = Append(path, arriving[m])
           Waits(k) == /\ k \in DOMAIN rest /\ k + 1 \in DOMAIN s3 /\ s3'[k] = s3[k + 1]
                       /\ k \in Nat /\ k > 0
           Joins(k) == /\ k \notin DOMAIN rest
                       /\ \E m \in DOMAIN further : k = Len(rest) + m /\ s3'[k] = Append(path, further[m])
<1>11. \A k \in DOMAIN s4' : Old(k) \/ New(k)
  BY <1>6, <1>20
<1>12. \A k \in DOMAIN s3' : Waits(k) \/ Joins(k)
  <2>1. \A k \in DOMAIN rest : Waits(k)
    BY <1>8, <1>21
  <2>2. \A k \in DOMAIN s3' : k \notin DOMAIN rest => Joins(k)
    BY <1>7, <1>21
  <2> QED BY <2>1, <2>2
<1>13. Q!SimpleWalks' = Q!SimpleWalks /\ Q!Arriving' = Q!Arriving /\ \A i : Q!Target(i)' = Q!Target(i)
  BY <1>1, FrameOfWalks DEF Q!Target
<1>14. Q!TypeOK'
  BY <1>1, <1>2, <1>10 DEF Q!TypeOK, W
<1>15. Q!WalksInv'
  <2>1. ASSUME NEW j \in DOMAIN s3'
        PROVE  s3'[j] \in Q!SimpleWalks /\ \A k \in DOMAIN s3'[j] : Q!Target(s3'[j][k]) # s2.to
    <3>1. CASE Waits(j)
      BY <1>2, <3>1 DEF Q!WalksInv
    <3>2. CASE Joins(j)
      <4>1. PICK m \in DOMAIN further : s3'[j] = Append(path, further[m])
        BY <3>2
      <4>2. /\ Q!Target(further[m]) # s2.to /\ Append(path, further[m]) \in Q!SimpleWalks
            /\ \A k \in DOMAIN path : Q!Target(path[k]) # s2.to
        BY <1>4 DEF Turn
      <4>3. further[m] \in DOMAIN s1
        BY <1>4
      <4>4. \A k \in DOMAIN Append(path, further[m]) :
              \/ k \in DOMAIN path /\ Append(path, further[m])[k] = path[k]
              \/ Append(path, further[m])[k] = further[m]
        BY <1>5, <4>3 DEF W
      <4> QED BY <4>1, <4>2, <4>4
    <3> QED BY <1>12, <3>1, <3>2
  <2>2. ASSUME NEW k \in DOMAIN s4' PROVE s4'[k] \in Q!Arriving
    <3>1. CASE Old(k)
      BY <1>2, <3>1 DEF Q!WalksInv
    <3>2. CASE New(k)
      BY <1>4, <3>2 DEF Turn
    <3> QED BY <1>11, <3>1, <3>2
  <2> QED BY <1>1, <1>13, <2>1, <2>2 DEF Q!WalksInv
<1>16. Q!BeginsInv'
  <2> SUFFICES ASSUME NEW w \in Q!Arriving, w \notin Q!ToSet(s4')
               PROVE  \E p \in Q!ToSet(s3') : Q!Prefix(p, w)
    BY <1>13 DEF Q!BeginsInv
  <2>1. w \notin Q!ToSet(s4)
    BY <1>10 DEF Q!ToSet
  <2>2. PICK m \in DOMAIN s3 : Q!Prefix(s3[m], w)
    BY <1>2, <2>1 DEF Q!BeginsInv, Q!ToSet
  <2>3. CASE m = 1
    <3>1. /\ \A k \in DOMAIN path : Q!Target(path[k]) # s2.to
          /\ Len(path) < s2.depth => Q!ToSet(arriving) \cup Q!ToSet(further) = Q!Fresh(path)
          /\ \A k \in DOMAIN further : Q!Target(further[k]) # s2.to
          /\ \A k \in DOMAIN arriving : Q!Target(arriving[k]) = s2.to
      BY <1>4 DEF Turn
    <3>2. Q!Prefix(path, w)
      BY <1>5, <2>2, <2>3
    <3>3. /\ Len(path) < s2.depth
          /\ \E i \in Q!Fresh(path) : \/ Q!Target(i) = s2.to /\ w = Append(path, i)
                                      \/ Q!Target(i) # s2.to /\ Q!Prefix(Append(path, i), w)
      BY <1>3, <1>5, <3>1, <3>2, WalksComeFrom
    <3>4. PICK i \in Q!Fresh(path) : \/ Q!Target(i) = s2.to /\ w = Append(path, i)
                                     \/ Q!Target(i) # s2.to /\ Q!Prefix(Append(path, i), w)
      BY <3>3
    <3>5. i \in Q!ToSet(arriving) \/ i \in Q!ToSet(further)
      BY <3>1, <3>3
    <3>6. CASE Q!Target(i) = s2.to
      <4>1. PICK k \in DOMAIN arriving : arriving[k] = i
        BY <3>1, <3>5, <3>6 DEF Q!ToSet
      <4>2. w \in Q!ToSet(s4')
        BY <1>10, <3>4, <3>6, <4>1 DEF Q!ToSet
      <4> QED BY <4>2
    <3>7. CASE Q!Target(i) # s2.to
      <4>1. PICK k \in DOMAIN further : further[k] = i
        BY <3>1, <3>5, <3>7 DEF Q!ToSet
      <4>2. Append(path, i) \in Q!ToSet(s3')
        BY <1>10, <4>1 DEF Q!ToSet
      <4> QED BY <3>4, <3>7, <4>2
    <3> QED BY <3>6, <3>7
  <2>4. CASE m # 1
    <3>1. m - 1 \in DOMAIN rest /\ (m - 1) + 1 = m
      BY <1>8, <2>4
    <3>2. s3[m] \in Q!ToSet(s3')
      BY <1>10, <3>1 DEF Q!ToSet
    <3> QED BY <2>2, <3>2
  <2> QED BY <2>3, <2>4
<1>17. Q!BreadthInv'
  <2>1. \A j \in W : Len(j) \in Nat
    BY DEF W
  <2>2. /\ \A k \in DOMAIN s3 : s3[k] \in W /\ Len(s3[k]) >= Len(path) /\ Len(s3[k]) <= Len(path) + 1
        /\ \A k \in DOMAIN s4 : s4[k] \in W /\ Len(s4[k]) <= Len(path) + 1
    <3>1. \A k \in DOMAIN s3 : s3[k] \in W /\ (k = 1 \/ 1 < k)
      BY <1>5, <1>8
    <3> QED BY <1>2, <1>5, <1>8, <2>1, <3>1 DEF Q!BreadthInv
  <2>3. \A k \in DOMAIN further : Len(Append(path, further[k])) = Len(path) + 1
    BY <1>4, <1>5 DEF W
  <2>4. \A k \in DOMAIN arriving : Len(Append(path, arriving[k])) = Len(path) + 1
    BY <1>4, <1>5 DEF W
  <2>5. /\ Len(path) \in Nat
        /\ \A k \in DOMAIN s3' : Len(s3'[k]) \in Nat
        /\ \A k \in DOMAIN s4' : Len(s4'[k]) \in Nat
        /\ \A k \in DOMAIN s3' : \/ Waits(k) /\ Len(s3'[k]) >= Len(path) /\ Len(s3'[k]) <= Len(path) + 1
                                 \/ Joins(k) /\ Len(s3'[k]) = Len(path) + 1
        /\ \A k \in DOMAIN s4' : \/ Old(k) /\ Len(s4'[k]) <= Len(path) + 1
                                 \/ New(k) /\ Len(s4'[k]) = Len(path) + 1
    <3>1. Len(path) \in Nat
      BY <1>5, <2>1
    <3>2. ASSUME NEW k \in DOMAIN s3'
          PROVE  /\ Len(s3'[k]) \in Nat
                 /\ \/ Waits(k) /\ Len(s3'[k]) >= Len(path) /\ Len(s3'[k]) <= Len(path) + 1
                    \/ Joins(k) /\ Len(s3'[k]) = Len(path) + 1
      <4>1. CASE Waits(k)
        BY <2>1, <2>2, <4>1
      <4>2. CASE Joins(k)
        BY <2>3, <3>1, <4>2
      <4> QED BY <1>12, <4>1, <4>2
    <3>3. ASSUME NEW k \in DOMAIN s4'
          PROVE  /\ Len(s4'[k]) \in Nat
                 /\ \/ Old(k) /\ Len(s4'[k]) <= Len(path) + 1
                    \/ New(k) /\ Len(s4'[k]) = Len(path) + 1
      <4>1. CASE Old(k)
        BY <2>1, <2>2, <4>1
      <4>2. CASE New(k)
        BY <2>4, <3>1, <4>2
      <4> QED BY <1>11, <4>1, <4>2
    <3> QED BY <3>1, <3>2, <3>3
  <2>6. ASSUME NEW j \in DOMAIN s3', NEW k \in DOMAIN s3'
        PROVE  /\ j < k => Len(s3'[j]) <= Len(s3'[k])
               /\ Len(s3'[k]) <= Len(s3'[j]) + 1
    <3>1. CASE Waits(j) /\ Waits(k)
      <4>1. j < k => Len(s3[j + 1]) <= Len(s3[k + 1])
        BY <1>2, <3>1 DEF Q!BreadthInv
      <4> QED BY <2>5, <3>1, <4>1
    <3>2. CASE Waits(j) /\ Joins(k)
      BY <2>5, <3>2
    <3>3. CASE Joins(j) /\ Joins(k)
      BY <2>5, <3>3
    <3>4. CASE Joins(j) /\ Waits(k)
      <4>1. ~(j < k)
        BY <1>4, <1>8, <3>4
      <4> QED BY <2>5, <3>4, <4>1
    <3> QED BY <1>12, <3>1, <3>2, <3>3, <3>4
  <2>7. ASSUME NEW j \in DOMAIN s4', NEW k \in DOMAIN s4', j < k
        PROVE  Len(s4'[j]) <= Len(s4'[k])
    <3>1. CASE Old(j) /\ Old(k)
      BY <1>2, <2>7, <3>1 DEF Q!BreadthInv
    <3>2. CASE New(k)
      BY <2>5, <3>2
    <3>3. CASE New(j) /\ Old(k)
      BY <1>4, <1>5, <2>7, <3>3
    <3> QED BY <1>11, <3>1, <3>2, <3>3
  <2>8. ASSUME NEW j \in DOMAIN s4', NEW k \in DOMAIN s3'
        PROVE  Len(s4'[j]) <= Len(s3'[k]) + 1
    BY <2>5
  <2> QED BY <2>6, <2>7, <2>8 DEF Q!BreadthInv
<1>18. Q!OnceInv'
  <2>1. /\ \A j, k \in DOMAIN s3 : Q!Prefix(s3[j], s3[k]) => j = k
        /\ \A j \in DOMAIN s4, k \in DOMAIN s3 : ~Q!Prefix(s3[k], s4[j])
        /\ \A j, k \in DOMAIN s4 : s4[j] = s4[k] => j = k
    BY <1>2 DEF Q!OnceInv, Q!IsInjective
  <2>2. /\ \A j, k \in DOMAIN arriving : arriving[j] = arriving[k] => j = k
        /\ \A j, k \in DOMAIN further : further[j] = further[k] => j = k
        /\ \A k \in DOMAIN arriving : Q!Target(arriving[k]) = s2.to /\ arriving[k] \in DOMAIN s1
        /\ \A k \in DOMAIN further : Q!Target(further[k]) # s2.to /\ further[k] \in DOMAIN s1
    BY <1>4 DEF Turn
  <2>3. /\ \A k \in DOMAIN s3 : s3[k] \in W
        /\ \A k \in DOMAIN s4 : s4[k] \in W
    BY <1>5
  <2>4. ASSUME NEW q \in W, NEW i \in DOMAIN s1
        PROVE  /\ Q!Prefix(path, path) /\ Q!Prefix(path, Append(path, i))
               /\ Q!Prefix(q, Append(path, i)) => Q!Prefix(q, path) \/ Q!Prefix(path, q)
               /\ Q!Prefix(Append(path, i), q) => Q!Prefix(path, q)
    BY <1>5, PrefixIs DEF W
  <2>5. ASSUME NEW i \in DOMAIN s1, NEW j \in DOMAIN s1, Q!Prefix(Append(path, i), Append(path, j))
        PROVE  i = j
    BY <1>5, <2>5, PrefixIs DEF W
  <2>6. ASSUME NEW j \in DOMAIN s3, j # 1, NEW i \in DOMAIN s1
        PROVE  ~Q!Prefix(s3[j], Append(path, i)) /\ ~Q!Prefix(Append(path, i), s3[j])
    BY <1>5, <1>8, <2>1, <2>3, <2>4, <2>6
  <2>7. ASSUME NEW j \in DOMAIN s4, NEW i \in DOMAIN s1
        PROVE  ~Q!Prefix(Append(path, i), s4[j]) /\ s4[j] # Append(path, i)
    <3>1. ~Q!Prefix(path, s4[j]) /\ s4[j] \in W
      BY <1>5, <1>8, <2>1, <2>3
    <3> QED BY <2>4, <3>1
  <2>8. ASSUME NEW j \in DOMAIN s3', NEW k \in DOMAIN s3', Q!Prefix(s3'[j], s3'[k])
        PROVE  j = k
    <3>1. CASE Waits(j) /\ Waits(k)
      BY <2>1, <2>8, <3>1
    <3>2. CASE Waits(j) /\ Joins(k)
      <4>1. j + 1 # 1
        BY <3>2
      <4> QED BY <2>2, <2>6, <2>8, <3>2, <4>1
    <3>3. CASE Joins(j) /\ Waits(k)
      <4>1. k + 1 # 1
        BY <3>3
      <4> QED BY <2>2, <2>6, <2>8, <3>3, <4>1
    <3>4. CASE Joins(j) /\ Joins(k)
      BY <2>2, <2>5, <2>8, <3>4
    <3> QED BY <1>12, <3>1, <3>2, <3>3, <3>4
  <2>9. ASSUME NEW j \in DOMAIN s4', NEW k \in DOMAIN s3', Q!Prefix(s3'[k], s4'[j])
        PROVE  FALSE
    <3>1. CASE Old(j) /\ Waits(k)
      BY <2>1, <2>9, <3>1
    <3>2. CASE Old(j) /\ Joins(k)
      BY <2>2, <2>7, <2>9, <3>2
    <3>3. CASE New(j) /\ Waits(k)
      <4>1. k + 1 # 1
        BY <3>3
      <4> QED BY <2>2, <2>6, <2>9, <3>3, <4>1
    <3>4. CASE New(j) /\ Joins(k)
      BY <2>2, <2>5, <2>9, <3>4
    <3> QED BY <1>11, <1>12, <3>1, <3>2, <3>3, <3>4
  <2>10. ASSUME NEW j \in DOMAIN s4', NEW k \in DOMAIN s4', s4'[j] = s4'[k]
         PROVE  j = k
    <3>1. CASE Old(j) /\ Old(k)
      BY <2>1, <2>10, <3>1
    <3>2. CASE Old(j) /\ New(k)
      BY <2>2, <2>7, <2>10, <3>2
    <3>3. CASE New(j) /\ Old(k)
      BY <2>2, <2>7, <2>10, <3>3
    <3>4. CASE New(j) /\ New(k)
      <4>1. PICK m \in DOMAIN arriving : j = Len(s4) + m /\ s4'[j] = Append(path, arriving[m])
        BY <3>4
      <4>2. PICK n \in DOMAIN arriving : k = Len(s4) + n /\ s4'[k] = Append(path, arriving[n])
        BY <3>4
      <4>3. Append(path, arriving[m]) \in W
        BY <1>5, <2>2 DEF W
      <4>4. Q!Prefix(Append(path, arriving[m]), Append(path, arriving[n]))
        BY <2>10, <4>1, <4>2, <4>3 DEF Q!Prefix, W
      <4> QED BY <2>2, <2>5, <4>1, <4>2, <4>4
    <3> QED BY <1>11, <3>1, <3>2, <3>3, <3>4
  <2> QED BY <2>8, <2>9, <2>10 DEF Q!OnceInv, Q!IsInjective
<1>19. Q!EndInv' /\ Q!AnswersHonest'
  BY <1>1 DEF Q!EndInv, Q!AnswersHonest
<1> QED BY <1>14, <1>15, <1>16, <1>17, <1>18, <1>19 DEF Q!QueriesInv, Q!PathsInv

LEMMA QueriesInit == Q!Init => Q!QueriesInv
<1> SUFFICES ASSUME Q!Init PROVE Q!QueriesInv
  OBVIOUS
<1>1. /\ s2 \in Q!Asks /\ s4 = <<>> /\ s5 = FALSE
      /\ s3 = IF s2.tool = "paths" THEN <<<<>>>> ELSE <<>>
  BY DEF Q!Init
<1>2. s1 \in Seq(Links)
  <2>1. PICK n \in 0..MaxLinks : s1 \in [1..n -> Links]
    BY DEF Q!Init
  <2>2. n \in Nat
    BY <2>1, Assumptions DEF Q!QueriesAssumption
  <2> QED BY <2>1, <2>2
<1>3. <<>> \in Seq(DOMAIN s1) /\ Len(<<>>) = 0 /\ DOMAIN <<>> = {}
  OBVIOUS
<1>4. Q!TypeOK
  <2>0. /\ \A T : <<>> \in Seq(T)
        /\ \A T : \A x \in T : <<x>> \in Seq(T)
    OBVIOUS
  <2>1. s4 \in Seq(Seq(DOMAIN s1)) /\ s3 \in Seq(Seq(DOMAIN s1))
    BY <1>1, <1>3, <2>0, Zenon
  <2> QED BY <1>1, <1>2, <2>1 DEF Q!TypeOK
<1>5. ASSUME s2.tool = "paths"
      PROVE  Q!WalksInv /\ Q!BeginsInv /\ Q!BreadthInv /\ Q!OnceInv /\ Q!EndInv
  <2>1. s2.depth \in Nat
    BY <1>4, <1>5, AskIs
  <2>2. s3 = <<<<>>>> /\ DOMAIN s3 = {1} /\ s3[1] = <<>> /\ DOMAIN s4 = {}
    BY <1>1, <1>5
  <2>3. <<>> \in Q!SimpleWalks
    <3>1. /\ 1..Len(<<>>) = {} /\ 1..(Len(<<>>) + 1) = {1}
          /\ Len(<<>>) <= s2.depth /\ <<>> \in Seq(DOMAIN s1)
      BY <1>3, <2>1
    <3>2. /\ \A k \in 1..Len(<<>>) : Q!Source(<<>>[k]) = Q!Trail(<<>>)[k]
          /\ \A j, k \in 1..(Len(<<>>) + 1) : Q!Trail(<<>>)[j] = Q!Trail(<<>>)[k] => j = k
      BY <3>1, Zenon
    <3> QED BY <2>1, <3>1, <3>2, WalkIs
  <2>4. Q!WalksInv
    BY <1>3, <2>2, <2>3 DEF Q!WalksInv
  <2>5. \A w \in Q!Arriving : Len(w) \in Nat
    BY <2>1, WalkIs DEF Q!Arriving
  <2>6. Q!BeginsInv
    BY <1>3, <2>2, <2>5 DEF Q!BeginsInv, Q!Prefix, Q!ToSet
  <2>7. Q!BreadthInv /\ Q!OnceInv /\ Q!EndInv
    BY <1>1, <1>3, <2>2 DEF Q!BreadthInv, Q!OnceInv, Q!EndInv, Q!IsInjective
  <2> QED BY <2>4, <2>6, <2>7
<1>6. Q!AnswersHonest
  BY <1>1 DEF Q!AnswersHonest
<1> QED BY <1>4, <1>5, <1>6 DEF Q!QueriesInv, Q!PathsInv

LEMMA PathsReturnedKeeps ==
    ASSUME Q!QueriesInv, Q!PathsReturned
    PROVE  Q!QueriesInv'
<1>1. /\ UNCHANGED <<s1, s2, s3, s4>> /\ s2.tool = "paths" /\ s5' = TRUE
      /\ s3 = <<>> \/ Len(s4) >= s2.limit
  BY DEF Q!PathsReturned
<1>2. Q!SimpleWalks' = Q!SimpleWalks /\ Q!Arriving' = Q!Arriving /\ \A i : Q!Target(i)' = Q!Target(i)
  BY <1>1, FrameOfWalks DEF Q!Target
<1>3. Q!TypeOK'
  BY <1>1 DEF Q!QueriesInv, Q!TypeOK
<1>4. Q!WalksInv' /\ Q!BeginsInv'
  BY <1>1, <1>2 DEF Q!QueriesInv, Q!PathsInv, Q!WalksInv, Q!BeginsInv
<1>5. Q!BreadthInv' /\ Q!OnceInv' /\ Q!EndInv'
  BY <1>1 DEF Q!QueriesInv, Q!PathsInv, Q!BreadthInv, Q!OnceInv, Q!EndInv
<1>6. Q!AnswersHonest'
  BY <1>1 DEF Q!AnswersHonest
<1> QED BY <1>3, <1>4, <1>5, <1>6 DEF Q!QueriesInv, Q!PathsInv

\* The first n members of a sequence, or all there are.
LEMMA AtMostIs ==
    ASSUME NEW T, NEW s \in Seq(T), NEW n \in Nat
    PROVE  LET u == Q!AtMost(s, n)
           IN  /\ u \in Seq(T) /\ Len(u) <= n /\ Len(u) <= Len(s) /\ DOMAIN u = 1..Len(u)
               /\ \A k \in DOMAIN u : u[k] = s[k]
               /\ Len(s) <= n => u = s
               /\ Len(s) > n => Len(u) = n
<1> DEFINE m == Len(s)
<1>1. m \in Nat /\ DOMAIN s = 1..m /\ s \in Seq(T)
  OBVIOUS
<1>2. SubSeq(s, 1, m) = s
  OBVIOUS
<1>3. m > n => /\ SubSeq(s, 1, n) \in Seq(T) /\ Len(SubSeq(s, 1, n)) = n
               /\ DOMAIN SubSeq(s, 1, n) = 1..n
               /\ \A k \in 1..n : SubSeq(s, 1, n)[k] = s[k]
  OBVIOUS
<1>4. Q!AtMost(s, n) = SubSeq(s, 1, IF m < n THEN m ELSE n)
  BY DEF Q!AtMost
<1> HIDE DEF m
<1>5. m < n \/ n = m \/ m > n
  BY <1>1
<1>6. CASE m < n \/ n = m
  <2>1. Q!AtMost(s, n) = s
    BY <1>1, <1>2, <1>4, <1>6
  <2>2. m <= n /\ ~(m > n) /\ m <= m
    BY <1>1, <1>6
  <2> QED BY <1>1, <2>1, <2>2 DEF m
<1>7. CASE m > n
  <2>1. ~(m < n) /\ ~(m <= n) /\ n <= m /\ n <= n
    BY <1>1, <1>7
  <2>2. Q!AtMost(s, n) = SubSeq(s, 1, n)
    BY <1>4, <2>1
  <2> QED BY <1>3, <1>7, <2>1, <2>2 DEF m
<1> QED BY <1>5, <1>6, <1>7

LEMMA NeighborsKeeps ==
    ASSUME Q!QueriesInv, Q!Neighbors
    PROVE  Q!AnswersHonest'
<1>1. /\ UNCHANGED <<s1, s2>> /\ s2.tool = "neighbors" /\ s5' = TRUE
      /\ \E taken \in Q!Listing(Q!Touching, Q!FileOrder) :
            s4' = Q!AtMost([k \in DOMAIN taken |->
                                <<taken[k], IF Q!Outgoing(taken[k]) THEN Q!Target(taken[k])
                                                                  ELSE Q!Source(taken[k])>>], s2.limit)
  BY DEF Q!Neighbors, Q!Answers
<1>2. PICK taken \in Q!Listing(Q!Touching, Q!FileOrder) :
            s4' = Q!AtMost([k \in DOMAIN taken |->
                                <<taken[k], IF Q!Outgoing(taken[k]) THEN Q!Target(taken[k])
                                                                  ELSE Q!Source(taken[k])>>], s2.limit)
  BY <1>1
<1> DEFINE other(i) == IF Q!Outgoing(i) THEN Q!Target(i) ELSE Q!Source(i)
           all == [k \in DOMAIN taken |-> <<taken[k], other(taken[k])>>]
           T == {<<taken[k], other(taken[k])>> : k \in DOMAIN taken}
<1>3. Q!Touching \subseteq DOMAIN s1 /\ IsFiniteSet(Q!Touching) /\ s2.limit \in Nat
  BY LinksFinite, AskIs DEF Q!QueriesInv, Q!Touching
<1>4. /\ DOMAIN taken = 1..Len(taken) /\ Len(taken) \in Nat /\ Q!ToSet(taken) = Q!Touching
  BY <1>3, ListedIs
<1>5. all \in Seq(T) /\ Len(all) = Len(taken) /\ DOMAIN all = DOMAIN taken
  BY <1>4
<1>6. {r[1] : r \in Q!ToSet(all)} = Q!Touching
  <2>1. \A k \in DOMAIN taken : all[k][1] = taken[k]
    OBVIOUS
  <2> HIDE DEF all
  <2> QED BY <1>4, <1>5, <2>1 DEF Q!ToSet
<1>7. s4' = Q!AtMost(all, s2.limit)
  BY <1>2
<1> HIDE DEF all, T, other
<1>8. Len(s4') < s2.limit => s4' = all
  BY <1>3, <1>4, <1>5, <1>7, AtMostIs
<1>9. Q!Touching' = Q!Touching
  BY <1>1 DEF Q!Touching, Q!Outgoing, Q!Incoming, Q!Source, Q!Target
<1>10. Q!ToSet(s4)' = Q!ToSet(s4')
  BY DEF Q!ToSet
<1> QED BY <1>1, <1>6, <1>8, <1>9 DEF Q!AnswersHonest

LEMMA ExplainKeeps ==
    ASSUME Q!QueriesInv, Q!Explain
    PROVE  Q!AnswersHonest'
<1>1. /\ UNCHANGED <<s1, s2>> /\ s2.tool = "explain" /\ s5' = TRUE
      /\ \E connections \in Q!Listing(Q!Relations, Q!RelationOrder) :
            s4' = <<Q!AtMost(connections, s2.limit), Len(connections) > s2.limit>>
  BY DEF Q!Explain, Q!Answers
<1>2. PICK connections \in Q!Listing(Q!Relations, Q!RelationOrder) :
            s4' = <<Q!AtMost(connections, s2.limit), Len(connections) > s2.limit>>
  BY <1>1
<1>3. IsFiniteSet(Q!Relations)
  <2>1. s1 \in Surjection(DOMAIN s1, Q!ToSet(s1))
    BY DEF Q!QueriesInv, Q!TypeOK, Q!ToSet, Surjection
  <2>2. IsFiniteSet(DOMAIN s1)
    BY LinksFinite DEF Q!QueriesInv
  <2>3. IsFiniteSet(Q!ToSet(s1))
    BY <2>1, <2>2, FS_Surjection
  <2> QED BY <2>3, FS_Subset DEF Q!Relations
<1>4. connections \in Seq(Q!Relations) /\ Len(connections) \in Nat /\ Q!ToSet(connections) = Q!Relations
  BY <1>3, ListedIs
<1>5. s2.limit \in Nat
  BY AskIs DEF Q!QueriesInv
<1>6. s4'[2] = (Len(connections) > s2.limit) /\ s4'[1] = Q!AtMost(connections, s2.limit)
  BY <1>2
<1>7. s4'[2] = FALSE => s4'[1] = connections
  <2>1. ~(Len(connections) > s2.limit) => Len(connections) <= s2.limit
    BY <1>4, <1>5
  <2>2. Len(connections) <= s2.limit => Q!AtMost(connections, s2.limit) = connections
    BY <1>4, <1>5, AtMostIs
  <2> QED BY <1>6, <2>1, <2>2
<1>8. Q!Relations' = Q!Relations
  BY <1>1 DEF Q!Relations, Q!ToSet
<1> QED BY <1>1, <1>4, <1>7, <1>8 DEF Q!AnswersHonest

LEMMA OverviewKeeps ==
    ASSUME Q!QueriesInv, Q!Overview
    PROVE  Q!AnswersHonest'
<1>1. /\ UNCHANGED <<s1, s2>> /\ s2.tool = "overview" /\ s5' = TRUE
      /\ \E hubs \in Q!Listing(Nodes, Q!DegreeOrder) : s4' = Q!AtMost(hubs, s2.limit)
  BY DEF Q!Overview, Q!Answers
<1>2. PICK hubs \in Q!Listing(Nodes, Q!DegreeOrder) : s4' = Q!AtMost(hubs, s2.limit)
  BY <1>1
<1>3. IsFiniteSet(Nodes) /\ s2.limit \in Nat
  <2>1. Q!IsFiniteSet(Nodes)
    BY Assumptions DEF Q!QueriesAssumption
  <2>2. IsFiniteSet(Nodes)
    BY <2>1 DEF Q!IsFiniteSet, IsFiniteSet
  <2> QED BY <2>2, AskIs DEF Q!QueriesInv
<1>4. /\ hubs \in Seq(Nodes) /\ Len(hubs) \in Nat /\ DOMAIN hubs = 1..Len(hubs) /\ Q!ToSet(hubs) = Nodes
      /\ \A i, j \in DOMAIN hubs : i < j => <<hubs[i], hubs[j]>> \in Q!DegreeOrder
  BY <1>3, ListedIs
<1>5. /\ s4' \in Seq(Nodes) /\ Len(s4') <= Len(hubs) /\ DOMAIN s4' = 1..Len(s4')
      /\ \A k \in DOMAIN s4' : s4'[k] = hubs[k]
  BY <1>2, <1>3, <1>4, AtMostIs
<1>6. \A n : Q!Degree(n)' = Q!Degree(n)
  BY <1>1 DEF Q!Degree, Q!Source, Q!Target
<1>7. \A n : Q!Degree(n) \in Nat
  <2>1. \A S \in SUBSET DOMAIN s1 : Cardinality(S) \in Nat
    BY LinksFinite, FS_CardinalityType DEF Q!QueriesInv
  <2>2. \A S : Q!Cardinality(S) = Cardinality(S)
    BY DEF Q!Cardinality, Cardinality
  <2> QED BY <2>1, <2>2 DEF Q!Degree
<1>8. ASSUME NEW in \in Q!ToSet(s4'), NEW out \in Nodes \ Q!ToSet(s4')
      PROVE  Q!Degree(in) >= Q!Degree(out)
  <2>1. PICK i \in DOMAIN s4' : s4'[i] = in
    BY <1>8 DEF Q!ToSet
  <2>2. PICK j \in DOMAIN hubs : hubs[j] = out
    BY <1>4, <1>8 DEF Q!ToSet
  <2>3. j \notin DOMAIN s4'
    BY <1>5, <1>8, <2>2 DEF Q!ToSet
  <2>4. i \in DOMAIN hubs /\ i < j /\ hubs[i] = in
    <3>1. Len(s4') \in Nat /\ i \in 1..Len(s4') /\ j \in 1..Len(hubs) /\ j \notin 1..Len(s4')
      BY <1>4, <1>5, <2>1, <2>2, <2>3
    <3>2. i \in 1..Len(hubs) /\ i < j
      BY <1>4, <1>5, <3>1
    <3> QED BY <1>4, <1>5, <2>1, <3>2
  <2>5. <<in, out>> \in Q!DegreeOrder
    BY <1>4, <2>2, <2>4
  <2>6. Q!Degree(in) > Q!Degree(out) \/ Q!Degree(in) = Q!Degree(out)
    BY <2>5 DEF Q!DegreeOrder
  <2> QED BY <1>7, <2>6
<1> QED BY <1>1, <1>6, <1>8 DEF Q!AnswersHonest

LEMMA SearchKeeps ==
    ASSUME Q!QueriesInv, Q!Search
    PROVE  Q!AnswersHonest'
<1>1. /\ UNCHANGED <<s1, s2>> /\ s2.tool = "search" /\ s5' = TRUE
      /\ \E found \in Q!Listing(Q!Matching, Q!FileOrder) :
            LET matches == Q!AtMost(found, s2.limit + 1)
            IN  s4' = <<Q!AtMost(matches, s2.limit), Len(matches) > s2.limit>>
  BY DEF Q!Search, Q!Answers
<1>2. PICK found \in Q!Listing(Q!Matching, Q!FileOrder) :
            LET matches == Q!AtMost(found, s2.limit + 1)
            IN  s4' = <<Q!AtMost(matches, s2.limit), Len(matches) > s2.limit>>
  BY <1>1
<1> DEFINE matches == Q!AtMost(found, s2.limit + 1)
<1>3. IsFiniteSet(Q!Matching) /\ s2.limit \in Nat
  BY LinksFinite, AskIs DEF Q!QueriesInv, Q!Matching
<1>4. found \in Seq(Q!Matching) /\ Len(found) \in Nat /\ Q!ToSet(found) = Q!Matching
  BY <1>2, <1>3, ListedIs
<1>5. /\ matches \in Seq(Q!Matching) /\ Len(matches) \in Nat
      /\ Len(found) <= s2.limit + 1 => matches = found
      /\ Len(found) > s2.limit + 1 => Len(matches) = s2.limit + 1
  BY <1>3, <1>4, AtMostIs
<1>6. s4'[2] = (Len(matches) > s2.limit) /\ s4'[1] = Q!AtMost(matches, s2.limit)
  BY <1>2
<1> HIDE DEF matches
<1>7. s4'[2] = FALSE => s4'[1] = found
  <2>1. ~(Len(matches) > s2.limit) => Len(matches) <= s2.limit /\ matches = found
    BY <1>3, <1>4, <1>5
  <2>2. Len(matches) <= s2.limit => Q!AtMost(matches, s2.limit) = matches
    BY <1>3, <1>5, AtMostIs
  <2> QED BY <1>6, <2>1, <2>2
<1>8. Q!Matching' = Q!Matching
  BY <1>1 DEF Q!Matching, Q!Source
<1> QED BY <1>1, <1>4, <1>7, <1>8 DEF Q!AnswersHonest

LEMMA QueriesStep == Q!QueriesInv /\ Q!Next => Q!QueriesInv'
<1> SUFFICES ASSUME Q!QueriesInv, Q!Next PROVE Q!QueriesInv'
  OBVIOUS
<1>1. CASE Q!Neighbors \/ Q!Explain \/ Q!Overview \/ Q!Search
  <2>1. Q!AnswersHonest'
    BY <1>1, NeighborsKeeps, ExplainKeeps, OverviewKeeps, SearchKeeps
  <2>2. UNCHANGED <<s1, s2, s3>> /\ s5' = TRUE /\ s2.tool # "paths"
    BY <1>1 DEF Q!Neighbors, Q!Explain, Q!Overview, Q!Search, Q!Answers
  <2>3. Q!TypeOK' /\ Q!PathsInv'
    BY <2>2 DEF Q!QueriesInv, Q!TypeOK, Q!PathsInv
  <2> QED BY <2>1, <2>3 DEF Q!QueriesInv
<1> QED BY <1>1, ExpandKeeps, PathsReturnedKeeps DEF Q!Next

LEMMA QueriesStay ==
    ASSUME Q!QueriesInv, UNCHANGED Q!vars
    PROVE  Q!QueriesInv'
<1>1. UNCHANGED <<s1, s2, s3, s4, s5>>
  BY DEF Q!vars
<1>2. Q!SimpleWalks' = Q!SimpleWalks /\ Q!Arriving' = Q!Arriving /\ \A i : Q!Target(i)' = Q!Target(i)
  BY <1>1, FrameOfWalks DEF Q!Target
<1>3. Q!TypeOK'
  BY <1>1 DEF Q!QueriesInv, Q!TypeOK
<1>4. Q!PathsInv'
  BY <1>1, <1>2 DEF Q!QueriesInv, Q!PathsInv, Q!WalksInv, Q!BeginsInv, Q!BreadthInv, Q!OnceInv, Q!EndInv
<1>5. Q!AnswersHonest'
  <2>1. /\ Q!Touching' = Q!Touching /\ Q!Relations' = Q!Relations
        /\ Q!Matching' = Q!Matching /\ \A n : Q!Degree(n)' = Q!Degree(n)
    BY <1>1 DEF Q!Matching, Q!Touching, Q!Outgoing, Q!Incoming, Q!Relations, Q!Degree, Q!Source, Q!Target, Q!ToSet
  <2> QED BY <1>1, <2>1 DEF Q!QueriesInv, Q!AnswersHonest
<1> QED BY <1>3, <1>4, <1>5 DEF Q!QueriesInv

LEMMA AnswersAreHonest == Q!QueriesInv => Q!QueriesHonest
<1> SUFFICES ASSUME Q!QueriesInv PROVE Q!PathsComplete
  BY DEF Q!QueriesHonest, Q!QueriesInv
<1> SUFFICES ASSUME s2.tool = "paths", s5 PROVE Q!PathsComplete
  BY DEF Q!PathsComplete
<1>1. Q!TypeOK /\ Q!WalksInv /\ Q!BeginsInv /\ Q!BreadthInv /\ Q!OnceInv /\ Q!EndInv
  BY DEF Q!QueriesInv, Q!PathsInv
<1>2. /\ s2.limit \in Nat /\ s2.depth \in Nat /\ s4 \in Seq(Seq(DOMAIN s1))
      /\ s3 \in Seq(Seq(DOMAIN s1)) /\ Len(s4) \in Nat
  BY <1>1, AskIs DEF Q!TypeOK
<1>3. Q!ToSet(s4) \subseteq Q!Arriving /\ Q!IsInjective(s4)
  BY <1>1 DEF Q!WalksInv, Q!OnceInv, Q!ToSet
<1>4. \A j, k \in DOMAIN s4 : j < k => Len(s4[j]) <= Len(s4[k])
  BY <1>1 DEF Q!BreadthInv
<1>5. ASSUME Len(s4) < s2.limit PROVE Q!ToSet(s4) = Q!Arriving
  <2>1. s3 = <<>>
    BY <1>1, <1>2, <1>5 DEF Q!EndInv
  <2>2. Q!ToSet(s3) = {}
    BY <2>1 DEF Q!ToSet
  <2> QED BY <1>1, <1>3, <2>2 DEF Q!BeginsInv
<1>6. ASSUME NEW left \in Q!Arriving \ Q!ToSet(s4), NEW p \in Q!ToSet(s4)
      PROVE  Len(p) <= Len(left)
  <2>1. PICK k \in DOMAIN s3 : Q!Prefix(s3[k], left)
    BY <1>1 DEF Q!BeginsInv, Q!ToSet
  <2>2. PICK j \in DOMAIN s4 : s4[j] = p
    BY DEF Q!ToSet
  <2>3. Len(p) <= Len(s3[k]) + 1
    BY <1>1, <2>1, <2>2 DEF Q!BreadthInv
  <2>4. s3[k] \in Q!SimpleWalks /\ \A m \in DOMAIN s3[k] : Q!Target(s3[k][m]) # s2.to
    BY <1>1, <2>1 DEF Q!WalksInv
  <2>5. \E i \in Q!Fresh(s3[k]) : \/ Q!Target(i) = s2.to /\ left = Append(s3[k], i)
                                  \/ Q!Target(i) # s2.to /\ Q!Prefix(Append(s3[k], i), left)
    BY <1>2, <2>1, <2>4, WalksComeFrom
  <2>6. PICK i \in Q!Fresh(s3[k]) : left = Append(s3[k], i) \/ Q!Prefix(Append(s3[k], i), left)
    BY <2>5
  <2>7. s3[k] \in Seq(DOMAIN s1) /\ i \in DOMAIN s1
    BY <1>2, <2>4, WalkIs DEF Q!Fresh
  <2>8. Len(Append(s3[k], i)) = Len(s3[k]) + 1
    BY <2>7
  <2>9. Len(Append(s3[k], i)) <= Len(left)
    BY <2>6, <2>7, <2>8 DEF Q!Prefix
  <2> QED BY <2>3, <2>8, <2>9
<1> QED BY <1>3, <1>4, <1>5, <1>6 DEF Q!PathsComplete

LEMMA QueriesHold == MCSpec => [](part = "queries" => Q!QueriesInv)
<1>1. MCInit => (part = "queries" => Q!QueriesInv)
  BY QueriesInit DEF MCInit
<1>2. (part = "queries" => Q!QueriesInv) /\ [MCNext]_<<part, vars, slots>> => (part = "queries" => Q!QueriesInv)'
  <2>1. CASE UNCHANGED <<part, vars, slots>>
    BY <2>1, QueriesStay DEF slots, Q!vars
  <2>2. CASE MCNext
    BY <2>2, QueriesStep DEF MCNext
  <2> QED BY <2>1, <2>2
<1> QED BY <1>1, <1>2, PTL DEF MCSpec

\* The answers of the graph tools can be relied on: find_paths reports no walk twice and
\* none that is longer than one it leaves out, and reports all there are when they are
\* fewer than its limit; get_neighbors and explain_node say when they cut something off;
\* search_source says when it cut off a match of a file it reads, and nothing of those it
\* skips; and get_graph_overview leaves out no node with more links than one it lists.
THEOREM QueriesAreHonest == MCSpec => []QueriesHonest
<1>1. (part = "queries" => Q!QueriesInv) => QueriesHonest
  BY AnswersAreHonest DEF QueriesHonest
<1> QED BY <1>1, QueriesHold, PTL
=============================================================================
