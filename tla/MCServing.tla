------------------------------ MODULE MCServing ------------------------------
(* The knowledge sources beside the sync: what a sync publishes and builds,   *)
(* the cache of the Knowledge MCP, and its queries.  The five share no state. *)
(* A behaviour runs one of them; those other than the publication use the     *)
(* slots s1, s2, ..., and leave the ones they do not need empty.              *)
EXTENDS KnowledgeBundle

CONSTANTS
    Calls, Tasks, Versions, VersionsToKeep, Limit, MaxTasks, MaxSwitches,   \* KnowledgeServing
    Root, Page, Rules, Models, Ordinals, MaxChanges,                        \* HybridIndex
    Nodes, Links, MaxLinks, Starts, Ends, Depths, QueryLimits, Skips,       \* KnowledgeQueries
    Chunks, ContentLength(_), MaxContent, MaxResponse, Overhead, Pairs,     \* HybridRetrieval
    LaneLimit, Scale, RerankCandidates, ResponseLimits,
    Empty

VARIABLES part, s1, s2, s3, s4, s5, s6, s7, s8, s9, s10, s11, s12, s13, s14

\* The second commit has lost file a, and the second scope leaves b out.
MCTree    == <<{"a", "b"}, {"b"}>>
MCInScope == <<{"a", "b"}, {"a"}>>

\* Node 4 is reached along several walks, of two and three links.
MCLinks == {<<1, 2>>, <<1, 3>>, <<2, 3>>, <<3, 2>>, <<2, 4>>, <<3, 4>>, <<1, 1>>}

\* Chunk 2 is longer than a result may be.
MCLength(c) == IF c = 2 THEN 4 ELSE 2
-----------------------------------------------------------------------------
V == INSTANCE KnowledgeServing WITH
       current <- s1, servable <- s2, granted <- s3, refresh <- s4, row <- s5,
       hydrated <- s6, served <- s7, disk <- s8, order <- s9, doomed <- s10,
       pinned <- s11, budget <- s12, faults <- s13, switches <- s14

Q == INSTANCE KnowledgeQueries WITH
       Limits <- QueryLimits,
       links <- s1, ask <- s2, queue <- s3, answer <- s4, done <- s5

H == INSTANCE HybridRetrieval WITH
       Limits <- ResponseLimits,
       source <- s1, stored <- s2, overlaps <- s3, limit <- s4, stage <- s5,
       pinned <- s6, dense <- s7, lexical <- s8, candidates <- s9, reranked <- s10,
       results <- s11, truncated <- s12, used <- s13

X == INSTANCE HybridIndex WITH
       None <- Empty,
       space <- s1, rules <- s2, model <- s3, stored <- s4, session <- s5,
       versions <- s6, current <- s7, build <- s8, changes <- s9

ASSUME Assumptions == BundleAssumption /\ V!ServingAssumption /\ X!IndexAssumption
                      /\ Q!QueriesAssumption /\ H!RetrievalAssumption

-----------------------------------------------------------------------------
From14 == s14 = Empty
From10 == s10 = Empty /\ s11 = Empty /\ s12 = Empty /\ s13 = Empty /\ From14
From6  == s6 = Empty /\ s7 = Empty /\ s8 = Empty /\ s9 = Empty /\ From10
From1  == s1 = Empty /\ s2 = Empty /\ s3 = Empty /\ s4 = Empty /\ s5 = Empty /\ From6

\* A source that nobody syncs, for the parts that do not.
Still == upstream = 1 /\ registry = [url |-> "u", scope |-> 1]

MCInit ==
  /\ Init
  /\ \/ part = "bundle" /\ From1
     \/ /\ Still
        /\ \/ part = "serving"   /\ V!Init
           \/ part = "queries"   /\ Q!Init /\ From6
           \/ part = "retrieval" /\ H!Init /\ From14
           \/ part = "index"     /\ X!Init /\ From10

slots == <<s1, s2, s3, s4, s5, s6, s7, s8, s9, s10, s11, s12, s13, s14>>

MCNext ==
  /\ UNCHANGED part
  /\ \/ part = "bundle" /\ Next /\ UNCHANGED slots
     \/ /\ UNCHANGED vars
        /\ \/ part = "serving"   /\ V!Next
           \/ part = "queries"   /\ Q!Next
              /\ UNCHANGED <<s6, s7, s8, s9, s10, s11, s12, s13, s14>>
           \/ part = "retrieval" /\ H!Next /\ UNCHANGED s14
           \/ part = "index"     /\ X!Next /\ UNCHANGED <<s10, s11, s12, s13, s14>>

\* V!Fairness, for the behaviours that run the cache.
RefreshFair == WF_slots(part = "serving" /\ V!Refresh)

MCSpec == MCInit /\ [][MCNext]_<<part, vars, slots>> /\ RefreshFair

-----------------------------------------------------------------------------
\* The properties of the parts in slots.
PinnedStays      == part = "serving"   => V!PinnedStays
QueriesHonest    == part = "queries"   => Q!QueriesHonest
ResponseHonest   == part = "retrieval" => H!ResponseHonest
SnapshotFaithful == part = "index"     => X!SnapshotFaithful

\* V!SuspendedLeaves, for the behaviours that run the cache.
SuspendedLeaves ==
  <>[](part = "serving" /\ V!Suspended) => <>[](part = "serving" => V!NotServed)
==============================================================================
