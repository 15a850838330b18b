--------------------------- MODULE KnowledgeServing ---------------------------
\* The Knowledge MCP's local copy of one code source: the refresh loop that hydrates
\* the promoted version from the object store into the cache directory, the registry
\* that swaps it in, the cleanup of old versions, and the tool calls that pin a
\* version while they read it, each charged to its task's call budget.
EXTENDS Naturals, FiniteSets, Sequences, SequencesExt

CONSTANTS
    Calls,              \* tool calls that may be in progress at once
    Tasks,              \* tasks that make them
    Versions,           \* 1..n, in the order they are promoted
    VersionsToKeep,     \* knowledge_source_cache_versions_to_keep
    Limit,              \* calls one task may make
    MaxTasks,           \* tasks whose calls are counted at a time
    MaxFaults,          \* bound: damaged directories and crashes together
    MaxSwitches         \* bound: times an operator suspends, resumes or re-grants

ServingAssumption ==
    /\ VersionsToKeep \in Nat \ {0, 1}
    /\ Versions \subseteq Nat \ {0}

NoVersion == 0

VARIABLES
    current,    \* the promoted version of the source, or NoVersion
    servable,   \* enabled and not suspended
    granted,    \* the calling workflow's package grants the alias
    refresh,    \* where the refresh loop is
    row,        \* the version its query returned, or NoVersion
    hydrated,   \* the snapshot it loaded, or NoVersion
    served,     \* the snapshot the registry serves, or NoVersion
    disk,       \* version -> "absent", "whole" or "damaged"
    order,      \* the version directories, oldest first
    doomed,     \* the directories the running cleanup removes
    pinned,     \* call -> the version it reads, or NoVersion
    budget,     \* the counted tasks with their calls, least recently used first
    faults, switches

registry == <<current, servable, granted, switches>>
cache == <<disk, order>>
vars == <<registry, refresh, row, hydrated, served, cache, doomed, pinned, budget, faults>>

Init ==
    /\ current = NoVersion /\ servable = TRUE /\ granted = TRUE
    /\ refresh = "waits" /\ row = NoVersion /\ hydrated = NoVersion /\ served = NoVersion
    /\ disk = [v \in Versions |-> "absent"] /\ order = <<>> /\ doomed = {}
    /\ pinned = [c \in Calls |-> NoVersion] /\ budget = <<>>
    /\ faults = 0 /\ switches = 0

------------------------------------------------------------------------------
\* The registry rows and the workflow package, as the indexer and operators write them.

Promote ==
    /\ \E v \in Versions : v > current /\ (\A w \in Versions : w > current => w >= v) /\ current' = v
    /\ UNCHANGED <<servable, granted, switches, refresh, row, hydrated, served, cache, doomed, pinned,
                   budget, faults>>

Switch ==
    /\ switches < MaxSwitches
    /\ switches' = switches + 1
    /\ \/ servable' = ~servable /\ UNCHANGED granted
       \/ granted' = ~granted /\ UNCHANGED servable
    /\ UNCHANGED <<current, refresh, row, hydrated, served, cache, doomed, pinned, budget, faults>>

------------------------------------------------------------------------------
\* One refresh.  A snapshot of a source that the query did not return is dropped.

\* Mutant: a source is never left out.
WithoutNever(snapshot, version) == snapshot
Without(snapshot, version) == IF version = NoVersion THEN NoVersion ELSE snapshot

Select ==
    /\ refresh = "waits"
    /\ row' = IF servable THEN current ELSE NoVersion
    /\ served' = Without(served, row')
    /\ hydrated' = NoVersion
    /\ refresh' = IF row' = NoVersion THEN "swaps" ELSE "hydrates"
    /\ UNCHANGED <<registry, cache, doomed, pinned, budget, faults>>

CachedVersionMatches == refresh = "hydrates" /\ disk[row] = "whole"

\* An artifact that is missing or does not match fails the hydration: the error is
\* kept for health() and the earlier snapshot stays.
HydrationFails ==
    /\ refresh = "hydrates" /\ ~CachedVersionMatches
    /\ refresh' = "swaps"
    /\ UNCHANGED <<registry, row, hydrated, served, cache, doomed, pinned, budget, faults>>

\* The checked download waits in a directory of its own; the directory it replaces
\* is removed first.
Replace ==
    /\ refresh = "hydrates" /\ ~CachedVersionMatches
    /\ disk' = [disk EXCEPT ![row] = "absent"]
    /\ order' = SelectSeq(order, LAMBDA v : v # row)
    /\ refresh' = "replaces"
    /\ UNCHANGED <<registry, row, hydrated, served, doomed, pinned, budget, faults>>

Install ==
    /\ refresh = "replaces"
    /\ disk' = [disk EXCEPT ![row] = "whole"]
    /\ order' = Append(order, row)
    /\ refresh' = "hydrates"
    /\ UNCHANGED <<registry, row, hydrated, served, doomed, pinned, budget, faults>>

Load ==
    /\ CachedVersionMatches
    /\ hydrated' = row
    /\ refresh' = "swaps"
    /\ UNCHANGED <<registry, row, served, cache, doomed, pinned, budget, faults>>

Swap ==
    /\ refresh = "swaps"
    /\ served' = IF hydrated # NoVersion THEN hydrated ELSE Without(served, row)
    /\ refresh' = "cleans"
    /\ UNCHANGED <<registry, row, hydrated, cache, doomed, pinned, budget, faults>>

\* The newest directories are kept, as many as VersionsToKeep, and every directory that
\* is served or pinned at this moment.  The walk from the newest counts those too, so
\* after the first VersionsToKeep it keeps no others.
\* Mutant: a directory is held only while it is served.
HeldServed == {served}
Held == {served} \cup {pinned[c] : c \in Calls}

Retained == Held \cup {order[i] : i \in {j \in DOMAIN order : Len(order) - j < VersionsToKeep}}

ChooseDoomed ==
    /\ refresh = "cleans"
    /\ doomed' = ToSet(order) \ Retained
    /\ refresh' = "removes"
    /\ UNCHANGED <<registry, row, hydrated, served, cache, pinned, budget, faults>>

RemoveTree ==
    /\ refresh = "removes"
    /\ \E v \in doomed :
         /\ disk' = [disk EXCEPT ![v] = "absent"]
         /\ order' = SelectSeq(order, LAMBDA w : w # v)
         /\ doomed' = doomed \ {v}
    /\ UNCHANGED <<registry, refresh, row, hydrated, served, pinned, budget, faults>>

Finish ==
    /\ refresh = "removes" /\ doomed = {}
    /\ refresh' = "waits"
    /\ UNCHANGED <<registry, row, hydrated, served, cache, doomed, pinned, budget, faults>>

------------------------------------------------------------------------------
\* Tool calls.

Used(task) == IF \E i \in DOMAIN budget : budget[i].task = task
              THEN budget[CHOOSE i \in DOMAIN budget : budget[i].task = task].used ELSE 0

\* The caller becomes the most recently used; the oldest entry is forgotten when
\* more than MaxTasks are counted.
Charge(task) ==
    LET others == SelectSeq(budget, LAMBDA b : b.task # task)
        counted == Append(others, [task |-> task,
                                   used |-> IF Used(task) < Limit THEN Used(task) + 1 ELSE Limit])
    IN  IF Len(counted) > MaxTasks THEN Tail(counted) ELSE counted

\* A call is charged before it is authorized; one past the budget only renews its
\* entry.  Authorization reads the workflow's package each time.
Call(c, task) ==
    /\ pinned[c] = NoVersion
    /\ budget' = Charge(task)
    /\ pinned' = IF Used(task) < Limit /\ granted THEN [pinned EXCEPT ![c] = served] ELSE pinned
    /\ UNCHANGED <<registry, refresh, row, hydrated, served, cache, doomed, faults>>

Return(c) ==
    /\ pinned[c] # NoVersion
    /\ pinned' = [pinned EXCEPT ![c] = NoVersion]
    /\ UNCHANGED <<registry, refresh, row, hydrated, served, cache, doomed, budget, faults>>

------------------------------------------------------------------------------
\* Faults: a file of a directory is lost or changed; the server stops and starts
\* with the directories it finds.

Damage ==
    /\ faults < MaxFaults
    /\ faults' = faults + 1
    /\ \E v \in ToSet(order) : disk[v] = "whole" /\ disk' = [disk EXCEPT ![v] = "damaged"]
    /\ UNCHANGED <<registry, refresh, row, hydrated, served, order, doomed, pinned, budget>>

Crash ==
    /\ faults < MaxFaults
    /\ faults' = faults + 1
    /\ refresh' = "waits" /\ row' = NoVersion /\ hydrated' = NoVersion /\ served' = NoVersion /\ doomed' = {}
    /\ pinned' = [c \in Calls |-> NoVersion] /\ budget' = <<>>
    /\ UNCHANGED <<registry, cache>>

Refresh == Select \/ Replace \/ Install \/ Load \/ Swap \/ ChooseDoomed \/ RemoveTree \/ Finish \/ HydrationFails
Next ==
    \/ Promote \/ Switch \/ Refresh \/ Damage \/ Crash
    \/ \E c \in Calls : Return(c) \/ \E task \in Tasks : Call(c, task)

\* The loop sleeps a fixed interval between refreshes and catches what a refresh raises.
Fairness == WF_vars(Refresh)
Spec == Init /\ [][Next]_vars /\ Fairness

------------------------------------------------------------------------------
\* A directory that a call reads stays until the call returns, whatever is promoted,
\* suspended or cleaned up meanwhile; only a damaged one is taken away, by the
\* refresh that is putting a whole one in its place.
PinnedStays ==
    \A c \in Calls : pinned[c] # NoVersion /\ disk[pinned[c]] = "absent" =>
        refresh = "replaces" /\ row = pinned[c]

Suspended == ~servable
NotServed == served = NoVersion

\* A source that is suspended for good stops being served, although a refresh that
\* read the row before may still swap it in.
SuspendedLeaves == <>[]Suspended => <>[]NotServed

------------------------------------------------------------------------------
\* What PinnedStays rests on.

TypeOK ==
    /\ refresh \in {"waits", "hydrates", "replaces", "swaps", "cleans", "removes"}
    /\ current \in Versions \cup {NoVersion} /\ row \in Versions \cup {NoVersion}
    /\ hydrated \in Versions \cup {NoVersion} /\ served \in Versions \cup {NoVersion}
    /\ disk \in [Versions -> {"absent", "whole", "damaged"}]
    /\ pinned \in [Calls -> Versions \cup {NoVersion}]

\* The directory of v is there, or about to be put back.
Stays(v) == v # NoVersion /\ disk[v] = "absent" => refresh = "replaces" /\ row = v

\* What may be pinned next stays as well as what is pinned: the snapshot served and the
\* one about to be; a cleanup has neither on its list.
ServingInv ==
    /\ TypeOK
    /\ \A v \in {served} \cup {pinned[c] : c \in Calls} :
          Stays(v) /\ (refresh = "removes" /\ v # NoVersion => v \notin doomed)
    /\ refresh \in {"hydrates", "replaces"} => hydrated = NoVersion /\ row \in Versions
    /\ refresh = "swaps" => Stays(hydrated)
=============================================================================
