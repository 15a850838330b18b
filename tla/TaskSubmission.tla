---------------------------- MODULE TaskSubmission ----------------------------
(***************************************************************************)
(* submit_task: an alert is absorbed into the first recent task that matches *)
(* one of its ordered duplicate policies, or becomes a task that carries     *)
(* every key of its policies.  Message ingress and the connectors submit     *)
(* concurrently, the same alert may be submitted twice (redelivery), and a   *)
(* submitter may die anywhere inside its transaction and be retried.         *)
(*                                                                           *)
(* A submission takes one advisory lock per key, in sorted order, before it  *)
(* looks; the locks go when its transaction ends.  Each policy is looked up  *)
(* by a statement of its own, and the task row it finds is not locked.       *)
(***************************************************************************)
EXTENDS Integers, FiniteSets, Sequences

CONSTANTS Submitters,   \* submissions; each creates at most one task, of its name
          Checks,       \* the DedupeChecks of a submission, in order
          None,
          MaxTime,      \* bound: clock
          MaxCrashes    \* bound: submissions that die and are retried

\* submit_task drops a check without a key or with window 0.
ASSUME SubmissionAssumption ==
    /\ Checks \in [Submitters -> Seq([key : Int, window : Nat \ {0}, any : BOOLEAN])]
    /\ None \notin Submitters /\ IsFiniteSet(Submitters)
    /\ MaxTime \in Nat /\ MaxCrashes \in Nat

Tasks == Submitters
KeysOf(s) == {Checks[s][i].key : i \in DOMAIN Checks[s]}
Keys == UNION {KeysOf(s) : s \in Submitters}

VARIABLES now,
          status,    \* absent, active (queued, running, waiting) or completed
          created,   \* Task.created: now() of PostgreSQL, the transaction's start
          count,     \* alert_occurrence_count in Task.metadata
          merged,    \* history: the submissions absorbed by each task
          reran,     \* history: tasks an operator reran
          lock,      \* holder of the advisory lock of each key
          pc,        \* idle, lock, check, merge, create, done
          begun,     \* start of the transaction
          asked,     \* `now` of submit_task, taken when all locks are held
          index,     \* the check being looked up
          found,     \* the task an earlier statement found
          read,      \* the occurrence count it had then
          crashes

table == <<status, created, count, merged, reran>>
local == <<begun, asked, index, found, read>>
vars  == <<now, table, lock, pc, local, crashes>>

Init ==
    /\ now = 0
    /\ status = [t \in Tasks |-> "absent"]
    /\ created = [t \in Tasks |-> 0]
    /\ count = [t \in Tasks |-> 0]
    /\ merged = [t \in Tasks |-> {}]
    /\ reran = {}
    /\ lock = [k \in Keys |-> None]
    /\ pc = [s \in Submitters |-> "idle"]
    /\ begun = [s \in Submitters |-> 0]
    /\ asked = [s \in Submitters |-> 0]
    /\ index = [s \in Submitters |-> 1]
    /\ found = [s \in Submitters |-> None]
    /\ read = [s \in Submitters |-> 0]
    /\ crashes = 0

Goto(s, label) == pc' = [pc EXCEPT ![s] = label]
Held(s) == {k \in Keys : lock[k] = s}
EndTransaction(s) == lock' = [k \in Keys |-> IF lock[k] = s THEN None ELSE lock[k]]

Begin(s) ==
    /\ pc[s] = "idle"
    /\ begun' = [begun EXCEPT ![s] = now]
    /\ index' = [index EXCEPT ![s] = 1]
    /\ Goto(s, "lock")
    /\ UNCHANGED <<now, table, lock, asked, found, read, crashes>>

\* Mutant: the keys are locked in the order of the policies.
PolicyOrderKey(s, k) ==
    \E i \in DOMAIN Checks[s] :
       /\ Checks[s][i].key = k
       /\ \A j \in 1..(i - 1) : Checks[s][j].key \in Held(s)

\* The next key in sorted order.
NextKey(s, k) ==
    /\ k \in KeysOf(s) \ Held(s)
    /\ \A other \in KeysOf(s) \ Held(s) : k <= other

\* Mutant: no lock is waited for.
KeyNotAwaited(k) == TRUE

KeyFree(k) == lock[k] = None

LockKey(s) ==
    /\ pc[s] = "lock"
    /\ \E k \in KeysOf(s) \ Held(s) :
         /\ NextKey(s, k)
         /\ KeyFree(k)
         /\ lock' = [lock EXCEPT ![k] = s]
    /\ UNCHANGED <<now, table, pc, local, crashes>>

AllLocked(s) ==
    /\ pc[s] = "lock" /\ KeysOf(s) \subseteq Held(s)
    /\ asked' = [asked EXCEPT ![s] = now]
    /\ Goto(s, "check")
    /\ UNCHANGED <<now, table, lock, begun, index, found, read, crashes>>

\* The tasks that a check absorbs into.
Matches(s, i) ==
    LET c == Checks[s][i] IN
    {t \in Tasks : /\ status[t] # "absent"
                   /\ c.key \in KeysOf(t)
                   /\ created[t] >= asked[s] - c.window
                   /\ c.any \/ status[t] = "active"}

\* One statement per check: the latest match, or on to the next check.
LookUp(s) ==
    /\ pc[s] = "check" /\ index[s] \in DOMAIN Checks[s]
    /\ \/ \E t \in Matches(s, index[s]) :
            /\ \A u \in Matches(s, index[s]) : created[u] <= created[t]
            /\ found' = [found EXCEPT ![s] = t]
            /\ read' = [read EXCEPT ![s] = count[t]]
            /\ Goto(s, "merge")
            /\ UNCHANGED index
       \/ /\ Matches(s, index[s]) = {}
          /\ index' = [index EXCEPT ![s] = @ + 1]
          /\ UNCHANGED <<found, read, pc>>
    /\ UNCHANGED <<now, table, lock, begun, asked, crashes>>

NoMatch(s) ==
    /\ pc[s] = "check" /\ index[s] \notin DOMAIN Checks[s]
    /\ Goto(s, "create")
    /\ UNCHANGED <<now, table, lock, local, crashes>>

\* The metadata is computed from what was read and written back whole.
Merge(s) ==
    /\ pc[s] = "merge"
    /\ count' = [count EXCEPT ![found[s]] = read[s] + 1]
    /\ merged' = [merged EXCEPT ![found[s]] = @ \cup {s}]
    /\ EndTransaction(s)
    /\ Goto(s, "done")
    /\ UNCHANGED <<now, status, created, reran, local, crashes>>

Create(s) ==
    /\ pc[s] = "create"
    /\ status' = [status EXCEPT ![s] = "active"]
    /\ created' = [created EXCEPT ![s] = begun[s]]
    /\ count' = [count EXCEPT ![s] = 1]
    /\ EndTransaction(s)
    /\ Goto(s, "done")
    /\ UNCHANGED <<now, merged, reran, local, crashes>>

\* The submitter dies: its transaction is rolled back and the alert delivered
\* again.
Crash(s) ==
    /\ pc[s] \notin {"idle", "done"} /\ crashes < MaxCrashes
    /\ crashes' = crashes + 1
    /\ EndTransaction(s)
    /\ Goto(s, "idle")
    /\ UNCHANGED <<now, table, local>>

\* The task ends, whatever submissions are looking at it.
Complete(t) ==
    /\ status[t] = "active"
    /\ status' = [status EXCEPT ![t] = "completed"]
    /\ UNCHANGED <<now, created, count, merged, reran, lock, pc, local, crashes>>

\* rerun_task_api takes none of the locks.
Rerun(t) ==
    /\ status[t] = "completed" /\ t \notin reran
    /\ status' = [status EXCEPT ![t] = "active"]
    /\ reran' = reran \cup {t}
    /\ UNCHANGED <<now, created, count, merged, lock, pc, local, crashes>>

Tick ==
    /\ now < MaxTime
    /\ now' = now + 1
    /\ UNCHANGED <<table, lock, pc, local, crashes>>

Submit(s) ==
    \/ Begin(s) \/ LockKey(s) \/ AllLocked(s) \/ LookUp(s) \/ NoMatch(s) \/ Merge(s) \/ Create(s)

Next ==
    \/ \E s \in Submitters : Submit(s) \/ Crash(s)
    \/ \E t \in Tasks : Complete(t) \/ Rerun(t)
    \/ Tick

Spec == Init /\ [][Next]_vars

-----------------------------------------------------------------------------
\* Type invariant.
TypeOK ==
    /\ now \in 0..MaxTime
    /\ status \in [Tasks -> {"absent", "active", "completed"}]
    /\ created \in [Tasks -> Nat]
    /\ count \in [Tasks -> Nat]
    /\ merged \in [Tasks -> SUBSET Submitters]
    /\ reran \in SUBSET Tasks
    /\ lock \in [Keys -> Submitters \cup {None}]
    /\ pc \in [Submitters -> {"idle", "lock", "check", "merge", "create", "done"}]
    /\ begun \in [Submitters -> Nat]
    /\ asked \in [Submitters -> Nat]
    /\ index \in [Submitters -> Nat \ {0}]
    /\ found \in [Submitters -> Submitters \cup {None}]
    /\ read \in [Submitters -> Nat]
    /\ crashes \in 0..MaxCrashes

\* The tasks a check must not leave unnoticed: all it matches, except one that
\* was over and that an operator made active again.
Duplicates(s, i) == {t \in Matches(s, i) : Checks[s][i].any \/ t \notin reran}

\* The negative answer of every check a submission has made is still right,
\* until its transaction ends.
AnswersHold ==
    \A s \in Submitters :
       /\ pc[s] = "lock" => index[s] = 1
       /\ pc[s] \in {"check", "create", "merge"} => KeysOf(s) \subseteq Held(s)
       /\ pc[s] \in {"check", "create"} => \A i \in 1..(index[s] - 1) :
             i \in DOMAIN Checks[s] => Duplicates(s, i) = {}
       /\ pc[s] = "create" => index[s] \notin DOMAIN Checks[s]

\* No duplicate is created: when a submission commits a new task, no task that
\* one of its policies absorbs into exists, although others submitted the same
\* alert at the same time.
NoDuplicateCreated ==
    [][\A s \in Submitters : Create(s) => \A i \in DOMAIN Checks[s] : Duplicates(s, i) = {}]_vars

\* The locks of two submissions exclude each other.
Share(r, s) == KeysOf(r) \cap KeysOf(s) # {}

\* Every alert that was absorbed is counted in the task's metadata, as long as
\* any two that a task absorbed have a key in common.  Two that match it by
\* different policies hold no common lock, and the row itself is not locked: the
\* one that read first writes last and the other's occurrence is lost.
MergesCounted ==
    \A t \in Tasks :
       status[t] # "absent" /\ (\A r, s \in merged[t] : Share(r, s))
       => count[t] = 1 + Cardinality(merged[t])

\* What a submission that absorbs relies on: the task it found exists, and what it
\* read of it is still right unless a submission without a common key got in.
\* Who has created or merged is done.
MergesSafe ==
    /\ \A t \in Tasks :
          /\ status[t] # "absent" => pc[t] = "done"
          /\ status[t] = "absent" => merged[t] = {}
          /\ \A s \in merged[t] : pc[s] = "done"
    /\ \A s \in Submitters : pc[s] = "merge" =>
          /\ found[s] \in Tasks /\ status[found[s]] # "absent"
          /\ (\A r \in merged[found[s]] : Share(r, s)) => read[s] = count[found[s]]

\* s waits for a lock that a submission of S holds.
WaitsFor(s, S) == pc[s] = "lock" /\ \E k \in KeysOf(s) : NextKey(s, k) /\ lock[k] \in S

\* Submissions that need several locks do not block one another: in no set of
\* them does each wait for a lock of another, whatever order their policies
\* list the keys in (the sorted advisory locks of submit_task).
NoLockCycle == \A S \in (SUBSET Submitters) \ {{}} : \E s \in S : ~WaitsFor(s, S)
=============================================================================
