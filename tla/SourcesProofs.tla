--------------------------- MODULE SourcesProofs ---------------------------
(***************************************************************************)
(* Where tasks come from, for every value of the constants.                  *)
(*                                                                           *)
(* Submission: no submission creates a duplicate of a task, and merges are   *)
(* counted.  A submission holds the advisory lock of each of its keys from   *)
(* before its first look-up to the end of its transaction, and a task that a *)
(* look-up missed could only come from a submission that shares a key, so it *)
(* would have to hold the same lock.                                         *)
(*                                                                           *)
(* Then the sources as MCSources puts them side by side, each with an        *)
(* invariant of its own (PollInv, ConnectorInv, SchedulerInv).               *)
(***************************************************************************)
EXTENDS MCSources, SequenceTheorems, FiniteSetTheorems, WellFoundedInduction, TLAPS

-----------------------------------------------------------------------------
(* Submission.                                                             *)

\* What the proofs need to know of the checks and keys of a submission.
LEMMA ChecksType ==
    ASSUME NEW s \in Submitters
    PROVE  /\ DOMAIN Checks[s] = 1..Len(Checks[s]) /\ Len(Checks[s]) \in Nat
           /\ \A i \in DOMAIN Checks[s] : Checks[s][i].key \in KeysOf(s)
           /\ KeysOf(s) \subseteq Keys /\ KeysOf(s) \subseteq Int
<1>1. Checks[s] \in Seq([key : Int, window : Nat \ {0}, any : BOOLEAN])
  BY SubmissionAssumption
<1>2. DOMAIN Checks[s] = 1..Len(Checks[s]) /\ Len(Checks[s]) \in Nat
  BY <1>1
<1>3. ASSUME NEW i \in DOMAIN Checks[s] PROVE Checks[s][i].key \in Int
  <2> DEFINE R == [key : Int, window : Nat \ {0}, any : BOOLEAN]
  <2>1. Checks[s] \in Seq(R)
    BY <1>1
  <2> HIDE DEF R
  <2>2. Checks[s][i] \in R
    BY <1>3, <2>1, ElementOfSeq, <1>2
  <2> QED BY <2>2 DEF R
<1> QED BY <1>2, <1>3 DEF KeysOf, Keys

\* Every variable of the submission protocol keeps its type.
THEOREM TypeCorrect == Spec => []TypeOK
<1> USE SubmissionAssumption DEF TypeOK, table, local, Tasks
<1>1. Init => TypeOK
  BY DEF Init
<1>2. TypeOK /\ [Next]_vars => TypeOK'
  <2> SUFFICES ASSUME TypeOK, [Next]_vars PROVE TypeOK'
    OBVIOUS
  <2>1. ASSUME NEW s \in Submitters, Begin(s) PROVE TypeOK'
    BY <2>1 DEF Begin, Goto
  <2>2. ASSUME NEW s \in Submitters, LockKey(s) PROVE TypeOK'
    BY <2>2, ChecksType DEF LockKey
  <2>3. ASSUME NEW s \in Submitters, AllLocked(s) PROVE TypeOK'
    BY <2>3 DEF AllLocked, Goto
  <2>4. ASSUME NEW s \in Submitters, LookUp(s) PROVE TypeOK'
    <3>1. Matches(s, index[s]) \subseteq Submitters
      BY DEF Matches
    <3>2. CASE Matches(s, index[s]) = {}
      <4>1. index' = [index EXCEPT ![s] = @ + 1] /\ UNCHANGED <<found, read, pc>>
        BY <2>4, <3>2 DEF LookUp
      <4>2. index' \in [Submitters -> Nat \ {0}]
        BY <4>1
      <4> QED BY <2>4, <4>1, <4>2 DEF LookUp
    <3>3. CASE Matches(s, index[s]) # {}
      <4>1. PICK t \in Matches(s, index[s]) :
              /\ found' = [found EXCEPT ![s] = t]
              /\ read' = [read EXCEPT ![s] = count[t]]
              /\ pc' = [pc EXCEPT ![s] = "merge"]
              /\ UNCHANGED index
        BY <2>4, <3>3 DEF LookUp, Goto
      <4>2. found' \in [Submitters -> Submitters \cup {None}] /\ read' \in [Submitters -> Nat]
        BY <3>1, <4>1
      <4> QED BY <2>4, <4>1, <4>2 DEF LookUp
    <3> QED BY <3>2, <3>3
  <2>5. ASSUME NEW s \in Submitters, NoMatch(s) PROVE TypeOK'
    BY <2>5 DEF NoMatch, Goto
  <2>6. ASSUME NEW s \in Submitters, Merge(s) PROVE TypeOK'
    <3>1. count' \in [Tasks -> Nat]
      <4>1. count' = [count EXCEPT ![found[s]] = read[s] + 1] /\ read[s] + 1 \in Nat
        BY <2>6 DEF Merge
      <4> QED BY <4>1
    <3>2. merged' \in [Tasks -> SUBSET Submitters]
      <4>1. merged' = [merged EXCEPT ![found[s]] = @ \cup {s}]
        BY <2>6 DEF Merge
      <4>2. CASE found[s] \in Tasks
        BY <4>1, <4>2
      <4>3. CASE found[s] \notin Tasks
        BY <4>1, <4>3
      <4> QED BY <4>2, <4>3
    <3>3. lock' \in [Keys -> Submitters \cup {None}]
      BY <2>6 DEF Merge, EndTransaction
    <3> QED BY <2>6, <3>1, <3>2, <3>3 DEF Merge, Goto
  <2>7. ASSUME NEW s \in Submitters, Create(s) PROVE TypeOK'
    BY <2>7 DEF Create, Goto, EndTransaction
  <2>8. ASSUME NEW s \in Submitters, Crash(s) PROVE TypeOK'
    BY <2>8 DEF Crash, Goto, EndTransaction
  <2>9. ASSUME NEW t \in Tasks, Complete(t) \/ Rerun(t) PROVE TypeOK'
    BY <2>9 DEF Complete, Rerun
  <2>10. CASE Tick
    BY <2>10 DEF Tick
  <2>11. CASE UNCHANGED vars
    BY <2>11 DEF vars
  <2> QED
    BY <2>1, <2>2, <2>3, <2>4, <2>5, <2>6, <2>7, <2>8, <2>9, <2>10, <2>11 DEF Next, Submit
<1> QED BY <1>1, <1>2, PTL DEF Spec

\* A step that leaves the submission's clock alone, and creates no task that
\* shares a key with it, gives it no new duplicate.
LEMMA NoNewDuplicate ==
    ASSUME NEW s \in Submitters, NEW i \in DOMAIN Checks[s],
           asked'[s] = asked[s],
           reran \subseteq reran',
           \A t \in Tasks : /\ Checks[s][i].key \in KeysOf(t)
                            /\ status'[t] # "absent"
                            => /\ status[t] # "absent" /\ created'[t] = created[t]
                               /\ status'[t] = "active" => status[t] = "active" \/ t \in reran',
           Duplicates(s, i) = {}
    PROVE  Duplicates(s, i)' = {}
BY DEF Duplicates, Matches

IInv == TypeOK /\ AnswersHold

\* The answers of submission s survive a step that leaves s where it is.
LEMMA AnswersKept ==
    ASSUME IInv, NEW s \in Submitters,
           pc'[s] = pc[s], asked'[s] = asked[s], index'[s] = index[s],
           Held(s) \subseteq Held(s)',
           reran \subseteq reran',
           pc[s] \in {"check", "create"} => \A t \in Tasks :
              /\ KeysOf(s) \cap KeysOf(t) # {}
              /\ status'[t] # "absent"
              => /\ status[t] # "absent" /\ created'[t] = created[t]
                 /\ status'[t] = "active" => status[t] = "active" \/ t \in reran'
    PROVE  /\ pc'[s] = "lock" => index'[s] = 1
           /\ pc'[s] \in {"check", "create", "merge"} => KeysOf(s) \subseteq Held(s)'
           /\ pc'[s] \in {"check", "create"} => \A i \in 1..(index'[s] - 1) :
                 i \in DOMAIN Checks[s] => Duplicates(s, i)' = {}
           /\ pc'[s] = "create" => index'[s] \notin DOMAIN Checks[s]
<1>1. ASSUME pc[s] \in {"check", "create"}, NEW i \in 1..(index[s] - 1), i \in DOMAIN Checks[s]
      PROVE  Duplicates(s, i)' = {}
  <2>1. Duplicates(s, i) = {}
    BY <1>1 DEF IInv, AnswersHold
  <2>2. Checks[s][i].key \in KeysOf(s)
    BY <1>1, ChecksType
  <2> QED BY <1>1, <2>1, <2>2, NoNewDuplicate
<1> QED BY <1>1 DEF IInv, AnswersHold

LEMMA Inductive == IInv /\ [Next]_vars => AnswersHold'
<1> SUFFICES ASSUME IInv, [Next]_vars PROVE AnswersHold'
  OBVIOUS
<1> USE SubmissionAssumption DEF table, local, Tasks
<1> DEFINE Kept(r) ==
      /\ pc'[r] = "lock" => index'[r] = 1
      /\ pc'[r] \in {"check", "create", "merge"} => KeysOf(r) \subseteq Held(r)'
      /\ pc'[r] \in {"check", "create"} => \A i \in 1..(index'[r] - 1) :
            i \in DOMAIN Checks[r] => Duplicates(r, i)' = {}
      /\ pc'[r] = "create" => index'[r] \notin DOMAIN Checks[r]
<1> SUFFICES ASSUME NEW r \in Submitters PROVE Kept(r)
  BY DEF AnswersHold
<1>1. TypeOK
  BY DEF IInv
<1>2. ASSUME NEW s \in Submitters, Begin(s) PROVE Kept(r)
  <2>1. CASE r = s
    BY <1>1, <1>2, <2>1 DEF Begin, Goto, TypeOK
  <2>2. CASE r # s
    <3> HIDE DEF Kept
    <3>1. pc'[r] = pc[r] /\ index'[r] = index[r] /\ asked'[r] = asked[r] /\ Held(r)' = Held(r)
      BY <1>1, <1>2, <2>2 DEF Begin, Goto, TypeOK, Held
    <3> QED BY <1>2, <3>1, AnswersKept DEF Begin, Kept
  <2> QED BY <2>1, <2>2
<1>3. ASSUME NEW s \in Submitters, LockKey(s) PROVE Kept(r)
  <2> HIDE DEF Kept
  <2>1. Held(r) \subseteq Held(r)'
    BY <1>1, <1>3 DEF LockKey, KeyFree, TypeOK, Held
  <2> QED BY <1>3, <2>1, AnswersKept DEF LockKey, Kept
<1>4. ASSUME NEW s \in Submitters, AllLocked(s) PROVE Kept(r)
  <2>1. CASE r = s
    <3>1. pc'[r] = "check" /\ index'[r] = 1 /\ KeysOf(r) \subseteq Held(r)'
      BY <1>1, <1>4, <2>1 DEF AllLocked, Goto, TypeOK, Held, IInv, AnswersHold
    <3> QED BY <3>1
  <2>2. CASE r # s
    <3> HIDE DEF Kept
    <3>1. pc'[r] = pc[r] /\ index'[r] = index[r] /\ asked'[r] = asked[r] /\ Held(r)' = Held(r)
      BY <1>1, <1>4, <2>2 DEF AllLocked, Goto, TypeOK, Held
    <3> QED BY <1>4, <3>1, AnswersKept DEF AllLocked, Kept
  <2> QED BY <2>1, <2>2
<1>5. ASSUME NEW s \in Submitters, LookUp(s) PROVE Kept(r)
  <2>0. Held(r)' = Held(r) /\ asked' = asked /\ UNCHANGED <<status, created, reran>>
    BY <1>5 DEF LookUp, Held
  <2>1. CASE r = s /\ Matches(s, index[s]) = {}
    <3>1. pc'[r] = "check" /\ index'[r] = index[r] + 1 /\ pc[r] = "check"
      BY <1>1, <1>5, <2>1 DEF LookUp, TypeOK
    <3>2. ASSUME NEW i \in 1..(index'[r] - 1), i \in DOMAIN Checks[r] PROVE Duplicates(r, i)' = {}
      <4>1. i \in 1..(index[r] - 1) \/ i = index[r]
        BY <1>1, <3>1, SMTT(30) DEF TypeOK
      <4>2. Duplicates(r, i) = {}
        BY <2>1, <3>1, <3>2, <4>1 DEF Duplicates, IInv, AnswersHold
      <4> QED BY <2>0, <4>2 DEF Duplicates, Matches
    <3>3. KeysOf(r) \subseteq Held(r)'
      BY <2>0, <3>1 DEF IInv, AnswersHold
    <3> QED BY <3>1, <3>2, <3>3
  <2>2. CASE r = s /\ Matches(s, index[s]) # {}
    <3>1. pc'[r] = "merge" /\ pc[r] = "check"
      BY <1>1, <1>5, <2>2 DEF LookUp, Goto, TypeOK
    <3>2. KeysOf(r) \subseteq Held(r)'
      BY <2>0, <3>1 DEF IInv, AnswersHold
    <3> QED BY <3>1, <3>2
  <2>3. CASE r # s
    <3> HIDE DEF Kept
    <3>1. pc'[r] = pc[r] /\ index'[r] = index[r]
      BY <1>1, <1>5, <2>3 DEF LookUp, Goto, TypeOK
    <3> QED BY <2>0, <3>1, AnswersKept DEF Kept
  <2> QED BY <2>1, <2>2, <2>3
<1>6. ASSUME NEW s \in Submitters, NoMatch(s) PROVE Kept(r)
  <2>0. Held(r)' = Held(r) /\ asked' = asked /\ index' = index /\ UNCHANGED <<status, created, reran>>
    BY <1>6 DEF NoMatch, Held
  <2>1. CASE r = s
    <3>1. pc[r] = "check" /\ pc'[r] = "create" /\ index[r] \notin DOMAIN Checks[r]
      BY <1>1, <1>6, <2>1 DEF NoMatch, Goto, TypeOK
    <3>2. ASSUME NEW i \in 1..(index[r] - 1), i \in DOMAIN Checks[r] PROVE Duplicates(r, i)' = {}
      <4>1. Duplicates(r, i) = {}
        BY <3>1, <3>2 DEF IInv, AnswersHold
      <4> QED BY <2>0, <4>1 DEF Duplicates, Matches
    <3>3. KeysOf(r) \subseteq Held(r)'
      BY <2>0, <3>1 DEF IInv, AnswersHold
    <3> QED BY <2>0, <3>1, <3>2, <3>3
  <2>2. CASE r # s
    <3> HIDE DEF Kept
    <3>1. pc'[r] = pc[r]
      BY <1>1, <1>6, <2>2 DEF NoMatch, Goto, TypeOK
    <3> QED BY <2>0, <3>1, AnswersKept DEF Kept
  <2> QED BY <2>1, <2>2
<1>7. ASSUME NEW s \in Submitters, Merge(s) \/ Crash(s) PROVE Kept(r)
  <2>1. CASE r = s
    BY <1>1, <1>7, <2>1 DEF Merge, Crash, Goto, TypeOK
  <2>2. CASE r # s
    <3> HIDE DEF Kept
    <3>1. pc'[r] = pc[r] /\ UNCHANGED <<asked, index, status, created, reran>>
      BY <1>1, <1>7, <2>2 DEF Merge, Crash, Goto, TypeOK
    <3>2. Held(r) \subseteq Held(r)'
      BY <1>1, <1>7, <2>2 DEF Merge, Crash, EndTransaction, Held
    <3> QED BY <3>1, <3>2, AnswersKept DEF Kept
  <2> QED BY <2>1, <2>2
<1>8. ASSUME NEW s \in Submitters, Create(s) PROVE Kept(r)
  <2>1. CASE r = s
    BY <1>1, <1>8, <2>1 DEF Create, Goto, TypeOK
  <2>2. CASE r # s
    <3> HIDE DEF Kept
    <3>1. pc'[r] = pc[r] /\ UNCHANGED <<asked, index, reran>>
      BY <1>1, <1>8, <2>2 DEF Create, Goto, TypeOK
    <3>2. Held(r) \subseteq Held(r)'
      BY <1>1, <1>8, <2>2 DEF Create, EndTransaction, Held
    <3>3. ASSUME pc[r] \in {"check", "create"} PROVE KeysOf(r) \cap KeysOf(s) = {}
      \* both hold the locks of all their keys
      <4>1. KeysOf(r) \subseteq Held(r) /\ KeysOf(s) \subseteq Held(s)
        BY <1>8, <3>3 DEF Create, IInv, AnswersHold
      <4>2. Held(r) \cap Held(s) = {}
        BY <2>2 DEF Held
      <4> QED BY <4>1, <4>2
    <3>4. \A t \in Tasks : t # s => status'[t] = status[t] /\ created'[t] = created[t]
      BY <1>1, <1>8 DEF Create, TypeOK
    <3> QED BY <3>1, <3>2, <3>3, <3>4, AnswersKept DEF Kept
  <2> QED BY <2>1, <2>2
<1>9. ASSUME NEW t \in Tasks, Complete(t) \/ Rerun(t) PROVE Kept(r)
  <2> HIDE DEF Kept
  <2>1. Held(r)' = Held(r) /\ UNCHANGED <<pc, asked, index, created>> /\ reran \subseteq reran'
    BY <1>9 DEF Complete, Rerun, Held
  <2>2. ASSUME NEW u \in Tasks
        PROVE  /\ status'[u] # "absent" => status[u] # "absent"
               /\ status'[u] = "active" => status[u] = "active" \/ u \in reran'
    BY <1>1, <1>9 DEF Complete, Rerun, TypeOK
  <2> QED BY <2>1, <2>2, AnswersKept DEF Kept
<1>10. ASSUME Tick \/ UNCHANGED vars PROVE Kept(r)
  <2> HIDE DEF Kept
  <2>1. Held(r)' = Held(r) /\ UNCHANGED <<pc, asked, index, status, created, reran>>
    BY <1>10 DEF Tick, vars, Held
  <2> QED BY <2>1, AnswersKept DEF Kept
<1> QED
  BY <1>2, <1>3, <1>4, <1>5, <1>6, <1>7, <1>8, <1>9, <1>10 DEF Next, Submit

\* Whatever others submit, complete or rerun meanwhile, no negative answer of
\* submit_task's look-ups goes stale before its transaction ends.
THEOREM AnswersStayRight == Spec => []AnswersHold
<1>1. Init => AnswersHold
  BY DEF Init, AnswersHold
<1>2. TypeOK /\ AnswersHold /\ [Next]_vars => AnswersHold'
  BY Inductive DEF IInv
<1> QED BY <1>1, <1>2, TypeCorrect, PTL DEF Spec

\* submit_task creates no task beside one that a policy of it absorbs into.
THEOREM NoDuplicates == Spec => NoDuplicateCreated
<1>1. ASSUME TypeOK, AnswersHold, NEW s \in Submitters, Create(s), NEW i \in DOMAIN Checks[s]
      PROVE  Duplicates(s, i) = {}
  <2>1. pc[s] = "create" /\ index[s] \notin DOMAIN Checks[s]
    BY <1>1 DEF Create, AnswersHold
  <2>2. i \in 1..(index[s] - 1)
    BY <1>1, <2>1, ChecksType DEF TypeOK
  <2> QED BY <1>1, <2>1, <2>2 DEF AnswersHold
<1>2. TypeOK /\ AnswersHold =>
        [\A s \in Submitters : Create(s) => \A i \in DOMAIN Checks[s] : Duplicates(s, i) = {}]_vars
  BY <1>1
<1> QED BY <1>2, TypeCorrect, AnswersStayRight, PTL DEF NoDuplicateCreated

-----------------------------------------------------------------------------
\* Every lock a submission holds has a smaller key than every lock it lacks.
SortedLocks ==
    \A s \in Submitters :
       /\ pc[s] \in {"idle", "done"} => Held(s) = {}
       /\ pc[s] = "lock" => \A h \in Held(s), k \in KeysOf(s) \ Held(s) : h < k

\* A step that leaves a submission's place and locks alone keeps its order.
LEMMA SortedLocksInductive ==
    ASSUME TypeOK, SortedLocks, [Next]_vars, NEW r \in Submitters
    PROVE  /\ pc'[r] \in {"idle", "done"} => Held(r)' = {}
           /\ pc'[r] = "lock" => \A h \in Held(r)', k \in KeysOf(r) \ Held(r)' : h < k
<1> DEFINE Sorted(s) == /\ pc'[s] \in {"idle", "done"} => Held(s)' = {}
                        /\ pc'[s] = "lock" => \A h \in Held(s)', k \in KeysOf(s) \ Held(s)' : h < k
<1>1. ASSUME pc'[r] = pc[r], Held(r)' = Held(r) PROVE Sorted(r)
  BY <1>1 DEF SortedLocks
<1>2. ASSUME NEW s \in Submitters, Begin(s) PROVE Sorted(r)
  <2>1. Held(r)' = Held(r)
    BY <1>2 DEF Begin, Held
  <2>2. CASE r = s
    BY <1>2, <2>1, <2>2 DEF Begin, Goto, SortedLocks, TypeOK
  <2>3. CASE r # s
    BY <1>1, <1>2, <2>1, <2>3 DEF Begin, Goto, TypeOK
  <2> QED BY <2>2, <2>3
<1>3. ASSUME NEW s \in Submitters, LockKey(s) PROVE Sorted(r)
  <2>1. PICK k \in KeysOf(s) \ Held(s) :
          NextKey(s, k) /\ KeyFree(k) /\ lock' = [lock EXCEPT ![k] = s]
    BY <1>3 DEF LockKey
  <2>2. pc' = pc /\ pc[s] = "lock"
    BY <1>3 DEF LockKey
  <2>3. k \in Keys /\ KeysOf(s) \subseteq Int
    BY ChecksType
  <2>4. CASE r = s
    <3>1. Held(s)' = Held(s) \cup {k}
      BY <2>1, <2>3 DEF Held, TypeOK
    <3>2. \A h \in Held(s), j \in KeysOf(s) \ Held(s) : h < j
      BY <2>2 DEF SortedLocks
    <3>3. \A j \in KeysOf(s) \ Held(s)' : k < j
      BY <2>1, <2>3, <3>1 DEF NextKey
    <3> QED BY <2>2, <2>4, <3>1, <3>2, <3>3
  <2>5. CASE r # s
    <3>1. Held(r)' = Held(r)
      BY <2>1, <2>5, SubmissionAssumption DEF Held, TypeOK, KeyFree
    <3> QED BY <1>1, <2>2, <3>1
  <2> QED BY <2>4, <2>5
<1>4. ASSUME NEW s \in Submitters, AllLocked(s) \/ LookUp(s) \/ NoMatch(s) PROVE Sorted(r)
  <2>1. Held(r)' = Held(r)
    BY <1>4 DEF AllLocked, LookUp, NoMatch, Held
  <2>2. CASE r = s
    <3>1. pc'[s] \in {"check", "merge", "create"}
      BY <1>4 DEF AllLocked, LookUp, NoMatch, Goto, TypeOK
    <3> QED BY <2>2, <3>1
  <2>3. CASE r # s
    <3>1. pc'[r] = pc[r]
      BY <1>4, <2>3 DEF AllLocked, LookUp, NoMatch, Goto, TypeOK
    <3> QED BY <1>1, <2>1, <3>1
  <2> QED BY <2>2, <2>3
<1>5. ASSUME NEW s \in Submitters, Merge(s) \/ Create(s) \/ Crash(s) PROVE Sorted(r)
  <2>1. /\ EndTransaction(s)
        /\ \E p \in {"idle", "done"} : pc' = [pc EXCEPT ![s] = p]
    BY <1>5 DEF Merge, Create, Crash, Goto
  <2>2. CASE r = s
    <3>1. Held(s)' = {}
      BY <2>1, SubmissionAssumption DEF EndTransaction, Held, TypeOK
    <3> QED BY <2>1, <2>2, <3>1 DEF TypeOK
  <2>3. CASE r # s
    <3>1. Held(r)' = Held(r)
      BY <2>1, <2>3, SubmissionAssumption DEF EndTransaction, Held, TypeOK
    <3> QED BY <1>1, <2>1, <2>3, <3>1 DEF TypeOK
  <2> QED BY <2>2, <2>3
<1>6. ASSUME UNCHANGED <<pc, lock>> PROVE Sorted(r)
  BY <1>1, <1>6 DEF Held
<1>7. QED
  BY <1>2, <1>3, <1>4, <1>5, <1>6 DEF Next, Submit, Complete, Rerun, Tick, vars

\* A finite set in which each waits for a lock of another would have a member
\* that waits for the greatest key; but who holds that lock waits for a greater
\* one still.
LEMMA SortedNoCycle ==
    ASSUME TypeOK, SortedLocks, NEW Group \in SUBSET Submitters, Group # {}
    PROVE  \E s \in Group : ~WaitsFor(s, Group)
<1> SUFFICES ASSUME \A s \in Group : WaitsFor(s, Group) PROVE FALSE
  OBVIOUS
<1> DEFINE Wanted(s, k) == NextKey(s, k) /\ lock[k] \in Group
           key == [s \in Group |-> CHOOSE k \in KeysOf(s) : Wanted(s, k)]
           Above(s) == {t \in Group : key[s] < key[t]}
<1>1. ASSUME NEW s \in Group
      PROVE  /\ pc[s] = "lock" /\ key[s] \in KeysOf(s) /\ KeysOf(s) \subseteq Int
             /\ NextKey(s, key[s]) /\ lock[key[s]] \in Group
  <2>1. pc[s] = "lock" /\ \E k \in KeysOf(s) : Wanted(s, k)
    BY <1>1 DEF WaitsFor
  <2>2. KeysOf(s) \subseteq Int
    BY ChecksType
  <2> QED BY <2>1, <2>2
<1>2. ASSUME NEW s \in Group
      PROVE  \E t \in Group : key[s] < key[t]
  <2> DEFINE t == lock[key[s]]
  <2>1. t \in Group /\ key[s] \in Keys
    BY <1>1, ChecksType
  <2>2. key[s] \in Held(t)
    BY <2>1 DEF Held
  <2>3. key[t] \in KeysOf(t) \ Held(t)
    BY <1>1, <2>1 DEF NextKey
  <2>4. pc[t] = "lock"
    BY <1>1, <2>1
  <2>5. key[s] < key[t]
    BY <2>1, <2>2, <2>3, <2>4 DEF SortedLocks
  <2> QED BY <2>1, <2>5
<1> HIDE DEF key
<1>3. IsFiniteSet(Group)
  BY FS_Subset, SubmissionAssumption
<1>4. IsWellFoundedOn(StrictSubsetOrdering(Group), SUBSET Group)
  BY <1>3, FS_StrictSubsetOrderingWellFounded, FS_FiniteSubsetsOfFinite
<1> DEFINE T == {Above(s) : s \in Group}
<1>5. T \subseteq SUBSET Group /\ T # {}
  OBVIOUS
<1>6. \E x \in T : \A y \in T : ~ (<<y, x>> \in StrictSubsetOrdering(Group))
  <2> HIDE DEF T
  <2> QED BY <1>4, <1>5, WFMin
<1>7. PICK s \in Group : \A u \in Group : ~ (<<Above(u), Above(s)>> \in StrictSubsetOrdering(Group))
  BY <1>6
<1>8. PICK u \in Group : key[s] < key[u]
  BY <1>2
<1>9. Above(u) \subseteq Above(s) /\ u \in Above(s) /\ u \notin Above(u)
  BY <1>1, <1>8
<1>10. <<Above(u), Above(s)>> \in StrictSubsetOrdering(Group)
  BY <1>9 DEF StrictSubsetOrdering
<1> QED BY <1>7, <1>10

\* The sorted advisory locks of submit_task: no set of submissions blocks
\* itself, for any number of submissions, keys and orders of policies.
THEOREM NoDeadlock == Spec => []NoLockCycle
<1>1. Init => SortedLocks
  BY SubmissionAssumption DEF Init, SortedLocks, Held
<1>2. TypeOK /\ SortedLocks /\ [Next]_vars => SortedLocks'
  BY SortedLocksInductive DEF SortedLocks
<1>3. TypeOK /\ SortedLocks => NoLockCycle
  BY SortedNoCycle DEF NoLockCycle
<1> QED BY <1>1, <1>2, <1>3, TypeCorrect, PTL DEF Spec
-----------------------------------------------------------------------------
\* What the occurrence counts rest on is inductive: the task that a submission
\* absorbs into cannot change under it but by one that shares no key with it.
LEMMA MergesInductive ==
    ASSUME TypeOK, AnswersHold, MergesSafe, MergesCounted, [Next]_vars
    PROVE  MergesSafe' /\ MergesCounted'
<1> USE SubmissionAssumption DEF table, local, Tasks
<1>1. ASSUME NEW s \in Submitters, Begin(s) \/ AllLocked(s) \/ NoMatch(s) \/ Crash(s)
      PROVE  MergesSafe' /\ MergesCounted'
  <2>1. UNCHANGED <<status, count, merged, found, read>> /\ pc[s] # "done"
    BY <1>1 DEF Begin, AllLocked, NoMatch, Crash
  <2>2. /\ pc'[s] \notin {"merge", "done"}
        /\ \A r \in Submitters : r # s => pc'[r] = pc[r]
    BY <1>1 DEF Begin, AllLocked, NoMatch, Crash, Goto, TypeOK
  <2>3. MergesSafe'
    BY <2>1, <2>2 DEF MergesSafe, TypeOK
  <2> QED BY <2>1, <2>3 DEF MergesCounted
<1>2. ASSUME NEW s \in Submitters, LookUp(s) PROVE MergesSafe' /\ MergesCounted'
  <2>1. UNCHANGED <<status, count, merged>> /\ pc[s] = "check"
    BY <1>2 DEF LookUp
  <2>2. CASE Matches(s, index[s]) = {}
    <3>1. UNCHANGED <<found, read, pc>>
      BY <1>2, <2>2 DEF LookUp
    <3> QED BY <2>1, <3>1 DEF MergesSafe, MergesCounted
  <2>3. CASE Matches(s, index[s]) # {}
    <3>1. PICK t \in Matches(s, index[s]) :
            /\ found' = [found EXCEPT ![s] = t]
            /\ read' = [read EXCEPT ![s] = count[t]]
            /\ pc' = [pc EXCEPT ![s] = "merge"]
      BY <1>2, <2>3 DEF LookUp, Goto
    <3>2. t \in Submitters /\ status[t] # "absent"
      BY DEF Matches
    <3>3. ASSUME NEW r \in Submitters, pc'[r] = "merge"
          PROVE  /\ found'[r] \in Tasks /\ status'[found'[r]] # "absent"
                 /\ (\A q \in merged'[found'[r]] : Share(q, r)) => read'[r] = count'[found'[r]]
      <4>1. CASE r = s
        BY <2>1, <3>1, <3>2, <4>1 DEF TypeOK
      <4>2. CASE r # s
        BY <2>1, <3>1, <3>3, <4>2 DEF TypeOK, MergesSafe
      <4> QED BY <4>1, <4>2
    <3>4. \A r \in Submitters : pc[r] = "done" => pc'[r] = "done"
      BY <2>1, <3>1 DEF TypeOK
    <3>5. MergesSafe'
      BY <2>1, <3>3, <3>4 DEF MergesSafe, TypeOK
    <3> QED BY <2>1, <3>5 DEF MergesCounted
  <2> QED BY <2>2, <2>3
<1>3. ASSUME NEW s \in Submitters, Merge(s) PROVE MergesSafe' /\ MergesCounted'
  <2> DEFINE t == found[s]
  <2>1. /\ pc[s] = "merge" /\ t \in Submitters /\ status[t] # "absent"
        /\ (\A r \in merged[t] : Share(r, s)) => read[s] = count[t]
    BY <1>3 DEF Merge, MergesSafe
  <2>2. /\ count' = [count EXCEPT ![t] = read[s] + 1]
        /\ merged' = [merged EXCEPT ![t] = @ \cup {s}]
        /\ pc' = [pc EXCEPT ![s] = "done"]
        /\ UNCHANGED <<status, found, read>>
    BY <1>3 DEF Merge, Goto
  <2> HIDE DEF t
  <2>3. s \notin merged[t]
    BY <2>1 DEF MergesSafe
  <2>4. ASSUME NEW r \in Submitters, pc'[r] = "merge"
        PROVE  /\ found'[r] \in Tasks /\ status'[found'[r]] # "absent"
               /\ (\A q \in merged'[found'[r]] : Share(q, r)) => read'[r] = count'[found'[r]]
    <3>1. r # s /\ pc[r] = "merge"
      BY <2>2, <2>4 DEF TypeOK
    <3>2. ~ Share(s, r)
      \* both hold the locks of all their keys
      <4>1. KeysOf(r) \subseteq Held(r) /\ KeysOf(s) \subseteq Held(s)
        BY <2>1, <3>1 DEF AnswersHold
      <4>2. Held(r) \cap Held(s) = {}
        BY <3>1 DEF Held
      <4> QED BY <4>1, <4>2 DEF Share
    <3>3. CASE found[r] = t
      BY <2>1, <2>2, <3>1, <3>2, <3>3 DEF TypeOK, MergesSafe
    <3>4. CASE found[r] # t
      BY <2>2, <3>1, <3>4 DEF TypeOK, MergesSafe
    <3> QED BY <3>3, <3>4
  <2>5. ASSUME NEW u \in Tasks
        PROVE  /\ status'[u] # "absent" => pc'[u] = "done"
               /\ status'[u] = "absent" => merged'[u] = {}
               /\ \A r \in merged'[u] : pc'[r] = "done"
    <3>1. \A r \in Submitters : pc[r] = "done" => pc'[r] = "done"
      BY <2>2 DEF TypeOK
    <3>2. pc'[s] = "done" /\ merged[u] \subseteq Submitters
      BY <2>2 DEF TypeOK
    <3>3. CASE u = t
      BY <2>1, <2>2, <3>1, <3>2, <3>3 DEF TypeOK, MergesSafe
    <3>4. CASE u # t
      BY <2>2, <3>1, <3>2, <3>4 DEF TypeOK, MergesSafe
    <3> QED BY <3>3, <3>4
  <2>6. ASSUME NEW u \in Tasks, status'[u] # "absent", \A r, q \in merged'[u] : Share(r, q)
        PROVE  count'[u] = 1 + Cardinality(merged'[u])
    <3>1. CASE u = t
      <4>1. merged'[u] = merged[t] \cup {s} /\ count'[u] = read[s] + 1
        BY <2>1, <2>2, <3>1 DEF TypeOK
      <4>2. read[s] = count[t] /\ count[t] = 1 + Cardinality(merged[t])
        BY <2>1, <2>6, <4>1 DEF MergesCounted
      <4>3. IsFiniteSet(merged[t])
        BY <2>1, FS_Subset DEF TypeOK
      <4>4. Cardinality(merged'[u]) = Cardinality(merged[t]) + 1 /\ Cardinality(merged[t]) \in Nat
        BY <2>3, <4>1, <4>3, FS_AddElement, FS_CardinalityType
      <4> QED BY <4>1, <4>2, <4>4
    <3>2. CASE u # t
      <4>1. merged'[u] = merged[u] /\ count'[u] = count[u]
        BY <2>2, <3>2 DEF TypeOK
      <4> QED BY <2>2, <2>6, <4>1 DEF MergesCounted
    <3> QED BY <3>1, <3>2
  <2> QED BY <2>4, <2>5, <2>6 DEF MergesSafe, MergesCounted
<1>4. ASSUME NEW s \in Submitters, Create(s) PROVE MergesSafe' /\ MergesCounted'
  <2>1. pc[s] = "create" /\ status[s] = "absent" /\ merged[s] = {}
    BY <1>4 DEF Create, MergesSafe
  <2>2. /\ status' = [status EXCEPT ![s] = "active"] /\ count' = [count EXCEPT ![s] = 1]
        /\ pc' = [pc EXCEPT ![s] = "done"] /\ UNCHANGED <<merged, found, read>>
    BY <1>4 DEF Create, Goto
  <2>3. ASSUME NEW r \in Submitters, pc'[r] = "merge"
        PROVE  /\ found'[r] \in Tasks /\ status'[found'[r]] # "absent"
               /\ (\A q \in merged'[found'[r]] : Share(q, r)) => read'[r] = count'[found'[r]]
    <3>1. pc[r] = "merge" /\ found[r] # s
      BY <2>1, <2>2, <2>3 DEF TypeOK, MergesSafe
    <3> QED BY <2>2, <3>1 DEF TypeOK, MergesSafe
  <2>4. MergesSafe'
    BY <2>1, <2>2, <2>3 DEF TypeOK, MergesSafe
  <2>5. ASSUME NEW u \in Tasks, status'[u] # "absent", \A r, q \in merged'[u] : Share(r, q)
        PROVE  count'[u] = 1 + Cardinality(merged'[u])
    <3>1. CASE u = s
      <4>1. merged'[u] = {} /\ count'[u] = 1
        BY <2>1, <2>2, <3>1 DEF TypeOK
      <4> QED BY <4>1, FS_EmptySet
    <3>2. CASE u # s
      BY <2>2, <2>5, <3>2 DEF TypeOK, MergesCounted
    <3> QED BY <3>1, <3>2
  <2> QED BY <2>4, <2>5 DEF MergesCounted
<1>5. ASSUME NEW u \in Tasks, Complete(u) \/ Rerun(u) PROVE MergesSafe' /\ MergesCounted'
  <2>1. UNCHANGED <<pc, count, merged, found, read>>
    BY <1>5 DEF Complete, Rerun
  <2>2. \A v \in Tasks : status'[v] = "absent" <=> status[v] = "absent"
    BY <1>5 DEF Complete, Rerun, TypeOK
  <2> QED BY <2>1, <2>2 DEF MergesSafe, MergesCounted
<1>6. ASSUME UNCHANGED <<status, count, merged, pc, found, read>> PROVE MergesSafe' /\ MergesCounted'
  BY <1>6 DEF MergesSafe, MergesCounted
<1> QED
  BY <1>1, <1>2, <1>3, <1>4, <1>5, <1>6 DEF Next, Submit, LockKey, Tick, vars

\* No occurrence of an alert is lost in the metadata of the task that absorbed
\* it, as long as its duplicates were found by policies that share a key.
THEOREM OccurrencesCounted == Spec => []MergesCounted
<1>1. Init => MergesSafe /\ MergesCounted
  BY DEF Init, MergesSafe, MergesCounted, Tasks
<1>2. TypeOK /\ AnswersHold /\ MergesSafe /\ MergesCounted /\ [Next]_vars
        => MergesSafe' /\ MergesCounted'
  BY MergesInductive
<1> QED BY <1>1, <1>2, TypeCorrect, AnswersStayRight, PTL DEF Spec

-----------------------------------------------------------------------------
(* The ServiceNow connector.                                               *)

\* The first record of a reply.
LEMMA FirstOfBatch ==
    ASSUME N!TypeOK, s6 # <<>>
    PROVE  Head(s6) \in Records /\ Tail(s6) \in Seq(Records)
BY DEF N!TypeOK

LEMMA PollInit == N!Init => N!PollInv
BY DEF N!Init, N!PollInv, N!TypeOK, N!PolledOnce, N!SkippedWasSubmitted, N!SubmittedOnce

\* A step that leaves what was seen and submitted alone.
LEMMA PollQuiet ==
    ASSUME N!PollInv, s1' \in Seq(Records), s6' \in Seq(Records), UNCHANGED <<s4, s9, s10>>,
           s5' # "submit", s5 # "submit"
    PROVE  N!PollInv'
BY DEF N!PollInv, N!TypeOK, N!PolledOnce, N!SkippedWasSubmitted, N!SubmittedOnce

LEMMA PollForgets ==
    ASSUME N!PollInv, s6' \in Seq(Records), UNCHANGED s1, N!Forget, s5' # "submit"
    PROVE  N!PollInv'
BY DEF N!PollInv, N!TypeOK, N!PolledOnce, N!SkippedWasSubmitted, N!SubmittedOnce, N!Forget, N!Uncounted

LEMMA PollStep == N!PollInv /\ N!Next => N!PollInv'
<1> SUFFICES ASSUME N!PollInv, N!Next PROVE N!PollInv'
  OBVIOUS
<1>0. N!TypeOK
  BY DEF N!PollInv
<1>t. s1 \in Seq(Records) /\ s6 \in Seq(Records)
  BY <1>0 DEF N!TypeOK
<1>1. ASSUME s1' \in Seq(Records), UNCHANGED <<s4, s5, s6, s9, s10>> PROVE N!PollInv'
  BY <1>1 DEF N!PollInv, N!TypeOK, N!PolledOnce, N!SkippedWasSubmitted, N!SubmittedOnce
<1>2. CASE \E r \in Records : N!Appear(r)
  <2>1. PICK r \in Records : N!Appear(r)
    BY <1>2
  <2>2. s1' \in Seq(Records)
    BY <1>t, <2>1 DEF N!Appear
  <2> QED BY <1>1, <2>1, <2>2 DEF N!Appear
<1>3. CASE N!Disappear
  <2>1. s1' \in Seq(Records)
    BY <1>t, <1>3 DEF N!Disappear
  <2> QED BY <1>1, <1>3, <2>1 DEF N!Disappear
<1>4. CASE N!SetPaused \/ N!Tick
  BY <1>1, <1>4, <1>t DEF N!SetPaused, N!Tick
<1>5. CASE N!Start \/ N!Reload
  BY <1>5, <1>t, PollQuiet DEF N!Start, N!Reload
<1>6. CASE N!Pass
  <2>1. /\ s5 = "loop" /\ s5' # "submit" /\ UNCHANGED <<s1, s6>>
        /\ N!Forget \/ UNCHANGED <<s4, s9, s10>>
    BY <1>6 DEF N!Pass, N!Identify
  <2> QED BY <1>t, <2>1, PollQuiet, PollForgets
<1>7. CASE N!Poll
  <2>1. /\ s5 = "poll" /\ s5' # "submit" /\ UNCHANGED <<s1, s4, s9, s10>>
        /\ s6' = s6 \/ s6' = SubSeq(s1, 1, IF Len(s1) < PageLimit THEN Len(s1) ELSE PageLimit)
    BY <1>7 DEF N!Poll
  <2>2. PICK n \in Nat : n <= Len(s1) /\ n = IF Len(s1) < PageLimit THEN Len(s1) ELSE PageLimit
    BY <1>t, Assumptions DEF N!ServiceNowAssumption
  <2>3. SubSeq(s1, 1, n) \in Seq(Records)
    BY <1>t, <2>2, SubSeqProperties
  <2> QED BY <1>t, <2>1, <2>2, <2>3, PollQuiet
<1>8. CASE N!Skip
  BY <1>0, <1>8, <1>t, FirstOfBatch, PollQuiet DEF N!Skip
<1>9. CASE N!Remember
  <2>1. Head(s6) \in Records
    BY <1>0, <1>9, FirstOfBatch DEF N!Remember
  <2> QED BY <1>9, <2>1
          DEF N!Remember, N!PollInv, N!TypeOK, N!PolledOnce, N!SkippedWasSubmitted, N!SubmittedOnce
<1>10. CASE N!Submit
  <2> DEFINE r == Head(s6)
  <2>1. r \in Records /\ s6 # <<>> /\ r \in s4 /\ s9[r] = 0 /\ Tail(s6) \in Seq(Records)
    BY <1>0, <1>10, FirstOfBatch DEF N!Submit, N!PollInv
  <2>2. /\ s5' # "submit" /\ s6' \in {<<>>, Tail(s6)} /\ UNCHANGED <<s1, s4>>
        /\ s10' = s10 \/ s10' = s10 \cup {r}
        /\ N!Submitted(r) \/ (UNCHANGED s9 /\ r \in s10')
    BY <1>10 DEF N!Submit
  <2> HIDE DEF r
  <2>3. <<>> \in Seq(Records)
    OBVIOUS
  <2>4. /\ \A x \in Records : x # r => s9'[x] = s9[x]
        /\ s9'[r] \in {0, 1} /\ (s9'[r] = 1 \/ r \in s10')
        /\ s9' \in [Records -> Nat]
    <3>1. s9 \in [Records -> Nat]
      BY <1>0 DEF N!TypeOK
    <3>2. CASE N!Submitted(r)
      BY <2>1, <3>1, <3>2 DEF N!Submitted
    <3>3. CASE UNCHANGED s9 /\ r \in s10'
      BY <2>1, <3>1, <3>3
    <3> QED BY <2>2, <3>2, <3>3
  <2>5. \A x \in s4 : s9[x] > 0 \/ x \in s10 \/ x = r
    BY <1>10 DEF N!PollInv, N!PolledOnce, N!SkippedWasSubmitted, r
  <2>6. N!TypeOK'
    BY <1>0, <2>1, <2>2, <2>3, <2>4 DEF N!TypeOK
  <2>7. N!SkippedWasSubmitted'
    <3>1. s4 \subseteq Records /\ s4' = s4 /\ s10 \subseteq s10'
      BY <1>0, <2>2 DEF N!TypeOK
    <3>2. ASSUME NEW x \in s4 PROVE s9'[x] > 0 \/ x \in s10'
      <4>1. CASE x = r
        BY <2>4, <4>1
      <4>2. CASE x # r
        BY <2>4, <2>5, <3>1, <4>2
      <4> QED BY <4>1, <4>2
    <3> QED BY <3>1, <3>2 DEF N!SkippedWasSubmitted
  <2>8. N!SubmittedOnce'
    BY <2>4 DEF N!PollInv, N!PolledOnce, N!SubmittedOnce
  <2>9. \A x \in Records \ s4' : s9'[x] = 0
    BY <2>1, <2>2, <2>4 DEF N!PollInv
  <2> QED BY <2>2, <2>6, <2>7, <2>8, <2>9 DEF N!PollInv, N!PolledOnce
<1>11. CASE N!PassDone
  <2>1. s5 = "batch" /\ s5' = "loop" /\ UNCHANGED <<s1, s6>> /\ (N!Forget \/ UNCHANGED <<s4, s9, s10>>)
    BY <1>11 DEF N!PassDone
  <2> QED BY <1>t, <2>1, PollQuiet, PollForgets
<1>12. CASE N!Exit
  <2>1. s6' = <<>> /\ s5' = "down" /\ N!Forget /\ UNCHANGED s1
    BY <1>12 DEF N!Exit
  <2>2. s6' \in Seq(Records)
    BY <2>1
  <2> QED BY <2>1, <2>2, PollForgets
<1> QED BY <1>2, <1>3, <1>4, <1>5, <1>6, <1>7, <1>8, <1>9, <1>10, <1>11, <1>12 DEF N!Next

-----------------------------------------------------------------------------
(* The PubSub connector.                                                   *)

LEMMA ConnectorInit == P!Init => P!ConnectorInv
BY Assumptions DEF P!PubSubAssumption, P!Init, P!ConnectorInv, P!CallInv, P!RevisionInv, P!AckedHandled, P!Free

\* Neither the mail nor what the callbacks hold changes.
LEMMA MailKeeps ==
    ASSUME P!CallInv, UNCHANGED <<s11, s12, s13, s14>>
    PROVE  P!CallInv'
BY DEF P!CallInv, P!AckedHandled

\* The files, the configuration and what is known of them.
LEMMA ProcessKeeps ==
    ASSUME P!RevisionInv, UNCHANGED <<s2, s3, s4, s6, s7, s8, s9, s10>>
    PROVE  P!RevisionInv'
BY DEF P!RevisionInv, P!Follows

\* The active revision is none or the last.
LEMMA Active ==
    P!ActiveRevision \in {None, s4} /\ None \notin Nat /\ None \notin Versions
BY Assumptions DEF P!ActiveRevision, P!PubSubAssumption

LEMMA ActivationKeeps ==
    ASSUME P!RevisionInv, P!BeginActivation \/ (\E v \in Versions : P!MoveFile(v)) \/ P!Activate
                            \/ P!FailActivation \/ P!SetPaused
    PROVE  P!RevisionInv'
<1>1. CASE P!BeginActivation
  BY <1>1 DEF P!BeginActivation, P!process, P!RevisionInv, P!Follows
<1>2. CASE \E v \in Versions : P!MoveFile(v)
  BY <1>2 DEF P!MoveFile, P!process, P!RevisionInv, P!Follows
<1>3. CASE P!Activate
  <2>1. /\ s4 \in Nat /\ s4' = s4 + 1 /\ UNCHANGED <<s3, s6, s7, s8, s9, s10>>
        /\ \A known \in {s8, s9, s10} : known = None \/ known \in 0..s4
    BY <1>3 DEF P!Activate, P!process, P!RevisionInv
  <2>2. \A known \in {s8, s9, s10} : (known = None \/ known \in 0..s4') /\ known # s4'
    BY <2>1, Active
  <2> QED BY <2>1, <2>2 DEF P!RevisionInv, P!Follows
<1>4. CASE P!FailActivation
  BY <1>4 DEF P!FailActivation, P!process, P!RevisionInv, P!Follows
<1>5. CASE P!SetPaused
  BY <1>5, ProcessKeeps DEF P!SetPaused, P!process
<1> QED BY <1>1, <1>2, <1>3, <1>4, <1>5

LEMMA CoroutineKeeps ==
    ASSUME P!RevisionInv, P!Start \/ P!LoopRead \/ P!Reload \/ P!Subscribe \/ P!ReadyPaused
                            \/ P!WaitPaused \/ P!WaitRead \/ P!Compare \/ P!Exit
    PROVE  P!RevisionInv'
<1>0. /\ s3 \in Versions /\ s7 \in Versions /\ s4 \in Nat
      /\ \A known \in {s8, s9, s10} : known = None \/ known \in 0..s4
      /\ P!ActiveRevision = None \/ P!ActiveRevision \in 0..s4
  BY Active DEF P!RevisionInv
<1>1. CASE P!Start
  BY <1>0, <1>1 DEF P!Start, P!world, P!RevisionInv, P!Follows
<1>2. CASE P!LoopRead
  BY <1>0, <1>2 DEF P!LoopRead, P!world, P!RevisionInv, P!Follows
<1>3. CASE P!Reload
  BY <1>0, <1>3 DEF P!Reload, P!world, P!RevisionInv, P!Follows
<1>4. CASE P!Subscribe \/ P!ReadyPaused
  BY <1>0, <1>4 DEF P!Subscribe, P!ReadyPaused, P!world, P!RevisionInv, P!Follows
<1>5. CASE P!WaitPaused \/ P!WaitRead
  BY <1>0, <1>5 DEF P!WaitPaused, P!WaitRead, P!Unsubscribe, P!world, P!RevisionInv, P!Follows
<1>6. CASE P!Compare
  BY <1>0, <1>6 DEF P!Compare, P!Unsubscribe, P!world, P!RevisionInv, P!Follows
<1>7. CASE P!Exit
  BY <1>0, <1>7 DEF P!Exit, P!world, P!RevisionInv, P!Follows
<1> QED BY <1>1, <1>2, <1>3, <1>4, <1>5, <1>6, <1>7

\* What a callback has in hand.
LEMMA InHand ==
    ASSUME P!CallInv, NEW c \in Callbacks
    PROVE  /\ s11[c] \in [message : Messages \cup {None}, config : Versions \cup {None},
                          stage : {"free", "begun", "passed", "active", "created"}, open : BOOLEAN]
           /\ s11[c].stage # "free" => s11[c].config \in Versions
           /\ s11[c].stage = "created" => s11[c].message \in s14
BY DEF P!CallInv

\* A callback goes on, or is over; what it has acknowledged has been dealt with.
LEMMA CallbackKeeps ==
    ASSUME P!CallInv, NEW c \in Callbacks, NEW r, s11' = [s11 EXCEPT ![c] = r],
           r \in [message : Messages \cup {None}, config : Versions \cup {None},
                  stage : {"free", "begun", "passed", "active", "created"}, open : BOOLEAN],
           r.stage # "free" => r.config \in Versions,
           s14 \subseteq s14', r.stage = "created" => r.message \in s14',
           s13 \subseteq s13',
           \A m \in s12' : m \in s12 \/ m \in s14' \/ \E v \in Versions : <<m, v>> \in s13'
    PROVE  P!CallInv'
<1> DEFINE Call == [message : Messages \cup {None}, config : Versions \cup {None},
                    stage : {"free", "begun", "passed", "active", "created"}, open : BOOLEAN]
<1>1. s11 \in [Callbacks -> Call] /\ r \in Call
  BY DEF P!CallInv
<1> HIDE DEF Call
<1>2. s11' \in [Callbacks -> Call] /\ s11'[c] = r /\ \A d \in Callbacks \ {c} : s11'[d] = s11[d]
  BY <1>1
<1>3. ASSUME NEW d \in Callbacks
      PROVE  /\ s11'[d].stage # "free" => s11'[d].config \in Versions
             /\ s11'[d].stage = "created" => s11'[d].message \in s14'
  <2>1. CASE d = c
    BY <1>2, <2>1
  <2>2. CASE d # c
    BY <1>2, <2>2 DEF P!CallInv
  <2> QED BY <2>1, <2>2
<1>4. P!AckedHandled'
  BY DEF P!CallInv, P!AckedHandled
<1> QED BY <1>2, <1>3, <1>4 DEF P!CallInv, Call

LEMMA CallbackSteps ==
    ASSUME P!CallInv, P!RevisionInv, NEW c \in Callbacks,
           (\E m \in Messages : P!Deliver(c, m)) \/ P!Filter(c) \/ P!CheckPaused(c)
             \/ P!CreateTask(c) \/ P!Ack(c)
    PROVE  P!CallInv'
<1> DEFINE Call == [message : Messages \cup {None}, config : Versions \cup {None},
                    stage : {"free", "begun", "passed", "active", "created"}, open : BOOLEAN]
           m == s11[c].message
           v == s11[c].config
<1>0. /\ s11[c] \in Call
      /\ s11[c].stage # "free" => v \in Versions
      /\ s11[c].stage = "created" => m \in s14
  BY InHand
<1>f. P!Free \in Call /\ P!Free.stage = "free"
  BY DEF P!Free
<1>g. \A stage \in {"passed", "active", "created"} :
        LET r == [s11[c] EXCEPT !.stage = stage]
        IN r \in Call /\ r.stage = stage /\ r.config = v /\ r.message = m
  BY <1>0
<1>1. ASSUME NEW n \in Messages, P!Deliver(c, n) PROVE P!CallInv'
  <2> DEFINE r == [message |-> n, config |-> s7, stage |-> "begun", open |-> TRUE]
  <2>1. s7 \in Versions
    BY DEF P!RevisionInv
  <2>2. r \in Call /\ r.stage = "begun" /\ r.config \in Versions
    BY <2>1
  <2>3. s11' = [s11 EXCEPT ![c] = r] /\ UNCHANGED <<s12, s13, s14>>
    BY <1>1 DEF P!Deliver
  <2> HIDE DEF r
  <2> QED BY <2>2, <2>3, CallbackKeeps
<1>2. CASE P!Filter(c)
  <2>1. s11[c].stage = "begun" /\ UNCHANGED s14
    BY <1>2 DEF P!Filter
  <2>2. CASE m \in Passes[v]
    <3> DEFINE r == [s11[c] EXCEPT !.stage = "passed"]
    <3>1. s11' = [s11 EXCEPT ![c] = r] /\ UNCHANGED <<s12, s13>>
      BY <1>2, <2>2 DEF P!Filter
    <3>2. r \in Call /\ r.stage = "passed" /\ r.config = v
      BY <1>g
    <3> HIDE DEF r
    <3> QED BY <1>0, <2>1, <3>1, <3>2, CallbackKeeps
  <2>3. CASE m \notin Passes[v]
    <3>1. /\ s11' = [s11 EXCEPT ![c] = P!Free] /\ s13' = s13 \cup {<<m, v>>}
          /\ s12' = s12 \cup {m} \/ s12' = s12
      BY <1>2, <2>3 DEF P!Filter, P!Acknowledge
    <3>2. v \in Versions
      BY <1>0, <2>1
    <3> QED BY <1>f, <2>1, <3>1, <3>2, CallbackKeeps
  <2> QED BY <2>2, <2>3
<1>3. CASE P!CheckPaused(c)
  <2>1. s11[c].stage = "passed" /\ UNCHANGED <<s12, s13, s14>>
    BY <1>3 DEF P!CheckPaused, P!Nack
  <2>2. s11' = [s11 EXCEPT ![c] = P!Free] \/ s11' = [s11 EXCEPT ![c] = [s11[c] EXCEPT !.stage = "active"]]
    BY <1>3 DEF P!CheckPaused, P!Nack
  <2>3. CASE s11' = [s11 EXCEPT ![c] = P!Free]
    BY <1>f, <2>1, <2>3, CallbackKeeps
  <2>4. CASE s11' = [s11 EXCEPT ![c] = [s11[c] EXCEPT !.stage = "active"]]
    <3> DEFINE r == [s11[c] EXCEPT !.stage = "active"]
    <3>1. r \in Call /\ r.stage = "active" /\ r.config = v /\ s11' = [s11 EXCEPT ![c] = r]
      BY <1>g, <2>4
    <3> HIDE DEF r
    <3> QED BY <1>0, <2>1, <3>1, CallbackKeeps
  <2> QED BY <2>2, <2>3, <2>4
<1>4. CASE P!CreateTask(c)
  <2>1. s11[c].stage = "active" /\ UNCHANGED <<s12, s13>> /\ (s14' = s14 \/ s14' = s14 \cup {m})
    BY <1>4 DEF P!CreateTask, P!Nack
  <2>2. \/ s11' = [s11 EXCEPT ![c] = P!Free]
        \/ s11' = [s11 EXCEPT ![c] = [s11[c] EXCEPT !.stage = "created"]] /\ s14' = s14 \cup {m}
    BY <1>4 DEF P!CreateTask, P!Nack
  <2>3. CASE s11' = [s11 EXCEPT ![c] = P!Free]
    BY <1>f, <2>1, <2>3, CallbackKeeps
  <2>4. CASE s11' = [s11 EXCEPT ![c] = [s11[c] EXCEPT !.stage = "created"]] /\ s14' = s14 \cup {m}
    <3> DEFINE r == [s11[c] EXCEPT !.stage = "created"]
    <3>1. r \in Call /\ r.stage = "created" /\ r.config = v /\ r.message = m /\ s11' = [s11 EXCEPT ![c] = r]
      BY <1>g, <2>4
    <3> HIDE DEF r
    <3> QED BY <1>0, <2>1, <2>4, <3>1, CallbackKeeps
  <2> QED BY <2>2, <2>3, <2>4
<1>5. CASE P!Ack(c)
  <2>1. /\ s11[c].stage = "created" /\ UNCHANGED <<s13, s14>> /\ s11' = [s11 EXCEPT ![c] = P!Free]
        /\ s12' = s12 \cup {m} \/ s12' = s12
    BY <1>5 DEF P!Ack, P!Acknowledge
  <2> QED BY <1>0, <1>f, <2>1, CallbackKeeps
<1> QED BY <1>1, <1>2, <1>3, <1>4, <1>5

\* The subscription ends, and its callbacks go on by themselves; or the process ends.
LEMMA ClosingKeeps ==
    ASSUME P!CallInv, UNCHANGED <<s12, s13, s14>>,
           s11' = P!Closed \/ s11' = [c \in Callbacks |-> P!Free]
    PROVE  P!CallInv'
<1> DEFINE Call == [message : Messages \cup {None}, config : Versions \cup {None},
                    stage : {"free", "begun", "passed", "active", "created"}, open : BOOLEAN]
<1>1. P!AckedHandled'
  BY DEF P!CallInv, P!AckedHandled
<1>2. CASE s11' = P!Closed
  <2>1. ASSUME NEW c \in Callbacks
        PROVE  /\ s11'[c] \in Call /\ s11'[c].stage = s11[c].stage
               /\ s11'[c].message = s11[c].message /\ s11'[c].config = s11[c].config
    <3>1. s11'[c] = [s11[c] EXCEPT !.open = FALSE] /\ s11[c] \in Call
      BY <1>2, InHand DEF P!Closed
    <3> QED BY <3>1
  <2>2. s11' = [c \in Callbacks |-> [s11[c] EXCEPT !.open = FALSE]]
    BY <1>2 DEF P!Closed
  <2> HIDE DEF Call
  <2>3. s11' \in [Callbacks -> Call]
    <3>1. \A c \in Callbacks : [s11[c] EXCEPT !.open = FALSE] \in Call
      BY <2>1, <2>2
    <3> QED BY <2>2, <3>1
  <2>4. \A c \in Callbacks : /\ s11'[c].stage # "free" => s11'[c].config \in Versions
                             /\ s11'[c].stage = "created" => s11'[c].message \in s14'
    BY <2>1, InHand
  <2> QED BY <1>1, <2>3, <2>4 DEF P!CallInv, Call
<1>3. CASE s11' = [c \in Callbacks |-> P!Free]
  <2>1. P!Free \in Call /\ P!Free.stage = "free"
    BY DEF P!Free
  <2> HIDE DEF Call
  <2>2. s11' \in [Callbacks -> Call] /\ \A c \in Callbacks : s11'[c].stage = "free"
    BY <1>3, <2>1
  <2> QED BY <1>1, <2>2 DEF P!CallInv, Call
<1> QED BY <1>2, <1>3

LEMMA ConnectorStep == P!ConnectorInv /\ P!Next => P!ConnectorInv'
<1> SUFFICES ASSUME P!ConnectorInv, P!Next PROVE P!ConnectorInv'
  OBVIOUS
<1>0. P!CallInv /\ P!RevisionInv
  BY DEF P!ConnectorInv
<1>1. CASE P!BeginActivation \/ (\E v \in Versions : P!MoveFile(v)) \/ P!Activate
             \/ P!FailActivation \/ P!SetPaused
  <2>1. UNCHANGED <<s11, s12, s13, s14>>
    BY <1>1 DEF P!BeginActivation, P!MoveFile, P!Activate, P!FailActivation, P!SetPaused, P!mail
  <2> QED BY <1>0, <1>1, <2>1, MailKeeps, ActivationKeeps DEF P!ConnectorInv
<1>2. CASE P!Start \/ P!LoopRead \/ P!Reload \/ P!Subscribe \/ P!ReadyPaused
             \/ P!WaitPaused \/ P!WaitRead \/ P!Compare \/ P!Exit
  <2>1. /\ UNCHANGED <<s12, s13, s14>>
        /\ s11' = s11 \/ s11' = P!Closed \/ s11' = [c \in Callbacks |-> P!Free]
    BY <1>2 DEF P!Start, P!LoopRead, P!Reload, P!Subscribe, P!ReadyPaused, P!WaitPaused, P!WaitRead,
                P!Compare, P!Exit, P!Unsubscribe, P!mail
  <2> QED BY <1>0, <1>2, <2>1, MailKeeps, ClosingKeeps, CoroutineKeeps DEF P!ConnectorInv
<1>3. ASSUME NEW c \in Callbacks,
             (\E m \in Messages : P!Deliver(c, m)) \/ P!Filter(c) \/ P!CheckPaused(c)
               \/ P!CreateTask(c) \/ P!Ack(c)
      PROVE  P!ConnectorInv'
  <2>1. UNCHANGED <<s2, s3, s4, s6, s7, s8, s9, s10>>
    BY <1>3 DEF P!Deliver, P!Filter, P!CheckPaused, P!CreateTask, P!Ack, P!world, P!process
  <2> QED BY <1>0, <1>3, <2>1, CallbackSteps, ProcessKeeps DEF P!ConnectorInv
<1> QED BY <1>1, <1>2, <1>3 DEF P!Next

-----------------------------------------------------------------------------
(* The scheduler.                                                          *)

LEMMA NoneIsNoVersion == None \notin Versions /\ Broken \subseteq Versions
BY Assumptions DEF S!SchedulerAssumption

\* The rows, and the jobs of rows.
LEMMA RowsHave ==
    ASSUME NEW row \in S!Row
    PROVE  /\ row = [version |-> row.version, enabled |-> row.enabled]
           /\ row.version \in Versions \cup {None} /\ row.enabled \in BOOLEAN
           /\ row # S!Gone => row.version \in Versions
           /\ S!JobOf(row) \in Versions \cup {None}
           /\ \A on \in BOOLEAN : [row EXCEPT !.enabled = on]
                                    = [version |-> row.version, enabled |-> on]
<1>1. CASE row = S!Gone
  BY <1>1 DEF S!Gone, S!JobOf
<1>2. CASE row \in [version : Versions, enabled : BOOLEAN]
  BY <1>2 DEF S!JobOf
<1> QED BY <1>1, <1>2 DEF S!Row

LEMMA SchedulerInit == S!Init => S!SchedulerInv
<1> SUFFICES ASSUME S!Init PROVE S!SchedulerInv
  OBVIOUS
<1>1. S!Gone \in S!Row
  BY DEF S!Row
<1>2. /\ s5 = [s \in Schedules |-> S!Gone] /\ s8 = [s \in Schedules |-> None] /\ s3 = 0 /\ s12 = {}
      /\ s9 = S!Watching /\ s10 = [q \in Requests |-> S!Idle] /\ s7 = "down"
  BY DEF S!Init
<1>3. s5 \in [Schedules -> S!Row] /\ s8 \in [Schedules -> Versions \cup {None}]
  BY <1>1, <1>2
<1>4. /\ S!Idle \in [stage : {"idle", "committed", "done"}, name : Schedules \cup {None}, row : S!Row]
      /\ S!Idle.stage = "idle"
  BY <1>1 DEF S!Idle
<1>5. /\ s10 \in [Requests -> [stage : {"idle", "committed", "done"}, name : Schedules \cup {None}, row : S!Row]]
      /\ \A q \in Requests : s10[q].stage = "idle"
  BY <1>2, <1>4
<1>6. /\ S!Watching \in [stage : {"idle", "unguarded", "reload", "rows"}, seen : Nat,
                         next : Nat, rows : [Schedules -> S!Row], dirty : SUBSET Schedules]
      /\ S!Watching.stage = "idle" /\ S!Watching.seen = 0 /\ S!Watching.next = 0
  BY <1>1 DEF S!Watching
<1>7. S!TypeOK
  BY <1>2, <1>3, <1>5, <1>6 DEF S!TypeOK
<1>8. S!Pending = {}
  BY <1>5 DEF S!Pending
<1>9. s4 # "provisioning"
  BY DEF S!Init
<1> QED BY <1>2, <1>6, <1>7, <1>8, <1>9 DEF S!SchedulerInv

\* The watcher's record.
LEMMA WatcherHas ==
    ASSUME S!TypeOK
    PROVE  /\ s9.stage \in {"idle", "unguarded", "reload", "rows"} /\ s9.seen \in Nat /\ s9.next \in Nat
           /\ s9.rows \in [Schedules -> S!Row] /\ s9.dirty \subseteq Schedules /\ s3 \in Nat
           /\ s9.seen <= s3 /\ s9.next <= s3
           /\ s9 = [stage |-> s9.stage, seen |-> s9.seen, next |-> s9.next, rows |-> s9.rows, dirty |-> s9.dirty]
           /\ s5 \in [Schedules -> S!Row] /\ s8 \in [Schedules -> Versions \cup {None}]
           /\ s12 \subseteq Schedules
BY DEF S!TypeOK

LEMMA RequestHas ==
    ASSUME S!TypeOK, NEW q \in Requests
    PROVE  /\ s10[q].stage \in {"idle", "committed", "done"} /\ s10[q].name \in Schedules \cup {None}
           /\ s10[q].row \in S!Row
           /\ s10[q].stage = "committed" => s10[q].name \in Schedules /\ s10[q].row # S!Gone
           /\ s10[q].stage = "committed" => s10[q].name \in S!Pending
BY DEF S!TypeOK, S!Pending

\* A new watcher's record keeps the types.
LEMMA WatcherMoves ==
    ASSUME NEW stage \in {"idle", "unguarded", "reload", "rows"}, NEW seen \in Nat, NEW next \in Nat,
           NEW rs \in [Schedules -> S!Row], NEW dirty \in SUBSET Schedules
    PROVE  [stage |-> stage, seen |-> seen, next |-> next, rows |-> rs, dirty |-> dirty]
             \in [stage : {"idle", "unguarded", "reload", "rows"}, seen : Nat,
                  next : Nat, rows : [Schedules -> S!Row], dirty : SUBSET Schedules]
OBVIOUS

\* What the match of a job depends on.
LEMMA MatchesStays ==
    ASSUME NEW s, S!Matches(s), UNCHANGED <<s5, s8, s10>>
    PROVE  S!Matches(s)'
BY DEF S!Matches, S!Pending

\* Steps that leave rows, jobs and requests alone, and what the watcher has read.
LEMMA SchedulerQuiet ==
    ASSUME S!SchedulerInv, UNCHANGED <<s5, s7, s8, s9, s10, s12>>, s3' \in {s3, s3 + 1},
           s4' = "provisioning" => s4 = "provisioning" \/ s3' = s3 + 1
    PROVE  S!SchedulerInv'
<1>1. S!TypeOK /\ s3 \in Nat
  BY DEF S!SchedulerInv, S!TypeOK
<1>2. s9.seen \in Nat /\ s9.next \in Nat /\ s9.seen <= s3 /\ s9.next <= s3
  BY <1>1, WatcherHas
<1>3. S!TypeOK'
  BY <1>1, <1>2 DEF S!TypeOK
<1>4. s9'.seen = s3' => s9.seen = s3
  BY <1>1, <1>2
<1>5. s7' = "up" /\ s9'.seen = s3' => \A s \in Schedules \ s12' : S!Matches(s)'
  BY <1>4, MatchesStays DEF S!SchedulerInv
<1>6. S!Pending' = S!Pending
  BY DEF S!Pending
<1>7. s4' = "provisioning" => s3' > 0
  BY <1>1 DEF S!SchedulerInv
<1> QED BY <1>3, <1>5, <1>6, <1>7 DEF S!SchedulerInv, S!Watching

LEMMA ProvisionKeeps ==
    ASSUME S!SchedulerInv, S!Provision
    PROVE  S!SchedulerInv'
<1>0. S!TypeOK
  BY DEF S!SchedulerInv
<1>1. /\ s5' \in [Schedules -> S!Row] /\ UNCHANGED <<s3, s7, s8, s10>> /\ s3 > 0 /\ s4' # "provisioning"
      /\ s12' = IF S!Taken THEN Schedules ELSE s12
      /\ s9' = [s9 EXCEPT !.dirty = IF S!Taken THEN Schedules ELSE @]
  BY DEF S!Provision, S!Scan, S!SchedulerInv
<1>2. s9' = [stage |-> s9.stage, seen |-> s9.seen, next |-> s9.next, rows |-> s9.rows,
             dirty |-> IF S!Taken THEN Schedules ELSE s9.dirty]
  BY <1>0, <1>1, WatcherHas
<1>3. S!TypeOK'
  <2>1. s9' \in [stage : {"idle", "unguarded", "reload", "rows"}, seen : Nat,
                 next : Nat, rows : [Schedules -> S!Row], dirty : SUBSET Schedules]
    <3>1. PICK dirty \in SUBSET Schedules : dirty = IF S!Taken THEN Schedules ELSE s9.dirty
      BY <1>0, WatcherHas
    <3> QED BY <1>0, <1>2, <3>1, WatcherHas, WatcherMoves
  <2>2. s9'.seen = s9.seen /\ s9'.next = s9.next
    BY <1>2
  <2>3. s12' \subseteq Schedules
    BY <1>0, <1>1, WatcherHas
  <2> QED BY <1>0, <1>1, <2>1, <2>2, <2>3 DEF S!TypeOK
<1>4. S!Pending' = S!Pending
  BY <1>1 DEF S!Pending
<1>5. s9'.stage = s9.stage /\ s9'.seen = s9.seen
  BY <1>2
<1>6. CASE S!Taken
  <2>1. s12' = Schedules /\ s9'.dirty = Schedules
    BY <1>1, <1>2, <1>6
  <2>2. s7 = "up"
    <3>1. s3 # 0
      BY <1>0, <1>1, WatcherHas
    <3> QED BY <1>6, <3>1 DEF S!SchedulerInv, S!Taken, S!Watching
  <2> QED BY <1>1, <1>3, <1>4, <2>1, <2>2 DEF S!SchedulerInv
<1>7. CASE ~S!Taken
  <2>1. s9'.stage # "rows" /\ s9'.seen # s3'
    BY <1>1, <1>5, <1>7 DEF S!Taken
  <2>2. s7' # "up" => s9' = S!Watching /\ S!Pending' = {}
    <3>1. s9' = s9
      BY <1>0, <1>2, <1>7, WatcherHas
    <3> QED BY <1>1, <1>4, <3>1 DEF S!SchedulerInv, S!Watching
  <2> QED BY <1>1, <1>3, <2>1, <2>2 DEF S!SchedulerInv
<1> QED BY <1>6, <1>7

\* A start of the gateway scans, and later registers what it finds.
LEMMA StartKeeps ==
    ASSUME S!SchedulerInv, S!StartScan \/ S!StartScheduler
    PROVE  S!SchedulerInv'
<1>0. S!TypeOK
  BY DEF S!SchedulerInv
<1>1. /\ s5' \in [Schedules -> S!Row] /\ UNCHANGED <<s3, s4, s9, s10>> /\ s7 # "up"
      /\ S!StartScan => s7' # "up" /\ UNCHANGED <<s8, s12>>
      /\ S!StartScheduler => s12' = {} /\ s5' = s5 /\ s8' = [s \in Schedules |-> S!JobOf(s5[s])]
  BY <1>0, WatcherHas DEF S!StartScan, S!StartScheduler, S!Scan
<1>2. s9 = S!Watching /\ S!Pending = {}
  BY <1>1 DEF S!SchedulerInv
<1>3. s12' \subseteq Schedules /\ s8' \in [Schedules -> Versions \cup {None}]
  <2>1. CASE S!StartScan
    BY <1>0, <1>1, <2>1, WatcherHas
  <2>2. CASE S!StartScheduler
    <3>1. \A s \in Schedules : S!JobOf(s5[s]) \in Versions \cup {None}
      BY <1>0, WatcherHas, RowsHave
    <3> QED BY <1>1, <2>2, <3>1
  <2> QED BY <2>1, <2>2
<1>4. S!TypeOK'
  BY <1>0, <1>1, <1>3 DEF S!TypeOK
<1>5. S!Pending' = {} /\ \A q \in Requests : s10'[q].stage # "committed"
  BY <1>0, <1>1, <1>2, RequestHas DEF S!Pending
<1>6. s7' = "up" => \A s \in Schedules : S!Matches(s)'
  BY <1>1, <1>5 DEF S!Matches
<1>7. s9'.stage # "rows" /\ s9' = S!Watching
  BY <1>1, <1>2 DEF S!Watching
<1>8. s4' = "provisioning" => s3' > 0
  BY <1>1 DEF S!SchedulerInv
<1> QED BY <1>4, <1>5, <1>6, <1>7, <1>8 DEF S!SchedulerInv

LEMMA SchedulerStopKeeps ==
    ASSUME S!SchedulerInv, S!Stop
    PROVE  S!SchedulerInv'
<1>0. S!TypeOK
  BY DEF S!SchedulerInv
<1>1. /\ UNCHANGED <<s3, s4, s5, s12>> /\ s7' = "down" /\ s9' = S!Watching
      /\ s8' = [s \in Schedules |-> None]
      /\ s10' = [q \in Requests |-> IF s10[q].stage = "idle" THEN S!Idle ELSE [S!Idle EXCEPT !.stage = "done"]]
  BY DEF S!Stop
<1> DEFINE R == [stage : {"idle", "committed", "done"}, name : Schedules \cup {None}, row : S!Row]
<1>2. S!Gone \in S!Row
  BY DEF S!Row
<1>3. /\ S!Idle \in R /\ S!Idle.stage = "idle"
      /\ [S!Idle EXCEPT !.stage = "done"] \in R /\ [S!Idle EXCEPT !.stage = "done"].stage = "done"
  BY <1>2 DEF S!Idle
<1> HIDE DEF R
<1>4. s10' \in [Requests -> R] /\ \A q \in Requests : s10'[q].stage # "committed"
  BY <1>1, <1>3
<1>5. /\ S!Watching \in [stage : {"idle", "unguarded", "reload", "rows"}, seen : Nat,
                         next : Nat, rows : [Schedules -> S!Row], dirty : SUBSET Schedules]
      /\ S!Watching.stage = "idle" /\ S!Watching.seen = 0 /\ S!Watching.next = 0
  BY <1>2 DEF S!Watching
<1>6. s8' \in [Schedules -> Versions \cup {None}]
  BY <1>1
<1>7. s3 \in Nat
  BY <1>0, WatcherHas
<1>8. S!TypeOK'
  BY <1>0, <1>1, <1>4, <1>5, <1>6, <1>7 DEF S!TypeOK, R
<1>9. S!Pending' = {}
  BY <1>4 DEF S!Pending
<1>10. s4' = "provisioning" => s3' > 0
  BY <1>1 DEF S!SchedulerInv
<1> QED BY <1>1, <1>5, <1>8, <1>9, <1>10 DEF S!SchedulerInv

LEMMA WatcherKeeps ==
    ASSUME S!SchedulerInv, S!CheckGuard \/ S!ReadRevision \/ S!ReadRows
    PROVE  S!SchedulerInv'
<1>0. S!TypeOK /\ s3 \in Nat
  BY WatcherHas DEF S!SchedulerInv
<1>1. /\ UNCHANGED <<s3, s4, s5, s7, s8, s10, s12>>
      /\ s9.stage # "idle" \/ s7 = "up"
  BY DEF S!CheckGuard, S!ReadRevision, S!ReadRows
<1>2. s7 = "up"
  BY <1>1 DEF S!SchedulerInv, S!Watching
<1>3. S!Pending' = S!Pending
  BY <1>1 DEF S!Pending
<1>4. PICK stage \in {"idle", "unguarded", "reload", "rows"}, next \in Nat, rs \in [Schedules -> S!Row],
           dirty \in SUBSET Schedules :
        /\ s9' = [stage |-> stage, seen |-> s9.seen, next |-> next, rows |-> rs, dirty |-> dirty]
        /\ next <= s3
        /\ stage = "rows" => rs = s5 /\ dirty = S!Pending
  <2>1. CASE S!CheckGuard
    <3>1. s9' = [stage |-> "unguarded", seen |-> s9.seen, next |-> s9.next, rows |-> s9.rows, dirty |-> s9.dirty]
      BY <1>0, <2>1, WatcherHas DEF S!CheckGuard
    <3> QED BY <1>0, <3>1, WatcherHas
  <2>2. CASE S!ReadRevision
    <3>1. \/ s9' = [stage |-> "idle", seen |-> s9.seen, next |-> s9.next, rows |-> s9.rows, dirty |-> s9.dirty]
          \/ s9' = [stage |-> "reload", seen |-> s9.seen, next |-> s3, rows |-> s9.rows, dirty |-> s9.dirty]
      BY <1>0, <2>2, WatcherHas DEF S!ReadRevision
    <3> QED BY <1>0, <3>1, WatcherHas
  <2>3. CASE S!ReadRows
    <3>1. s9' = [stage |-> "rows", seen |-> s9.seen, next |-> s9.next, rows |-> s5, dirty |-> S!Pending]
      BY <1>0, <2>3, WatcherHas DEF S!ReadRows
    <3>2. S!Pending \in SUBSET Schedules
      BY <1>0, RequestHas DEF S!Pending
    <3> QED BY <1>0, <3>1, <3>2, WatcherHas
  <2> QED BY <2>1, <2>2, <2>3
<1>5. S!TypeOK'
  <2>1. s9' \in [stage : {"idle", "unguarded", "reload", "rows"}, seen : Nat,
                 next : Nat, rows : [Schedules -> S!Row], dirty : SUBSET Schedules]
    BY <1>0, <1>4, WatcherHas, WatcherMoves
  <2>2. s9'.seen <= s3' /\ s9'.next <= s3'
    BY <1>0, <1>1, <1>4, WatcherHas
  <2> QED BY <1>0, <1>1, <2>1, <2>2 DEF S!TypeOK
<1>6. s9'.seen = s3' => \A s \in Schedules \ s12' : S!Matches(s)'
  BY <1>1, <1>2, <1>4, MatchesStays DEF S!SchedulerInv
<1>7. s9'.stage = "rows" => \A s \in Schedules \ s9'.dirty : s9'.rows[s] = s5'[s] /\ s \notin S!Pending'
  BY <1>1, <1>3, <1>4
<1>8. s4' = "provisioning" => s3' > 0
  BY <1>1 DEF S!SchedulerInv
<1> QED BY <1>1, <1>2, <1>5, <1>6, <1>7, <1>8 DEF S!SchedulerInv

\* The jobs follow the rows that were read, but for the names that changed since.
LEMMA ReconcileKeeps ==
    ASSUME S!SchedulerInv, S!Reconcile
    PROVE  S!SchedulerInv'
<1>0. S!TypeOK /\ s3 \in Nat
  BY WatcherHas DEF S!SchedulerInv
<1>1. s9.stage = "rows" /\ UNCHANGED <<s3, s4, s5, s7, s10>>
  BY DEF S!Reconcile
<1>2. s7 = "up"
  BY <1>1 DEF S!SchedulerInv, S!Watching
<1>3. S!Pending' = S!Pending
  BY <1>1 DEF S!Pending
<1>4. \A s \in Schedules \ s9.dirty : s9.rows[s] = s5[s] /\ s \notin S!Pending
  BY <1>1 DEF S!SchedulerInv
<1>5. \/ /\ s8' = S!Reconciled /\ s12' = s9.dirty /\ s9' = [S!Watching EXCEPT !.seen = s9.next]
      \/ /\ s9' = [S!Watching EXCEPT !.seen = s9.seen] /\ UNCHANGED <<s8, s12>>
  BY DEF S!Reconcile
<1>6. PICK seen \in {s9.seen, s9.next} :
        s9' = [stage |-> "idle", seen |-> seen, next |-> 0, rows |-> [s \in Schedules |-> S!Gone], dirty |-> {}]
  BY <1>5 DEF S!Watching
<1>7. S!TypeOK'
  <2>1. [s \in Schedules |-> S!Gone] \in [Schedules -> S!Row]
    BY DEF S!Row
  <2>2. seen \in Nat /\ seen <= s3 /\ {} \in SUBSET Schedules
    BY <1>0, WatcherHas
  <2>3. s9' \in [stage : {"idle", "unguarded", "reload", "rows"}, seen : Nat,
                 next : Nat, rows : [Schedules -> S!Row], dirty : SUBSET Schedules]
    BY <1>6, <2>1, <2>2, WatcherMoves
  <2>4. s9'.seen <= s3' /\ s9'.next <= s3'
    BY <1>0, <1>1, <1>6, <2>2
  <2>5. s12' \subseteq Schedules
    BY <1>0, <1>5, WatcherHas
  <2>6. s8' \in [Schedules -> Versions \cup {None}]
    <3>1. \A s \in Schedules : S!JobOf(s9.rows[s]) \in Versions \cup {None}
      BY <1>0, WatcherHas, RowsHave
    <3> QED BY <1>0, <1>5, <3>1, WatcherHas DEF S!Reconciled
  <2> QED BY <1>0, <1>1, <2>3, <2>4, <2>5, <2>6 DEF S!TypeOK
<1>8. s9'.seen = s3' => \A s \in Schedules \ s12' : S!Matches(s)'
  <2>1. CASE s8' = S!Reconciled /\ s12' = s9.dirty
    <3> SUFFICES ASSUME NEW s \in Schedules \ s9.dirty PROVE S!Matches(s)'
      BY <2>1
    <3>1. s8'[s] = S!JobOf(s5[s]) /\ s \notin S!Pending
      BY <1>4, <2>1 DEF S!Reconciled
    <3>2. \A q \in Requests : s10[q].stage = "committed" => s10[q].name # s
      BY <1>0, <3>1, RequestHas
    <3> QED BY <1>1, <1>3, <3>1, <3>2 DEF S!Matches
  <2>2. CASE s9' = [S!Watching EXCEPT !.seen = s9.seen] /\ UNCHANGED <<s8, s12>>
    <3>1. s9'.seen = s9.seen
      BY <2>2 DEF S!Watching
    <3> QED BY <1>1, <1>2, <2>2, <3>1, MatchesStays DEF S!SchedulerInv
  <2> QED BY <1>5, <2>1, <2>2
<1>9. s9'.stage # "rows"
  BY <1>6
<1>10. s4' = "provisioning" => s3' > 0
  BY <1>1 DEF S!SchedulerInv
<1> QED BY <1>1, <1>2, <1>7, <1>8, <1>9, <1>10 DEF S!SchedulerInv

\* What a request leaves pending, and who may still be changing a job.
LEMMA CommitRowKeeps ==
    ASSUME S!SchedulerInv, NEW q \in Requests, NEW s \in Schedules, NEW on \in BOOLEAN, S!CommitRow(q, s, on)
    PROVE  S!SchedulerInv'
<1>0. S!TypeOK /\ s3 \in Nat
  BY WatcherHas DEF S!SchedulerInv
<1>1. /\ s7 = "up" /\ s10[q].stage = "idle" /\ s5[s] # S!Gone /\ UNCHANGED <<s3, s4, s7, s8>>
      /\ s5' = [s5 EXCEPT ![s].enabled = on]
      /\ s10' = [s10 EXCEPT ![q] = [stage |-> "committed", name |-> s, row |-> s5'[s]]]
      /\ s12' = s12 \cup ({s} \cap S!Pending)
      /\ s9' = [s9 EXCEPT !.dirty = s9.dirty \cup {s}]
  BY DEF S!CommitRow
<1>2. PICK row : row = [s5[s] EXCEPT !.enabled = on]
  OBVIOUS
<1>3. /\ s5[s] \in S!Row /\ s5[s].version \in Versions
      /\ row = [version |-> s5[s].version, enabled |-> on]
      /\ s5[s] = [version |-> s5[s].version, enabled |-> s5[s].enabled] /\ s5[s].enabled \in BOOLEAN
  BY <1>0, <1>1, <1>2, WatcherHas, RowsHave
<1>4. row \in S!Row /\ row # S!Gone
  BY <1>3, NoneIsNoVersion DEF S!Row, S!Gone
<1>5. s5' \in [Schedules -> S!Row] /\ s5'[s] = row /\ \A t \in Schedules \ {s} : s5'[t] = s5[t]
  <2>1. s5' = [s5 EXCEPT ![s] = row]
    BY <1>1, <1>2
  <2> QED BY <1>0, <1>4, <2>1, WatcherHas
<1> DEFINE R == [stage : {"idle", "committed", "done"}, name : Schedules \cup {None}, row : S!Row]
           req == [stage |-> "committed", name |-> s, row |-> row]
<1>6. req \in R /\ req.stage = "committed" /\ req.name = s /\ req.row = row
  BY <1>4
<1>7. s10 \in [Requests -> R]
  BY <1>0 DEF S!TypeOK
<1> HIDE DEF R, req
<1>8. s10' \in [Requests -> R] /\ s10'[q] = req /\ \A o \in Requests \ {q} : s10'[o] = s10[o]
  <2>1. s10' = [s10 EXCEPT ![q] = req]
    BY <1>1, <1>5 DEF req
  <2> QED BY <1>6, <1>7, <2>1
<1>9. S!Pending' = S!Pending \cup {s}
  <2>1. \A t : t \in S!Pending' <=> \E o \in Requests : s10'[o].stage = "committed" /\ s10'[o].name = t
    BY DEF S!Pending
  <2>2. \A t : t \in S!Pending <=> \E o \in Requests : s10[o].stage = "committed" /\ s10[o].name = t
    BY DEF S!Pending
  <2>3. \A t : t \in S!Pending' <=> t \in S!Pending \/ t = s
    BY <1>1, <1>6, <1>8, <2>1, <2>2
  <2> QED BY <2>3
<1>10. s9' = [stage |-> s9.stage, seen |-> s9.seen, next |-> s9.next, rows |-> s9.rows, dirty |-> s9.dirty \cup {s}]
  BY <1>0, <1>1, WatcherHas
<1>11. S!TypeOK'
  <2>1. s9.dirty \cup {s} \in SUBSET Schedules
    BY <1>0, WatcherHas
  <2>2. s9' \in [stage : {"idle", "unguarded", "reload", "rows"}, seen : Nat,
                 next : Nat, rows : [Schedules -> S!Row], dirty : SUBSET Schedules]
    BY <1>0, <1>10, <2>1, WatcherHas, WatcherMoves
  <2>3. s9'.seen <= s3' /\ s9'.next <= s3' /\ s12' \subseteq Schedules
    BY <1>0, <1>1, <1>10, WatcherHas
  <2>4. \A o \in Requests : s10'[o].stage = "committed" => s10'[o].name \in Schedules /\ s10'[o].row # S!Gone
    BY <1>0, <1>4, <1>6, <1>8, RequestHas
  <2> QED BY <1>0, <1>1, <1>5, <1>8, <2>2, <2>3, <2>4 DEF S!TypeOK, R
<1>12. ASSUME s9'.seen = s3', NEW t \in Schedules \ s12' PROVE S!Matches(t)'
  <2>1. S!Matches(t) /\ t \notin s12 /\ (t = s => s \notin S!Pending)
    BY <1>1, <1>10, <1>12 DEF S!SchedulerInv
  <2>2. CASE t # s
    <3>1. s5'[t] = s5[t] /\ (t \in S!Pending' <=> t \in S!Pending)
      BY <1>5, <1>9, <2>2
    <3>2. \A o \in Requests : s10'[o].stage = "committed" /\ s10'[o].name = t => s10[o].stage = "committed" /\ s10[o].name = t /\ s10'[o].row = s10[o].row
      BY <1>6, <1>8, <2>2
    <3> QED BY <1>1, <2>1, <3>1, <3>2 DEF S!Matches
  <2>3. CASE t = s
    <3>1. s8[s] = S!JobOf(s5[s])
      BY <2>1, <2>3 DEF S!Matches
    <3>2. [s5'[s] EXCEPT !.enabled = s5[s].enabled] = s5[s]
      BY <1>3, <1>5
    <3>3. \E flag \in BOOLEAN : s8'[s] = S!JobOf([s5'[s] EXCEPT !.enabled = flag])
      BY <1>1, <1>3, <3>1, <3>2
    <3>4. \A o \in Requests : s10'[o].stage = "committed" /\ s10'[o].name = s => s10'[o].row = s5'[s]
      <4>1. \A o \in Requests : s10[o].stage = "committed" => s10[o].name # s
        BY <1>0, <2>1, <2>3, RequestHas
      <4> QED BY <1>5, <1>6, <1>8, <4>1
    <3> QED BY <1>9, <2>3, <3>3, <3>4 DEF S!Matches
  <2> QED BY <2>2, <2>3
<1>13. s9'.stage = "rows" => \A t \in Schedules \ s9'.dirty : s9'.rows[t] = s5'[t] /\ t \notin S!Pending'
  <2> SUFFICES ASSUME s9'.stage = "rows", NEW t \in Schedules \ s9'.dirty
               PROVE  s9'.rows[t] = s5'[t] /\ t \notin S!Pending'
    OBVIOUS
  <2>1. t # s /\ t \notin s9.dirty /\ s9.stage = "rows" /\ s9'.rows = s9.rows
    BY <1>10
  <2> QED BY <1>5, <1>9, <2>1 DEF S!SchedulerInv
<1>14. s4' = "provisioning" => s3' > 0
  BY <1>1 DEF S!SchedulerInv
<1> QED BY <1>1, <1>11, <1>12, <1>13, <1>14 DEF S!SchedulerInv

\* A request's job follows its row, or does not when the expression does not parse.
LEMMA ChangeJobKeeps ==
    ASSUME S!SchedulerInv, NEW q \in Requests, S!ChangeJob(q)
    PROVE  S!SchedulerInv'
<1>0. S!TypeOK /\ s3 \in Nat
  BY WatcherHas DEF S!SchedulerInv
<1> DEFINE s == s10[q].name
           row == s10[q].row
           R == [stage : {"idle", "committed", "done"}, name : Schedules \cup {None}, row : S!Row]
           done == [S!Idle EXCEPT !.stage = "done"]
<1>1. /\ s10[q].stage = "committed" /\ UNCHANGED <<s3, s4, s5, s7>>
      /\ s8' = [s8 EXCEPT ![s] = IF S!Parses(row) THEN S!JobOf(row) ELSE s8[s]]
      /\ s10' = [s10 EXCEPT ![q] = done]
      /\ s12' = IF s5[s] # row THEN s12 \cup {s} ELSE s12
      /\ s9' = [s9 EXCEPT !.dirty = s9.dirty \cup {s}]
  BY DEF S!ChangeJob
<1>2. s \in Schedules /\ row \in S!Row /\ row # S!Gone /\ s \in S!Pending
  BY <1>0, <1>1, RequestHas
<1>3. s7 = "up"
  BY <1>2 DEF S!SchedulerInv
<1>4. done \in R /\ done.stage = "done"
  <2>1. S!Gone \in S!Row
    BY DEF S!Row
  <2> QED BY <2>1 DEF S!Idle
<1>5. s10 \in [Requests -> R]
  BY <1>0 DEF S!TypeOK
<1> HIDE DEF R, done, s, row
<1>6. s10' \in [Requests -> R] /\ s10'[q] = done /\ \A o \in Requests \ {q} : s10'[o] = s10[o]
  BY <1>1, <1>4, <1>5
<1>7. \A t : t # s => (t \in S!Pending' <=> t \in S!Pending)
  <2>1. \A t : t \in S!Pending' <=> \E o \in Requests : s10'[o].stage = "committed" /\ s10'[o].name = t
    BY DEF S!Pending
  <2>2. \A t : t \in S!Pending <=> \E o \in Requests : s10[o].stage = "committed" /\ s10[o].name = t
    BY DEF S!Pending
  <2> QED BY <1>4, <1>6, <2>1, <2>2 DEF s
<1>8. s9' = [stage |-> s9.stage, seen |-> s9.seen, next |-> s9.next, rows |-> s9.rows, dirty |-> s9.dirty \cup {s}]
  BY <1>0, <1>1, WatcherHas
<1>9. /\ s8' \in [Schedules -> Versions \cup {None}] /\ \A t \in Schedules \ {s} : s8'[t] = s8[t]
      /\ s8'[s] = IF S!Parses(row) THEN S!JobOf(row) ELSE s8[s]
  <2>1. S!JobOf(row) \in Versions \cup {None}
    BY <1>2, RowsHave
  <2> QED BY <1>0, <1>1, <1>2, <2>1, WatcherHas
<1>10. S!TypeOK'
  <2>1. s9.dirty \cup {s} \in SUBSET Schedules
    BY <1>0, <1>2, WatcherHas
  <2>2. s9' \in [stage : {"idle", "unguarded", "reload", "rows"}, seen : Nat,
                 next : Nat, rows : [Schedules -> S!Row], dirty : SUBSET Schedules]
    BY <1>0, <1>8, <2>1, WatcherHas, WatcherMoves
  <2>3. s9'.seen <= s3' /\ s9'.next <= s3' /\ s12' \subseteq Schedules
    BY <1>0, <1>1, <1>2, <1>8, WatcherHas
  <2>4. \A o \in Requests : s10'[o].stage = "committed" => s10'[o].name \in Schedules /\ s10'[o].row # S!Gone
    BY <1>0, <1>4, <1>6, RequestHas
  <2> QED BY <1>0, <1>1, <1>6, <1>9, <2>2, <2>3, <2>4 DEF S!TypeOK, R
<1>11. ASSUME s9'.seen = s3', NEW t \in Schedules \ s12' PROVE S!Matches(t)'
  <2>1. S!Matches(t) /\ t \notin s12 /\ (t = s => s5[s] = row)
    BY <1>1, <1>3, <1>8, <1>11 DEF S!SchedulerInv
  <2>2. \A o \in Requests : s10'[o].stage = "committed" => s10[o].stage = "committed" /\ s10'[o] = s10[o]
    BY <1>4, <1>6
  <2>3. CASE t # s
    BY <1>1, <1>7, <1>9, <2>1, <2>2, <2>3 DEF S!Matches
  <2>4. CASE t = s
    <3>1. s5[s] = row /\ s5'[s] = row
      BY <1>1, <2>1, <2>4
    <3>2. row = [version |-> row.version, enabled |-> row.enabled] /\ row.enabled \in BOOLEAN
      BY <1>2, RowsHave
    <3>3. s8'[s] = S!JobOf(row)
      <4>1. PICK flag \in BOOLEAN : s8[s] = S!JobOf([row EXCEPT !.enabled = flag])
        BY <1>2, <2>1, <2>4, <3>1 DEF S!Matches
      <4>2. [row EXCEPT !.enabled = flag] = [version |-> row.version, enabled |-> flag]
        BY <3>2
      <4>3. ~S!Parses(row) => s8[s] = None /\ S!JobOf(row) = None
        BY <4>1, <4>2 DEF S!Parses, S!JobOf
      <4> QED BY <1>9, <4>3
    <3>4. [row EXCEPT !.enabled = row.enabled] = row
      BY <3>2
    <3>5. \E flag \in BOOLEAN : s8'[s] = S!JobOf([s5'[s] EXCEPT !.enabled = flag])
      BY <3>1, <3>2, <3>3, <3>4
    <3>6. \A o \in Requests : s10'[o].stage = "committed" /\ s10'[o].name = s => s10'[o].row = s5'[s]
      BY <1>1, <2>1, <2>2, <2>4 DEF S!Matches
    <3> QED BY <2>4, <3>1, <3>3, <3>5, <3>6 DEF S!Matches
  <2> QED BY <2>3, <2>4
<1>12. s9'.stage = "rows" => \A t \in Schedules \ s9'.dirty : s9'.rows[t] = s5'[t] /\ t \notin S!Pending'
  <2> SUFFICES ASSUME s9'.stage = "rows", NEW t \in Schedules \ s9'.dirty
               PROVE  s9'.rows[t] = s5'[t] /\ t \notin S!Pending'
    OBVIOUS
  <2>1. t # s /\ t \notin s9.dirty /\ s9.stage = "rows" /\ s9'.rows = s9.rows
    BY <1>8
  <2> QED BY <1>1, <1>7, <2>1 DEF S!SchedulerInv
<1>13. s4' = "provisioning" => s3' > 0
  BY <1>1 DEF S!SchedulerInv
<1> QED BY <1>1, <1>3, <1>10, <1>11, <1>12, <1>13 DEF S!SchedulerInv

LEMMA SchedulerStep == S!SchedulerInv /\ S!Next => S!SchedulerInv'
<1> SUFFICES ASSUME S!SchedulerInv, S!Next PROVE S!SchedulerInv'
  OBVIOUS
<1>1. CASE S!BeginActivation \/ S!CommitRevision \/ S!EndActivation \/ S!PauseAgent
             \/ (\E s \in Schedules : S!Fire(s)) \/ S!CreateTask
  <2>1. /\ UNCHANGED <<s5, s7, s8, s9, s10, s12>> /\ s3' \in {s3, s3 + 1}
        /\ s4' = "provisioning" => s4 = "provisioning" \/ s3' = s3 + 1
    BY <1>1 DEF S!BeginActivation, S!CommitRevision, S!EndActivation, S!PauseAgent, S!Fire, S!CreateTask
  <2> QED BY <2>1, SchedulerQuiet
<1> QED BY <1>1, ProvisionKeeps, StartKeeps, SchedulerStopKeeps, WatcherKeeps, ReconcileKeeps,
           CommitRowKeeps, ChangeJobKeeps DEF S!Next

-----------------------------------------------------------------------------
(* The parts side by side: a step is of the part the behaviour runs, and the *)
(* slots of that part are its variables.                                     *)

SourcesInv ==
  /\ part = "scheduler"  => S!SchedulerInv
  /\ part = "pubsub"     => P!ConnectorInv
  /\ part = "servicenow" => N!PollInv

LEMMA SchedulerStutter ==
    ASSUME S!SchedulerInv, UNCHANGED slots
    PROVE  S!SchedulerInv'
BY SchedulerQuiet DEF slots

LEMMA ConnectorStutter ==
    ASSUME P!ConnectorInv, UNCHANGED slots
    PROVE  P!ConnectorInv'
BY DEF slots, P!ConnectorInv, P!CallInv, P!RevisionInv, P!Follows, P!ConnectorKeepsUp,
       P!AckedHandled, P!ConfigFollowed

LEMMA PollStutter ==
    ASSUME N!PollInv, UNCHANGED slots
    PROVE  N!PollInv'
BY DEF slots, N!PollInv, N!TypeOK, N!PolledOnce, N!SkippedWasSubmitted, N!SubmittedOnce

LEMMA SourcesInductive ==
    /\ MCInit => SourcesInv
    /\ SourcesInv /\ [MCNext]_mcvars => SourcesInv'
<1>1. MCInit => SourcesInv
  BY SchedulerInit, ConnectorInit, PollInit DEF MCInit, SourcesInv
<1>2. ASSUME SourcesInv, [MCNext]_mcvars PROVE SourcesInv'
  <2>1. CASE part' = "scheduler"
    <3>1. part = "scheduler" /\ (S!Next \/ UNCHANGED slots)
      BY <1>2, <2>1 DEF MCNext, mcvars
    <3>2. S!SchedulerInv'
      BY <1>2, <3>1, SchedulerStep, SchedulerStutter DEF SourcesInv
    <3> QED BY <2>1, <3>2 DEF SourcesInv
  <2>2. CASE part' = "pubsub"
    <3>1. part = "pubsub" /\ (P!Next \/ UNCHANGED slots)
      BY <1>2, <2>2 DEF MCNext, mcvars
    <3>2. P!ConnectorInv'
      BY <1>2, <3>1, ConnectorStep, ConnectorStutter DEF SourcesInv
    <3> QED BY <2>2, <3>2 DEF SourcesInv
  <2>3. CASE part' = "servicenow"
    <3>1. part = "servicenow" /\ (N!Next \/ UNCHANGED slots)
      BY <1>2, <2>3 DEF MCNext, mcvars
    <3>2. N!PollInv'
      BY <1>2, <3>1, PollStep, PollStutter DEF SourcesInv
    <3> QED BY <2>3, <3>2 DEF SourcesInv
  <2> QED BY <2>1, <2>2, <2>3 DEF SourcesInv
<1> QED BY <1>1, <1>2

LEMMA SourcesHold == MCSpec => []SourcesInv
BY SourcesInductive, PTL DEF MCSpec

\* Whenever the gateway is up, no activation and no request is under way and
\* the watcher has seen the last activation, the jobs are those of the rows:
\* reconcile_schedules, the watcher's passes and the endpoints that add, change
\* and remove a schedule leave no other behind, except for a schedule that two
\* of them changed at the same time.
THEOREM JobsFollowRows == MCSpec => []JobsMatchRows
<1>1. SourcesInv => JobsMatchRows
  <2> SUFFICES ASSUME SourcesInv, part = "scheduler", s7 = "up", s4 = "none", S!Pending = {},
                      s9.stage = "idle", s9.seen = s3, NEW s \in Schedules \ s12
               PROVE  s8[s] = S!JobOf(s5[s])
    BY DEF JobsMatchRows, S!JobsMatchRows
  <2>1. S!Matches(s)
    BY DEF SourcesInv, S!SchedulerInv
  <2> QED BY <2>1 DEF S!Matches
<1> QED BY <1>1, SourcesHold, PTL

\* A message that the PubSub connector's callback acknowledged has its task, or
\* was rejected by the filter of a configuration it was delivered under; and a
\* subscription that knows the last activation runs with its files.
THEOREM ConnectorFollows == MCSpec => []ConnectorKeepsUp
<1>1. SourcesInv => ConnectorKeepsUp
  BY DEF SourcesInv, ConnectorKeepsUp, P!ConnectorInv, P!CallInv, P!RevisionInv, P!Follows,
         P!ConnectorKeepsUp, P!ConfigFollowed
<1> QED BY <1>1, SourcesHold, PTL

\* A record that the ServiceNow connector would skip was submitted for the
\* source it polls, is being submitted or failed to be, and none is submitted
\* twice while the connector remembers it.
THEOREM RecordsPolledOnce == MCSpec => []PolledOnce
<1>1. SourcesInv => PolledOnce
  BY DEF SourcesInv, PolledOnce, N!PollInv
<1> QED BY <1>1, SourcesHold, PTL
=============================================================================
