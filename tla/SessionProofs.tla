---------------------------- MODULE SessionProofs ----------------------------
(***************************************************************************)
(* For every set of calls, batch size, conversation and number of lost      *)
(* posts: the messages of a session are reported in order and once, nothing  *)
(* is left out but what a flush overtook, and nothing follows the terminal   *)
(* event; the loop takes no result for the answer while a subagent works,    *)
(* its watchdog ends no session without a reason, and the tree that is read  *)
(* from the reports hides nothing.                                           *)
(***************************************************************************)
EXTENDS MCSession, FiniteSetTheorems, WellFoundedInduction, TLAPS

-----------------------------------------------------------------------------
(* Transcript.                                                             *)

\* One more batch at the collector.
LEMMA ReceivedAppend ==
    ASSUME collected \in Seq(Nat \X Nat), NEW p \in Nat \X Nat, collected' = Append(collected, p)
    PROVE  /\ collected' \in Seq(Nat \X Nat)
           /\ T!Received' = T!Received \cup T!MessagesOf(p)
           /\ DOMAIN collected' = DOMAIN collected \cup {Len(collected) + 1}
           /\ DOMAIN collected = 1..Len(collected)
           /\ collected'[Len(collected) + 1] = p
           /\ \A i \in DOMAIN collected : collected'[i] = collected[i]
<1>1. /\ collected' \in Seq(Nat \X Nat)
      /\ DOMAIN collected' = DOMAIN collected \cup {Len(collected) + 1}
      /\ DOMAIN collected = 1..Len(collected)
      /\ collected'[Len(collected) + 1] = p
      /\ \A i \in DOMAIN collected : collected'[i] = collected[i]
  OBVIOUS
<1>2. T!Received' = T!Received \cup T!MessagesOf(p)
  BY <1>1 DEF T!Received, T!MessagesOf
<1> QED BY <1>1, <1>2

LEMMA TranscriptInit == T!Init => T!ReportInv
BY Assumptions DEF T!Init, T!ReportInv, T!TypeOK, T!LockInv, T!CoverInv, T!OrderInv, T!InOrderOnce, T!SettledTo, T!EndInv,
       T!NoFlush, T!Tasks, T!Main, T!Hook, T!Timer, T!Received, T!Forced, T!TranscriptAssumption

\* Every batch starts where flushed_messages stands; the next one then starts no
\* earlier, or there again when this one was cut off.
LEMMA OrderKeeps ==
    ASSUME T!OrderInv, collected \in Seq(Nat \X Nat), flushed \in Nat, flushed' \in Nat,
           flushed <= flushed',
           \/ UNCHANGED <<collected, cutOff>>
           \/ \E p \in Nat \X Nat :
                 /\ collected' = Append(collected, p) /\ p[1] = flushed
                 /\ \/ UNCHANGED cutOff /\ p[2] <= flushed'
                    \/ cutOff' = cutOff \cup {Len(collected) + 1}
    PROVE  T!OrderInv'
<1>1. CASE UNCHANGED <<collected, cutOff>>
  <2>1. \A i \in DOMAIN collected : T!SettledTo(i)' = T!SettledTo(i) /\ T!SettledTo(i) \in Nat
    BY <1>1 DEF T!SettledTo
  <2> QED BY <1>1, <2>1 DEF T!OrderInv, T!InOrderOnce
<1>2. ASSUME NEW p \in Nat \X Nat, collected' = Append(collected, p), p[1] = flushed,
             \/ UNCHANGED cutOff /\ p[2] <= flushed'
             \/ cutOff' = cutOff \cup {Len(collected) + 1}
      PROVE  T!OrderInv'
  <2> PICK n : n = Len(collected) + 1
    OBVIOUS
  <2>1. /\ DOMAIN collected' = DOMAIN collected \cup {n} /\ DOMAIN collected = 1..Len(collected)
        /\ collected'[n] = p /\ Len(collected) \in Nat
        /\ \A i \in DOMAIN collected : collected'[i] = collected[i] /\ i # n
    BY <1>2, ReceivedAppend
  <2>2. cutOff' = cutOff \/ cutOff' = cutOff \cup {n}
    BY <1>2
  <2>3. ASSUME NEW i \in DOMAIN collected
        PROVE  T!SettledTo(i)' = T!SettledTo(i) /\ T!SettledTo(i) \in Nat
    <3>1. i \in cutOff' <=> i \in cutOff
      BY <2>1, <2>2
    <3>2. collected'[i] = collected[i] /\ collected[i] \in Nat \X Nat
      BY <2>1
    <3> QED BY <3>1, <3>2 DEF T!SettledTo
  <2>4. T!SettledTo(n)' <= flushed'
    <3>1. CASE n \in cutOff'
      BY <1>2, <2>1, <3>1 DEF T!SettledTo
    <3>2. CASE n \notin cutOff'
      <4>1. p[2] <= flushed'
        BY <1>2, <3>2
      <4> QED BY <2>1, <3>2, <4>1 DEF T!SettledTo
    <3> QED BY <3>1, <3>2
  <2>5. \A i \in DOMAIN collected : T!SettledTo(i)' <= flushed
    BY <2>3 DEF T!OrderInv
  <2>6. \A i \in DOMAIN collected' : T!SettledTo(i)' <= flushed'
    <3>1. ASSUME NEW i \in DOMAIN collected PROVE T!SettledTo(i)' <= flushed'
      BY <2>3, <2>5
    <3> QED BY <2>1, <2>4, <3>1
  <2>7. ASSUME NEW i \in DOMAIN collected', NEW j \in DOMAIN collected', i < j
        PROVE  T!SettledTo(i)' <= collected'[j][1]
    <3>1. i \in DOMAIN collected
      BY <2>1, <2>7
    <3>2. CASE j = n
      BY <1>2, <2>1, <2>5, <3>1, <3>2
    <3>3. CASE j \in DOMAIN collected
      BY <2>1, <2>3, <2>7, <3>1, <3>3 DEF T!OrderInv, T!InOrderOnce
    <3> QED BY <2>1, <3>2, <3>3
  <2> QED BY <2>6, <2>7 DEF T!OrderInv, T!InOrderOnce
<1> QED BY <1>1, <1>2

\* What a task does that has the lock: it posts next what is not flushed yet, or
\* frees the lock.
LEMMA ProceedKeeps ==
    ASSUME T!TypeOK, NEW t \in T!Tasks, NEW force \in BOOLEAN, NEW done \in Nat, NEW total \in Nat,
           done <= total, T!Proceed(t, force, done, total), conversation' = total,
           \A u \in T!Tasks \ {t} : flush[u].at # "post",
           1..done \subseteq T!Received' \cup overtaken'
    PROVE  /\ flushed' = done /\ lock' \in T!Tasks \cup {None}
           /\ flush' \in [T!Tasks -> [at : {"idle", "lock", "post", "stopped"}, force : BOOLEAN,
                                     from : Nat, to : Nat]]
           /\ T!LockInv' /\ T!CoverInv'
           /\ \/ flush'[t] = T!NoFlush /\ (force => done = total)
              \/ flush'[t].at = "post" /\ flush'[t].force = force
           /\ \A u \in T!Tasks \ {t} : flush'[u] = flush[u]
<1> DEFINE posts == total - done >= BatchSize \/ (force /\ done < total)
           upTo == IF total - done >= BatchSize THEN done + BatchSize ELSE total
           rec == IF posts THEN [at |-> "post", force |-> force, from |-> done, to |-> upTo]
                  ELSE T!NoFlush
<1>1. /\ flushed' = done /\ flush' = [flush EXCEPT ![t] = rec]
      /\ lock' = IF posts THEN t ELSE None
  BY DEF T!Proceed
<1>2. BatchSize \in Nat \ {0} /\ upTo \in Nat /\ None \notin T!Tasks
  BY Assumptions DEF T!TranscriptAssumption
<1>3. rec \in [at : {"idle", "lock", "post", "stopped"}, force : BOOLEAN, from : Nat, to : Nat]
  BY <1>2 DEF T!NoFlush
<1>4. /\ flush'[t] = rec /\ \A u \in T!Tasks \ {t} : flush'[u] = flush[u]
      /\ flush' \in [T!Tasks -> [at : {"idle", "lock", "post", "stopped"}, force : BOOLEAN,
                                from : Nat, to : Nat]]
  <2> HIDE DEF rec
  <2> QED BY <1>1, <1>3 DEF T!TypeOK
<1>5. CASE posts
  <2>1. /\ flush'[t].at = "post" /\ flush'[t].force = force /\ flush'[t].from = done
        /\ flush'[t].to = upTo
    BY <1>4, <1>5
  <2>2. /\ done < upTo /\ upTo <= total /\ upTo - done <= BatchSize
        /\ force \/ upTo - done = BatchSize
        /\ upTo - done = BatchSize \/ upTo = total
    BY <1>2, <1>5
  <2> HIDE DEF posts, upTo, rec
  <2>3. T!LockInv'
    BY <1>1, <1>2, <1>4, <1>5, <2>1, <2>2 DEF T!LockInv
  <2>4. \A u \in T!Forced' : u = t /\ flush'[u].to = total
    BY <1>2, <1>4, <2>1, <2>2 DEF T!Forced
  <2>5. T!CoverInv'
    BY <1>1, <2>4 DEF T!CoverInv
  <2> QED BY <1>1, <1>4, <1>5, <2>1, <2>3, <2>5
<1>6. CASE ~posts
  <2>1. flush'[t] = T!NoFlush /\ flush'[t].at = "idle" /\ (force => done = total)
    BY <1>2, <1>4, <1>6 DEF T!NoFlush
  <2> HIDE DEF posts, upTo, rec
  <2>2. T!LockInv'
    BY <1>1, <1>2, <1>4, <1>6, <2>1 DEF T!LockInv
  <2>3. T!Forced' = {}
    BY <1>4, <2>1 DEF T!Forced
  <2>4. T!CoverInv'
    BY <1>1, <2>3 DEF T!CoverInv
  <2> QED BY <1>1, <1>4, <1>6, <2>1, <2>2, <2>4
<1> QED BY <1>5, <1>6

\* With a free lock nobody posts; the holder posts alone.
LEMMA Alone ==
    ASSUME T!LockInv
    PROVE  /\ lock = None => \A u \in T!Tasks : flush[u].at # "post"
           /\ \A t \in T!Tasks : flush[t].at = "post" => \A u \in T!Tasks \ {t} : flush[u].at # "post"
BY Assumptions DEF T!LockInv, T!TranscriptAssumption

LEMMA Records ==
    /\ T!NoFlush \in [at : {"idle", "lock", "post", "stopped"}, force : BOOLEAN, from : Nat, to : Nat]
    /\ T!Stopped \in [at : {"idle", "lock", "post", "stopped"}, force : BOOLEAN, from : Nat, to : Nat]
    /\ T!NoFlush.at = "idle" /\ T!Stopped.at = "stopped"
    /\ \A force \in BOOLEAN :
         /\ [T!NoFlush EXCEPT !.at = "lock", !.force = force]
              \in [at : {"idle", "lock", "post", "stopped"}, force : BOOLEAN, from : Nat, to : Nat]
         /\ [T!NoFlush EXCEPT !.at = "lock", !.force = force].at = "lock"
BY DEF T!NoFlush, T!Stopped

\* A task that enters a flush gets the lock at once, or waits and posts nothing.
LEMMA EnterKeeps ==
    ASSUME T!TypeOK, T!LockInv, T!CoverInv, NEW t \in T!Tasks, NEW force \in BOOLEAN,
           flush[t].at # "post", NEW total \in {conversation, conversation + 1},
           T!EnterFlush(t, force, total), conversation' = total, collected' = collected,
           overtaken \subseteq overtaken', overtaken' \subseteq Nat,
           total # conversation /\ T!Forced # {} => total \in overtaken'
    PROVE  /\ T!TypeOK' /\ T!LockInv' /\ T!CoverInv' /\ flushed' = flushed
           /\ lock = None =>
                 \/ flush'[t] = T!NoFlush /\ (force => flushed' = conversation')
                 \/ flush'[t].at = "post" /\ flush'[t].force = force
           /\ \A u \in T!Tasks \ {t} : flush'[u] = flush[u]
<1>0. total \in Nat /\ flushed \in Nat /\ flushed <= total /\ T!Received' = T!Received
  BY DEF T!TypeOK, T!LockInv, T!Received
<1>1. CASE lock = None
  <2>1. T!Proceed(t, force, flushed, total)
    BY <1>1 DEF T!EnterFlush
  <2>2. 1..flushed \subseteq T!Received' \cup overtaken'
    BY <1>0 DEF T!CoverInv
  <2>3. \A u \in T!Tasks \ {t} : flush[u].at # "post"
    BY <1>1, Alone
  <2> QED BY <1>0, <1>1, <2>1, <2>2, <2>3, ProceedKeeps DEF T!TypeOK
<1>2. CASE lock # None
  <2> DEFINE r == [T!NoFlush EXCEPT !.at = "lock", !.force = force]
  <2>1. flush' = [flush EXCEPT ![t] = r] /\ UNCHANGED <<flushed, lock>>
    BY <1>2 DEF T!EnterFlush
  <2>2. r \in [at : {"idle", "lock", "post", "stopped"}, force : BOOLEAN, from : Nat, to : Nat]
        /\ r.at = "lock"
    BY Records
  <2> HIDE DEF r
  <2>3. /\ flush'[t] = r /\ \A u \in T!Tasks \ {t} : flush'[u] = flush[u]
        /\ flush' \in [T!Tasks -> [at : {"idle", "lock", "post", "stopped"}, force : BOOLEAN,
                                  from : Nat, to : Nat]]
    BY <2>1, <2>2 DEF T!TypeOK
  <2>4. T!TypeOK'
    BY <1>0, <2>1, <2>3 DEF T!TypeOK
  <2>5. T!LockInv'
    BY <1>0, <2>1, <2>2, <2>3 DEF T!LockInv, T!TypeOK
  <2>6. \A u \in T!Forced' : u \in T!Forced /\ flush'[u] = flush[u]
    BY <2>2, <2>3 DEF T!Forced
  <2>7. T!CoverInv'
    <3>1. 1..flushed' \subseteq T!Received' \cup overtaken'
      BY <1>0, <2>1 DEF T!CoverInv
    <3>2. ASSUME NEW u \in T!Forced' PROVE (flush'[u].to + 1)..conversation' \subseteq overtaken'
      <4>1. (flush[u].to + 1)..conversation \subseteq overtaken' /\ flush[u].to \in Nat
        BY <2>6 DEF T!CoverInv, T!Forced, T!TypeOK
      <4> QED BY <1>0, <2>6, <4>1 DEF T!TypeOK
    <3> QED BY <3>1, <3>2 DEF T!CoverInv
  <2> QED BY <1>2, <2>1, <2>3, <2>4, <2>5, <2>7
<1> QED BY <1>1, <1>2

\* Who posts, posts: nobody does in the states after the last flush.
LEMMA EndPhases ==
    ASSUME T!TypeOK, T!EndInv, NEW t \in T!Tasks, flush[t].at \in {"post", "lock", "idle"}
    PROVE  /\ phase \in {"flush", "report", "end"} => t = T!Main
           /\ flush[t].at # "idle" => phase \notin {"report", "end"} /\ terminal = <<>>
           /\ phase = "stop" /\ flush[t].at # "idle" => t # T!Main
BY Records DEF T!EndInv, T!Tasks

LEMMA PostDoneKeeps ==
    ASSUME T!ReportInv, NEW t \in T!Tasks, T!PostDone(t)
    PROVE  T!ReportInv'
<1> DEFINE done == T!FlushedAfter(t)
<1>1. /\ T!TypeOK /\ T!LockInv /\ T!CoverInv /\ T!OrderInv /\ T!EndInv
      /\ flush[t].at = "post" /\ flush[t].from = flushed /\ flushed < flush[t].to
      /\ flush[t].to <= conversation /\ flush[t].to - flushed <= BatchSize
      /\ flush[t].to \in Nat /\ flush[t].from \in Nat /\ flushed \in Nat /\ conversation \in Nat
      /\ flush[t].force \in BOOLEAN
      /\ flush[t].force \/ flush[t].to - flushed = BatchSize
      /\ BatchSize \in Nat
  BY Assumptions DEF T!ReportInv, T!PostDone, T!LockInv, T!TypeOK, T!TranscriptAssumption
<1>2. /\ done \in Nat /\ flush[t].to <= done /\ done <= conversation
      /\ (flush[t].to + 1)..done \subseteq overtaken
  <2>1. CASE flush[t].to - flush[t].from = BatchSize
    BY <1>1, <2>1 DEF T!FlushedAfter
  <2>2. CASE flush[t].to - flush[t].from # BatchSize
    <3>1. t \in T!Forced
      BY <1>1, <2>2 DEF T!Forced
    <3> QED BY <1>1, <2>2, <3>1 DEF T!FlushedAfter, T!CoverInv
  <2> QED BY <2>1, <2>2
<1> DEFINE p == <<flush[t].from, flush[t].to>>
<1>3. /\ T!Proceed(t, flush[t].force, done, conversation)
      /\ UNCHANGED <<conversation, phase, ending, terminal, marker, cutOff>>
      /\ \/ collected' = Append(collected, p) /\ UNCHANGED overtaken
         \/ /\ overtaken' = overtaken \cup ((flush[t].from + 1)..flush[t].to)
            /\ UNCHANGED collected
  BY DEF T!PostDone
<1>4. T!MessagesOf(p) = (flushed + 1)..flush[t].to /\ p \in Nat \X Nat /\ p[1] = flushed
      /\ p[2] = flush[t].to
  BY <1>1 DEF T!MessagesOf
<1>5. collected \in Seq(Nat \X Nat) /\ overtaken \subseteq Nat
  BY <1>1 DEF T!TypeOK
<1> HIDE DEF done, p
<1>6. /\ collected' \in Seq(Nat \X Nat) /\ overtaken' \subseteq Nat
      /\ overtaken \subseteq overtaken' /\ T!Received \subseteq T!Received'
      /\ (flushed + 1)..flush[t].to \subseteq T!Received' \cup overtaken'
  <2>1. CASE collected' = Append(collected, p) /\ UNCHANGED overtaken
    BY <1>4, <1>5, <2>1, ReceivedAppend
  <2>2. CASE /\ overtaken' = overtaken \cup ((flush[t].from + 1)..flush[t].to)
             /\ UNCHANGED collected
    <3>1. T!Received' = T!Received
      BY <2>2 DEF T!Received
    <3>2. (flushed + 1)..flush[t].to \subseteq Nat
      BY <1>1
    <3> QED BY <1>1, <1>5, <2>2, <3>1, <3>2
  <2> QED BY <1>3, <2>1, <2>2
<1>7. 1..done \subseteq T!Received' \cup overtaken'
  <2>1. 1..flushed \subseteq T!Received \cup overtaken
    BY <1>1 DEF T!CoverInv
  <2>2. 1..done = 1..flushed \cup (flushed + 1)..flush[t].to \cup (flush[t].to + 1)..done
    BY <1>1, <1>2
  <2> QED BY <1>2, <1>6, <2>1, <2>2
<1>8. \A u \in T!Tasks \ {t} : flush[u].at # "post"
  BY <1>1, Alone
<1>9. /\ flushed' = done /\ T!LockInv' /\ T!CoverInv'
      /\ lock' \in T!Tasks \cup {None}
      /\ flush' \in [T!Tasks -> [at : {"idle", "lock", "post", "stopped"}, force : BOOLEAN,
                                from : Nat, to : Nat]]
      /\ \/ flush'[t] = T!NoFlush /\ (flush[t].force => done = conversation)
         \/ flush'[t].at = "post" /\ flush'[t].force = flush[t].force
      /\ \A u \in T!Tasks \ {t} : flush'[u] = flush[u]
  <2>1. T!Proceed(t, flush[t].force, done, conversation) /\ conversation' = conversation
    BY <1>3
  <2>2. T!TypeOK /\ flush[t].force \in BOOLEAN /\ conversation \in Nat
    BY <1>1
  <2> QED BY <1>2, <1>7, <1>8, <2>1, <2>2, ProceedKeeps
<1>10. T!TypeOK'
  BY <1>1, <1>2, <1>3, <1>6, <1>9 DEF T!TypeOK
<1>11. T!OrderInv'
  BY <1>1, <1>2, <1>3, <1>4, <1>5, <1>9, OrderKeeps
<1>12. T!EndInv'
  <2>1. /\ phase \in {"flush", "report", "end"} => t = T!Main
        /\ phase \notin {"report", "end"} /\ terminal = <<>>
        /\ phase = "stop" => t # T!Main
    BY <1>1, EndPhases
  <2>2. phase = "flush" => flush[t].force
    BY <1>1, <2>1, Records DEF T!EndInv
  <2>3. T!Main \in T!Tasks
    BY DEF T!Tasks
  <2> QED BY <1>1, <1>3, <1>9, <2>1, <2>2, <2>3 DEF T!EndInv
<1> QED BY <1>9, <1>10, <1>11, <1>12 DEF T!ReportInv

LEMMA GetLockKeeps ==
    ASSUME T!ReportInv, NEW t \in T!Tasks, T!GetLock(t)
    PROVE  T!ReportInv'
<1>1. /\ T!TypeOK /\ T!LockInv /\ T!CoverInv /\ T!OrderInv /\ T!EndInv
      /\ flush[t].at = "lock" /\ lock = None /\ flushed \in Nat /\ conversation \in Nat
      /\ flushed <= conversation /\ flush[t].force \in BOOLEAN
      /\ T!Proceed(t, flush[t].force, flushed, conversation)
      /\ UNCHANGED <<conversation, phase, ending, collected, terminal, marker, overtaken, cutOff>>
  BY DEF T!ReportInv, T!GetLock, T!LockInv, T!TypeOK
<1>2. 1..flushed \subseteq T!Received' \cup overtaken'
  BY <1>1 DEF T!CoverInv, T!Received
<1>3. \A u \in T!Tasks \ {t} : flush[u].at # "post"
  BY <1>1, Alone
<1>4. /\ flushed' = flushed /\ T!LockInv' /\ T!CoverInv'
      /\ lock' \in T!Tasks \cup {None}
      /\ flush' \in [T!Tasks -> [at : {"idle", "lock", "post", "stopped"}, force : BOOLEAN,
                                from : Nat, to : Nat]]
      /\ \/ flush'[t] = T!NoFlush /\ (flush[t].force => flushed = conversation)
         \/ flush'[t].at = "post" /\ flush'[t].force = flush[t].force
      /\ \A u \in T!Tasks \ {t} : flush'[u] = flush[u]
  BY <1>1, <1>2, <1>3, ProceedKeeps
<1>5. T!TypeOK' /\ T!OrderInv'
  BY <1>1, <1>4, OrderKeeps DEF T!TypeOK
<1>6. T!EndInv'
  <2>1. /\ phase \in {"flush", "report", "end"} => t = T!Main
        /\ phase \notin {"report", "end"} /\ terminal = <<>>
        /\ phase = "stop" => t # T!Main
    BY <1>1, EndPhases
  <2>2. phase # "flush"
    BY <1>1, <2>1, Records DEF T!EndInv
  <2>3. T!Main \in T!Tasks
    BY DEF T!Tasks
  <2> QED BY <1>1, <1>4, <2>1, <2>2, <2>3 DEF T!EndInv
<1> QED BY <1>4, <1>5, <1>6 DEF T!ReportInv

LEMMA CaptureKeeps ==
    ASSUME T!ReportInv, NEW t \in T!Tasks, T!Capture(t)
    PROVE  T!ReportInv'
<1> DEFINE total == conversation + 1
<1>1. /\ T!TypeOK /\ T!LockInv /\ T!CoverInv /\ T!OrderInv /\ T!EndInv
      /\ phase = "run" /\ flush[t].at = "idle" /\ conversation \in Nat
      /\ overtaken \subseteq Nat
      /\ conversation' = total
      /\ overtaken' = overtaken \cup IF T!Forced = {} THEN {} ELSE {total}
      /\ T!EnterFlush(t, FALSE, total)
      /\ UNCHANGED <<phase, ending, collected, terminal, marker, cutOff>>
  BY Records DEF T!ReportInv, T!Capture, T!TypeOK
<1>2. T!TypeOK' /\ T!LockInv' /\ T!CoverInv' /\ flushed' = flushed
  <2>1. overtaken \subseteq overtaken' /\ overtaken' \subseteq Nat
        /\ (T!Forced # {} => total \in overtaken')
    <3>1. total \in Nat
      BY <1>1
    <3> HIDE DEF total
    <3> QED BY <1>1, <3>1, Zenon
  <2> QED BY <1>1, <2>1, EnterKeeps
<1>3. T!OrderInv' /\ T!EndInv'
  BY <1>1, <1>2, OrderKeeps DEF T!TypeOK, T!EndInv
<1> QED BY <1>2, <1>3 DEF T!ReportInv

LEMMA TimedFlushKeeps ==
    ASSUME T!ReportInv, T!TimedFlush
    PROVE  T!ReportInv'
<1>1. /\ T!TypeOK /\ T!LockInv /\ T!CoverInv /\ T!OrderInv /\ T!EndInv
      /\ flush[T!Timer] = T!NoFlush /\ conversation \in Nat /\ overtaken \subseteq Nat
      /\ T!EnterFlush(T!Timer, TRUE, conversation)
      /\ UNCHANGED <<conversation, phase, ending, collected, terminal, marker, overtaken, cutOff>>
  BY DEF T!ReportInv, T!TimedFlush, T!TypeOK
<1>2. /\ T!Timer \in T!Tasks /\ T!Timer # T!Main /\ T!Main \in T!Tasks
  BY DEF T!Timer, T!Main, T!Tasks
<1>3. /\ T!TypeOK' /\ T!LockInv' /\ T!CoverInv' /\ flushed' = flushed
      /\ \A u \in T!Tasks \ {T!Timer} : flush'[u] = flush[u]
  BY <1>1, <1>2, Records, EnterKeeps
<1>4. phase \notin {"flush", "report", "end"} /\ terminal = <<>>
  BY <1>1, <1>2, Records DEF T!EndInv
<1>5. T!OrderInv' /\ T!EndInv'
  BY <1>1, <1>2, <1>3, <1>4, OrderKeeps DEF T!TypeOK, T!EndInv
<1> QED BY <1>3, <1>5 DEF T!ReportInv

\* A task that stops, stops without posting more; the collector may have got what
\* it was posting.
LEMMA StopKeeps ==
    ASSUME T!TypeOK, T!LockInv, T!CoverInv, T!OrderInv, NEW S \in SUBSET T!Tasks,
           flush' \in [T!Tasks -> [at : {"idle", "lock", "post", "stopped"}, force : BOOLEAN,
                                  from : Nat, to : Nat]],
           \A u \in S : flush'[u] = T!Stopped,
           \A u \in T!Tasks \ S : flush'[u] = flush[u],
           lock' = IF lock \in S THEN None ELSE lock,
           UNCHANGED <<conversation, flushed, overtaken>>,
           T!CutOff(S)
    PROVE  T!TypeOK' /\ T!LockInv' /\ T!CoverInv' /\ T!OrderInv'
<1>1. collected \in Seq(Nat \X Nat)
  BY DEF T!TypeOK
<1>2. collected' \in Seq(Nat \X Nat) /\ T!Received \subseteq T!Received'
  <2>1. CASE UNCHANGED collected
    BY <1>1, <2>1 DEF T!Received
  <2>2. ASSUME NEW t \in S, collected' = Append(collected, <<flush[t].from, flush[t].to>>)
        PROVE  collected' \in Seq(Nat \X Nat) /\ T!Received \subseteq T!Received'
    <3>1. <<flush[t].from, flush[t].to>> \in Nat \X Nat
      BY DEF T!TypeOK
    <3> QED BY <1>1, <2>2, <3>1, ReceivedAppend
  <2> QED BY <2>1, <2>2 DEF T!CutOff
<1>3. T!TypeOK'
  BY <1>2 DEF T!TypeOK
<1>4. T!LockInv'
  <2>1. ASSUME NEW u \in T!Tasks, flush'[u].at = "post"
        PROVE  u \notin S /\ flush'[u] = flush[u] /\ lock = u /\ lock' = u
    BY <2>1, Records DEF T!LockInv
  <2>2. \A u \in T!Tasks : flush'[u].at = "post" =>
           /\ lock' = u
           /\ flush'[u].from = flushed' /\ flushed' < flush'[u].to /\ flush'[u].to <= conversation'
           /\ flush'[u].to - flushed' <= BatchSize
           /\ flush'[u].force \/ flush'[u].to - flushed' = BatchSize
    BY <2>1 DEF T!LockInv
  <2>3. lock' # None => flush'[lock'].at = "post"
    BY DEF T!LockInv, T!TypeOK
  <2>4. flushed' <= conversation'
    BY DEF T!LockInv
  <2> QED BY <2>2, <2>3, <2>4 DEF T!LockInv
<1>5. T!CoverInv'
  <2>1. \A u \in T!Forced' : u \in T!Forced /\ flush'[u] = flush[u]
    BY Records DEF T!Forced
  <2> QED BY <1>2, <2>1 DEF T!CoverInv
<1>6. T!OrderInv'
  <2>1. \/ UNCHANGED <<collected, cutOff>>
        \/ \E p \in Nat \X Nat :
              /\ collected' = Append(collected, p) /\ p[1] = flushed
              /\ \/ UNCHANGED cutOff /\ p[2] <= flushed'
                 \/ cutOff' = cutOff \cup {Len(collected) + 1}
    <3>1. ASSUME NEW t \in S, flush[t].at = "post",
                 collected' = Append(collected, <<flush[t].from, flush[t].to>>),
                 cutOff' = cutOff \cup {Len(collected) + 1}
          PROVE  <2>1
      <4>1. <<flush[t].from, flush[t].to>> \in Nat \X Nat /\ flush[t].from = flushed
        BY <3>1 DEF T!TypeOK, T!LockInv
      <4> QED BY <3>1, <4>1
    <3> QED BY <3>1 DEF T!CutOff
  <2> QED BY <1>1, <2>1, OrderKeeps DEF T!TypeOK
<1> QED BY <1>3, <1>4, <1>5, <1>6

LEMMA CancelKeeps ==
    ASSUME T!ReportInv, NEW t \in T!Tasks, T!CancelTask(t)
    PROVE  T!ReportInv'
<1>1. /\ T!TypeOK /\ T!LockInv /\ T!CoverInv /\ T!OrderInv /\ T!EndInv
      /\ phase = "stop" /\ t # T!Main /\ T!Main \in T!Tasks
      /\ flush' = [flush EXCEPT ![t] = T!Stopped]
      /\ lock' = IF lock = t THEN None ELSE lock
      /\ UNCHANGED <<conversation, flushed, phase, ending, terminal, overtaken>>
      /\ T!CutOff({t})
  BY DEF T!ReportInv, T!CancelTask, T!Tasks
<1>2. /\ flush' \in [T!Tasks -> [at : {"idle", "lock", "post", "stopped"}, force : BOOLEAN,
                                from : Nat, to : Nat]]
      /\ flush'[t] = T!Stopped /\ \A u \in T!Tasks \ {t} : flush'[u] = flush[u]
  BY <1>1, Records DEF T!TypeOK
<1>3. T!TypeOK' /\ T!LockInv' /\ T!CoverInv' /\ T!OrderInv'
  <2> DEFINE S == {t}
  <2>1. /\ S \in SUBSET T!Tasks /\ \A u \in S : flush'[u] = T!Stopped
        /\ \A u \in T!Tasks \ S : flush'[u] = flush[u]
        /\ lock' = IF lock \in S THEN None ELSE lock
        /\ T!CutOff(S)
    BY <1>1, <1>2
  <2> HIDE DEF S
  <2> QED BY <1>1, <1>2, <2>1, StopKeeps
<1>4. T!EndInv'
  BY <1>1, <1>2 DEF T!EndInv
<1> QED BY <1>3, <1>4 DEF T!ReportInv

LEMMA SignalKeeps ==
    ASSUME T!ReportInv, T!HandleSignal
    PROVE  T!ReportInv'
<1>1. /\ T!TypeOK /\ T!LockInv /\ T!CoverInv /\ T!OrderInv /\ T!EndInv
      /\ phase # "end" /\ phase' = "killed" /\ lock' = None
      /\ flush' = [u \in T!Tasks |-> T!Stopped]
      /\ UNCHANGED <<conversation, flushed, terminal, overtaken>>
      /\ T!CutOff(T!Tasks)
  BY DEF T!ReportInv, T!HandleSignal
<1>2. /\ flush' \in [T!Tasks -> [at : {"idle", "lock", "post", "stopped"}, force : BOOLEAN,
                                from : Nat, to : Nat]]
      /\ \A u \in T!Tasks : flush'[u] = T!Stopped
  BY <1>1, Records
<1>3. lock' = IF lock \in T!Tasks THEN None ELSE lock
  BY <1>1 DEF T!TypeOK
<1>4. T!TypeOK' /\ T!LockInv' /\ T!CoverInv' /\ T!OrderInv'
  <2> DEFINE S == T!Tasks
  <2>1. /\ S \in SUBSET T!Tasks /\ \A u \in S : flush'[u] = T!Stopped
        /\ \A u \in T!Tasks \ S : flush'[u] = flush[u]
        /\ lock' = IF lock \in S THEN None ELSE lock
        /\ T!CutOff(S)
    BY <1>1, <1>2, <1>3
  <2> HIDE DEF S
  <2> QED BY <1>1, <1>2, <2>1, StopKeeps
<1>5. T!EndInv'
  BY <1>1 DEF T!EndInv
<1> QED BY <1>4, <1>5 DEF T!ReportInv

\* Nobody posts and nothing is appended: all but the phase is as before.
LEMMA QuietKeeps ==
    ASSUME T!TypeOK, T!LockInv, T!CoverInv, T!OrderInv,
           UNCHANGED <<conversation, flushed, lock, flush, collected, overtaken, cutOff>>
    PROVE  T!TypeOK' /\ T!LockInv' /\ T!CoverInv' /\ T!OrderInv'
<1>1. T!Received' = T!Received /\ T!Forced' = T!Forced
  BY DEF T!Received, T!Forced
<1>2. T!OrderInv'
  BY OrderKeeps DEF T!TypeOK
<1> QED BY <1>1, <1>2 DEF T!TypeOK, T!LockInv, T!CoverInv

LEMMA LeaveLoopKeeps ==
    ASSUME T!ReportInv, NEW how, T!LeaveLoop(how)
    PROVE  T!ReportInv'
<1>1. T!TypeOK' /\ T!LockInv' /\ T!CoverInv' /\ T!OrderInv'
  BY QuietKeeps DEF T!ReportInv, T!LeaveLoop
<1>2. T!EndInv'
  BY DEF T!ReportInv, T!LeaveLoop, T!EndInv
<1> QED BY <1>1, <1>2 DEF T!ReportInv

\* The last flush: the lock is free, the other tasks are gone.
LEMMA FinalFlushKeeps ==
    ASSUME T!ReportInv, T!FinalFlush
    PROVE  T!ReportInv'
<1>1. /\ T!TypeOK /\ T!LockInv /\ T!CoverInv /\ T!OrderInv /\ T!EndInv
      /\ phase = "stop" /\ flush[T!Main] = T!NoFlush /\ conversation \in Nat /\ overtaken \subseteq Nat
      /\ \A u \in T!Tasks \ {T!Main} : flush[u] = T!Stopped
      /\ terminal = <<>> /\ T!Main \in T!Tasks
      /\ UNCHANGED <<conversation, ending, collected, terminal, overtaken, cutOff>>
  BY DEF T!ReportInv, T!FinalFlush, T!TypeOK, T!EndInv, T!Tasks
<1>2. CASE ending = "complete"
  <2>1. phase' = "flush" /\ T!EnterFlush(T!Main, TRUE, conversation)
    BY <1>2 DEF T!FinalFlush
  <2>2. lock = None
    BY <1>1, Records DEF T!LockInv, T!TypeOK
  <2>3. /\ T!TypeOK' /\ T!LockInv' /\ T!CoverInv'
        /\ \/ flush'[T!Main] = T!NoFlush /\ flushed' = conversation'
           \/ flush'[T!Main].at = "post" /\ flush'[T!Main].force
        /\ \A u \in T!Tasks \ {T!Main} : flush'[u] = flush[u]
    BY <1>1, <2>1, <2>2, Records, EnterKeeps
  <2>4. flushed' = flushed
    BY <1>1, <2>1, <2>2, Records, EnterKeeps
  <2>5. T!OrderInv' /\ T!EndInv'
    BY <1>1, <2>1, <2>3, <2>4, OrderKeeps DEF T!TypeOK, T!EndInv
  <2> QED BY <2>3, <2>5 DEF T!ReportInv
<1>3. CASE ending # "complete"
  <2>1. phase' = "report" /\ UNCHANGED <<flushed, lock, flush>>
    BY <1>3 DEF T!FinalFlush
  <2>2. T!TypeOK' /\ T!LockInv' /\ T!CoverInv' /\ T!OrderInv'
    BY <1>1, <2>1, QuietKeeps
  <2>3. T!EndInv'
    BY <1>1, <1>3, <2>1 DEF T!EndInv
  <2> QED BY <2>2, <2>3 DEF T!ReportInv
<1> QED BY <1>2, <1>3

LEMMA EndingKeeps ==
    ASSUME T!ReportInv, T!Age \/ T!Returned \/ T!ReportTerminal
    PROVE  T!ReportInv'
<1>1. T!TypeOK' /\ T!LockInv' /\ T!CoverInv' /\ T!OrderInv'
  BY QuietKeeps DEF T!ReportInv, T!Age, T!Returned, T!ReportTerminal
<1>2. CASE T!Age
  BY <1>1, <1>2 DEF T!ReportInv, T!Age, T!EndInv
<1>3. CASE T!Returned
  BY <1>1, <1>3, Records DEF T!ReportInv, T!Returned, T!EndInv
<1>4. CASE T!ReportTerminal
  BY <1>1, <1>4 DEF T!ReportInv, T!ReportTerminal, T!EndInv
<1> QED BY <1>2, <1>3, <1>4

LEMMA TranscriptStep == T!ReportInv /\ T!Next => T!ReportInv'
<1> SUFFICES ASSUME T!ReportInv, T!Next PROVE T!ReportInv'
  OBVIOUS
<1>1. CASE \E t \in T!Tasks : T!GetLock(t) \/ T!PostDone(t) \/ T!Capture(t) \/ T!CancelTask(t)
  BY <1>1, GetLockKeeps, PostDoneKeeps, CaptureKeeps, CancelKeeps
<1>2. CASE \E how \in {"complete", "timeout", "error"} : T!LeaveLoop(how)
  BY <1>2, LeaveLoopKeeps
<1>3. CASE T!Age \/ T!Returned \/ T!ReportTerminal
  BY <1>3, EndingKeeps
<1> QED BY <1>1, <1>2, <1>3, TimedFlushKeeps, FinalFlushKeeps, SignalKeeps DEF T!Next

\* After the terminal event no task is left that could report.
LEMMA NothingAfterTerminal ==
    T!ReportInv /\ T!Next /\ terminal # <<>> => UNCHANGED <<terminal, collected>>
<1> SUFFICES ASSUME T!ReportInv, T!Next, terminal # <<>> PROVE UNCHANGED <<terminal, collected>>
  OBVIOUS
<1>1. /\ phase = "end" /\ flush[T!Main] = T!NoFlush
      /\ \A t \in T!Tasks \ {T!Main} : flush[t] = T!Stopped
      /\ T!Main \in T!Tasks
  BY DEF T!ReportInv, T!EndInv, T!Tasks
<1>2. ASSUME NEW t \in T!Tasks
      PROVE  ~(T!GetLock(t) \/ T!PostDone(t) \/ T!Capture(t) \/ T!CancelTask(t))
  BY <1>1, Records DEF T!GetLock, T!PostDone, T!Capture, T!CancelTask
<1>3. ASSUME NEW how PROVE ~T!LeaveLoop(how)
  BY <1>1 DEF T!LeaveLoop
<1>4. ~(T!FinalFlush \/ T!Returned \/ T!ReportTerminal \/ T!HandleSignal)
  BY <1>1 DEF T!FinalFlush, T!Returned, T!ReportTerminal, T!HandleSignal
<1>5. T!Age \/ T!TimedFlush
  BY <1>2, <1>3, <1>4 DEF T!Next
<1> QED BY <1>5 DEF T!Age, T!TimedFlush

-----------------------------------------------------------------------------
(* The reports of a session.                                               *)

LEMMA ReportsInductive == MCSpec => []T!ReportInv
<1>1. MCInit => T!ReportInv
  BY TranscriptInit DEF MCInit
<1>2. T!ReportInv /\ [MCNext]_mcvars => T!ReportInv'
  <2>1. T!ReportInv /\ UNCHANGED tvars => T!ReportInv'
    <3> SUFFICES ASSUME T!ReportInv, UNCHANGED tvars PROVE T!ReportInv'
      OBVIOUS
    <3>1. T!TypeOK' /\ T!LockInv' /\ T!CoverInv' /\ T!OrderInv'
      BY QuietKeeps DEF T!ReportInv, tvars
    <3>2. T!EndInv'
      BY DEF T!ReportInv, T!EndInv, tvars
    <3> QED BY <3>1, <3>2 DEF T!ReportInv
  <2> QED BY <2>1, TranscriptStep DEF MCNext, mcvars
<1> QED BY <1>1, <1>2, PTL DEF MCSpec

\* The event collector gets every message at most once and in the order of the
\* conversation (flush_lock and flushed_messages), but that the batch of a flush
\* cancelled in mid-post may come again, in a batch that starts where it did.
THEOREM MessagesInOrderOnce == MCSpec => []InOrderOnce
<1>1. T!ReportInv => InOrderOnce
  BY DEF T!ReportInv, T!OrderInv, InOrderOnce
<1> QED BY <1>1, ReportsInductive, PTL

\* A complete session has reported every message, but for those a forced post
\* overtook and those of a lost post.
THEOREM OnlyOvertakenIsMissing == MCSpec => []OnlyOvertakenMissing
<1>1. T!ReportInv => OnlyOvertakenMissing
  BY DEF T!ReportInv, T!CoverInv, T!EndInv, OnlyOvertakenMissing, T!OnlyOvertakenMissing
<1> QED BY <1>1, ReportsInductive, PTL

\* Nothing reaches the event collector after the terminal event, and that only once.
THEOREM TerminalEndsReports == MCSpec => TerminalIsLast
<1>1. T!ReportInv /\ [MCNext]_mcvars
        => [terminal # <<>> => terminal' = terminal /\ collected' = collected]_T!vars
  BY NothingAfterTerminal DEF MCNext, mcvars, tvars, T!vars
<1> QED BY <1>1, ReportsInductive, PTL DEF MCSpec, TerminalIsLast, T!TerminalIsLast

-----------------------------------------------------------------------------
(* RuntimeSession: the messages of the CLI, and what the loop makes of them. *)

\* What a message has, by its kind.
LEMMA Kinds ==
  ASSUME NEW m \in MessageType
  PROVE  /\ m.kind \in {"call", "started", "updated", "notified", "tool_result", "result", "done", "error"}
         /\ m.kind = "call" => m.call \in Calls /\ m.tool \in Tools /\ m.task \in Calls
         /\ m.kind = "started" => m.call \in Calls /\ m.task \in Calls
         /\ m.kind = "updated" => m.call \in Calls
         /\ m.kind = "notified" =>
              m.call \in Calls \cup {None} /\ m.task \in Calls /\ m.status \in {"completed", "stopped"}
         /\ m.kind = "tool_result" =>
              m.call \in Calls /\ m.tool \in Tools /\ m.how \in {"ok", "no output", "error"}
         /\ m.kind = "result" => m.text \in {"", "text"} /\ m.unfinished \subseteq Calls
BY DEF MessageType

LEMMA Waiting ==
  ASSUME TypeOK
  PROVE  /\ out \in Seq(MessageType) /\ Len(out) \in Nat
         /\ \A i \in 1..Len(out) : out[i] \in MessageType
<1>1. out \in Seq(MessageType)
  BY DEF TypeOK
<1> QED BY <1>1

\* More messages behind those that wait.
LEMMA SaysMore ==
  ASSUME TypeOK, NEW ms \in Seq(MessageType), Says(ms)
  PROVE  /\ out' \in Seq(MessageType) /\ Len(out') = Len(out) + Len(ms)
         /\ Len(out) \in Nat /\ Len(ms) \in Nat
         /\ \A i \in 1..Len(out) : out'[i] = out[i]
         /\ \A i \in 1..Len(ms) : out'[Len(out) + i] = ms[i]
         /\ \A i \in 1..Len(out') : i \in 1..Len(out) \/ \E n \in 1..Len(ms) : i = Len(out) + n
         /\ \A i \in Len(out) + 1..Len(out') : \E n \in 1..Len(ms) : out'[i] = ms[n] /\ i = Len(out) + n
<1>1. out \in Seq(MessageType) /\ out' = out \o ms
  BY DEF TypeOK, Says
<1> HIDE DEF MessageType
<1>2. /\ out' \in Seq(MessageType) /\ Len(out') = Len(out) + Len(ms)
      /\ Len(out) \in Nat /\ Len(ms) \in Nat
  BY <1>1
<1>3. \A i \in 1..Len(out) : out'[i] = out[i]
  BY <1>1
<1>4. \A i \in 1..Len(ms) : out'[Len(out) + i] = ms[i]
  BY <1>1
<1>5. ASSUME NEW i \in 1..Len(out'), i \notin 1..Len(out)
      PROVE  \E n \in 1..Len(ms) : i = Len(out) + n
  <2>1. i - Len(out) \in 1..Len(ms) /\ i = Len(out) + (i - Len(out))
    BY <1>2, <1>5
  <2> QED BY <2>1
<1>6. ASSUME NEW i \in Len(out) + 1..Len(out')
      PROVE  \E n \in 1..Len(ms) : out'[i] = ms[n] /\ i = Len(out) + n
  <2>1. i \in 1..Len(out') /\ i \notin 1..Len(out)
    BY <1>2
  <2> QED BY <1>4, <1>5, <2>1
<1> QED BY <1>2, <1>3, <1>4, <1>5, <1>6

\* They change nothing about what comes before them.
LEMMA SaysLater ==
  ASSUME TypeOK, NEW ms \in Seq(MessageType), Says(ms), UNCHANGED <<owners, pending>>,
         \A p \in pending : task'[p] = task[p]
  PROVE  /\ \A t, id : \A i \in 1..Len(out) + 1 : RunsAs(t, id, i) => RunsAs(t, id, i)'
         /\ \A t, id : (\A n \in 1..Len(ms) : ~Acts(ms[n], t)) /\ RunsAs(t, id, Len(out) + 1)
              => \A i \in Len(out) + 1..Len(out') + 1 : RunsAs(t, id, i)'
         /\ \A t, id : (\E n \in 1..Len(ms) : /\ Starts(ms[n], t) /\ ms[n].call = id
                                              /\ \A k \in n+1..Len(ms) : ~Acts(ms[k], t))
              => RunsAs(t, id, Len(out) + 1)'
         /\ \A t : \A i \in 1..Len(out) + 1 : GoneAt(t, i) => GoneAt(t, i)'
         /\ \A t : (\A n \in 1..Len(ms) : ~Opens(ms[n], t)) /\ GoneAt(t, Len(out) + 1)
              => \A i \in Len(out) + 1..Len(out') + 1 : GoneAt(t, i)'
         /\ \A t : (\E n \in 1..Len(ms) : /\ Shuts(ms[n], t)
                                          /\ \A k \in n+1..Len(ms) : ~Opens(ms[k], t))
              => GoneAt(t, Len(out) + 1)'
<1>1. /\ Len(out') = Len(out) + Len(ms) /\ Len(out) \in Nat /\ Len(ms) \in Nat
      /\ \A i \in 1..Len(out) : out'[i] = out[i]
      /\ \A i \in 1..Len(ms) : out'[Len(out) + i] = ms[i]
      /\ \A i \in 1..Len(out') : i \in 1..Len(out) \/ \E n \in 1..Len(ms) : i = Len(out) + n
  BY SaysMore
<1>2. ASSUME NEW t, NEW id, NEW i \in 1..Len(out) + 1, RunsAs(t, id, i) PROVE RunsAs(t, id, i)'
  <2>1. \A k \in 1..i-1 : k \in 1..Len(out)
    BY <1>1
  <2>2. CASE owners[t] = id /\ id \in pending /\ \A k \in 1..i-1 : ~Acts(out[k], t)
    BY <1>1, <2>1, <2>2 DEF RunsAs
  <2>3. ASSUME NEW j \in 1..i-1, Starts(out[j], t), out[j].call = id,
               \A k \in j+1..i-1 : ~Acts(out[k], t)
        PROVE  RunsAs(t, id, i)'
    <3>1. \A k \in j+1..i-1 : k \in 1..i-1
      OBVIOUS
    <3> QED BY <1>1, <2>1, <2>3, <3>1 DEF RunsAs
  <2> QED BY <1>2, <2>2, <2>3 DEF RunsAs
<1>3. ASSUME NEW t, NEW id, \A n \in 1..Len(ms) : ~Acts(ms[n], t), RunsAs(t, id, Len(out) + 1),
             NEW i \in Len(out) + 1..Len(out') + 1
      PROVE  RunsAs(t, id, i)'
  <2>1. \A k \in 1..i-1 : k \in 1..Len(out) => k \in 1..Len(out) + 1 - 1
    BY <1>1
  <2>2. \A k \in 1..i-1 : k \in 1..Len(out')
    BY <1>1
  <2>3. CASE owners[t] = id /\ id \in pending /\ \A k \in 1..Len(out) + 1 - 1 : ~Acts(out[k], t)
    <3>1. \A k \in 1..i-1 : ~Acts(out'[k], t)
      BY <1>1, <1>3, <2>1, <2>2, <2>3
    <3> QED BY <2>3, <3>1 DEF RunsAs
  <2>4. ASSUME NEW j \in 1..Len(out) + 1 - 1, Starts(out[j], t), out[j].call = id,
               \A k \in j+1..Len(out) + 1 - 1 : ~Acts(out[k], t)
        PROVE  RunsAs(t, id, i)'
    <3>1. j \in 1..i-1 /\ j \in 1..Len(out)
      BY <1>1
    <3>2. \A k \in j+1..i-1 : ~Acts(out'[k], t)
      <4> SUFFICES ASSUME NEW k \in j+1..i-1 PROVE ~Acts(out'[k], t)
        OBVIOUS
      <4>1. k \in 1..Len(out) => k \in j+1..Len(out) + 1 - 1
        BY <1>1
      <4>2. k \in 1..Len(out')
        BY <1>1
      <4> QED BY <1>1, <1>3, <2>4, <4>1, <4>2
    <3> QED BY <1>1, <2>4, <3>1, <3>2 DEF RunsAs
  <2> QED BY <1>3, <2>3, <2>4 DEF RunsAs
<1>4. ASSUME NEW t, NEW id, NEW n \in 1..Len(ms), Starts(ms[n], t), ms[n].call = id,
             \A k \in n+1..Len(ms) : ~Acts(ms[k], t)
      PROVE  RunsAs(t, id, Len(out) + 1)'
  <2> DEFINE j == Len(out) + n
  <2>1. j \in 1..Len(out') + 1 - 1 /\ out'[j] = ms[n]
    <3>1. Len(out') = Len(out) + Len(ms) /\ Len(out) \in Nat /\ Len(ms) \in Nat
      BY <1>1
    <3>2. j \in 1..Len(out') + 1 - 1
      BY <3>1
    <3>3. out'[j] = ms[n]
      BY <1>1
    <3> QED BY <3>2, <3>3
  <2>2. ASSUME NEW k \in j+1..Len(out') + 1 - 1 PROVE ~Acts(out'[k], t)
    <3>1. k - Len(out) \in n+1..Len(ms) /\ k - Len(out) \in 1..Len(ms) /\ Len(out) + (k - Len(out)) = k
      BY <1>1
    <3>2. out'[k] = ms[k - Len(out)]
      BY <1>1, <3>1
    <3> QED BY <1>4, <3>1, <3>2
  <2>3. \E i \in 1..Len(out') + 1 - 1 : Starts(out'[i], t) /\ out'[i].call = id /\ \A k \in i+1..Len(out') + 1 - 1 : ~Acts(out'[k], t)
    <3>1. Starts(out'[j], t) /\ out'[j].call = id /\ \A k \in j+1..Len(out') + 1 - 1 : ~Acts(out'[k], t)
      BY <1>4, <2>1, <2>2
    <3> HIDE DEF j
    <3> QED BY <2>1, <3>1
  <2> QED BY <2>3 DEF RunsAs
<1>5. ASSUME NEW t, NEW i \in 1..Len(out) + 1, GoneAt(t, i) PROVE GoneAt(t, i)'
  <2>1. \A k \in 1..i-1 : k \in 1..Len(out)
    BY <1>1
  <2>2. CASE (\A p \in pending : task[p] # t) /\ \A k \in 1..i-1 : ~Opens(out[k], t)
    BY <1>1, <2>1, <2>2 DEF GoneAt
  <2>3. ASSUME NEW j \in 1..i-1, Shuts(out[j], t), \A k \in j+1..i-1 : ~Opens(out[k], t)
        PROVE  GoneAt(t, i)'
    <3>1. \A k \in j+1..i-1 : k \in 1..i-1
      OBVIOUS
    <3> QED BY <1>1, <2>1, <2>3, <3>1 DEF GoneAt
  <2> QED BY <1>5, <2>2, <2>3 DEF GoneAt
<1>6. ASSUME NEW t, \A n \in 1..Len(ms) : ~Opens(ms[n], t), GoneAt(t, Len(out) + 1),
             NEW i \in Len(out) + 1..Len(out') + 1
      PROVE  GoneAt(t, i)'
  <2>1. \A k \in 1..i-1 : k \in 1..Len(out) => k \in 1..Len(out) + 1 - 1
    BY <1>1
  <2>2. \A k \in 1..i-1 : k \in 1..Len(out')
    BY <1>1
  <2>3. CASE (\A p \in pending : task[p] # t) /\ \A k \in 1..Len(out) + 1 - 1 : ~Opens(out[k], t)
    <3>1. \A k \in 1..i-1 : ~Opens(out'[k], t)
      BY <1>1, <1>6, <2>1, <2>2, <2>3
    <3> QED BY <2>3, <3>1 DEF GoneAt
  <2>4. ASSUME NEW j \in 1..Len(out) + 1 - 1, Shuts(out[j], t),
               \A k \in j+1..Len(out) + 1 - 1 : ~Opens(out[k], t)
        PROVE  GoneAt(t, i)'
    <3>1. j \in 1..i-1 /\ j \in 1..Len(out)
      BY <1>1
    <3>2. \A k \in j+1..i-1 : ~Opens(out'[k], t)
      <4> SUFFICES ASSUME NEW k \in j+1..i-1 PROVE ~Opens(out'[k], t)
        OBVIOUS
      <4>1. k \in 1..Len(out) => k \in j+1..Len(out) + 1 - 1
        BY <1>1
      <4>2. k \in 1..Len(out')
        BY <1>1
      <4> QED BY <1>1, <1>6, <2>4, <4>1, <4>2
    <3> QED BY <1>1, <2>4, <3>1, <3>2 DEF GoneAt
  <2> QED BY <1>6, <2>3, <2>4 DEF GoneAt
<1>7. ASSUME NEW t, NEW n \in 1..Len(ms), Shuts(ms[n], t),
             \A k \in n+1..Len(ms) : ~Opens(ms[k], t)
      PROVE  GoneAt(t, Len(out) + 1)'
  <2> DEFINE j == Len(out) + n
  <2>1. j \in 1..Len(out') + 1 - 1 /\ out'[j] = ms[n]
    <3>1. Len(out') = Len(out) + Len(ms) /\ Len(out) \in Nat /\ Len(ms) \in Nat
      BY <1>1
    <3>2. j \in 1..Len(out') + 1 - 1
      BY <3>1
    <3>3. out'[j] = ms[n]
      BY <1>1
    <3> QED BY <3>2, <3>3
  <2>2. ASSUME NEW k \in j+1..Len(out') + 1 - 1 PROVE ~Opens(out'[k], t)
    <3>1. k - Len(out) \in n+1..Len(ms) /\ k - Len(out) \in 1..Len(ms) /\ Len(out) + (k - Len(out)) = k
      BY <1>1
    <3>2. out'[k] = ms[k - Len(out)]
      BY <1>1, <3>1
    <3> QED BY <1>7, <3>1, <3>2
  <2>3. \E i \in 1..Len(out') + 1 - 1 : Shuts(out'[i], t) /\ \A k \in i+1..Len(out') + 1 - 1 : ~Opens(out'[k], t)
    <3>1. Shuts(out'[j], t) /\ \A k \in j+1..Len(out') + 1 - 1 : ~Opens(out'[k], t)
      BY <1>7, <2>1, <2>2
    <3> HIDE DEF j
    <3> QED BY <2>1, <3>1
  <2> QED BY <2>3 DEF GoneAt
<1>8. \A t, id : (\E n \in 1..Len(ms) : /\ Starts(ms[n], t) /\ ms[n].call = id
                                        /\ \A k \in n+1..Len(ms) : ~Acts(ms[k], t))
        => RunsAs(t, id, Len(out) + 1)'
  BY <1>4
<1>9. \A t : (\E n \in 1..Len(ms) : /\ Shuts(ms[n], t)
                                    /\ \A k \in n+1..Len(ms) : ~Opens(ms[k], t))
        => GoneAt(t, Len(out) + 1)'
  BY <1>7
<1>10. \A t, id : (\A n \in 1..Len(ms) : ~Acts(ms[n], t)) /\ RunsAs(t, id, Len(out) + 1)
         => \A i \in Len(out) + 1..Len(out') + 1 : RunsAs(t, id, i)'
  BY <1>3
<1>11. \A t : (\A n \in 1..Len(ms) : ~Opens(ms[n], t)) /\ GoneAt(t, Len(out) + 1)
         => \A i \in Len(out) + 1..Len(out') + 1 : GoneAt(t, i)'
  BY <1>6
<1>12. \A t, id : \A i \in 1..Len(out) + 1 : RunsAs(t, id, i) => RunsAs(t, id, i)'
  BY <1>2
<1> QED BY <1>5, <1>8, <1>9, <1>10, <1>11, <1>12

\* What was in its place stays there.
LEMMA PlacesStay ==
  ASSUME TypeOK, MessageInv, OwnerInv, NEW ms \in Seq(MessageType), Says(ms),
         UNCHANGED <<owners, pending>>,
         \A c \in Calls : task[c] # None => task'[c] = task[c],
         \A c \in Calls : run[c] = "refused" => run'[c] = "refused"
  PROVE  \A i \in 1..Len(out) : InPlace(i)'
<1> SUFFICES ASSUME NEW i \in 1..Len(out) PROVE InPlace(i)'
  OBVIOUS
<1>1. \A p \in pending : task'[p] = task[p]
  BY DEF OwnerInv, TypeOK
<1>2. /\ \A k \in 1..Len(out) : out'[k] = out[k]
      /\ \A t, id : RunsAs(t, id, i) => RunsAs(t, id, i)'
      /\ Len(out) \in Nat
  BY <1>1, SaysMore, SaysLater
<1>3. out[i] \in MessageType /\ InPlace(i)
  <2>1. out \in Seq(MessageType)
    BY DEF TypeOK
  <2> QED BY <2>1 DEF MessageInv
<1>4. out'[i] = out[i] /\ \A k \in 1..i-1 : out'[k] = out[k]
  BY <1>2
<1>5. None \notin Calls
  BY SessionAssumption
<1> DEFINE msg == out[i]
<1>a. /\ msg.kind = "call" => msg.call \in Calls /\ msg.task \in Calls
      /\ msg.kind = "started" => msg.call \in Calls /\ msg.task \in Calls
      /\ msg.kind = "tool_result" => msg.call \in Calls
      /\ msg.kind = "result" => msg.unfinished \subseteq Calls
  BY <1>3, Kinds
<1>6. msg.kind = "call" => task'[msg.call] = msg.task /\ (msg.tool # "SendMessage" => msg.task = msg.call)
  BY <1>3, <1>5, <1>a DEF InPlace
<1>7. msg.kind = "started" =>
        /\ task'[msg.call] = msg.task
        /\ msg.call = msg.task \/ owners'[msg.task] # None \/ \E k \in 1..i-1 : Starts(out'[k], msg.task)
  BY <1>3, <1>4, <1>5, <1>a DEF InPlace
<1>8. msg.kind = "notified" => \E id \in Calls : msg.call \in {id, None} /\ RunsAs(msg.task, id, i)'
  BY <1>2, <1>3 DEF InPlace
<1>9. msg.kind = "tool_result" /\ msg.tool = "Agent" /\ msg.how = "error" =>
        task'[msg.call] = msg.call /\ run'[msg.call] = "refused"
  BY <1>3, <1>5, <1>a DEF InPlace
<1>10. msg.kind = "result" =>
         \A c \in msg.unfinished : task'[c] # None /\ \E id \in Calls : RunsAs(task[c], id, i)'
  <2> SUFFICES ASSUME msg.kind = "result", NEW c \in msg.unfinished
               PROVE  task'[c] # None /\ \E id \in Calls : RunsAs(task[c], id, i)'
    OBVIOUS
  <2>1. c \in Calls /\ task[c] # None /\ \E id \in Calls : RunsAs(task[c], id, i)
    BY <1>3, <1>a DEF InPlace
  <2>2. PICK id \in Calls : RunsAs(task[c], id, i)
    BY <2>1
  <2>3. task'[c] = task[c]
    BY <2>1
  <2>4. RunsAs(task[c], id, i)'
    <3> DEFINE t == task[c]
    <3>1. task'[c] = t /\ RunsAs(t, id, i)
      BY <2>2, <2>3
    <3> QED BY <1>2, <3>1
  <2> QED BY <2>1, <2>3, <2>4
<1> QED BY <1>4, <1>6, <1>7, <1>8, <1>9, <1>10 DEF InPlace

\* A step of the CLI, by what it says.
LEMMA SayingKeeps ==
  ASSUME TypeOK, CallInv, MessageInv, OwnerInv, NEW ms \in Seq(MessageType), Says(ms),
         UNCHANGED <<owners, pending, hadAsync>>,
         \A c \in Calls : task[c] # None => task'[c] = task[c],
         \A c \in Calls : run[c] = "refused" => run'[c] = "refused",
         \A i \in Len(out) + 1..Len(out') : InPlace(i)',
         \A t \in Calls : Begun(t) => Begun(t)',
         \A t \in Calls : \A n \in 1..Len(ms) : Later(ms[n], t) => Begun(t)',
         \A t \in Calls : Begun(t)' => Begun(t) \/ \E n \in 1..Len(ms) : Starts(ms[n], t),
         \A t \in Calls : \A n \in 1..Len(ms) : Launch(ms[n], t) => n = 1 /\ ~Begun(t),
         \A c \in Calls : run'[c] \in {"inline", "running"} =>
            name'[c] \in Calls /\ RunsAs(task[c], name[c], Len(out) + 1)'
  PROVE  MessageInv' /\ OwnerInv'
<1>1. /\ Len(out') = Len(out) + Len(ms) /\ Len(out) \in Nat /\ Len(ms) \in Nat
      /\ \A i \in 1..Len(out) : out'[i] = out[i]
      /\ \A i \in 1..Len(ms) : out'[Len(out) + i] = ms[i]
      /\ \A i \in 1..Len(out') : i \in 1..Len(out) \/ \E n \in 1..Len(ms) : i = Len(out) + n
  BY SaysMore
<1>2. MessageInv'
  <2>1. \A i \in 1..Len(out) : InPlace(i)'
    BY PlacesStay
  <2>2. ASSUME NEW i \in 1..Len(out') PROVE InPlace(i)'
    <3>1. i \in 1..Len(out) \/ i \in Len(out) + 1..Len(out')
      BY <1>1
    <3> QED BY <2>1, <3>1
  <2> QED BY <2>2 DEF MessageInv
<1>3. \A t \in Calls : owners'[t] # None => task'[owners'[t]] = t /\ hadAsync'
  <2>1. \A t \in Calls : owners[t] # None => owners[t] \in Calls /\ task[owners[t]] = t /\ hadAsync
    BY DEF OwnerInv, TypeOK
  <2>2. None \notin Calls
    BY SessionAssumption
  <2> QED BY <2>1, <2>2
<1>4. (\A p \in pending' : task'[p] # None) /\ (pending' # {} => hadAsync')
  BY DEF OwnerInv, TypeOK
<1>5. ASSUME NEW t \in Calls, ~Begun(t)'
      PROVE  owners'[t] = None /\ \A i \in 1..Len(out') : ~Later(out'[i], t)
  <2>1. owners[t] = None /\ \A i \in 1..Len(out) : ~Later(out[i], t)
    BY <1>5 DEF OwnerInv
  <2> QED BY <1>1, <1>5, <2>1
<1>6. ASSUME NEW t \in Calls, Begun(t)'
      PROVE  owners'[t] # None \/ \E i \in 1..Len(out') : Starts(out'[i], t)
  <2>1. CASE Begun(t)
    <3>1. owners[t] # None \/ \E i \in 1..Len(out) : Starts(out[i], t)
      BY <2>1 DEF OwnerInv
    <3>2. \A i \in 1..Len(out) : i \in 1..Len(out') /\ out'[i] = out[i]
      BY <1>1
    <3> QED BY <3>1, <3>2
  <2>2. ASSUME NEW n \in 1..Len(ms), Starts(ms[n], t) PROVE \E i \in 1..Len(out') : Starts(out'[i], t)
    <3>1. Len(out) + n \in 1..Len(out') /\ out'[Len(out) + n] = ms[n]
      BY <1>1
    <3> QED BY <2>2, <3>1
  <2> QED BY <1>6, <2>1, <2>2
<1>7. ASSUME NEW t \in Calls, NEW i \in 1..Len(out'), Launch(out'[i], t)
      PROVE  owners'[t] = None /\ \A k \in 1..i-1 : ~Later(out'[k], t)
  <2>1. CASE i \in 1..Len(out)
    <3>1. \A k \in 1..i-1 : out'[k] = out[k]
      BY <1>1, <2>1
    <3> QED BY <1>1, <1>7, <2>1, <3>1 DEF OwnerInv
  <2>2. ASSUME NEW n \in 1..Len(ms), i = Len(out) + n
        PROVE  owners'[t] = None /\ \A k \in 1..i-1 : ~Later(out'[k], t)
    <3>1. n = 1 /\ ~Begun(t)
      BY <1>1, <1>7, <2>2
    <3>2. \A k \in 1..i-1 : k \in 1..Len(out)
      BY <1>1, <2>2, <3>1
    <3> QED BY <1>1, <3>1, <3>2 DEF OwnerInv
  <2> QED BY <1>1, <2>1, <2>2
<1>8. OwnerInv'
  BY <1>3, <1>4, <1>5, <1>6, <1>7 DEF OwnerInv
<1> QED BY <1>2, <1>8

LEMMA SayingEnds ==
  ASSUME TypeOK, OwnerInv, EndInv, NEW ms \in Seq(MessageType), Says(ms),
         UNCHANGED <<owners, pending>>,
         \A c \in Calls : task[c] # None => task'[c] = task[c],
         overlooked => overlooked',
         ~overlooked' => \A n \in 1..Len(ms) :
           /\ ms[n].kind = "notified" => ms[n].status = "completed"
           /\ ms[n].kind = "result" => n = 1 /\ ms[n].unfinished = Unfinished /\ UNCHANGED task,
         ~overlooked' =>
           \A t \in Calls : GoneAt(t, Len(out) + 1)' \/ \E c \in Unfinished' : task'[c] = t
  PROVE  EndInv'
<1> SUFFICES ASSUME ~overlooked' PROVE EndInv'
  BY DEF EndInv
<1>1. /\ Len(out') = Len(out) + Len(ms) /\ Len(out) \in Nat /\ Len(ms) \in Nat
      /\ \A i \in 1..Len(out) : out'[i] = out[i]
      /\ \A i \in 1..Len(ms) : out'[Len(out) + i] = ms[i]
      /\ \A i \in 1..Len(out') : i \in 1..Len(out) \/ \E n \in 1..Len(ms) : i = Len(out) + n
  BY SaysMore
<1>2. \A p \in pending : p \in Calls /\ task[p] \in Calls /\ task'[p] = task[p]
  BY ZenonT(60) DEF OwnerInv, TypeOK
<1>3. \A t : \A i \in 1..Len(out) + 1 : GoneAt(t, i) => GoneAt(t, i)'
  BY <1>2, SaysLater
<1>4. \A p \in pending' : owners'[task'[p]] = p \/ (owners'[task'[p]] = None /\ task'[p] = p)
  <2>1. \A p \in pending : owners[task[p]] = p \/ (owners[task[p]] = None /\ task[p] = p)
    BY DEF EndInv
  <2> QED BY <1>2, <2>1
<1>5. ASSUME NEW i \in 1..Len(out')
      PROVE  /\ out'[i].kind = "notified" => out'[i].status = "completed"
             /\ out'[i].kind = "result" =>
                  \A t \in Calls : GoneAt(t, i)' \/ \E c \in out'[i].unfinished : task'[c] = t
  <2>1. CASE i \in 1..Len(out)
    <3>1. out'[i] = out[i] /\ out[i] \in MessageType
      BY <1>1, <2>1, Waiting
    <3>2. out[i].kind = "notified" => out[i].status = "completed"
      BY <2>1 DEF EndInv
    <3>3. ASSUME out[i].kind = "result", NEW t \in Calls
          PROVE  GoneAt(t, i)' \/ \E c \in out[i].unfinished : task'[c] = t
      <4>1. GoneAt(t, i) \/ \E c \in out[i].unfinished : task[c] = t
        BY <2>1, <3>3 DEF EndInv
      <4>2. out[i].unfinished \subseteq Calls
        BY <3>1, <3>3, Kinds
      <4>3. None \notin Calls
        BY SessionAssumption
      <4>4. i \in 1..Len(out) + 1
        BY <1>1, <2>1
      <4>5. GoneAt(t, i) => GoneAt(t, i)'
        BY <1>3, <4>4
      <4> QED BY <4>1, <4>2, <4>3, <4>5
    <3> QED BY <3>1, <3>2, <3>3
  <2>2. ASSUME NEW n \in 1..Len(ms), i = Len(out) + n
        PROVE  /\ out'[i].kind = "notified" => out'[i].status = "completed"
               /\ out'[i].kind = "result" =>
                    \A t \in Calls : GoneAt(t, i)' \/ \E c \in out'[i].unfinished : task'[c] = t
    <3>1. out'[i] = ms[n]
      BY <1>1, <2>2
    <3>2. ASSUME ms[n].kind = "result", NEW t \in Calls
          PROVE  GoneAt(t, i)' \/ \E c \in ms[n].unfinished : task'[c] = t
      <4>1. n = 1 /\ ms[n].unfinished = Unfinished /\ task' = task
        BY <3>2
      <4>2. GoneAt(t, Len(out) + 1) \/ \E c \in Unfinished : task[c] = t
        BY DEF EndInv
      <4>3. i = Len(out) + 1 /\ i \in 1..Len(out) + 1
        BY <1>1, <2>2, <4>1
      <4>4. GoneAt(t, i) => GoneAt(t, i)'
        BY <1>3, <4>3
      <4> QED BY <4>1, <4>2, <4>3, <4>4
    <3> QED BY <3>1, <3>2
  <2> QED BY <1>1, <2>1, <2>2
<1>6. \A t \in Calls : GoneAt(t, Len(out) + 1)' \/ \E c \in Unfinished' : task'[c] = t
  OBVIOUS
<1> QED BY <1>4, <1>5, <1>6 DEF EndInv

Idle == turn = "off" /\ ~news /\ Unfinished = {} /\ ~overlooked /\ outcome = None
LastWord(m) == m.kind = "result" /\ m.text # "" /\ m.unfinished = {}

LEMMA SayingIdles ==
  ASSUME TypeOK, IdleInv, NEW ms \in Seq(MessageType), Says(ms), UNCHANGED <<closed, inbox, shut>>,
         Idle' => Idle \/ \E n \in 1..Len(ms) : LastWord(ms[n])
  PROVE  IdleInv'
<1>1. /\ Len(out') = Len(out) + Len(ms) /\ Len(out) \in Nat /\ Len(ms) \in Nat
      /\ \A i \in 1..Len(out) : out'[i] = out[i]
      /\ \A i \in 1..Len(ms) : out'[Len(out) + i] = ms[i]
  BY SaysMore
<1>2. \A i \in 1..Len(out) : i \in 1..Len(out') /\ out'[i] = out[i]
  BY <1>1
<1>3. \A n \in 1..Len(ms) : Len(out) + n \in 1..Len(out') /\ out'[Len(out) + n] = ms[n]
  BY <1>1
<1>4. Idle => closed \/ \E i \in 1..Len(out) : LastWord(out[i])
  BY DEF IdleInv, Idle, LastWord
<1>5. Idle' => closed' \/ \E i \in 1..Len(out') : LastWord(out'[i])
  <2>1. ASSUME NEW i \in 1..Len(out), LastWord(out[i])
        PROVE  \E k \in 1..Len(out') : LastWord(out'[k])
    BY <1>2, <2>1
  <2>2. ASSUME NEW n \in 1..Len(ms), LastWord(ms[n])
        PROVE  \E k \in 1..Len(out') : LastWord(out'[k])
    BY <1>3, <2>2
  <2> QED BY <1>4, <2>1, <2>2
<1> QED BY <1>5 DEF IdleInv, Idle, LastWord

\* One message, and two.
LEMMA OneMessage ==
  ASSUME NEW a \in MessageType
  PROVE  /\ <<a>> \in Seq(MessageType) /\ Len(<<a>>) = 1
         /\ \A n \in 1..Len(<<a>>) : n = 1 /\ <<a>>[n] = a
OBVIOUS

LEMMA SaysUpToTwo ==
  ASSUME NEW a \in MessageType, NEW b \in MessageType, NEW two \in BOOLEAN,
         Says(<<a>> \o IF two THEN <<b>> ELSE <<>>)
  PROVE  \E ms \in Seq(MessageType) :
           /\ Says(ms) /\ Len(ms) \in {1, 2} /\ 1 \in 1..Len(ms) /\ ms[1] = a
           /\ \A n \in 1..Len(ms) : (n = 1 /\ ms[n] = a) \/ (n = 2 /\ ms[n] = b)
           /\ \A n \in 1+1..Len(ms) : ms[n] = b
<1>1. <<a>> \in Seq(MessageType) /\ Len(<<a>>) = 1 /\ <<b>> \in Seq(MessageType) /\ Len(<<b>>) = 1
      /\ <<a>>[1] = a /\ <<b>>[1] = b
  OBVIOUS
<1>2. CASE two
  <2>1. PICK ms : ms = <<a>> \o <<b>>
    OBVIOUS
  <2>2. ms \in Seq(MessageType) /\ Len(ms) = 2
    BY <1>1, <2>1
  <2>3. ms[1] = a /\ ms[2] = b
    BY <1>1, <2>1
  <2>4. (\A n \in 1..2 : n = 1 \/ n = 2) /\ \A n \in 1+1..2 : n = 2
    OBVIOUS
  <2>5. Says(ms)
    BY <1>2, <2>1
  <2>6. /\ Len(ms) \in {1, 2} /\ 1 \in 1..Len(ms) /\ ms[1] = a
        /\ \A n \in 1..Len(ms) : (n = 1 /\ ms[n] = a) \/ (n = 2 /\ ms[n] = b)
    BY <2>2, <2>3, <2>4
  <2>7. \A n \in 1+1..Len(ms) : ms[n] = b
    BY <2>2, <2>3, <2>4
  <2> QED BY <2>2, <2>5, <2>6, <2>7
<1>3. CASE ~two
  <2>1. PICK ms : ms = <<a>>
    OBVIOUS
  <2>2. ms \in Seq(MessageType) /\ Len(ms) = 1 /\ ms[1] = a
    BY <1>1, <2>1
  <2>3. (\A n \in 1..1 : n = 1) /\ \A n \in 1+1..1 : FALSE
    OBVIOUS
  <2>4. <<a>> \o <<>> = <<a>>
    BY <1>1
  <2>5. Says(ms)
    BY <1>3, <2>1, <2>4
  <2> QED BY <2>2, <2>3, <2>5
<1> QED BY <1>2, <1>3

\* The messages of the CLI are of the type.
LEMMA CliMessages ==
  ASSUME NEW c \in Calls, NEW t \in Calls, NEW how \in Tools
  PROVE  /\ [kind |-> "call", call |-> c, tool |-> how, task |-> t] \in MessageType
         /\ [kind |-> "started", call |-> c, task |-> t] \in MessageType
         /\ [kind |-> "updated", call |-> c] \in MessageType
         /\ \A id \in Calls \cup {None}, status \in {"completed", "stopped"} :
              [kind |-> "notified", call |-> id, task |-> t, status |-> status] \in MessageType
         /\ \A r \in {"ok", "no output", "error"} :
              [kind |-> "tool_result", call |-> c, tool |-> how, how |-> r] \in MessageType
<1>1. [kind |-> "call", call |-> c, tool |-> how, task |-> t] \in MessageType
  BY DEF MessageType
<1>2. [kind |-> "started", call |-> c, task |-> t] \in MessageType
  BY DEF MessageType
<1>3. [kind |-> "updated", call |-> c] \in MessageType
  BY DEF MessageType
<1>4. \A id \in Calls \cup {None}, status \in {"completed", "stopped"} :
        [kind |-> "notified", call |-> id, task |-> t, status |-> status] \in MessageType
  BY DEF MessageType
<1>5. \A r \in {"ok", "no output", "error"} :
        [kind |-> "tool_result", call |-> c, tool |-> how, how |-> r] \in MessageType
  BY DEF MessageType
<1> QED BY <1>1, <1>2, <1>3, <1>4, <1>5

\* What is said of the end of the session while it goes on.
LEMMA SessionGoesOn ==
  ASSUME outcome' = None, UNCHANGED <<final, hadAsync>>, AnswerInv
  PROVE  AnswerInv' /\ AnswerCoversSubagents' /\ TimeoutExplained'
BY SessionAssumption DEF AnswerInv, AnswerCoversSubagents, TimeoutExplained

\* What the CLI may say, and of what, as its n-th message of a step.
Proper(m, n) ==
  /\ m.kind = "call" => task'[m.call] = m.task /\ (m.tool # "SendMessage" => m.task = m.call)
  /\ m.kind = "started" => task'[m.call] = m.task /\ (m.call = m.task \/ Begun(m.task))
  /\ m.kind = "notified" => n = 1 /\ \E c \in Calls : /\ run[c] \in {"inline", "running"}
                                                      /\ m.task = task[c] /\ m.call \in {name[c], None}
  /\ m.kind = "tool_result" /\ m.tool = "Agent" /\ m.how = "error" =>
       task'[m.call] = m.call /\ run'[m.call] = "refused"
  /\ m.kind = "result" => n = 1 /\ \A c \in m.unfinished : run[c] \in {"inline", "running"}

LEMMA ProperInPlace ==
  ASSUME TypeOK, CallInv, OwnerInv, NEW ms \in Seq(MessageType), Says(ms), UNCHANGED <<owners, pending>>,
         \A c \in Calls : task[c] # None => task'[c] = task[c],
         \A n \in 1..Len(ms) : Proper(ms[n], n)
  PROVE  \A i \in Len(out) + 1..Len(out') : InPlace(i)'
<1> SUFFICES ASSUME NEW i \in Len(out) + 1..Len(out') PROVE InPlace(i)'
  OBVIOUS
<1>1. /\ Len(out') = Len(out) + Len(ms) /\ Len(out) \in Nat /\ Len(ms) \in Nat
      /\ \A k \in 1..Len(out) : out'[k] = out[k]
  BY SaysMore
<1>2. PICK n \in 1..Len(ms) : out'[i] = ms[n] /\ i = Len(out) + n
  BY SaysMore
<1>3. Proper(ms[n], n) /\ ms[n] \in MessageType
  BY <1>1
<1>4. \A p \in pending : task'[p] = task[p]
  BY DEF OwnerInv, TypeOK
<1>5. ASSUME NEW c \in Calls, run[c] \in {"inline", "running"}, n = 1
      PROVE  /\ name[c] \in Calls /\ task[c] \in Calls /\ task'[c] = task[c]
             /\ \A t, id : t = task[c] /\ id = name[c] => RunsAs(t, id, i)'
  <2>1. name[c] \in Calls /\ RunsAs(task[c], name[c], Len(out) + 1)
    BY <1>5 DEF OwnerInv
  <2>2. task[c] \in Calls /\ task[c] # None
    <3>1. task[c] \in Calls \cup {None}
      BY DEF TypeOK
    <3>2. task[c] # None
      BY <1>5 DEF CallInv
    <3> QED BY <3>1, <3>2
  <2>3. PICK t, id : t = task[c] /\ id = name[c]
    OBVIOUS
  <2>4. i = Len(out) + 1 /\ i \in 1..Len(out) + 1
    BY <1>1, <1>2, <1>5
  <2>5. RunsAs(t, id, i)'
    BY <1>4, <2>1, <2>3, <2>4, SaysLater
  <2> QED BY <2>1, <2>2, <2>3, <2>5
<1> DEFINE msg == ms[n]
<1>6. /\ msg.kind = "call" => msg.call \in Calls /\ msg.task \in Calls
      /\ msg.kind = "started" => msg.call \in Calls /\ msg.task \in Calls
      /\ msg.kind = "result" => msg.unfinished \subseteq Calls
  BY <1>3, Kinds
<1>7. msg.kind = "started" => msg.call = msg.task \/ owners'[msg.task] # None
                              \/ \E k \in 1..i-1 : Starts(out'[k], msg.task)
  <2>1. \A k \in 1..Len(out) : k \in 1..i-1 /\ out'[k] = out[k]
    BY <1>1, <1>2
  <2>2. msg.kind = "started" /\ Begun(msg.task) => owners[msg.task] # None \/ \E k \in 1..Len(out) : Starts(out[k], msg.task)
    BY <1>6 DEF OwnerInv
  <2> QED BY <1>3, <2>1, <2>2 DEF Proper
<1>8. msg.kind = "notified" => \E id \in Calls : msg.call \in {id, None} /\ RunsAs(msg.task, id, i)'
  <2> SUFFICES ASSUME msg.kind = "notified"
               PROVE  \E id \in Calls : msg.call \in {id, None} /\ RunsAs(msg.task, id, i)'
    OBVIOUS
  <2>1. PICK c \in Calls : run[c] \in {"inline", "running"} /\ msg.task = task[c] /\ msg.call \in {name[c], None}
    BY <1>3 DEF Proper
  <2>2. n = 1
    BY <1>3 DEF Proper
  <2>3. PICK t, id : t = task[c] /\ id = name[c]
    OBVIOUS
  <2>4. id \in Calls /\ RunsAs(t, id, i)'
    BY <1>5, <2>1, <2>2, <2>3
  <2> QED BY <2>1, <2>3, <2>4
<1>9. ASSUME msg.kind = "result", NEW c \in msg.unfinished
      PROVE  task'[c] # None /\ \E id \in Calls : RunsAs(task[c], id, i)'
  <2>1. c \in Calls /\ n = 1 /\ run[c] \in {"inline", "running"}
    BY <1>3, <1>6, <1>9 DEF Proper
  <2>2. PICK t, id : t = task[c] /\ id = name[c]
    OBVIOUS
  <2>3. id \in Calls /\ t = task'[c] /\ t \in Calls /\ RunsAs(t, id, i)'
    BY <1>5, <2>1, <2>2
  <2> QED BY <2>3, SessionAssumption
<1> QED BY <1>2, <1>3, <1>7, <1>8, <1>9 DEF InPlace, Proper

\* After the step call c works, as before or as it has just been told.
Working(c, ms) ==
  /\ name'[c] \in Calls
  /\ \/ /\ run[c] \in {"inline", "running"} /\ task'[c] = task[c] /\ name'[c] = name[c]
        /\ \A n \in 1..Len(ms) : ~Acts(ms[n], task[c])
     \/ \E n \in 1..Len(ms) : /\ Starts(ms[n], task'[c]) /\ ms[n].call = name'[c]
                              /\ \A k \in n+1..Len(ms) : ~Acts(ms[k], task'[c])

\* After the step somebody works on task t, or has just been said to have ended, or
\* nobody did and nobody does.
Settled(t, ms) ==
  \/ \E c \in Unfinished' : task'[c] = t
  \/ \E n \in 1..Len(ms) : Shuts(ms[n], t) /\ \A k \in n+1..Len(ms) : ~Opens(ms[k], t)
  \/ (\A n \in 1..Len(ms) : ~Opens(ms[n], t)) /\ \A c \in Unfinished : task[c] # t

\* A step of the CLI that says ms keeps the invariant.
LEMMA SayingKeepsLoop ==
  ASSUME LoopInv, outcome = None, TypeOK', CallInv', NEW ms \in Seq(MessageType), Says(ms),
         UNCHANGED <<loop, inbox, shut>>,
         \A c \in Calls : task[c] # None => task'[c] = task[c],
         \A c \in Calls : run[c] = "refused" => run'[c] = "refused",
         overlooked => overlooked',
         \A n \in 1..Len(ms) : Proper(ms[n], n),
         \A t \in Calls : Begun(t) => Begun(t)',
         \A t \in Calls : \A n \in 1..Len(ms) : Later(ms[n], t) => Begun(t)',
         \A t \in Calls : Begun(t)' => Begun(t) \/ \E n \in 1..Len(ms) : Starts(ms[n], t),
         \A t \in Calls : \A n \in 1..Len(ms) : Launch(ms[n], t) => n = 1 /\ ~Begun(t),
         \A c \in Calls : run'[c] \in {"inline", "running"} => Working(c, ms),
         ~overlooked' => \A n \in 1..Len(ms) :
           /\ ms[n].kind = "notified" => ms[n].status = "completed"
           /\ ms[n].kind = "result" => n = 1 /\ ms[n].unfinished = Unfinished /\ UNCHANGED task,
         ~overlooked' => \A t \in Calls : Settled(t, ms),
         Idle' => Idle \/ \E n \in 1..Len(ms) : LastWord(ms[n])
  PROVE  LoopInv'
<1>1. TypeOK /\ CallInv /\ MessageInv /\ OwnerInv /\ EndInv /\ IdleInv /\ AnswerInv
  BY DEF LoopInv
<1>2. /\ UNCHANGED <<pending, owners, hadAsync, final, closed, outcome, inbox, shut>>
      /\ \A p \in pending : task'[p] = task[p]
  BY <1>1 DEF loop, OwnerInv, TypeOK
<1>3. Len(out') = Len(out) + Len(ms) /\ Len(out) \in Nat /\ Len(ms) \in Nat
  BY <1>1, SaysMore
<1>4. \A i \in Len(out) + 1..Len(out') : InPlace(i)'
  BY <1>1, <1>2, ProperInPlace
<1>5. ASSUME NEW c \in Calls, run'[c] \in {"inline", "running"}
      PROVE  name'[c] \in Calls /\ RunsAs(task[c], name[c], Len(out) + 1)'
  <2>1. PICK t, id : t = task'[c] /\ id = name'[c]
    OBVIOUS
  <2>2. Working(c, ms)
    BY <1>5
  <2>3. CASE /\ run[c] \in {"inline", "running"} /\ task'[c] = task[c] /\ name'[c] = name[c]
             /\ \A n \in 1..Len(ms) : ~Acts(ms[n], task[c])
    <3>1. RunsAs(task[c], name[c], Len(out) + 1)
      BY <1>1, <2>3 DEF OwnerInv
    <3>2. RunsAs(t, id, Len(out) + 1) /\ \A n \in 1..Len(ms) : ~Acts(ms[n], t)
      BY <2>1, <2>3, <3>1
    <3>3. \A i \in Len(out) + 1..Len(out') + 1 : RunsAs(t, id, i)'
      BY <1>1, <1>2, <3>2, SaysLater
    <3> QED BY <1>3, <2>1, <2>2, <3>3 DEF Working
  <2>4. CASE \E n \in 1..Len(ms) : /\ Starts(ms[n], task'[c]) /\ ms[n].call = name'[c]
                                   /\ \A k \in n+1..Len(ms) : ~Acts(ms[k], task'[c])
    <3>1. \E n \in 1..Len(ms) : /\ Starts(ms[n], t) /\ ms[n].call = id
                                /\ \A k \in n+1..Len(ms) : ~Acts(ms[k], t)
      BY <2>1, <2>4
    <3>2. RunsAs(t, id, Len(out) + 1)'
      BY <1>1, <1>2, <3>1, SaysLater
    <3> QED BY <2>1, <2>2, <3>2 DEF Working
  <2> QED BY <2>2, <2>3, <2>4 DEF Working
<1>6. MessageInv' /\ OwnerInv'
  BY <1>1, <1>2, <1>4, <1>5, SayingKeeps
<1>7. ASSUME ~overlooked', NEW t \in Calls
      PROVE  GoneAt(t, Len(out) + 1)' \/ \E c \in Unfinished' : task'[c] = t
  <2>1. Settled(t, ms)
    BY <1>7
  <2>2. CASE \E n \in 1..Len(ms) : Shuts(ms[n], t) /\ \A k \in n+1..Len(ms) : ~Opens(ms[k], t)
    BY <1>1, <1>2, <2>2, SaysLater
  <2>3. CASE (\A n \in 1..Len(ms) : ~Opens(ms[n], t)) /\ \A c \in Unfinished : task[c] # t
    <3>1. GoneAt(t, Len(out) + 1)
      BY <1>1, <1>7, <2>3 DEF EndInv
    <3>2. \A i \in Len(out) + 1..Len(out') + 1 : GoneAt(t, i)'
      BY <1>1, <1>2, <2>3, <3>1, SaysLater
    <3> QED BY <1>3, <3>2
  <2> QED BY <2>1, <2>2, <2>3 DEF Settled
<1>8. EndInv'
  BY <1>1, <1>2, <1>7, SayingEnds
<1>9. IdleInv'
  BY <1>1, <1>2, SayingIdles
<1>10. AnswerInv' /\ AnswerCoversSubagents' /\ TimeoutExplained'
  BY <1>1, <1>2, SessionGoesOn
<1> QED BY <1>6, <1>8, <1>9, <1>10 DEF LoopInv

\* A call at work has a task, which no other call works on.
LEMMA AtWork ==
  ASSUME TypeOK, CallInv, NEW c \in Calls, run[c] \in Active
  PROVE  /\ task[c] \in Calls /\ tool[c] \in Tools /\ (tool[c] # "SendMessage" => task[c] = c)
         /\ task[task[c]] = task[c]
         /\ task[c] # c => run[task[c]] = "over"
         /\ \A d \in Calls : run[d] \in Active /\ d # c => task[d] # task[c]
         /\ \A d \in Calls : task[d] \notin {d, None} => task[d] # c
<1>1. task[c] \in Calls \cup {None} /\ task[c] # None
  BY DEF CallInv, TypeOK, Active
<1>2. task[c] # c => task[task[c]] = task[c] /\ run[task[c]] = "over"
  BY <1>1 DEF CallInv
<1>3. \A d \in Calls : task[d] \notin {d, None} => task[d] # c
  BY DEF CallInv, Active
<1> QED BY <1>1, <1>2, <1>3 DEF CallInv

LEMMA CallKeeps ==
  ASSUME LoopInv, NEW c \in Calls, NEW how \in Tools, Call(c, how)
  PROVE  LoopInv'
<1>0. TypeOK /\ CallInv
  BY DEF LoopInv
<1>1. /\ outcome = None /\ fault = None /\ turn = "on" /\ run[c] = "none" /\ task[c] = None
  BY <1>0 DEF Call, Thinks, Works, CallInv
<1>2. PICK t \in Calls :
        /\ IF how = "SendMessage"
           THEN /\ \E d \in Calls : task[d] = t /\ run[d] = "over"
                /\ \A d \in Calls : task[d] = t => run[d] \notin Active
           ELSE t = c
        /\ task' = [task EXCEPT ![c] = t]
        /\ Says(<<[kind |-> "call", call |-> c, tool |-> how, task |-> t]>>)
  BY DEF Call
<1> DEFINE msg == [kind |-> "call", call |-> c, tool |-> how, task |-> t]
<1>3. /\ \A d \in Calls : task'[d] = IF d = c THEN t ELSE task[d]
      /\ \A d \in Calls : run'[d] = IF d = c THEN "asked" ELSE run[d]
      /\ \A d \in Calls : tool'[d] = IF d = c THEN how ELSE tool[d]
      /\ UNCHANGED <<turn, name, updated, news, shut, fault, asked, blocked, inbox, loop, reminded,
                     waits, overlooked>>
  BY <1>0, <1>2 DEF Call, TypeOK
<1> DEFINE ms == <<msg>>
<1>4. /\ ms \in Seq(MessageType) /\ Says(ms) /\ Len(ms) = 1
      /\ \A n \in 1..Len(ms) : n = 1 /\ ms[n] = msg
  <2>1. msg \in MessageType
    BY CliMessages
  <2>2. Says(<<msg>>)
    BY <1>0, <1>2
  <2> HIDE DEF msg
  <2> QED BY <2>1, <2>2, OneMessage
<1> HIDE DEF ms
<1>5. TypeOK'
  <2>1. run' \in [Calls -> Active \cup {"none", "over", "refused"}]
    BY <1>0 DEF TypeOK, Call, Active
  <2>2. tool' \in [Calls -> Tools \cup {None}] /\ task' \in [Calls -> Calls \cup {None}]
    BY <1>0, <1>2 DEF TypeOK, Call
  <2>3. out' \in Seq(MessageType)
    BY <1>0, <1>4, SaysMore
  <2> QED BY <1>0, <1>3, <2>1, <2>2, <2>3, ZenonT(60) DEF TypeOK, loop
<1>6. t # c => task[t] = t /\ run[t] = "over"
  BY <1>0, <1>1, <1>2 DEF CallInv
<1>7. None \notin Calls /\ \A d \in Calls : task[d] # c
  BY <1>0, <1>1, SessionAssumption DEF CallInv
<1>8. CallInv'
  <2>1. \A d \in Calls : task'[d] \notin {d, None} => task'[task'[d]] = task'[d] /\ run'[task'[d]] = "over"
    <3> SUFFICES ASSUME NEW d \in Calls, task'[d] \notin {d, None}
                 PROVE  task'[task'[d]] = task'[d] /\ run'[task'[d]] = "over"
      OBVIOUS
    <3>1. CASE d = c
      BY <1>0, <1>3, <1>6, <3>1
    <3>2. CASE d # c
      <4>1. task[d] \notin {d, None} /\ task[d] \in Calls /\ task'[d] = task[d]
        BY <1>0, <1>3, <3>2 DEF TypeOK
      <4>2. task[task[d]] = task[d] /\ run[task[d]] = "over" /\ task[d] # c
        BY <1>0, <1>7, <4>1 DEF CallInv
      <4> QED BY <1>0, <1>3, <4>1, <4>2
    <3> QED BY <3>1, <3>2
  <2>2. \A d, e \in Calls : run'[d] \in Active /\ run'[e] \in Active /\ task'[d] = task'[e] => d = e
    <3>1. how # "SendMessage" => t = c
      BY <1>0, <1>2
    <3>2. how = "SendMessage" => \A d \in Calls : task[d] = t => run[d] \notin Active
      BY <1>0, <1>2
    <3> QED BY <1>0, <1>1, <1>3, <1>7, <3>1, <3>2 DEF CallInv
  <2>3. \A d \in Calls : task'[d] # None => tool'[d] \in Tools /\ (tool'[d] # "SendMessage" => task'[d] = d)
    BY <1>0, <1>2, <1>3 DEF CallInv
  <2> QED BY <1>0, <1>1, <1>3, <1>7, <2>1, <2>2, <2>3 DEF CallInv
<1>9. \A d \in Calls : Begun(d)' <=> Begun(d)
  BY <1>0, <1>1, <1>3 DEF Begun
<1>10. Begun(t) <=> t # c
  BY <1>0, <1>1, <1>6 DEF Begun
<1>11. \A d \in Calls : task[d] # None => task'[d] = task[d]
  BY <1>0, <1>1, <1>3
<1>13. msg.kind = "call" /\ msg.call = c /\ msg.tool = how /\ msg.task = t
  OBVIOUS
<1> HIDE DEF msg
<1>14. \A d \in Calls : /\ Later(msg, d) => d = t /\ t # c
                        /\ Launch(msg, d) => d = c /\ t = c
                        /\ d # t => ~Acts(msg, d) /\ ~Opens(msg, d)
                        /\ ~Starts(msg, d)
  BY <1>0, <1>2, <1>7, <1>13 DEF Later, Starts, Ends, Resumption, Launch, Acts, Opens, Shuts, Refuses
<1>15. ASSUME NEW d \in Calls, run'[d] \in {"inline", "running"} PROVE Working(d, ms)
  <2>1. d # c /\ run[d] \in {"inline", "running"} /\ task'[d] = task[d] /\ name'[d] = name[d]
    BY <1>3, <1>15
  <2>2. name[d] \in Calls
    BY <2>1 DEF LoopInv, OwnerInv
  <2>3. task[d] \in Calls /\ task[d] # t
    <3>1. task[d] \in Calls
      BY <1>0, <2>1, ZenonT(60) DEF CallInv, TypeOK
    <3>2. how = "SendMessage" => \A e \in Calls : task[e] = t => run[e] \notin Active
      BY <1>2
    <3>3. how # "SendMessage" => t = c
      BY <1>2
    <3> QED BY <1>7, <2>1, <3>1, <3>2, <3>3 DEF Active
  <2> QED BY <1>4, <1>14, <2>1, <2>2, <2>3 DEF Working
<1>16. \A n \in 1..Len(ms) : Proper(ms[n], n)
  BY <1>2, <1>3, <1>4, <1>13 DEF Proper
<1>17. \A u \in Calls : Settled(u, ms)
  <2> SUFFICES ASSUME NEW u \in Calls PROVE Settled(u, ms)
    OBVIOUS
  <2>1. CASE u = t
    BY <1>3, <2>1 DEF Settled, Unfinished, Active
  <2>2. CASE \E d \in Unfinished : task[d] = u
    BY <1>1, <1>3, <2>2 DEF Settled, Unfinished, Active
  <2>3. CASE u # t /\ \A d \in Unfinished : task[d] # u
    BY <1>4, <1>14, <2>3 DEF Settled
  <2> QED BY <2>1, <2>2, <2>3
<1>18. \A n \in 1..Len(ms) : /\ ms[n].kind = "notified" => ms[n].status = "completed"
                             /\ ms[n].kind = "result" => n = 1 /\ ms[n].unfinished = Unfinished /\ UNCHANGED task
  BY <1>4, <1>13
<1>19. UNCHANGED <<loop, inbox, shut>> /\ (overlooked => overlooked') /\ ~Idle'
  BY <1>1, <1>3 DEF Idle
<1>20. \A d \in Calls : run[d] = "refused" => run'[d] = "refused"
  BY <1>1, <1>3
<1>21. /\ \A d \in Calls : Begun(d) => Begun(d)'
       /\ \A d \in Calls : \A n \in 1..Len(ms) : Later(ms[n], d) => Begun(d)'
       /\ \A d \in Calls : Begun(d)' => Begun(d) \/ \E n \in 1..Len(ms) : Starts(ms[n], d)
       /\ \A d \in Calls : \A n \in 1..Len(ms) : Launch(ms[n], d) => n = 1 /\ ~Begun(d)
  BY <1>4, <1>9, <1>10, <1>14
<1> QED BY <1>1, <1>4, <1>5, <1>8, <1>11, <1>15, <1>16, <1>17, <1>18, <1>19, <1>20, <1>21,
           SayingKeepsLoop

LEMMA RefuseKeeps ==
  ASSUME LoopInv, NEW c \in Calls, Refuse(c)
  PROVE  LoopInv'
<1>0. TypeOK /\ CallInv
  BY DEF LoopInv
<1>1. outcome = None /\ fault = None /\ turn = "on" /\ run[c] = "asked"
  BY DEF Refuse, Thinks, Works
<1>2. task[c] \in Calls /\ tool[c] \in Tools /\ (tool[c] # "SendMessage" => task[c] = c)
  BY <1>0, <1>1, AtWork DEF Active
<1> DEFINE msg == [kind |-> "tool_result", call |-> c, tool |-> tool[c], how |-> "error"]
           ms == <<msg>>
<1>3. /\ \A d \in Calls : run'[d] = IF d = c THEN "refused" ELSE run[d]
      /\ overlooked' = (overlooked \/ tool[c] # "Agent")
      /\ UNCHANGED <<turn, tool, task, name, updated, news, shut, fault, asked, blocked, inbox, loop,
                     reminded, waits>>
  BY <1>0 DEF Refuse, TypeOK
<1>4. /\ ms \in Seq(MessageType) /\ Says(ms) /\ Len(ms) = 1
      /\ \A n \in 1..Len(ms) : n = 1 /\ ms[n] = msg
  <2>1. msg \in MessageType
    BY <1>2, CliMessages
  <2>2. Says(<<msg>>)
    BY DEF Refuse, Result
  <2> HIDE DEF msg
  <2> QED BY <2>1, <2>2, OneMessage
<1> HIDE DEF ms
<1>5. msg.kind = "tool_result" /\ msg.call = c /\ msg.tool = tool[c] /\ msg.how = "error"
  OBVIOUS
<1> HIDE DEF msg
<1>6. TypeOK'
  <2>1. run' \in [Calls -> Active \cup {"none", "over", "refused"}]
    BY <1>0 DEF TypeOK, Refuse, Active
  <2>2. out' \in Seq(MessageType) /\ overlooked' \in BOOLEAN
    BY <1>0, <1>3, <1>4, SaysMore DEF TypeOK
  <2> QED BY <1>0, <1>3, <2>1, <2>2 DEF TypeOK, loop
<1>7. CallInv'
  <2>1. \A d \in Calls : task[d] \notin {d, None} => task[d] # c
    BY <1>0, <1>1 DEF CallInv
  <2>2. \A d \in Calls : task'[d] \notin {d, None} => task'[task'[d]] = task'[d] /\ run'[task'[d]] = "over"
    <3> SUFFICES ASSUME NEW d \in Calls, task[d] \notin {d, None}
                 PROVE  task[task[d]] = task[d] /\ run'[task[d]] = "over"
      BY <1>3
    <3>1. task[d] \in Calls
      BY <1>0 DEF TypeOK
    <3> QED BY <1>0, <1>3, <2>1, <3>1 DEF CallInv
  <2> QED BY <1>0, <1>1, <1>3, <2>2 DEF CallInv, Active
<1>8. \A d \in Calls : Begun(d)' <=> Begun(d)
  BY <1>1, <1>3 DEF Begun
<1>9. \A d \in Calls : /\ ~Later(msg, d) /\ ~Launch(msg, d) /\ ~Starts(msg, d) /\ ~Opens(msg, d)
                       /\ Acts(msg, d) => d = c /\ tool[c] = "Agent"
                       /\ tool[c] = "Agent" => Shuts(msg, c)
  BY <1>5 DEF Later, Starts, Ends, Resumption, Launch, Acts, Opens, Shuts, Refuses
<1>10. ASSUME NEW d \in Calls, run'[d] \in {"inline", "running"} PROVE Working(d, ms)
  <2>1. d # c /\ run[d] \in {"inline", "running"}
    BY <1>3, <1>10
  <2>2. name[d] \in Calls
    BY <2>1 DEF LoopInv, OwnerInv
  <2>3. task[d] # task[c] /\ task[d] \in Calls
    BY <1>0, <1>1, <2>1, AtWork DEF Active
  <2>4. ~Acts(msg, task[d])
    BY <1>2, <1>9, <2>3
  <2> QED BY <1>3, <1>4, <2>1, <2>2, <2>4 DEF Working
<1>11. \A n \in 1..Len(ms) : Proper(ms[n], n)
  BY <1>2, <1>3, <1>4, <1>5 DEF Proper, Tools
<1>12. ASSUME ~overlooked', NEW u \in Calls PROVE Settled(u, ms)
  <2>1. tool[c] = "Agent" /\ task[c] = c
    BY <1>2, <1>3, <1>12
  <2>2. CASE u = c
    <3>1. 1 \in 1..Len(ms) /\ Shuts(ms[1], u) /\ \A k \in 1+1..Len(ms) : ~Opens(ms[k], u)
      BY <1>4, <1>9, <2>1, <2>2
    <3> QED BY <3>1 DEF Settled
  <2>3. CASE u # c /\ \E d \in Unfinished : task[d] = u
    BY <1>3, <2>1, <2>3 DEF Settled, Unfinished
  <2>4. CASE \A d \in Unfinished : task[d] # u
    BY <1>4, <1>9, <2>4 DEF Settled
  <2> QED BY <2>2, <2>3, <2>4
<1>13. \A n \in 1..Len(ms) : /\ ms[n].kind = "notified" => ms[n].status = "completed"
                             /\ ms[n].kind = "result" => n = 1 /\ ms[n].unfinished = Unfinished /\ UNCHANGED task
  BY <1>4, <1>5
<1>14. UNCHANGED <<loop, inbox, shut>> /\ (overlooked => overlooked') /\ ~Idle'
  BY <1>1, <1>3 DEF Idle
<1>15. /\ \A d \in Calls : run[d] = "refused" => run'[d] = "refused"
       /\ \A d \in Calls : task[d] # None => task'[d] = task[d]
  BY <1>1, <1>3
<1>16. /\ \A d \in Calls : Begun(d) => Begun(d)'
       /\ \A d \in Calls : \A n \in 1..Len(ms) : Later(ms[n], d) => Begun(d)'
       /\ \A d \in Calls : Begun(d)' => Begun(d) \/ \E n \in 1..Len(ms) : Starts(ms[n], d)
       /\ \A d \in Calls : \A n \in 1..Len(ms) : Launch(ms[n], d) => n = 1 /\ ~Begun(d)
  BY <1>4, <1>8, <1>9
<1> QED BY <1>1, <1>4, <1>6, <1>7, <1>10, <1>11, <1>12, <1>13, <1>14, <1>15, <1>16, SayingKeepsLoop

LEMMA UpdateKeeps ==
  ASSUME LoopInv, NEW c \in Calls, Update(c)
  PROVE  LoopInv'
<1>0. TypeOK /\ CallInv
  BY DEF LoopInv
<1>1. outcome = None /\ run[c] \in {"inline", "running"}
  BY DEF Update, Works
<1>2. name[c] \in Calls
  BY <1>1 DEF LoopInv, OwnerInv
<1> DEFINE msg == [kind |-> "updated", call |-> name[c]]
           ms == <<msg>>
<1>3. UNCHANGED <<turn, run, tool, task, name, news, shut, fault, asked, blocked, inbox, loop,
                  reminded, waits, overlooked>>
  BY DEF Update
<1>4. /\ ms \in Seq(MessageType) /\ Says(ms) /\ Len(ms) = 1
      /\ \A n \in 1..Len(ms) : n = 1 /\ ms[n] = msg
  <2>1. msg \in MessageType
    BY <1>2, CliMessages DEF Tools
  <2>2. Says(<<msg>>)
    BY DEF Update
  <2> HIDE DEF msg
  <2> QED BY <2>1, <2>2, OneMessage
<1> HIDE DEF ms
<1>5. msg.kind = "updated"
  OBVIOUS
<1> HIDE DEF msg
<1>6. TypeOK'
  <2>1. out' \in Seq(MessageType)
    BY <1>0, <1>4, SaysMore
  <2> QED BY <1>0, <1>3, <2>1, ZenonT(60) DEF TypeOK, loop
<1>7. CallInv'
  BY <1>0, <1>3 DEF CallInv
<1>8. \A d \in Calls : Begun(d)' <=> Begun(d)
  BY <1>3 DEF Begun
<1>9. \A d : ~Later(msg, d) /\ ~Launch(msg, d) /\ ~Opens(msg, d) /\ ~Acts(msg, d)
  BY <1>5 DEF Later, Starts, Ends, Resumption, Launch, Acts, Opens, Shuts, Refuses
<1>10. \A d \in Calls : run'[d] \in {"inline", "running"} => Working(d, ms)
  BY <1>3, <1>4, <1>9 DEF Working, LoopInv, OwnerInv
<1>11. \A n \in 1..Len(ms) : Proper(ms[n], n)
  BY <1>4, <1>5 DEF Proper
<1>12. \A u \in Calls : Settled(u, ms)
  BY <1>3, <1>4, <1>9 DEF Settled, Unfinished
<1>13. \A n \in 1..Len(ms) : /\ ms[n].kind = "notified" => ms[n].status = "completed"
                             /\ ms[n].kind = "result" => n = 1 /\ ms[n].unfinished = Unfinished /\ UNCHANGED task
  BY <1>4, <1>5
<1>14. UNCHANGED <<loop, inbox, shut>> /\ (overlooked => overlooked') /\ (Idle' => Idle)
  BY <1>3 DEF Idle, Unfinished, loop
<1>15. /\ \A d \in Calls : run[d] = "refused" => run'[d] = "refused"
       /\ \A d \in Calls : task[d] # None => task'[d] = task[d]
  BY <1>3
<1>16. /\ \A d \in Calls : Begun(d) => Begun(d)'
       /\ \A d \in Calls : \A n \in 1..Len(ms) : Later(ms[n], d) => Begun(d)'
       /\ \A d \in Calls : Begun(d)' => Begun(d) \/ \E n \in 1..Len(ms) : Starts(ms[n], d)
       /\ \A d \in Calls : \A n \in 1..Len(ms) : Launch(ms[n], d) => n = 1 /\ ~Begun(d)
  BY <1>4, <1>8, <1>9
<1> QED BY <1>1, <1>4, <1>6, <1>7, <1>10, <1>11, <1>12, <1>13, <1>14, <1>15, <1>16, SayingKeepsLoop

LEMMA BeginKeeps ==
  ASSUME LoopInv, NEW c \in Calls, NEW where \in {"inline", "running"}, Begin(c, where)
  PROVE  LoopInv'
<1>0. TypeOK /\ CallInv
  BY DEF LoopInv
<1>1. outcome = None /\ turn = "on" /\ run[c] = "asked"
  BY DEF Begin, Thinks, Works
<1>2. /\ task[c] \in Calls /\ tool[c] \in Tools /\ task[task[c]] = task[c]
      /\ task[c] # c => run[task[c]] = "over"
      /\ \A d \in Calls : run[d] \in Active /\ d # c => task[d] # task[c]
      /\ \A d \in Calls : task[d] \notin {d, None} => task[d] # c
  BY <1>0, <1>1, AtWork DEF Active
<1>3. PICK id \in {c, task[c]} :
        /\ name' = [name EXCEPT ![c] = id]
        /\ Says(<<[kind |-> "started", call |-> id, task |-> task[c]]>>
                \o IF where = "running" THEN <<Result(c, "ok")>> ELSE <<>>)
  BY DEF Begin
<1>4. /\ \A d \in Calls : run'[d] = IF d = c THEN where ELSE run[d]
      /\ \A d \in Calls : name'[d] = IF d = c THEN id ELSE name[d]
      /\ id \in Calls
      /\ UNCHANGED <<turn, tool, task, updated, news, shut, fault, asked, blocked, inbox, loop, reminded,
                     waits, overlooked>>
  BY <1>0, <1>2, <1>3 DEF Begin, TypeOK
<1>o. PICK first \in MessageType, second \in MessageType :
        first = [kind |-> "started", call |-> id, task |-> task[c]] /\ second = Result(c, "ok")
  BY <1>2, <1>4, CliMessages DEF Result
<1>m. PICK ms \in Seq(MessageType) :
        /\ Says(ms) /\ Len(ms) \in {1, 2} /\ 1 \in 1..Len(ms) /\ ms[1] = first
        /\ \A n \in 1..Len(ms) : (n = 1 /\ ms[n] = first) \/ (n = 2 /\ ms[n] = second)
        /\ \A n \in 1+1..Len(ms) : ms[n] = second
  <2>1. PICK two \in BOOLEAN : two <=> where = "running"
    OBVIOUS
  <2>2. Says(<<first>> \o IF two THEN <<second>> ELSE <<>>)
    BY <1>3, <1>o, <2>1
  <2> QED BY <2>2, SaysUpToTwo
<1>5. Says(ms)
  BY <1>m
<1>b. /\ Len(ms) \in {1, 2} /\ 1 \in 1..Len(ms) /\ ms[1] = first
      /\ \A n \in 1..Len(ms) : (n = 1 /\ ms[n] = first) \/ (n = 2 /\ ms[n] = second)
      /\ \A n \in 1+1..Len(ms) : ms[n] = second
  BY <1>m
<1>6. /\ first.kind = "started" /\ first.call = id /\ first.task = task[c]
      /\ second.kind = "tool_result" /\ second.how = "ok"
  BY <1>o DEF Result
<1>7. TypeOK'
  <2>1. run' \in [Calls -> Active \cup {"none", "over", "refused"}]
    BY <1>0 DEF TypeOK, Begin, Active
  <2>2. name' \in [Calls -> Calls \cup {None}]
    BY <1>0, <1>3, <1>4 DEF TypeOK
  <2>3. out' \in Seq(MessageType)
    BY <1>0, <1>5, SaysMore
  <2> QED BY <1>0, <1>4, <2>1, <2>2, <2>3, ZenonT(60) DEF TypeOK, loop
<1>8. CallInv'
  <2>1. ASSUME NEW d \in Calls, task[d] \notin {d, None}
        PROVE  task[task[d]] = task[d] /\ run'[task[d]] = "over"
    <3>1. task[d] \in Calls /\ task[d] # c
      BY <1>0, <1>2, <2>1 DEF TypeOK
    <3> QED BY <1>0, <1>4, <2>1, <3>1 DEF CallInv
  <2>2. \A d, e \in Calls : run'[d] \in Active /\ run'[e] \in Active /\ task'[d] = task'[e] => d = e
    BY <1>0, <1>1, <1>4 DEF CallInv, Active
  <2> QED BY <1>0, <1>1, <1>4, <2>1, <2>2 DEF CallInv
<1>9. \A d \in Calls : /\ Begun(d) => Begun(d)'
                       /\ Begun(d)' => Begun(d) \/ d = task[c]
                       /\ d = task[c] => Begun(d)'
  BY <1>1, <1>2, <1>4 DEF Begun
<1>10. \A d \in Calls : /\ Later(first, d) => d = task[c]
                        /\ Starts(first, d) <=> d = task[c]
                        /\ Acts(first, d) \/ Opens(first, d) => d = task[c]
                        /\ ~Launch(first, d) /\ ~Launch(second, d)
                        /\ ~Acts(second, d) /\ ~Opens(second, d) /\ ~Later(second, d)
  BY <1>6 DEF Later, Starts, Ends, Resumption, Launch, Acts, Opens, Shuts, Refuses
<1>11. ASSUME NEW d \in Calls, run'[d] \in {"inline", "running"} PROVE Working(d, ms)
  <2>1. CASE d = c
    <3>1. 1 \in 1..Len(ms) /\ Starts(ms[1], task'[d]) /\ ms[1].call = name'[d]
      BY <1>2, <1>4, <1>b, <1>6, <1>10, <2>1
    <3>2. \A k \in 1+1..Len(ms) : ~Acts(ms[k], task'[d])
      BY <1>2, <1>4, <1>b, <1>10, <2>1
    <3>3. name'[d] \in Calls
      BY <1>4, <2>1
    <3> QED BY <3>1, <3>2, <3>3 DEF Working
  <2>2. CASE d # c
    <3>1. run[d] \in {"inline", "running"} /\ task'[d] = task[d] /\ name'[d] = name[d]
      BY <1>4, <1>11, <2>2
    <3>2. name[d] \in Calls
      BY <3>1 DEF LoopInv, OwnerInv
    <3>3. task[d] \in Calls /\ task[d] # task[c]
      BY <1>0, <1>2, <2>2, <3>1, AtWork DEF Active
    <3> QED BY <1>b, <1>10, <3>1, <3>2, <3>3 DEF Working
  <2> QED BY <2>1, <2>2
<1>12. \A n \in 1..Len(ms) : Proper(ms[n], n)
  <2>1. task'[id] = task[c] /\ (id = task[c] \/ Begun(task[c]))
    BY <1>2, <1>4 DEF Begun
  <2> QED BY <1>b, <1>6, <2>1 DEF Proper
<1>13. \A u \in Calls : Settled(u, ms)
  <2> SUFFICES ASSUME NEW u \in Calls PROVE Settled(u, ms)
    OBVIOUS
  <2>1. CASE u = task[c]
    BY <1>4, <2>1 DEF Settled, Unfinished, Active
  <2>2. CASE \E d \in Unfinished : task[d] = u
    BY <1>4, <2>2 DEF Settled, Unfinished, Active
  <2>3. CASE u # task[c] /\ \A d \in Unfinished : task[d] # u
    BY <1>b, <1>10, <2>3 DEF Settled
  <2> QED BY <2>1, <2>2, <2>3
<1>14. \A n \in 1..Len(ms) : /\ ms[n].kind = "notified" => ms[n].status = "completed"
                             /\ ms[n].kind = "result" => n = 1 /\ ms[n].unfinished = Unfinished /\ UNCHANGED task
  BY <1>b, <1>6
<1>15. UNCHANGED <<loop, inbox, shut>> /\ (overlooked => overlooked') /\ ~Idle'
  BY <1>1, <1>4 DEF Idle
<1>16. /\ \A d \in Calls : run[d] = "refused" => run'[d] = "refused"
       /\ \A d \in Calls : task[d] # None => task'[d] = task[d]
  BY <1>1, <1>4
<1>17. /\ \A d \in Calls : Begun(d) => Begun(d)'
       /\ \A d \in Calls : \A n \in 1..Len(ms) : Later(ms[n], d) => Begun(d)'
       /\ \A d \in Calls : \A n \in 1..Len(ms) : Launch(ms[n], d) => n = 1 /\ ~Begun(d)
  BY <1>b, <1>9, <1>10
<1>18. \A d \in Calls : Begun(d)' => Begun(d) \/ \E n \in 1..Len(ms) : Starts(ms[n], d)
  <2>1. 1 \in 1..Len(ms)
    BY <1>b
  <2> QED BY <1>b, <1>9, <1>10, <2>1
<1> QED BY <1>1, <1>5, <1>7, <1>8, <1>11, <1>12, <1>13, <1>14, <1>15, <1>16, <1>17, <1>18,
           SayingKeepsLoop

LEMMA FinishKeeps ==
  ASSUME LoopInv, NEW c \in Calls, NEW status \in {"completed", "stopped"}, Finish(c, status)
  PROVE  LoopInv'
<1>0. TypeOK /\ CallInv
  BY DEF LoopInv
<1>1. outcome = None /\ run[c] \in {"inline", "running"}
  BY DEF Finish, Works
<1>2. /\ task[c] \in Calls /\ tool[c] \in Tools /\ task[task[c]] = task[c]
      /\ task[c] # c => run[task[c]] = "over"
      /\ \A d \in Calls : run[d] \in Active /\ d # c => task[d] # task[c]
      /\ \A d \in Calls : task[d] \notin {d, None} => task[d] # c
  BY <1>0, <1>1, AtWork DEF Active
<1>3. PICK id \in {name[c], None}, text \in {"ok", "no output"} :
         Says(<<[kind |-> "notified", call |-> id, task |-> task[c], status |-> status]>>
              \o IF run[c] = "inline" THEN <<Result(c, text)>> ELSE <<>>)
  BY DEF Finish
<1>4. /\ \A d \in Calls : run'[d] = IF d = c THEN "over" ELSE run[d]
      /\ news' = (run[c] = "running" \/ news) /\ overlooked' = (overlooked \/ status = "stopped")
      /\ UNCHANGED <<turn, tool, task, name, updated, shut, fault, asked, blocked, inbox, loop,
                     reminded, waits>>
  BY <1>0 DEF Finish, TypeOK
<1>a. name[c] \in Calls
  BY <1>1 DEF LoopInv, OwnerInv
<1>o. PICK first \in MessageType, second \in MessageType :
        first = [kind |-> "notified", call |-> id, task |-> task[c], status |-> status] /\ second = Result(c, text)
  BY <1>2, <1>a, CliMessages DEF Result
<1>m. PICK ms \in Seq(MessageType) :
        /\ Says(ms) /\ Len(ms) \in {1, 2} /\ 1 \in 1..Len(ms) /\ ms[1] = first
        /\ \A n \in 1..Len(ms) : (n = 1 /\ ms[n] = first) \/ (n = 2 /\ ms[n] = second)
        /\ \A n \in 1+1..Len(ms) : ms[n] = second
  <2>1. PICK two \in BOOLEAN : two <=> run[c] = "inline"
    OBVIOUS
  <2>2. Says(<<first>> \o IF two THEN <<second>> ELSE <<>>)
    BY <1>3, <1>o, <2>1
  <2> QED BY <2>2, SaysUpToTwo, ZenonT(60)
<1>5. Says(ms)
  BY <1>m
<1>b. /\ Len(ms) \in {1, 2} /\ 1 \in 1..Len(ms) /\ ms[1] = first
      /\ \A n \in 1..Len(ms) : (n = 1 /\ ms[n] = first) \/ (n = 2 /\ ms[n] = second)
      /\ \A n \in 1+1..Len(ms) : ms[n] = second
  BY <1>m
<1>6. /\ first.kind = "notified" /\ first.call = id /\ first.task = task[c] /\ first.status = status
      /\ second.kind = "tool_result" /\ second.how # "error"
  BY <1>o DEF Result
<1>7. TypeOK'
  <2>1. run' \in [Calls -> Active \cup {"none", "over", "refused"}]
    BY <1>0 DEF TypeOK, Finish, Active
  <2>2. out' \in Seq(MessageType)
    BY <1>0, <1>5, SaysMore
  <2>3. news' \in BOOLEAN /\ overlooked' \in BOOLEAN
    BY <1>0, <1>4 DEF TypeOK
  <2> QED BY <1>0, <1>4, <2>1, <2>2, <2>3 DEF TypeOK, loop
<1>8. CallInv'
  <2>1. ASSUME NEW d \in Calls, task[d] \notin {d, None}
        PROVE  task[task[d]] = task[d] /\ run'[task[d]] = "over"
    <3>1. task[d] \in Calls /\ task[d] # c
      BY <1>0, <1>2, <2>1 DEF TypeOK
    <3> QED BY <1>0, <1>4, <2>1, <3>1 DEF CallInv
  <2>2. \A d, e \in Calls : run'[d] \in Active /\ run'[e] \in Active /\ task'[d] = task'[e] => d = e
    <3>1. \A d \in Calls : run'[d] \in Active => run[d] \in Active
      BY <1>4 DEF Active
    <3> QED BY <1>0, <1>4, <3>1 DEF CallInv
  <2>3. /\ \A d \in Calls : run'[d] = "none" <=> task'[d] = None
        /\ turn' = "off" => \A d \in Calls : run'[d] \notin {"asked", "inline"}
    <3>1. /\ \A d \in Calls : run[d] = "none" <=> task[d] = None
          /\ turn = "off" => \A d \in Calls : run[d] \notin {"asked", "inline"}
      BY <1>0 DEF CallInv
    <3>2. \A d \in Calls : run'[d] = run[d] \/ (run'[d] = "over" /\ run[d] \in {"inline", "running"})
      BY <1>1, <1>4
    <3> QED BY <1>4, <3>1, <3>2
  <2>4. /\ \A d \in Calls : task'[d] # None => tool'[d] \in Tools /\ (tool'[d] # "SendMessage" => task'[d] = d)
        /\ fault' = "crashed" => turn' = "gone"
        /\ waits' = blocked'
    BY <1>0, <1>4 DEF CallInv
  <2> QED BY <1>4, <2>1, <2>2, <2>3, <2>4 DEF CallInv
<1>9. \A d \in Calls : (Begun(d)' <=> Begun(d)) /\ (d = task[c] => Begun(d))
  BY <1>1, <1>2, <1>4 DEF Begun
<1>10. \A d : /\ Acts(first, d) \/ Later(first, d) => d = task[c]
              /\ Shuts(first, task[c])
              /\ ~Launch(first, d) /\ ~Launch(second, d) /\ ~Opens(first, d)
              /\ ~Acts(second, d) /\ ~Opens(second, d) /\ ~Later(second, d)
  BY <1>6 DEF Later, Starts, Ends, Resumption, Launch, Acts, Opens, Shuts, Refuses
<1>11. ASSUME NEW d \in Calls, run'[d] \in {"inline", "running"} PROVE Working(d, ms)
  <2>1. d # c /\ run[d] \in {"inline", "running"} /\ task'[d] = task[d] /\ name'[d] = name[d]
    BY <1>4, <1>11
  <2>2. name[d] \in Calls
    BY <2>1 DEF LoopInv, OwnerInv
  <2>3. task[d] # task[c]
    BY <1>2, <2>1 DEF Active
  <2> QED BY <1>b, <1>10, <2>1, <2>2, <2>3 DEF Working
<1>12. \A n \in 1..Len(ms) : Proper(ms[n], n)
  BY <1>1, <1>3, <1>b, <1>6 DEF Proper
<1>13. \A u \in Calls : Settled(u, ms)
  <2> SUFFICES ASSUME NEW u \in Calls PROVE Settled(u, ms)
    OBVIOUS
  <2>1. CASE u = task[c]
    <3>1. 1 \in 1..Len(ms) /\ Shuts(ms[1], u) /\ \A k \in 1+1..Len(ms) : ~Opens(ms[k], u)
      <4>1. Shuts(first, u) /\ ~Opens(second, u)
        BY <1>10, <2>1
      <4>2. 1 \in 1..Len(ms) /\ Shuts(ms[1], u)
        BY <1>b, <4>1
      <4>3. \A k \in 1+1..Len(ms) : ~Opens(ms[k], u)
        BY <1>b, <4>1
      <4> QED BY <4>2, <4>3
    <3> QED BY <3>1 DEF Settled
  <2>2. CASE u # task[c] /\ \E d \in Unfinished : task[d] = u
    BY <1>4, <2>2 DEF Settled, Unfinished
  <2>3. CASE \A d \in Unfinished : task[d] # u
    BY <1>b, <1>10, <2>3 DEF Settled
  <2> QED BY <2>1, <2>2, <2>3
<1>14. ~overlooked' =>
         \A n \in 1..Len(ms) : /\ ms[n].kind = "notified" => ms[n].status = "completed"
                               /\ ms[n].kind = "result" => n = 1 /\ ms[n].unfinished = Unfinished /\ UNCHANGED task
  BY <1>4, <1>b, <1>6
<1>15. UNCHANGED <<loop, inbox, shut>> /\ (overlooked => overlooked') /\ ~Idle'
  BY <1>0, <1>1, <1>4 DEF Idle, CallInv
<1>16. /\ \A d \in Calls : run[d] = "refused" => run'[d] = "refused"
       /\ \A d \in Calls : task[d] # None => task'[d] = task[d]
  BY <1>1, <1>4
<1>17. /\ \A d \in Calls : Begun(d) => Begun(d)'
       /\ \A d \in Calls : \A n \in 1..Len(ms) : Later(ms[n], d) => Begun(d)'
       /\ \A d \in Calls : Begun(d)' => Begun(d) \/ \E n \in 1..Len(ms) : Starts(ms[n], d)
       /\ \A d \in Calls : \A n \in 1..Len(ms) : Launch(ms[n], d) => n = 1 /\ ~Begun(d)
  BY <1>b, <1>9, <1>10
<1> QED BY <1>1, <1>5, <1>7, <1>8, <1>11, <1>12, <1>13, <1>14, <1>15, <1>16, <1>17, SayingKeepsLoop

\* A step that says one message about no task.
LEMMA RemarkKeeps ==
  ASSUME LoopInv, outcome = None, TypeOK', CallInv', NEW msg \in MessageType, Says(<<msg>>),
         UNCHANGED <<run, tool, task, name, loop, inbox, shut>>, overlooked => overlooked',
         msg.kind \in {"updated", "result", "done", "error"},
         msg.kind = "result" =>
           msg.unfinished = Unfinished /\ \A c \in Unfinished : run[c] \in {"inline", "running"},
         Idle' => Idle \/ LastWord(msg)
  PROVE  LoopInv'
<1>1. PICK ms \in Seq(MessageType) :
        Says(ms) /\ 1 \in 1..Len(ms) /\ \A n \in 1..Len(ms) : n = 1 /\ ms[n] = msg
  <2>1. PICK ms : ms = <<msg>>
    OBVIOUS
  <2>2. /\ ms \in Seq(MessageType) /\ Len(ms) = 1 /\ \A n \in 1..Len(ms) : n = 1 /\ ms[n] = msg
    BY <2>1, OneMessage
  <2>3. Says(ms) /\ 1 \in 1..1
    BY <2>1
  <2> QED BY <2>2, <2>3
<1>2. \A d \in Calls : Begun(d)' <=> Begun(d)
  BY DEF Begun
<1>3. \A d : ~Later(msg, d) /\ ~Launch(msg, d) /\ ~Opens(msg, d) /\ ~Acts(msg, d)
  BY DEF Later, Starts, Ends, Resumption, Launch, Acts, Opens, Shuts, Refuses
<1>4. \A d \in Calls : run'[d] \in {"inline", "running"} => Working(d, ms)
  BY <1>1, <1>3 DEF Working, LoopInv, OwnerInv
<1>5. \A n \in 1..Len(ms) : Proper(ms[n], n)
  BY <1>1 DEF Proper
<1>6. \A u \in Calls : Settled(u, ms)
  BY <1>1, <1>3 DEF Settled, Unfinished
<1>7. \A n \in 1..Len(ms) : /\ ms[n].kind = "notified" => ms[n].status = "completed"
                            /\ ms[n].kind = "result" =>
                                  n = 1 /\ ms[n].unfinished = Unfinished /\ UNCHANGED task
  BY <1>1
<1>8. Idle' => Idle \/ \E n \in 1..Len(ms) : LastWord(ms[n])
  BY <1>1
<1>9. /\ \A d \in Calls : run[d] = "refused" => run'[d] = "refused"
      /\ \A d \in Calls : task[d] # None => task'[d] = task[d]
  OBVIOUS
<1>10. /\ \A d \in Calls : Begun(d) => Begun(d)'
       /\ \A d \in Calls : \A n \in 1..Len(ms) : Later(ms[n], d) => Begun(d)'
       /\ \A d \in Calls : Begun(d)' => Begun(d) \/ \E n \in 1..Len(ms) : Starts(ms[n], d)
       /\ \A d \in Calls : \A n \in 1..Len(ms) : Launch(ms[n], d) => n = 1 /\ ~Begun(d)
  BY <1>1, <1>2, <1>3
<1>11. UNCHANGED <<loop, inbox, shut>>
  OBVIOUS
<1> QED BY <1>1, <1>4, <1>5, <1>6, <1>7, <1>8, <1>9, <1>10, <1>11, SayingKeepsLoop

LEMMA EndTurnKeeps ==
  ASSUME LoopInv, NEW text \in {"", "text"}, EndTurn(text)
  PROVE  LoopInv'
<1>0. TypeOK /\ CallInv
  BY DEF LoopInv
<1>1. /\ outcome = None /\ turn = "on" /\ turn' = "off" /\ news' \in {news, FALSE}
      /\ overlooked' = (overlooked \/ text = "")
      /\ \A c \in Calls : run[c] \notin {"asked", "inline"}
      /\ UNCHANGED <<run, tool, task, name, updated, shut, fault, asked, blocked, inbox, loop, reminded,
                     waits>>
  BY DEF EndTurn, Thinks, Works
<1>2. PICK msg \in MessageType :
        /\ Says(<<msg>>) /\ msg.kind = "result" /\ msg.text = text /\ msg.unfinished = Unfinished
  <2>1. Unfinished \in SUBSET Calls
    BY DEF Unfinished
  <2>2. [kind |-> "result", text |-> text, unfinished |-> Unfinished] \in MessageType
    BY <2>1 DEF MessageType
  <2> QED BY <2>2 DEF EndTurn
<1>3. TypeOK'
  <2>1. out' \in Seq(MessageType)
    BY <1>0, <1>2, OneMessage, SaysMore
  <2>2. turn' \in {"on", "off", "gone"} /\ news' \in BOOLEAN /\ overlooked' \in BOOLEAN
    BY <1>0, <1>1 DEF TypeOK
  <2> QED BY <1>0, <1>1, <2>1, <2>2 DEF TypeOK, loop
<1>4. CallInv'
  BY <1>0, <1>1 DEF CallInv
<1>5. \A c \in Unfinished : run[c] \in {"inline", "running"}
  BY <1>1 DEF Unfinished, Active
<1>6. Idle' => Idle \/ LastWord(msg)
  BY <1>1, <1>2 DEF Idle, LastWord, Unfinished
<1>7. UNCHANGED <<run, tool, task, name, loop, inbox, shut>> /\ (overlooked => overlooked')
  BY <1>1
<1> QED BY <1>1, <1>2, <1>3, <1>4, <1>5, <1>6, <1>7, RemarkKeeps

LEMMA LeaveCrashKeeps ==
  ASSUME LoopInv, Leave \/ Fail("crashed")
  PROVE  LoopInv'
<1>0. TypeOK /\ CallInv
  BY DEF LoopInv
<1>1. /\ outcome = None /\ turn' = "gone" /\ fault' \in {fault, "crashed"}
      /\ UNCHANGED <<run, tool, task, name, updated, news, shut, asked, blocked, inbox, loop, reminded,
                     waits, overlooked>>
  BY DEF Leave, Fail, Works
<1>2. PICK msg \in MessageType : Says(<<msg>>) /\ msg.kind \in {"done", "error"}
  <2>1. \A kind \in {"done", "error"} : [kind |-> kind] \in MessageType
    BY DEF MessageType
  <2>2. CASE Leave
    BY <2>1, <2>2 DEF Leave
  <2>3. CASE Fail("crashed")
    BY <2>1, <2>3 DEF Fail
  <2> QED BY <2>2, <2>3
<1>3. TypeOK'
  <2>1. out' \in Seq(MessageType)
    BY <1>0, <1>2, OneMessage, SaysMore
  <2>2. turn' \in {"on", "off", "gone"} /\ fault' \in {None, "hung", "crashed"}
    BY <1>0, <1>1 DEF TypeOK
  <2> QED BY <1>0, <1>1, <2>1, <2>2 DEF TypeOK, loop
<1>4. CallInv'
  BY <1>0, <1>1 DEF CallInv
<1>6. ~Idle'
  BY <1>1 DEF Idle
<1>7. UNCHANGED <<run, tool, task, name, loop, inbox, shut>> /\ (overlooked => overlooked')
  BY <1>1
<1>8. msg.kind # "result" /\ msg.kind \in {"updated", "result", "done", "error"}
  BY <1>2
<1> QED BY <1>1, <1>2, <1>3, <1>4, <1>6, <1>7, <1>8, RemarkKeeps

\* A step without a word, which the loop does not hear of either.
LEMMA SilenceKeeps ==
  ASSUME LoopInv, TypeOK', CallInv',
         UNCHANGED <<run, tool, task, name, out, pending, owners, hadAsync, final, overlooked>>
  PROVE  MessageInv' /\ OwnerInv' /\ EndInv' /\ AnswerInv'
<1>1. MessageInv /\ OwnerInv /\ EndInv /\ AnswerInv
  BY DEF LoopInv
<1>3. MessageInv'
  BY <1>1 DEF MessageInv, InPlace, RunsAs
<1>4. OwnerInv'
  BY <1>1 DEF OwnerInv, RunsAs, Begun
<1>5. EndInv'
  BY <1>1 DEF EndInv, GoneAt, Unfinished
<1> QED BY <1>1, <1>3, <1>4, <1>5 DEF AnswerInv

LEMMA HangKeeps ==
  ASSUME LoopInv, Fail("hung")
  PROVE  LoopInv'
<1>1. /\ outcome = None /\ fault = None /\ fault' = "hung"
      /\ UNCHANGED <<turn, out, run, tool, task, name, updated, news, shut, asked, blocked, inbox, loop,
                     reminded, waits, overlooked>>
  BY DEF Fail, Works
<1>2. TypeOK' /\ CallInv'
  BY <1>1, SessionAssumption DEF LoopInv, TypeOK, CallInv, loop
<1>3. MessageInv' /\ OwnerInv' /\ EndInv' /\ AnswerInv'
  BY <1>1, <1>2, SilenceKeeps DEF loop
<1>4. IdleInv'
  BY <1>1 DEF LoopInv, IdleInv, Unfinished, loop
<1>5. AnswerCoversSubagents' /\ TimeoutExplained'
  BY <1>1, SessionAssumption DEF AnswerCoversSubagents, TimeoutExplained, loop
<1> QED BY <1>2, <1>3, <1>4, <1>5 DEF LoopInv

LEMMA WakeKeeps ==
  ASSUME LoopInv, Wake
  PROVE  LoopInv'
<1>0. TypeOK /\ CallInv /\ IdleInv
  BY DEF LoopInv
<1>1. /\ outcome = None /\ turn = "off" /\ ~shut
      /\ UNCHANGED <<run, tool, task, name, updated, fault, asked, blocked, out, loop, reminded, waits,
                     overlooked>>
  BY DEF Wake, Works
<1>2. CASE news /\ turn' = "on" /\ news' = FALSE /\ UNCHANGED <<shut, inbox>>
  <2>1. TypeOK' /\ CallInv'
    BY <1>0, <1>1, <1>2 DEF TypeOK, CallInv, loop
  <2>2. IdleInv'
    BY <1>0, <1>1, <1>2 DEF IdleInv, loop
  <2> QED BY <1>1, <2>1, <2>2, SilenceKeeps, SessionGoesOn DEF LoopInv, loop
<1>3. CASE /\ inbox # <<>> /\ inbox' = Tail(inbox)
           /\ IF Head(inbox) = "close" THEN shut' = TRUE /\ UNCHANGED turn
                                       ELSE turn' = "on" /\ UNCHANGED shut
           /\ UNCHANGED news
  <2>1. inbox \in Seq({"close", "retry", "reminder"})
    BY <1>0 DEF TypeOK
  <2>2. /\ inbox' \in Seq({"close", "retry", "reminder"}) /\ Len(inbox) \in Nat /\ Head(inbox) = inbox[1]
        /\ Len(inbox') = Len(inbox) - 1 /\ \A i \in 1..Len(inbox') : inbox'[i] = inbox[i + 1]
    BY <1>3, <2>1
  <2>3. turn' \in {"on", "off", "gone"} /\ shut' \in BOOLEAN
    BY <1>0, <1>1, <1>3 DEF TypeOK
  <2>4. TypeOK'
    BY <1>0, <1>1, <1>3, <2>2, <2>3 DEF TypeOK, loop
  <2>5. CallInv'
    BY <1>0, <1>1, <1>3 DEF CallInv
  <2>6. closed' => shut' \/ \E i \in 1..Len(inbox') : inbox'[i] = "close"
    <3> SUFFICES ASSUME closed, ~shut' PROVE \E i \in 1..Len(inbox') : inbox'[i] = "close"
      BY <1>1 DEF loop
    <3>1. PICK i \in 1..Len(inbox) : inbox[i] = "close"
      BY <1>0, <1>1 DEF IdleInv
    <3>2. i # 1
      BY <1>3, <2>2, <3>1
    <3>3. i - 1 \in 1..Len(inbox') /\ (i - 1) + 1 = i
      BY <2>2, <3>2
    <3> QED BY <2>2, <3>1, <3>3
  <2>7. Idle' => Idle
    BY <1>1, <1>3 DEF Idle, loop, Unfinished
  <2>8. IdleInv'
    BY <1>0, <1>1, <2>6, <2>7 DEF IdleInv, Idle, loop
  <2> QED BY <1>1, <2>4, <2>5, <2>8, SilenceKeeps, SessionGoesOn DEF LoopInv, loop
<1> QED BY <1>2, <1>3 DEF Wake

\* Humans are asked and answer; the loop reminds, or gives up.
LEMMA HumansKeep ==
  ASSUME LoopInv, NEW who, AskHuman(who) \/ HumanAnswers(who)
  PROVE  LoopInv'
<1>1. /\ outcome = None /\ (blocked = waits => blocked' = waits')
      /\ UNCHANGED <<turn, run, tool, task, name, updated, news, shut, fault, out, inbox, loop, overlooked>>
  BY DEF AskHuman, HumanAnswers, Works, WaitsAfter, cli
<1>2. TypeOK' /\ CallInv'
  BY <1>1 DEF LoopInv, TypeOK, CallInv, loop
<1>3. IdleInv'
  BY <1>1 DEF LoopInv, IdleInv, Unfinished, loop
<1> QED BY <1>1, <1>2, <1>3, SilenceKeeps, SessionGoesOn DEF LoopInv, loop

LEMMA RemindKeeps ==
  ASSUME LoopInv, Remind
  PROVE  LoopInv'
<1>1. /\ outcome = None /\ inbox' = Append(inbox, "reminder")
      /\ UNCHANGED <<turn, run, tool, task, name, updated, news, shut, fault, blocked, waits, out, loop,
                     overlooked>>
  BY DEF Remind, cli
<1>2. inbox \in Seq({"close", "retry", "reminder"})
  BY DEF LoopInv, TypeOK
<1>3. /\ inbox' \in Seq({"close", "retry", "reminder"}) /\ Len(inbox) \in Nat
      /\ \A i \in 1..Len(inbox) : i \in 1..Len(inbox') /\ inbox'[i] = inbox[i]
  BY <1>1, <1>2
<1>4. TypeOK' /\ CallInv'
  BY <1>1, <1>3 DEF LoopInv, TypeOK, CallInv, loop
<1>5. IdleInv'
  BY <1>1, <1>3 DEF LoopInv, IdleInv, Unfinished, loop
<1> QED BY <1>1, <1>4, <1>5, SilenceKeeps, SessionGoesOn DEF LoopInv, loop

\* When the loop has been told nothing for long, although no human is being asked.
LEMMA WatchdogKeeps ==
  ASSUME LoopInv, Watchdog
  PROVE  LoopInv'
<1>0. TypeOK /\ CallInv /\ IdleInv /\ EndInv
  BY DEF LoopInv
<1>1. /\ outcome = None /\ Silent /\ waits = {} /\ outcome' = "timeout"
      /\ UNCHANGED <<cli, blocked, out, inbox, pending, owners, hadAsync, final, closed, retried,
                     reminded, waits, overlooked>>
  BY DEF Watchdog
<1>2. TypeOK' /\ CallInv'
  BY <1>0, <1>1, ZenonT(60) DEF TypeOK, CallInv, cli
<1>3. IdleInv'
  BY <1>0, <1>1, SessionAssumption DEF IdleInv, cli
<1>4. (fault = "hung" \/ overlooked) /\ blocked = {}
  <2> SUFFICES ASSUME fault # "hung", ~overlooked PROVE FALSE
    BY <1>0, <1>1 DEF CallInv
  <2>1. /\ out = <<>> /\ turn # "gone" /\ ~Thinks
        /\ \A c \in Calls : run[c] \notin {"inline", "running"}
        /\ turn = "off" => IF shut THEN Unfinished # {} ELSE ~news /\ inbox = <<>>
    BY <1>0, <1>1 DEF Silent, CallInv
  <2>2. Works
    <3>1. fault = None
      BY <1>0, <2>1 DEF TypeOK, CallInv
    <3>2. Len(out) = 0 /\ MaxLag \in Nat
      BY <2>1, SessionAssumption
    <3> QED BY <1>1, <2>1, <3>1, <3>2 DEF Works
  <2>3. turn = "off"
    BY <1>0, <1>1, <2>1, <2>2 DEF Thinks, TypeOK, CallInv
  <2>4. Unfinished = {}
    BY <1>0, <2>1, <2>3 DEF CallInv, Unfinished, Active
  <2>5. ~shut /\ ~news /\ inbox = <<>>
    BY <2>1, <2>3, <2>4
  <2>6. Len(out) = 0 /\ Len(inbox) = 0
    BY <2>1, <2>5
  <2>7. ~closed
    BY <1>0, <2>5, <2>6 DEF IdleInv
  <2> QED BY <1>0, <1>1, <2>3, <2>4, <2>5, <2>6, <2>7 DEF IdleInv
<1>5. AnswerCoversSubagents' /\ TimeoutExplained'
  BY <1>1, <1>4, SessionAssumption DEF AnswerCoversSubagents, TimeoutExplained, cli
<1> QED BY <1>1, <1>2, <1>3, <1>5, SilenceKeeps DEF LoopInv, cli

-----------------------------------------------------------------------------
(* The loop takes the first message.                                       *)

LEMMA Next1 ==
  ASSUME TypeOK, out # <<>>, out' = Tail(out)
  PROVE  /\ Len(out) \in Nat /\ Len(out) >= 1 /\ Len(out') = Len(out) - 1
         /\ out' \in Seq(MessageType)
         /\ Head(out) = out[1] /\ Head(out) \in MessageType
         /\ \A i \in 1..Len(out') : out'[i] = out[i + 1]
         /\ \A i \in 2..Len(out) : out'[i - 1] = out[i] /\ i - 1 \in 1..Len(out')
<1>1. out \in Seq(MessageType)
  BY DEF TypeOK
<1>2. /\ Len(out) \in Nat /\ Len(out) >= 1 /\ Len(out') = Len(out) - 1
      /\ out' \in Seq(MessageType)
      /\ Head(out) = out[1] /\ Head(out) \in MessageType
  BY <1>1
<1>3. \A i \in 1..Len(out') : out'[i] = out[i + 1]
  BY <1>1
<1>4. ASSUME NEW i \in 2..Len(out) PROVE out'[i - 1] = out[i] /\ i - 1 \in 1..Len(out')
  <2>1. i - 1 \in 1..Len(out') /\ (i - 1) + 1 = i
    BY <1>2
  <2> QED BY <1>3, <2>1
<1> QED BY <1>2, <1>3, <1>4

\* What the loop does with a message about no task, or about one.
Taken(m) ==
  /\ \A t, id \in Calls : owners[t] = id /\ id \in pending /\ ~Acts(m, t) => owners'[t] = id /\ id \in pending'
  /\ \A t \in Calls : Starts(m, t) => owners'[t] = m.call /\ m.call \in pending'
  /\ \A t \in Calls : (\A p \in pending : task[p] # t) /\ ~Opens(m, t) => \A p \in pending' : task[p] # t
  /\ ~overlooked => \A t \in Calls : Shuts(m, t) => \A p \in pending' : task[p] # t
  /\ \A t \in Calls : owners[t] = None /\ ~Later(m, t) => owners'[t] = None
  /\ \A t \in Calls : owners[t] # None \/ Starts(m, t) => owners'[t] # None
  /\ \A t \in Calls : owners'[t] # None => task[owners'[t]] = t /\ hadAsync'
  /\ (\A p \in pending' : task[p] # None) /\ (pending' # {} => hadAsync')
  /\ ~overlooked => \A p \in pending' : owners'[task[p]] = p \/ (owners'[task[p]] = None /\ task[p] = p)

LEMMA TakenShifts ==
  ASSUME TypeOK, out # <<>>, out' = Tail(out), Taken(Head(out)), task' = task
  PROVE  /\ \A t, id \in Calls : \A i \in 2..Len(out) + 1 : RunsAs(t, id, i) => RunsAs(t, id, i - 1)'
         /\ ~overlooked =>
              \A t \in Calls : \A i \in 2..Len(out) + 1 : GoneAt(t, i) => GoneAt(t, i - 1)'
<1>1. /\ Len(out) \in Nat /\ Len(out) >= 1 /\ Len(out') = Len(out) - 1
      /\ Head(out) = out[1]
      /\ \A i \in 1..Len(out') : out'[i] = out[i + 1]
      /\ \A i \in 2..Len(out) : out'[i - 1] = out[i] /\ i - 1 \in 1..Len(out')
  BY Next1
<1>2. ASSUME NEW t \in Calls, NEW id \in Calls, NEW i \in 2..Len(out) + 1, RunsAs(t, id, i)
      PROVE  RunsAs(t, id, i - 1)'
  <2>0. \A k \in 1..i-1-1 : k \in 1..Len(out') /\ k + 1 \in 1..i-1 /\ out'[k] = out[k + 1]
    BY <1>1
  <2>1. CASE owners[t] = id /\ id \in pending /\ \A k \in 1..i-1 : ~Acts(out[k], t)
    <3>1. 1 \in 1..i-1
      OBVIOUS
    <3>2. owners'[t] = id /\ id \in pending'
      BY <1>1, <2>1, <3>1 DEF Taken
    <3>3. \A k \in 1..i-1-1 : ~Acts(out'[k], t)
      BY <2>0, <2>1
    <3> QED BY <3>2, <3>3 DEF RunsAs
  <2>2. ASSUME NEW j \in 1..i-1, Starts(out[j], t), out[j].call = id,
               \A k \in j+1..i-1 : ~Acts(out[k], t)
        PROVE  RunsAs(t, id, i - 1)'
    <3>1. CASE j = 1
      <4>1. owners'[t] = id /\ id \in pending'
        BY <1>1, <2>2, <3>1 DEF Taken
      <4>2. \A k \in 1..i-1-1 : k + 1 \in j+1..i-1
        BY <3>1
      <4>3. \A k \in 1..i-1-1 : ~Acts(out'[k], t)
        BY <2>0, <2>2, <4>2
      <4> QED BY <4>1, <4>3 DEF RunsAs
    <3>2. CASE j # 1
      <4>1. j - 1 \in 1..i-1-1 /\ j \in 2..Len(out) /\ out'[j - 1] = out[j]
        BY <1>1, <3>2
      <4>2. \A k \in (j-1)+1..i-1-1 : k + 1 \in j+1..i-1 /\ k \in 1..i-1-1
        BY <3>2
      <4>3. \A k \in (j-1)+1..i-1-1 : ~Acts(out'[k], t)
        BY <2>0, <2>2, <4>2
      <4>4. Starts(out'[j-1], t) /\ out'[j-1].call = id
        BY <2>2, <4>1
      <4> QED BY <4>1, <4>3, <4>4 DEF RunsAs
    <3> QED BY <3>1, <3>2
  <2> QED BY <1>2, <2>1, <2>2 DEF RunsAs
<1>3. ASSUME ~overlooked, NEW t \in Calls, NEW i \in 2..Len(out) + 1, GoneAt(t, i)
      PROVE  GoneAt(t, i - 1)'
  <2>0. \A k \in 1..i-1-1 : k \in 1..Len(out') /\ k + 1 \in 1..i-1 /\ out'[k] = out[k + 1]
    BY <1>1
  <2>1. CASE (\A p \in pending : task[p] # t) /\ \A k \in 1..i-1 : ~Opens(out[k], t)
    <3>1. 1 \in 1..i-1
      OBVIOUS
    <3>2. \A p \in pending' : task[p] # t
      BY <1>1, <2>1, <3>1 DEF Taken
    <3>3. \A k \in 1..i-1-1 : ~Opens(out'[k], t)
      BY <2>0, <2>1
    <3> QED BY <3>2, <3>3 DEF GoneAt
  <2>2. ASSUME NEW j \in 1..i-1, Shuts(out[j], t), \A k \in j+1..i-1 : ~Opens(out[k], t)
        PROVE  GoneAt(t, i - 1)'
    <3>1. CASE j = 1
      <4>1. \A p \in pending' : task[p] # t
        BY <1>1, <1>3, <2>2, <3>1 DEF Taken
      <4>2. \A k \in 1..i-1-1 : k + 1 \in j+1..i-1
        BY <3>1
      <4>3. \A k \in 1..i-1-1 : ~Opens(out'[k], t)
        BY <2>0, <2>2, <4>2
      <4> QED BY <4>1, <4>3 DEF GoneAt
    <3>2. CASE j # 1
      <4>1. j - 1 \in 1..i-1-1 /\ j \in 2..Len(out) /\ out'[j - 1] = out[j]
        BY <1>1, <3>2
      <4>2. \A k \in (j-1)+1..i-1-1 : k + 1 \in j+1..i-1 /\ k \in 1..i-1-1
        BY <3>2
      <4>3. \A k \in (j-1)+1..i-1-1 : ~Opens(out'[k], t)
        BY <2>0, <2>2, <4>2
      <4>4. Shuts(out'[j-1], t)
        BY <2>2, <4>1
      <4> QED BY <4>1, <4>3, <4>4 DEF GoneAt
    <3> QED BY <3>1, <3>2
  <2> QED BY <1>3, <2>1, <2>2 DEF GoneAt
<1> QED BY <1>2, <1>3

\* The rest of the queue stays as it was, when the loop has taken its first message.
LEMMA TakenKeeps ==
  ASSUME LoopInv, out # <<>>, out' = Tail(out), Taken(Head(out)), UNCHANGED <<cli, overlooked>>
  PROVE  MessageInv' /\ OwnerInv' /\ EndInv'
<1>0. TypeOK /\ CallInv /\ MessageInv /\ OwnerInv /\ EndInv
  BY DEF LoopInv
<1>1. /\ Len(out) \in Nat /\ Len(out) >= 1 /\ Len(out') = Len(out) - 1
      /\ Head(out) = out[1]
      /\ \A i \in 1..Len(out') : out'[i] = out[i + 1] /\ out[i + 1] \in MessageType
      /\ \A i \in 2..Len(out) : out'[i - 1] = out[i] /\ i - 1 \in 1..Len(out')
      /\ \A i \in 1..Len(out') : i \in 1..Len(out)
      /\ \A i \in 1..Len(out') : i + 1 \in 2..Len(out) /\ i + 1 \in 1..Len(out) /\ (i + 1) - 1 = i
      /\ 1 \in 1..Len(out)
  <2>1. /\ Len(out) \in Nat /\ Len(out) >= 1 /\ Len(out') = Len(out) - 1
        /\ Head(out) = out[1]
        /\ \A i \in 1..Len(out') : out'[i] = out[i + 1]
        /\ \A i \in 2..Len(out) : out'[i - 1] = out[i] /\ i - 1 \in 1..Len(out')
    BY <1>0, Next1
  <2>2. \A i \in 1..Len(out) : out[i] \in MessageType
    BY <1>0, Waiting
  <2>3. /\ \A i \in 1..Len(out') : i + 1 \in 2..Len(out) /\ i + 1 \in 1..Len(out) /\ (i + 1) - 1 = i
        /\ \A i \in 1..Len(out') : i \in 1..Len(out)
        /\ 1 \in 1..Len(out)
    BY <2>1
  <2> QED BY <2>1, <2>2, <2>3
<1>2. UNCHANGED <<run, tool, task, name>> /\ overlooked' = overlooked
  BY DEF cli
<1>3. /\ \A t, id \in Calls : \A i \in 2..Len(out) + 1 : RunsAs(t, id, i) => RunsAs(t, id, i - 1)'
      /\ ~overlooked =>
           \A t \in Calls : \A i \in 2..Len(out) + 1 : GoneAt(t, i) => GoneAt(t, i - 1)'
  BY <1>0, <1>2, TakenShifts
<1>4. /\ \A t \in Calls : \A id \in Calls : \A i \in 1..Len(out') : RunsAs(t, id, i + 1) => RunsAs(t, id, i)'
      /\ \A t \in Calls : \A id \in Calls : RunsAs(t, id, Len(out) + 1) => RunsAs(t, id, Len(out) + 1)'
  <2>1. \A t \in Calls : \A id \in Calls : \A i \in 1..Len(out') : RunsAs(t, id, i + 1) => RunsAs(t, id, i)'
    <3> SUFFICES ASSUME NEW t \in Calls, NEW id \in Calls, NEW i \in 1..Len(out'), RunsAs(t, id, i + 1)
                 PROVE  RunsAs(t, id, i)'
      OBVIOUS
    <3>1. i + 1 \in 2..Len(out) + 1 /\ (i + 1) - 1 = i
      BY <1>1
    <3>2. RunsAs(t, id, (i + 1) - 1)'
      BY <1>3, <3>1
    <3> QED BY <3>1, <3>2
  <2>2. \A t \in Calls : \A id \in Calls : RunsAs(t, id, Len(out) + 1) => RunsAs(t, id, Len(out) + 1)'
    <3> SUFFICES ASSUME NEW t \in Calls, NEW id \in Calls, RunsAs(t, id, Len(out) + 1)
                 PROVE  RunsAs(t, id, Len(out) + 1)'
      OBVIOUS
    <3>1. PICK n \in 2..Len(out) + 1 : n = Len(out) + 1 /\ n - 1 = Len(out') + 1
      BY <1>1
    <3>2. RunsAs(t, id, n - 1)'
      BY <1>3, <3>1
    <3> QED BY <3>1, <3>2
  <2> QED BY <2>1, <2>2
<1>5. ~overlooked =>
        /\ \A t \in Calls : \A i \in 1..Len(out') : GoneAt(t, i + 1) => GoneAt(t, i)'
        /\ \A t \in Calls : GoneAt(t, Len(out) + 1) => GoneAt(t, Len(out) + 1)'
  <2> SUFFICES ASSUME ~overlooked
               PROVE  /\ \A t \in Calls : \A i \in 1..Len(out') : GoneAt(t, i + 1) => GoneAt(t, i)'
                      /\ \A t \in Calls : GoneAt(t, Len(out) + 1) => GoneAt(t, Len(out) + 1)'
    OBVIOUS
  <2>1. ASSUME NEW t \in Calls, NEW i \in 1..Len(out'), GoneAt(t, i + 1)
        PROVE  GoneAt(t, i)'
    <3>1. i + 1 \in 2..Len(out) + 1 /\ (i + 1) - 1 = i
      BY <1>1
    <3>2. GoneAt(t, (i + 1) - 1)'
      BY <1>3, <2>1, <3>1
    <3> QED BY <3>1, <3>2
  <2>2. ASSUME NEW t \in Calls, GoneAt(t, Len(out) + 1)
        PROVE  GoneAt(t, Len(out) + 1)'
    <3>1. PICK n \in 2..Len(out) + 1 : n = Len(out) + 1 /\ n - 1 = Len(out') + 1
      BY <1>1
    <3>2. GoneAt(t, n - 1)'
      BY <1>3, <2>2, <3>1
    <3> QED BY <3>1, <3>2
  <2> QED BY <2>1, <2>2
<1>6. ASSUME NEW i \in 1..Len(out') PROVE InPlace(i)'
  <2> DEFINE msg == out[i + 1]
  <2>1. InPlace(i + 1) /\ out'[i] = msg /\ msg \in MessageType
    BY <1>0, <1>1 DEF MessageInv
  <2>2. /\ msg.kind = "call" => msg.call \in Calls /\ msg.task \in Calls
        /\ msg.kind = "started" => msg.call \in Calls /\ msg.task \in Calls
        /\ msg.kind = "notified" => msg.task \in Calls
        /\ msg.kind = "result" => msg.unfinished \subseteq Calls
    BY <2>1, Kinds
  <2>3. msg.kind = "started" =>
          /\ task'[msg.call] = msg.task
          /\ msg.call = msg.task \/ owners'[msg.task] # None \/ \E k \in 1..i-1 : Starts(out'[k], msg.task)
    <3> SUFFICES ASSUME msg.kind = "started", owners[msg.task] # None \/ \E k \in 1..(i+1)-1 : Starts(out[k], msg.task)
                 PROVE  owners'[msg.task] # None \/ \E k \in 1..i-1 : Starts(out'[k], msg.task)
      BY <1>2, <2>1 DEF InPlace
    <3>1. CASE owners[msg.task] # None
      BY <2>2, <3>1 DEF Taken
    <3>2. ASSUME NEW k \in 1..(i+1)-1, Starts(out[k], msg.task)
          PROVE  owners'[msg.task] # None \/ \E n \in 1..i-1 : Starts(out'[n], msg.task)
      <4>1. CASE k = 1
        BY <1>1, <2>2, <3>2, <4>1 DEF Taken
      <4>2. CASE k # 1
        <5>1. k - 1 \in 1..i-1 /\ k \in 2..Len(out)
          BY <1>1, <4>2
        <5> QED BY <1>1, <3>2, <5>1
      <4> QED BY <4>1, <4>2
    <3> QED BY <3>1, <3>2
  <2>4. out'[i].kind = "notified" => \E id \in Calls : out'[i].call \in {id, None} /\ RunsAs(out[i].task, id, i)'
    <3> SUFFICES ASSUME msg.kind = "notified"
                 PROVE  \E id \in Calls : msg.call \in {id, None} /\ RunsAs(out[i].task, id, i)'
      BY <2>1
    <3>1. PICK id \in Calls : msg.call \in {id, None} /\ RunsAs(msg.task, id, i + 1)
      BY <2>1 DEF InPlace
    <3>2. PICK t \in Calls : t = msg.task /\ t = out'[i].task
      BY <2>1, <2>2
    <3>3. RunsAs(t, id, i)'
      BY <1>4, <3>1, <3>2
    <3> QED BY <3>1, <3>2, <3>3
  <2>5. msg.kind = "result" =>
          \A c \in msg.unfinished : task'[c] # None /\ \E id \in Calls : RunsAs(task[c], id, i)'
    <3> SUFFICES ASSUME msg.kind = "result", NEW c \in msg.unfinished
                 PROVE  task'[c] # None /\ \E id \in Calls : RunsAs(task[c], id, i)'
      OBVIOUS
    <3>1. c \in Calls /\ task[c] # None /\ \E id \in Calls : RunsAs(task[c], id, i + 1)
      BY <2>1, <2>2 DEF InPlace
    <3>2. task[c] \in Calls
      BY <1>0, <3>1 DEF TypeOK
    <3>3. PICK id \in Calls : RunsAs(task[c], id, i + 1)
      BY <3>1
    <3>4. PICK t \in Calls : t = task[c] /\ t = task'[c]
      BY <1>2, <3>2
    <3>5. RunsAs(t, id, i)'
      BY <1>4, <3>3, <3>4
    <3>6. RunsAs(task[c], id, i)'
      BY <3>4, <3>5
    <3> QED BY <1>2, <3>1, <3>6
  <2>6. msg.kind = "call" => task'[msg.call] = msg.task /\ (msg.tool # "SendMessage" => msg.task = msg.call)
    BY <1>2, <2>1 DEF InPlace
  <2>7. msg.kind = "tool_result" /\ msg.tool = "Agent" /\ msg.how = "error" =>
          task'[msg.call] = msg.call /\ run'[msg.call] = "refused"
    BY <1>2, <2>1 DEF InPlace
  <2> QED BY <2>1, <2>3, <2>4, <2>5, <2>6, <2>7 DEF InPlace
<1>7. ASSUME NEW t \in Calls, ~Begun(t)'
      PROVE  owners'[t] = None /\ \A i \in 1..Len(out') : ~Later(out'[i], t)
  <2>1. owners[t] = None /\ \A i \in 1..Len(out) : ~Later(out[i], t)
    BY <1>0, <1>2, <1>7 DEF OwnerInv, Begun
  <2>2. owners'[t] = None
    BY <1>1, <2>1 DEF Taken
  <2> QED BY <1>1, <2>1, <2>2
<1>8. ASSUME NEW t \in Calls, Begun(t)'
      PROVE  owners'[t] # None \/ \E i \in 1..Len(out') : Starts(out'[i], t)
  <2>1. owners[t] # None \/ \E i \in 1..Len(out) : Starts(out[i], t)
    BY <1>0, <1>2, <1>8 DEF OwnerInv, Begun
  <2>2. CASE owners[t] # None
    BY <2>2 DEF Taken
  <2>3. ASSUME NEW i \in 1..Len(out), Starts(out[i], t)
        PROVE  owners'[t] # None \/ \E n \in 1..Len(out') : Starts(out'[n], t)
    <3>1. CASE i = 1
      BY <1>1, <2>3, <3>1 DEF Taken
    <3>2. CASE i # 1
      <4>1. i \in 2..Len(out)
        BY <1>1, <3>2
      <4> QED BY <1>1, <2>3, <4>1
    <3> QED BY <3>1, <3>2
  <2> QED BY <2>1, <2>2, <2>3
<1>9. ASSUME NEW t \in Calls, NEW i \in 1..Len(out'), Launch(out'[i], t)
      PROVE  owners'[t] = None /\ \A k \in 1..i-1 : ~Later(out'[k], t)
  <2>1. owners[t] = None /\ \A k \in 1..(i+1)-1 : ~Later(out[k], t)
    BY <1>0, <1>1, <1>9 DEF OwnerInv
  <2>2. 1 \in 1..(i+1)-1
    BY <1>1
  <2>3. owners'[t] = None
    BY <1>1, <2>1, <2>2 DEF Taken
  <2>4. \A k \in 1..i-1 : k \in 1..Len(out') /\ k + 1 \in 1..(i+1)-1
    BY <1>1
  <2> QED BY <1>1, <2>1, <2>3, <2>4
<1>10. ASSUME NEW c \in Calls, run'[c] \in {"inline", "running"}
       PROVE  name'[c] \in Calls /\ RunsAs(task[c], name[c], Len(out) + 1)'
  <2>1. name[c] \in Calls /\ RunsAs(task[c], name[c], Len(out) + 1)
    BY <1>0, <1>2, <1>10 DEF OwnerInv
  <2>2. task[c] \in Calls
    BY <1>0, <1>2, <1>10 DEF TypeOK, CallInv
  <2>3. PICK t \in Calls : t = task[c] /\ t = task'[c]
    BY <1>2, <2>2
  <2>4. PICK id \in Calls : id = name[c] /\ id = name'[c]
    BY <1>2, <2>1
  <2>5. RunsAs(t, id, Len(out) + 1)'
    BY <1>4, <2>1, <2>3, <2>4
  <2>6. RunsAs(task[c], name[c], Len(out) + 1)'
    BY <2>3, <2>4, <2>5
  <2> QED BY <1>2, <2>1, <2>6
<1>11. MessageInv'
  BY <1>6 DEF MessageInv
<1>12. OwnerInv'
  <2>1. /\ \A t \in Calls : owners'[t] # None => task'[owners'[t]] = t /\ hadAsync'
        /\ \A p \in pending' : task'[p] # None
        /\ pending' # {} => hadAsync'
    BY <1>2 DEF Taken
  <2> QED BY <2>1, <1>7, <1>8, <1>9, <1>10 DEF OwnerInv
<1>13. EndInv'
  <2> SUFFICES ASSUME ~overlooked PROVE EndInv'
    BY <1>2 DEF EndInv
  <2>1. \A p \in pending' : owners'[task'[p]] = p \/ (owners'[task'[p]] = None /\ task'[p] = p)
    BY <1>2 DEF Taken
  <2>2. ASSUME NEW i \in 1..Len(out')
        PROVE  /\ out'[i].kind = "notified" => out'[i].status = "completed"
               /\ out'[i].kind = "result" =>
                    \A t \in Calls : GoneAt(t, i)' \/ \E c \in out'[i].unfinished : task'[c] = t
    <3>1. /\ out[i + 1].kind = "notified" => out[i + 1].status = "completed"
          /\ out[i + 1].kind = "result" =>
               \A t \in Calls : GoneAt(t, i + 1) \/ \E c \in out[i + 1].unfinished : task[c] = t
      BY <1>0, <1>1 DEF EndInv
    <3> QED BY <1>1, <1>2, <1>5, <3>1
  <2>3. \A t \in Calls : GoneAt(t, Len(out) + 1)' \/ \E c \in Unfinished' : task'[c] = t
    BY <1>0, <1>2, <1>5 DEF EndInv, Unfinished
  <2> QED BY <2>1, <2>2, <2>3 DEF EndInv
<1> QED BY <1>11, <1>12, <1>13

\* The result that ends the loop or closes the stream is not lost.
LEMMA TakenIdles ==
  ASSUME TypeOK, IdleInv, out # <<>>, out' = Tail(out), UNCHANGED <<cli, overlooked>>, outcome = None,
         closed => closed',
         \A i \in 1..Len(inbox) : i \in 1..Len(inbox') /\ inbox'[i] = inbox[i],
         closed' => closed \/ \E i \in 1..Len(inbox') : inbox'[i] = "close",
         ~overlooked /\ outcome' = None /\ LastWord(Head(out)) => closed'
  PROVE  IdleInv'
<1>1. /\ Head(out) = out[1] /\ Len(out) \in Nat
      /\ \A i \in 2..Len(out) : out'[i - 1] = out[i] /\ i - 1 \in 1..Len(out')
  BY Next1
<1>2. UNCHANGED <<shut, turn, news, run>>
  BY DEF cli
<1>3. closed' => shut' \/ \E i \in 1..Len(inbox') : inbox'[i] = "close"
  BY <1>2 DEF IdleInv
<1>4. ASSUME Idle', ~closed'
      PROVE  \E i \in 1..Len(out') : LastWord(out'[i])
  <2>1. Idle /\ ~closed /\ outcome' = None /\ ~overlooked
    BY <1>2, <1>4 DEF Idle, Unfinished
  <2>2. PICK i \in 1..Len(out) : LastWord(out[i])
    BY <2>1 DEF IdleInv, Idle, LastWord
  <2>3. i # 1
    BY <1>1, <1>4, <2>1, <2>2
  <2>4. i \in 2..Len(out)
    BY <1>1, <2>3
  <2> QED BY <1>1, <2>2, <2>4
<1> QED BY <1>3, <1>4 DEF IdleInv, Idle, LastWord

\* What the first message is known to be.
LEMMA AtHead ==
  ASSUME LoopInv, out # <<>>, NEW m, m = Head(out)
  PROVE  /\ m \in MessageType
         /\ m.kind = "call" => task[m.call] = m.task /\ (m.tool # "SendMessage" => m.task = m.call)
         /\ m.kind = "started" =>
              task[m.call] = m.task /\ (m.call = m.task \/ owners[m.task] # None)
         /\ m.kind = "notified" =>
              /\ owners[m.task] \in pending /\ m.call \in {owners[m.task], None}
              /\ ~overlooked => m.status = "completed"
         /\ m.kind = "tool_result" /\ m.tool = "Agent" /\ m.how = "error" =>
              task[m.call] = m.call /\ owners[m.call] = None
         /\ m.kind = "result" =>
              /\ \A c \in m.unfinished : owners[task[c]] \in pending
              /\ ~overlooked =>
                   \A t \in Calls : (\A p \in pending : task[p] # t) \/ \E c \in m.unfinished : task[c] = t
         /\ \A t \in Calls : Launch(m, t) => owners[t] = None
<1>0. TypeOK /\ MessageInv /\ OwnerInv /\ EndInv
  BY DEF LoopInv
<1>1. 1 \in 1..Len(out) /\ m = out[1] /\ m \in MessageType
  <2>1. out \in Seq(MessageType)
    BY <1>0 DEF TypeOK
  <2> QED BY <2>1
<1>2. InPlace(1)
  BY <1>0, <1>1 DEF MessageInv
<1>3. 1..1-1 = {}
  OBVIOUS
<1>4. \A t, id : RunsAs(t, id, 1) => owners[t] = id /\ id \in pending
  BY <1>3 DEF RunsAs
<1>5. \A t : GoneAt(t, 1) => \A p \in pending : task[p] # t
  BY <1>3 DEF GoneAt
<1>6. /\ m.kind = "call" => task[m.call] = m.task /\ (m.tool # "SendMessage" => m.task = m.call)
      /\ m.kind = "started" =>
              task[m.call] = m.task /\ (m.call = m.task \/ owners[m.task] # None)
  BY <1>1, <1>2, <1>3 DEF InPlace
<1>7. m.kind = "notified" =>
        /\ owners[m.task] \in pending /\ m.call \in {owners[m.task], None}
        /\ ~overlooked => m.status = "completed"
  BY <1>0, <1>1, <1>2, <1>4 DEF InPlace, EndInv
<1>8. m.kind = "tool_result" /\ m.tool = "Agent" /\ m.how = "error" =>
        task[m.call] = m.call /\ owners[m.call] = None
  <2> SUFFICES ASSUME m.kind = "tool_result", m.tool = "Agent", m.how = "error"
               PROVE  task[m.call] = m.call /\ owners[m.call] = None
    OBVIOUS
  <2>1. m.call \in Calls
    BY <1>1, Kinds
  <2>2. task[m.call] = m.call /\ run[m.call] = "refused"
    BY <1>1, <1>2 DEF InPlace
  <2> QED BY <1>0, <2>1, <2>2 DEF OwnerInv, Begun
<1>9. m.kind = "result" =>
        /\ \A c \in m.unfinished : owners[task[c]] \in pending
        /\ ~overlooked =>
             \A t \in Calls : (\A p \in pending : task[p] # t) \/ \E c \in m.unfinished : task[c] = t
  BY <1>0, <1>1, <1>2, <1>4, <1>5 DEF InPlace, EndInv
<1>10. \A t \in Calls : Launch(m, t) => owners[t] = None
  BY <1>0, <1>1 DEF OwnerInv
<1> QED BY <1>1, <1>6, <1>7, <1>8, <1>9, <1>10

\* What the loop knows before it takes the message.
LEMMA Known ==
  ASSUME LoopInv
  PROVE  /\ None \notin Calls /\ pending \subseteq Calls /\ owners \in [Calls -> Calls \cup {None}]
         /\ task \in [Calls -> Calls \cup {None}]
         /\ \A t \in Calls : owners[t] # None => task[owners[t]] = t /\ hadAsync
         /\ \A p \in pending : task[p] \in Calls
         /\ pending # {} => hadAsync
         /\ ~overlooked => \A p \in pending : owners[task[p]] = p \/ (owners[task[p]] = None /\ task[p] = p)
<1>1. /\ pending \subseteq Calls /\ owners \in [Calls -> Calls \cup {None}]
      /\ task \in [Calls -> Calls \cup {None}]
  BY DEF LoopInv, TypeOK
<1>2. /\ \A t \in Calls : owners[t] # None => task[owners[t]] = t /\ hadAsync
      /\ \A p \in pending : task[p] # None
      /\ pending # {} => hadAsync
  BY DEF LoopInv, OwnerInv
<1>3. ~overlooked => \A p \in pending : owners[task[p]] = p \/ (owners[task[p]] = None /\ task[p] = p)
  BY DEF LoopInv, EndInv
<1> QED BY <1>1, <1>2, <1>3, SessionAssumption

\* What makes the invariant hold after a message has been taken.
LEMMA TakingKeeps ==
  ASSUME LoopInv, out # <<>>, out' = Tail(out), Taken(Head(out)), outcome = None,
         UNCHANGED <<cli, blocked, waits, overlooked>>,
         inbox' \in Seq({"close", "retry", "reminder"}), pending' \subseteq Calls,
         owners' \in [Calls -> Calls \cup {None}], hadAsync' \in BOOLEAN, closed' \in BOOLEAN,
         final' \in [text : {"", "text"}, unfinished : SUBSET Calls],
         outcome' \in {None, "complete", "error"},
         IdleInv', AnswerInv', AnswerCoversSubagents'
  PROVE  LoopInv'
<1>1. TypeOK'
  <2>1. TypeOK
    BY DEF LoopInv
  <2>2. out' \in Seq(MessageType)
    BY <2>1, Next1
  <2> QED BY <2>1, <2>2 DEF TypeOK, cli
<1>2. CallInv'
  BY DEF LoopInv, CallInv, cli
<1>3. MessageInv' /\ OwnerInv' /\ EndInv'
  BY TakenKeeps
<1>4. TimeoutExplained'
  BY SessionAssumption DEF TimeoutExplained
<1> QED BY <1>1, <1>2, <1>3, <1>4 DEF LoopInv

\* The same, of a message that does not end the loop or give its answer.
LEMMA HearingKeeps ==
  ASSUME LoopInv, out # <<>>, out' = Tail(out), Taken(Head(out)), outcome = None,
         UNCHANGED <<cli, blocked, waits, overlooked, final, closed, outcome>>,
         Head(out).kind # "result",
         inbox' = inbox \/ inbox' = Append(inbox, "retry"), pending' \subseteq Calls,
         owners' \in [Calls -> Calls \cup {None}], hadAsync' \in BOOLEAN, hadAsync => hadAsync'
  PROVE  LoopInv'
<1>0. TypeOK /\ IdleInv /\ AnswerInv
  BY DEF LoopInv
<1>1. inbox \in Seq({"close", "retry", "reminder"})
  BY <1>0 DEF TypeOK
<1>2. /\ inbox' \in Seq({"close", "retry", "reminder"})
      /\ \A i \in 1..Len(inbox) : i \in 1..Len(inbox') /\ inbox'[i] = inbox[i]
  <2>1. CASE inbox' = inbox
    BY <1>1, <2>1
  <2>2. CASE inbox' = Append(inbox, "retry")
    BY <1>1, <2>2
  <2> QED BY <2>1, <2>2
<1>3. ~LastWord(Head(out))
  BY DEF LastWord
<1>4. IdleInv'
  BY <1>0, <1>2, <1>3, TakenIdles
<1>5. AnswerInv' /\ AnswerCoversSubagents'
  BY <1>0, SessionAssumption DEF AnswerInv, AnswerCoversSubagents
<1>6. /\ final' \in [text : {"", "text"}, unfinished : SUBSET Calls] /\ closed' \in BOOLEAN
      /\ outcome' \in {None, "complete", "error"}
  BY <1>0 DEF TypeOK
<1> QED BY <1>2, <1>4, <1>5, <1>6, TakingKeeps

\* The tool call of a subagent.
LEMMA HandleCallHolds ==
  ASSUME LoopInv, out # <<>>, out' = Tail(out), outcome = None, NEW m, m = Head(out),
         m.kind = "call", HandleCall(m), UNCHANGED <<cli, blocked, waits, overlooked>>
  PROVE  LoopInv'
<1>1. /\ None \notin Calls /\ pending \subseteq Calls /\ owners \in [Calls -> Calls \cup {None}]
      /\ task \in [Calls -> Calls \cup {None}]
      /\ \A t \in Calls : owners[t] # None => task[owners[t]] = t /\ hadAsync
      /\ \A p \in pending : task[p] \in Calls
      /\ pending # {} => hadAsync
      /\ ~overlooked => \A p \in pending : owners[task[p]] = p \/ (owners[task[p]] = None /\ task[p] = p)
  BY Known
<1>2. /\ m \in MessageType /\ task[m.call] = m.task /\ (m.tool # "SendMessage" => m.task = m.call)
      /\ \A t \in Calls : Launch(m, t) => owners[t] = None
  BY AtHead
<1>3. m.call \in Calls /\ m.tool \in Tools /\ m.task \in Calls
  BY <1>2, Kinds
<1>4. UNCHANGED <<inbox, final, closed, outcome, task, overlooked>>
  BY DEF HandleCall, cli
<1>5. hadAsync \in BOOLEAN
  BY DEF LoopInv, TypeOK
<1>6. \A t \in Calls : ~Starts(m, t) /\ ~Shuts(m, t)
  BY DEF Starts, Shuts, Ends, Refuses
<1>7. CASE m.tool # "SendMessage"
  <2>1. pending' = pending \cup {m.call} /\ owners' = owners /\ hadAsync' = TRUE
    BY <1>5, <1>7 DEF HandleCall, Resumes
  <2>2. owners[m.task] = None
    BY <1>2, <1>3, <1>7 DEF Launch
  <2>3. \A t \in Calls : (\A p \in pending : task[p] # t) /\ ~Opens(m, t) => \A p \in pending' : task[p] # t
    BY <1>2, <1>7, <2>1 DEF Opens, Launch
  <2>4. ~overlooked => \A p \in pending' : owners'[task[p]] = p \/ (owners'[task[p]] = None /\ task[p] = p)
    BY <1>1, <1>2, <1>7, <2>1, <2>2
  <2>5. \A p \in pending' : task[p] # None
    BY <1>1, <1>2, <1>3, <2>1
  <2>6. Taken(m)
    BY <1>1, <1>6, <2>1, <2>3, <2>4, <2>5 DEF Taken
  <2> QED BY <1>1, <1>3, <1>4, <2>1, <2>6, HearingKeeps
<1>8. CASE m.tool = "SendMessage" /\ Resumes(m)
  <2>1. /\ pending' = pending \cup {m.call} /\ owners' = [owners EXCEPT ![m.task] = m.call]
        /\ hadAsync' = hadAsync
    BY <1>5, <1>8 DEF HandleCall
  <2>2. owners[m.task] # None /\ owners[m.task] \notin pending
    BY <1>8 DEF Resumes
  <2>3. owners'[m.task] = m.call /\ \A t \in Calls : t # m.task => owners'[t] = owners[t]
    BY <1>1, <1>3, <2>1
  <2>4. Resumption(m, m.task)
    BY <1>8 DEF Resumption
  <2>5. hadAsync
    BY <1>1, <1>3, <2>2
  <2>6. /\ \A t, id \in Calls : owners[t] = id /\ id \in pending /\ ~Acts(m, t) => owners'[t] = id /\ id \in pending'
        /\ \A t \in Calls : owners[t] = None /\ ~Later(m, t) => owners'[t] = None
    BY <2>1, <2>3, <2>4 DEF Acts, Opens, Later
  <2>7. \A t \in Calls : (\A p \in pending : task[p] # t) /\ ~Opens(m, t) => \A p \in pending' : task[p] # t
    BY <1>2, <2>1, <2>4 DEF Opens
  <2>8. /\ \A t \in Calls : owners[t] # None \/ Starts(m, t) => owners'[t] # None
        /\ \A t \in Calls : owners'[t] # None => task[owners'[t]] = t /\ hadAsync'
    BY <1>1, <1>2, <1>3, <1>6, <2>1, <2>3, <2>5
  <2>9. (\A p \in pending' : task[p] # None) /\ (pending' # {} => hadAsync')
    BY <1>1, <1>2, <1>3, <2>1, <2>5
  <2>10. ASSUME ~overlooked, NEW p \in pending'
         PROVE  owners'[task[p]] = p \/ (owners'[task[p]] = None /\ task[p] = p)
    <3>1. CASE p = m.call
      BY <1>2, <2>3, <3>1
    <3>2. CASE p \in pending
      <4>1. task[p] # m.task
        BY <1>1, <2>2, <2>10, <3>2
      <4> QED BY <1>1, <2>3, <2>10, <3>2, <4>1
    <3> QED BY <2>1, <3>1, <3>2
  <2>11. Taken(m)
    BY <1>6, <2>6, <2>7, <2>8, <2>9, <2>10 DEF Taken
  <2>12. owners' \in [Calls -> Calls \cup {None}] /\ pending' \subseteq Calls
    BY <1>1, <1>3, <2>1
  <2> QED BY <1>4, <1>5, <2>1, <2>11, <2>12, HearingKeeps
<1>9. CASE m.tool = "SendMessage" /\ ~Resumes(m)
  <2>1. pending' = pending /\ owners' = owners /\ hadAsync' = hadAsync
    BY <1>5, <1>9 DEF HandleCall
  <2>2. Taken(m)
    BY <1>1, <1>6, <2>1 DEF Taken
  <2> QED BY <1>1, <1>4, <1>5, <2>1, <2>2, HearingKeeps
<1> QED BY <1>7, <1>8, <1>9

\* task_started: the new call takes over.
LEMMA HandleStartedHolds ==
  ASSUME LoopInv, out # <<>>, out' = Tail(out), outcome = None, NEW m, m = Head(out),
         m.kind = "started", HandleStarted(m), UNCHANGED <<cli, blocked, waits, overlooked>>
  PROVE  LoopInv'
<1>1. /\ None \notin Calls /\ pending \subseteq Calls /\ owners \in [Calls -> Calls \cup {None}]
      /\ task \in [Calls -> Calls \cup {None}]
      /\ \A t \in Calls : owners[t] # None => task[owners[t]] = t /\ hadAsync
      /\ \A p \in pending : task[p] \in Calls
      /\ pending # {} => hadAsync
      /\ ~overlooked => \A p \in pending : owners[task[p]] = p \/ (owners[task[p]] = None /\ task[p] = p)
  BY Known
<1>2. m \in MessageType /\ task[m.call] = m.task /\ (m.call = m.task \/ owners[m.task] # None)
  BY AtHead
<1>3. m.call \in Calls /\ m.task \in Calls
  BY <1>2, Kinds
<1>4. /\ UNCHANGED <<inbox, final, closed, outcome, task, overlooked>> /\ hadAsync' = TRUE
      /\ pending' = (pending \ {owners[m.task]}) \cup {m.call}
      /\ owners' = [owners EXCEPT ![m.task] = m.call]
  BY DEF HandleStarted, SetPendingOwner, cli
<1>5. owners'[m.task] = m.call /\ \A t \in Calls : t # m.task => owners'[t] = owners[t]
  BY <1>1, <1>3, <1>4
<1>6. Starts(m, m.task) /\ \A t : Starts(m, t) => t = m.task
  BY DEF Starts
<1>7. \A t \in Calls : ~Shuts(m, t)
  BY DEF Shuts, Ends, Refuses
<1>8. \A t, id \in Calls : owners[t] = id /\ id \in pending /\ ~Acts(m, t) => owners'[t] = id /\ id \in pending'
  <2> SUFFICES ASSUME NEW t \in Calls, NEW id \in Calls, owners[t] = id, id \in pending, ~Acts(m, t)
               PROVE  owners'[t] = id /\ id \in pending'
    OBVIOUS
  <2>1. t # m.task
    BY <1>6 DEF Acts, Opens
  <2>2. task[id] = t
    BY <1>1
  <2>3. id # owners[m.task]
    BY <1>1, <1>3, <2>1, <2>2
  <2> QED BY <1>4, <1>5, <2>1, <2>3
<1>9. \A t \in Calls : (\A p \in pending : task[p] # t) /\ ~Opens(m, t) => \A p \in pending' : task[p] # t
  BY <1>2, <1>4, <1>6 DEF Opens
<1>10. /\ \A t \in Calls : Starts(m, t) => owners'[t] = m.call /\ m.call \in pending'
       /\ \A t \in Calls : owners[t] = None /\ ~Later(m, t) => owners'[t] = None
       /\ \A t \in Calls : owners[t] # None \/ Starts(m, t) => owners'[t] # None
  BY <1>1, <1>3, <1>4, <1>5, <1>6 DEF Later
<1>11. /\ \A t \in Calls : owners'[t] # None => task[owners'[t]] = t /\ hadAsync'
       /\ (\A p \in pending' : task[p] # None) /\ (pending' # {} => hadAsync')
  BY <1>1, <1>2, <1>3, <1>4, <1>5
<1>12. ASSUME ~overlooked, NEW p \in pending'
       PROVE  owners'[task[p]] = p \/ (owners'[task[p]] = None /\ task[p] = p)
  <2>1. CASE p = m.call
    BY <1>2, <1>5, <2>1
  <2>2. CASE p \in pending /\ p # owners[m.task] /\ p # m.call
    <3>1. task[p] # m.task
      BY <1>1, <1>2, <1>12, <2>2
    <3> QED BY <1>1, <1>5, <1>12, <2>2, <3>1
  <2> QED BY <1>4, <2>1, <2>2
<1>13. Taken(m)
  BY <1>7, <1>8, <1>9, <1>10, <1>11, <1>12 DEF Taken
<1>14. owners' \in [Calls -> Calls \cup {None}] /\ pending' \subseteq Calls
  BY <1>1, <1>3, <1>4
<1> QED BY <1>4, <1>13, <1>14, HearingKeeps

\* task_updated: nothing.
LEMMA HandleUpdatedHolds ==
  ASSUME LoopInv, out # <<>>, out' = Tail(out), outcome = None, NEW m, m = Head(out),
         m.kind = "updated", HandleUpdated(m), UNCHANGED <<cli, blocked, waits, overlooked>>
  PROVE  LoopInv'
<1>1. /\ None \notin Calls /\ pending \subseteq Calls /\ owners \in [Calls -> Calls \cup {None}]
      /\ task \in [Calls -> Calls \cup {None}]
      /\ \A t \in Calls : owners[t] # None => task[owners[t]] = t /\ hadAsync
      /\ \A p \in pending : task[p] \in Calls
      /\ pending # {} => hadAsync
      /\ ~overlooked => \A p \in pending : owners[task[p]] = p \/ (owners[task[p]] = None /\ task[p] = p)
  BY Known
<1>2. UNCHANGED <<inbox, pending, owners, hadAsync, final, closed, outcome, task>>
  BY DEF HandleUpdated, loop, cli
<1>3. \A t \in Calls : ~Starts(m, t) /\ ~Shuts(m, t)
  BY DEF Starts, Shuts, Ends, Refuses
<1>4. Taken(m)
  BY <1>1, <1>2, <1>3 DEF Taken
<1>5. hadAsync \in BOOLEAN
  BY DEF LoopInv, TypeOK
<1> QED BY <1>1, <1>2, <1>4, <1>5, HearingKeeps

\* task_notification: the run of the task's owner has ended.
LEMMA HandleNotifiedHolds ==
  ASSUME LoopInv, out # <<>>, out' = Tail(out), outcome = None, NEW m, m = Head(out),
         m.kind = "notified", HandleNotified(m), UNCHANGED <<cli, blocked, waits, overlooked>>
  PROVE  LoopInv'
<1>1. /\ None \notin Calls /\ pending \subseteq Calls /\ owners \in [Calls -> Calls \cup {None}]
      /\ task \in [Calls -> Calls \cup {None}]
      /\ \A t \in Calls : owners[t] # None => task[owners[t]] = t /\ hadAsync
      /\ \A p \in pending : task[p] \in Calls
      /\ pending # {} => hadAsync
      /\ ~overlooked => \A p \in pending : owners[task[p]] = p \/ (owners[task[p]] = None /\ task[p] = p)
  BY Known
<1>2. /\ m \in MessageType /\ owners[m.task] \in pending /\ m.call \in {owners[m.task], None}
      /\ ~overlooked => m.status = "completed"
  BY AtHead
<1>3. m.task \in Calls
  BY <1>2, Kinds
<1> DEFINE id == IF m.call # None THEN m.call ELSE owners[m.task]
<1>4. id = owners[m.task] /\ id # None
  BY <1>1, <1>2
<1>5. /\ owners' = owners
      /\ pending' = IF m.status \in {"completed", "failed"} THEN pending \ {owners[m.task]} ELSE pending
      /\ UNCHANGED <<inbox, hadAsync, final, closed, outcome, task>>
  <2>1. /\ owners' = IF id # None THEN [owners EXCEPT ![m.task] = id] ELSE owners
        /\ pending' = IF m.status \in {"completed", "failed"} THEN pending \ {id} ELSE pending
        /\ UNCHANGED <<inbox, hadAsync, final, closed, outcome, task>>
    BY DEF HandleNotified, cli
  <2> HIDE DEF id
  <2>2. owners' = owners
    BY <1>1, <1>3, <1>4, <2>1
  <2> QED BY <1>4, <2>1, <2>2
<1>6. Ends(m, m.task) /\ \A t : (Shuts(m, t) => t = m.task) /\ ~Starts(m, t)
  BY DEF Ends, Shuts, Refuses, Starts
<1>7. \A t, p \in Calls : owners[t] = p /\ p \in pending /\ ~Acts(m, t) => owners'[t] = p /\ p \in pending'
  <2> SUFFICES ASSUME NEW t \in Calls, NEW p \in Calls, owners[t] = p, p \in pending, ~Acts(m, t)
               PROVE  p # owners[m.task]
    BY <1>5
  <2>1. t # m.task
    BY <1>6 DEF Acts, Shuts
  <2> QED BY <1>1, <1>3, <2>1
<1>8. ASSUME ~overlooked, NEW t \in Calls, Shuts(m, t), NEW p \in pending'
      PROVE  task[p] # t
  <2>1. t = m.task /\ p \in pending /\ p # owners[m.task]
    BY <1>2, <1>5, <1>6, <1>8
  <2> QED BY <1>1, <1>2, <1>8, <2>1
<1>9. pending' \subseteq pending
  BY <1>5
<1>10. Taken(m)
  BY <1>1, <1>5, <1>6, <1>7, <1>8, <1>9 DEF Taken
<1>11. hadAsync \in BOOLEAN
  BY DEF LoopInv, TypeOK
<1> QED BY <1>1, <1>5, <1>9, <1>10, <1>11, HearingKeeps

\* The result of an Agent call.
LEMMA HandleToolResultHolds ==
  ASSUME LoopInv, out # <<>>, out' = Tail(out), outcome = None, NEW m, m = Head(out),
         m.kind = "tool_result", HandleToolResult(m), UNCHANGED <<cli, blocked, waits, overlooked>>
  PROVE  LoopInv'
<1>1. /\ None \notin Calls /\ pending \subseteq Calls /\ owners \in [Calls -> Calls \cup {None}]
      /\ task \in [Calls -> Calls \cup {None}]
      /\ \A t \in Calls : owners[t] # None => task[owners[t]] = t /\ hadAsync
      /\ \A p \in pending : task[p] \in Calls
      /\ pending # {} => hadAsync
      /\ ~overlooked => \A p \in pending : owners[task[p]] = p \/ (owners[task[p]] = None /\ task[p] = p)
  BY Known
<1>2. /\ m \in MessageType
      /\ m.tool = "Agent" /\ m.how = "error" => task[m.call] = m.call /\ owners[m.call] = None
  BY AtHead
<1>3. m.call \in Calls
  BY <1>2, Kinds
<1>4. /\ owners' = owners /\ (inbox' = inbox \/ inbox' = Append(inbox, "retry"))
      /\ pending' = IF m.tool = "Agent" /\ m.how = "error" THEN pending \ {m.call} ELSE pending
      /\ UNCHANGED <<hadAsync, final, closed, outcome, task>>
  BY DEF HandleToolResult, cli
<1>5. \A t : ~Starts(m, t) /\ (Shuts(m, t) <=> m.tool = "Agent" /\ m.how = "error" /\ m.call = t)
  BY DEF Ends, Shuts, Refuses, Starts
<1>6. \A t, p \in Calls : owners[t] = p /\ p \in pending /\ ~Acts(m, t) => owners'[t] = p /\ p \in pending'
  BY <1>1, <1>2, <1>4, <1>5 DEF Acts
<1>7. ASSUME ~overlooked, NEW t \in Calls, Shuts(m, t), NEW p \in pending'
      PROVE  task[p] # t
  <2>1. t = m.call /\ p \in pending /\ p # m.call /\ owners[m.call] = None
    BY <1>2, <1>4, <1>5, <1>7
  <2> QED BY <1>1, <1>7, <2>1
<1>8. pending' \subseteq pending
  BY <1>4
<1>9. Taken(m)
  BY <1>1, <1>4, <1>5, <1>6, <1>7, <1>8 DEF Taken
<1>10. hadAsync \in BOOLEAN
  BY DEF LoopInv, TypeOK
<1> QED BY <1>1, <1>4, <1>8, <1>9, <1>10, HearingKeeps

\* A result or the end of the stream changes nothing about the subagents.
LEMMA EndingTaken ==
  ASSUME LoopInv, NEW m, m.kind \in {"result", "done", "error"}, UNCHANGED <<cli, pending, owners, hadAsync>>
  PROVE  Taken(m)
<1>1. /\ None \notin Calls /\ pending \subseteq Calls /\ owners \in [Calls -> Calls \cup {None}]
      /\ task \in [Calls -> Calls \cup {None}]
      /\ \A t \in Calls : owners[t] # None => task[owners[t]] = t /\ hadAsync
      /\ \A p \in pending : task[p] \in Calls
      /\ pending # {} => hadAsync
      /\ ~overlooked => \A p \in pending : owners[task[p]] = p \/ (owners[task[p]] = None /\ task[p] = p)
  BY Known
<1>2. \A t \in Calls : ~Starts(m, t) /\ ~Shuts(m, t)
  BY DEF Starts, Shuts, Ends, Refuses
<1> QED BY <1>1, <1>2 DEF Taken

\* The coordinator's result: interim, the answer, or the one that closes the stream.
LEMMA HandleResultHolds ==
  ASSUME LoopInv, out # <<>>, out' = Tail(out), outcome = None, NEW m, m = Head(out),
         m.kind = "result", HandleResult(m), UNCHANGED <<cli, blocked, waits, overlooked>>
  PROVE  LoopInv'
<1>0. TypeOK /\ IdleInv /\ AnswerInv /\ pending \subseteq Calls
  BY DEF LoopInv, TypeOK
<1>1. /\ pending # {} => hadAsync
      /\ \A p \in pending : task[p] \in Calls
  BY Known
<1>2. /\ m \in MessageType
      /\ \A c \in m.unfinished : owners[task[c]] \in pending
      /\ ~overlooked =>
           \A t \in Calls : (\A p \in pending : task[p] # t) \/ \E c \in m.unfinished : task[c] = t
  BY AtHead
<1>3. m.text \in {"", "text"} /\ m.unfinished \subseteq Calls
  BY <1>2, Kinds
<1> DEFINE interim == hadAsync /\ pending # {}
           close == ~hadAsync /\ ClosesWhenIdle(m)
<1>4. /\ final' = IF interim THEN final ELSE [text |-> m.text, unfinished |-> m.unfinished]
      /\ outcome' = IF hadAsync /\ ~interim THEN "complete" ELSE None
      /\ closed' = (closed \/ close)
      /\ inbox' = IF close THEN Append(inbox, "close") ELSE inbox
      /\ UNCHANGED <<pending, owners, hadAsync>>
  BY DEF HandleResult
<1>5. Taken(m)
  BY <1>4, EndingTaken
<1>6. inbox \in Seq({"close", "retry", "reminder"})
  BY <1>0 DEF TypeOK
<1>7. /\ inbox' \in Seq({"close", "retry", "reminder"})
      /\ \A i \in 1..Len(inbox) : i \in 1..Len(inbox') /\ inbox'[i] = inbox[i]
      /\ close => \E i \in 1..Len(inbox') : inbox'[i] = "close"
  <2>1. CASE close
    <3>1. inbox' = Append(inbox, "close")
      BY <1>4, <2>1
    <3>2. Len(inbox) + 1 \in 1..Len(inbox') /\ inbox'[Len(inbox) + 1] = "close"
      BY <1>6, <3>1
    <3>3. /\ inbox' \in Seq({"close", "retry", "reminder"})
          /\ \A i \in 1..Len(inbox) : i \in 1..Len(inbox') /\ inbox'[i] = inbox[i]
      BY <1>6, <3>1
    <3> QED BY <3>2, <3>3
  <2>2. CASE ~close
    <3>1. inbox' = inbox
      BY <1>4, <2>2
    <3> QED BY <1>6, <2>2, <3>1
  <2> QED BY <2>1, <2>2
<1>8. ~overlooked /\ outcome' = None /\ LastWord(Head(out)) => closed'
  <2> SUFFICES ASSUME ~overlooked, outcome' = None, LastWord(m) PROVE closed'
    OBVIOUS
  <2>1. pending = {}
    BY <1>1, <1>2 DEF LastWord
  <2>2. ~hadAsync
    BY <1>4, <2>1, SessionAssumption
  <2> QED BY <1>4, <2>1, <2>2 DEF LastWord, ClosesWhenIdle
<1>9. closed \in BOOLEAN /\ closed' \in BOOLEAN
  BY <1>0, <1>4 DEF TypeOK
<1>10. IdleInv'
  BY <1>0, <1>4, <1>7, <1>8, <1>9, TakenIdles
<1>11. final' \in [text : {"", "text"}, unfinished : SUBSET Calls]
  BY <1>0, <1>3, <1>4 DEF TypeOK
<1>12. AnswerInv'
  <2>1. CASE interim
    BY <1>4, <2>1 DEF AnswerInv
  <2>2. CASE ~interim
    <3>1. final'.unfinished = m.unfinished
      BY <1>4, <2>2
    <3> QED BY <1>1, <1>2, <1>4, <3>1 DEF AnswerInv
  <2> QED BY <2>1, <2>2
<1>13. AnswerCoversSubagents'
  <2> SUFFICES ASSUME outcome' = "complete" PROVE final'.unfinished = {}
    BY DEF AnswerCoversSubagents
  <2>1. pending = {} /\ ~interim
    BY <1>4, SessionAssumption
  <2>2. final'.unfinished = m.unfinished
    BY <1>4, <2>1
  <2> QED BY <1>2, <2>1, <2>2
<1>14. owners' \in [Calls -> Calls \cup {None}] /\ hadAsync' \in BOOLEAN /\ pending' \subseteq Calls
  BY <1>0, <1>4 DEF TypeOK
<1>15. outcome' \in {None, "complete", "error"}
  BY <1>4
<1> QED BY <1>5, <1>7, <1>9, <1>10, <1>11, <1>12, <1>13, <1>14, <1>15, TakingKeeps

\* The end of the stream.
LEMMA HandleEndHolds ==
  ASSUME LoopInv, out # <<>>, out' = Tail(out), outcome = None, NEW m, m = Head(out),
         m.kind \in {"done", "error"}, HandleEnd(m), UNCHANGED <<cli, blocked, waits, overlooked>>
  PROVE  LoopInv'
<1>0. TypeOK /\ IdleInv /\ AnswerInv
  BY DEF LoopInv
<1>1. /\ outcome' = IF m.kind = "error" \/ hadAsync THEN "error" ELSE "complete"
      /\ UNCHANGED <<inbox, pending, owners, hadAsync, final, closed>>
  BY DEF HandleEnd
<1>2. Taken(m)
  BY <1>1, EndingTaken
<1>3. outcome' # None /\ outcome' \in {None, "complete", "error"}
  BY <1>1, SessionAssumption
<1>4. IdleInv'
  BY <1>0, <1>1, <1>3, TakenIdles
<1>5. AnswerInv' /\ AnswerCoversSubagents'
  BY <1>0, <1>1 DEF AnswerInv, AnswerCoversSubagents
<1>6. /\ inbox' \in Seq({"close", "retry", "reminder"}) /\ pending' \subseteq Calls
      /\ owners' \in [Calls -> Calls \cup {None}] /\ hadAsync' \in BOOLEAN /\ closed' \in BOOLEAN
      /\ final' \in [text : {"", "text"}, unfinished : SUBSET Calls]
  BY <1>0, <1>1 DEF TypeOK
<1> QED BY <1>2, <1>3, <1>4, <1>5, <1>6, TakingKeeps

LEMMA HandleHolds ==
  ASSUME LoopInv, Handle
  PROVE  LoopInv'
<1>1. /\ outcome = None /\ out # <<>> /\ out' = Tail(out)
      /\ UNCHANGED <<cli, blocked, waits, overlooked>>
  BY DEF Handle
<1>2. PICK m : m = Head(out)
  OBVIOUS
<1>3. \/ m.kind = "call" /\ HandleCall(m)
      \/ m.kind = "started" /\ HandleStarted(m)
      \/ m.kind = "updated" /\ HandleUpdated(m)
      \/ m.kind = "notified" /\ HandleNotified(m)
      \/ m.kind = "tool_result" /\ HandleToolResult(m)
      \/ m.kind = "result" /\ HandleResult(m)
      \/ m.kind \in {"done", "error"} /\ HandleEnd(m)
  BY <1>2 DEF Handle
<1> QED BY <1>1, <1>2, <1>3, HandleCallHolds, HandleStartedHolds, HandleUpdatedHolds, HandleNotifiedHolds,
           HandleToolResultHolds, HandleResultHolds, HandleEndHolds

LEMMA LoopInit == Init => LoopInv
<1> SUFFICES ASSUME Init PROVE LoopInv
  OBVIOUS
<1>1. TypeOK
  <2>1. out = <<>> /\ inbox = <<>>
    BY DEF Init
  <2>2. out \in Seq(MessageType) /\ inbox \in Seq({"close", "retry", "reminder"})
    BY <2>1
  <2> QED BY <2>2 DEF Init, TypeOK, NoResult
<1>2. CallInv
  BY SessionAssumption DEF Init, CallInv, Active
<1>3. Len(out) = 0 /\ 1..Len(out) = {}
  BY DEF Init
<1>4. \A t \in Calls : task[t] = None /\ run[t] = "none" /\ owners[t] = None
  BY DEF Init
<1>5. pending = {} /\ Unfinished = {} /\ ~overlooked /\ ~hadAsync /\ ~closed
  BY <1>4 DEF Init, Unfinished, Active
<1>6. MessageInv
  BY <1>3 DEF MessageInv
<1>7. \A t \in Calls : ~Begun(t)
  BY <1>4 DEF Begun
<1>8. OwnerInv
  BY <1>3, <1>4, <1>5, <1>7 DEF OwnerInv
<1>9. \A t : GoneAt(t, 1)
  BY <1>5 DEF GoneAt
<1>10. EndInv
  BY <1>3, <1>5, <1>9 DEF EndInv
<1>11. IdleInv /\ AnswerInv /\ AnswerCoversSubagents /\ TimeoutExplained
  BY <1>5, SessionAssumption
     DEF Init, IdleInv, AnswerInv, NoResult, AnswerCoversSubagents, TimeoutExplained
<1> QED BY <1>1, <1>2, <1>6, <1>8, <1>10, <1>11 DEF LoopInv

LEMMA LoopStep == LoopInv /\ Next => LoopInv'
<1> SUFFICES ASSUME LoopInv, Next PROVE LoopInv'
  OBVIOUS
<1>1. ASSUME CliNext PROVE LoopInv'
  <2>1. CASE \E c \in Calls, how \in Tools : Call(c, how)
    BY <2>1, CallKeeps
  <2>2. CASE \E c \in Calls : Refuse(c) \/ Update(c)
    BY <2>2, RefuseKeeps, UpdateKeeps
  <2>3. CASE \E c \in Calls, where \in {"inline", "running"} : Begin(c, where)
    BY <2>3, BeginKeeps
  <2>4. CASE \E c \in Calls, status \in {"completed", "stopped"} : Finish(c, status)
    BY <2>4, FinishKeeps
  <2>5. CASE (\E text \in {"", "text"} : EndTurn(text)) \/ Wake \/ Leave
    BY <2>5, EndTurnKeeps, WakeKeeps, LeaveCrashKeeps
  <2> QED BY <1>1, <2>1, <2>2, <2>3, <2>4, <2>5 DEF CliNext
<1>2. ASSUME NEW how \in {"hung", "crashed"}, Fail(how) PROVE LoopInv'
  BY <1>2, HangKeeps, LeaveCrashKeeps
<1>3. ASSUME NEW who, AskHuman(who) \/ HumanAnswers(who) PROVE LoopInv'
  BY <1>3, HumansKeep
<1> QED BY <1>1, <1>2, <1>3, HandleHolds, RemindKeeps, WatchdogKeeps DEF Next

LEMMA LoopRests == LoopInv /\ UNCHANGED vars => LoopInv'
<1> SUFFICES ASSUME LoopInv, UNCHANGED vars PROVE LoopInv'
  OBVIOUS
<1>1. UNCHANGED <<cli, blocked, out, inbox, loop, reminded, waits, overlooked>>
  BY DEF vars
<1>2. TypeOK' /\ CallInv'
  BY <1>1, ZenonT(60) DEF LoopInv, TypeOK, CallInv, cli, loop
<1>3. MessageInv' /\ OwnerInv' /\ EndInv' /\ AnswerInv'
  BY <1>1, <1>2, SilenceKeeps DEF cli, loop
<1>4. IdleInv' /\ AnswerCoversSubagents' /\ TimeoutExplained'
  BY <1>1 DEF LoopInv, IdleInv, AnswerCoversSubagents, TimeoutExplained, Unfinished, cli, loop
<1> QED BY <1>2, <1>3, <1>4 DEF LoopInv

LEMMA LoopInductive == MCSpec => []LoopInv
<1>1. MCInit => LoopInv
  BY LoopInit DEF MCInit
<1>2. LoopInv /\ [MCNext]_mcvars => LoopInv'
  BY LoopStep, LoopRests DEF MCNext, mcvars
<1> QED BY <1>1, <1>2, PTL DEF MCSpec

\* What the loop takes for the session's answer was given after every subagent had
\* ended: the pending ids and their owners say so, whatever the order in which
\* subagents start, are resumed, refused or end (run_agent_session's interim results).
THEOREM AnswersCoverSubagents == MCSpec => []AnswerCoversSubagents
<1>1. LoopInv => AnswerCoversSubagents
  BY DEF LoopInv
<1> QED BY <1>1, LoopInductive, PTL

\* The progress watchdog ends a session only when the CLI hangs or after an end that
\* the loop does not recognise, and never while a human is asked (_next_query_event).
THEOREM TimeoutsExplained == MCSpec => []TimeoutExplained
<1>1. LoopInv => TimeoutExplained
  BY DEF LoopInv
<1> QED BY <1>1, LoopInductive, PTL

-----------------------------------------------------------------------------
(* TraceTree.                                                              *)

LEMMA CountsAlike == \A S : R!Cardinality(S) = Cardinality(S)
BY DEF R!Cardinality, Cardinality

\* A set of positions has a last one.
LEMMA MaxOf ==
    ASSUME NEW N \in Nat, NEW S, S \subseteq 1..N, S # {}
    PROVE  R!Max(S) \in S
<1> DEFINE H == {N - i : i \in S}
           less == OpToRel(<, Nat)
<1>1. H \subseteq Nat /\ H # {}
  OBVIOUS
<1>2. PICK m \in H : \A j \in H : ~(<<j, m>> \in less)
  <2>1. IsWellFoundedOn(less, Nat)
    BY NatLessThanWellFounded
  <2> HIDE DEF less, H
  <2> QED BY <1>1, <2>1, WFMin
<1>3. \A j \in H : j >= m
  <2>1. \A j \in H : <<j, m>> \in less <=> j < m
    BY <1>1 DEF OpToRel
  <2>2. \A j \in H : ~(j < m)
    <3> HIDE DEF H, less
    <3> QED BY <1>2, <2>1
  <2>3. H \subseteq Nat /\ m \in Nat
    BY <1>1
  <2> HIDE DEF H, less
  <2> QED BY <2>2, <2>3
<1>4. PICK x \in S : m = N - x
  BY <1>2
<1>5. \A i \in S : N - i \in H /\ i \in 1..N
  OBVIOUS
<1>6. \A i \in S : x >= i
  <2> HIDE DEF H
  <2> QED BY <1>3, <1>4, <1>5
<1>7. \E y \in S : \A i \in S : y >= i
  BY <1>6
<1> QED BY <1>7 DEF R!Max

LEMMA MinOf ==
    ASSUME NEW a \in Nat, NEW b \in Nat, NEW c \in Nat
    PROVE  /\ R!Min({a, b, c}) \in {a, b, c}
           /\ R!Min({a, b, c}) <= a /\ R!Min({a, b, c}) <= b /\ R!Min({a, b, c}) <= c
<1>1. \E x \in {a, b, c} : \A y \in {a, b, c} : x <= y
  <2>1. CASE a <= b /\ a <= c
    BY <2>1
  <2>2. CASE b <= a /\ b <= c
    BY <2>2
  <2>3. CASE c <= a /\ c <= b
    BY <2>3
  <2> QED BY <2>1, <2>2, <2>3
<1> QED BY <1>1 DEF R!Min

\* Two texts are alike when they agree on the positions both have and compare.
LEMMA AlikeMeans ==
    ASSUME NEW u \in Seq(Nat), NEW v \in Seq(Nat)
    PROVE  R!SameNarrative(u, v) <=>
             /\ u # <<>> /\ v # <<>>
             /\ \A i \in 1..Prefix : i <= Len(u) /\ i <= Len(v) => u[i] = v[i]
<1> DEFINE n == R!Min({Len(u), Len(v), Prefix})
<1>1. Prefix \in Nat /\ Len(u) \in Nat /\ Len(v) \in Nat
  BY Assumptions DEF R!TraceAssumption
<1>2. n \in Nat /\ n <= Len(u) /\ n <= Len(v) /\ n <= Prefix
  BY <1>1, MinOf
<1>3. \A i \in Nat : i <= n <=> i <= Len(u) /\ i <= Len(v) /\ i <= Prefix
  <2>1. n \in {Len(u), Len(v), Prefix}
    BY <1>1, MinOf
  <2> HIDE DEF n
  <2> QED BY <1>1, <1>2, <2>1
<1>4. SubSeq(u, 1, n) = SubSeq(v, 1, n) <=> \A i \in 1..n : u[i] = v[i]
  <2> HIDE DEF n
  <2>1. /\ SubSeq(u, 1, n) = [i \in 1..n |-> u[i]]
        /\ SubSeq(v, 1, n) = [i \in 1..n |-> v[i]]
    BY <1>2
  <2> QED BY <2>1
<1>5. (\A i \in 1..n : u[i] = v[i])
        <=> (\A i \in 1..Prefix : i <= Len(u) /\ i <= Len(v) => u[i] = v[i])
  <2> HIDE DEF n
  <2> QED BY <1>1, <1>2, <1>3
<1>6. R!SameNarrative(u, v) <=> /\ u # <<>> /\ v # <<>>
                              /\ SubSeq(u, 1, n) = SubSeq(v, 1, n)
  BY DEF R!SameNarrative
<1> HIDE DEF n
<1> QED BY <1>4, <1>5, <1>6

LEMMA AlikeItself ==
    ASSUME NEW u \in Seq(Nat), u # <<>>
    PROVE  R!SameNarrative(u, u)
BY AlikeMeans

LEMMA AlikeTurned ==
    ASSUME NEW u \in Seq(Nat), NEW v \in Seq(Nat), R!SameNarrative(u, v)
    PROVE  R!SameNarrative(v, u)
BY AlikeMeans

\* What is like a preview is like the text that completes it.
LEMMA AlikeCompleted ==
    ASSUME NEW u \in Seq(Nat), NEW full \in Seq(Nat), NEW v \in Seq(Nat),
           R!Completes(full, u), R!SameNarrative(u, v)
    PROVE  R!SameNarrative(full, v)
<1>1. Prefix \in Nat
  BY Assumptions DEF R!TraceAssumption
<1>2. Len(u) >= Prefix /\ R!SameNarrative(u, full)
  BY DEF R!Completes
<1>3. /\ full # <<>>
      /\ \A i \in 1..Prefix : i <= Len(u) /\ i <= Len(full) => u[i] = full[i]
  BY <1>2, AlikeMeans
<1>4. v # <<>> /\ \A i \in 1..Prefix : i <= Len(u) /\ i <= Len(v) => u[i] = v[i]
  BY AlikeMeans
<1>5. ASSUME NEW i \in 1..Prefix, i <= Len(full), i <= Len(v) PROVE full[i] = v[i]
  <2>1. i <= Len(u)
    BY <1>1, <1>2
  <2> QED BY <1>3, <1>4, <1>5, <2>1
<1> QED BY <1>3, <1>4, <1>5, AlikeMeans

\* One more node.
LEMMA Grown ==
    ASSUME NEW s \in Seq(R!NodeType), NEW x \in R!NodeType
    PROVE  /\ Append(s, x) \in Seq(R!NodeType)
           /\ Len(Append(s, x)) = Len(s) + 1 /\ Append(s, x)[Len(s) + 1] = x
           /\ DOMAIN s = 1..Len(s) /\ DOMAIN Append(s, x) = 1..(Len(s) + 1)
           /\ Len(s) \in Nat
           /\ \A n \in DOMAIN s : Append(s, x)[n] = s[n]
OBVIOUS

LEMMA TreeInit == R!Init => R!TreeInv
<1> SUFFICES ASSUME R!Init PROVE R!TreeInv
  OBVIOUS
<1>1. nodes = <<>> /\ DOMAIN nodes = {} /\ results = <<>> /\ DOMAIN results = {}
  BY DEF R!Init
<1>2. R!TypeOK
  BY <1>1 DEF R!Init, R!TypeOK
<1>3. R!HolderInv /\ R!TextInv /\ R!AgentInv /\ R!OwnerInv /\ R!ResultInv /\ R!SaidInv
  BY <1>1 DEF R!Init, R!HolderInv, R!Holder, R!Root, R!TextInv, R!AgentInv, R!OwnerInv, R!ResultInv, R!SaidInv
<1>4. R!Failures = {}
  BY <1>1 DEF R!Failures
<1>5. stats.errors = R!Cardinality(R!Failures)
  BY <1>4, CountsAlike, FS_EmptySet DEF R!Init
<1> QED BY <1>2, <1>3, <1>5 DEF R!TreeInv

\* A holder stays one: the kind of a holder never changes.
LEMMA HolderStays ==
    ASSUME NEW i, R!Holder(i),
           \A n \in DOMAIN nodes :
             /\ n \in DOMAIN nodes'
             /\ nodes[n].kind \in {"subagent", "messaging", "tool_call"} =>
                  nodes'[n].kind = nodes[n].kind
    PROVE  R!Holder(i)'
BY DEF R!Holder, R!Root

\* A step that only adds a node, other than a text of an agent.
LEMMA NodeAdded ==
    ASSUME R!TreeInv, NEW x \in R!NodeType, nodes' = Append(nodes, x),
           x.shown, R!Holder(x.parent), x.kind = "assistant" => x.role = None,
           x.role = "subagent_return" => x.kind = "result",
           x.role = "session_result" => x.parent = R!Root /\ x.owner = None /\ x.kind # "assistant",
           UNCHANGED <<results, displaced, built>>,
           subagent' \in [Agents -> Nat],
           \A a \in Agents : subagent'[a] \in {subagent[a], Len(nodes) + 1},
           \A a \in Agents : x.kind = "assistant" \/ x.role = "subagent_return" =>
             subagent'[a] = subagent[a] /\ (x.parent = subagent[a] /\ subagent[a] # 0 => x.owner = a)
    PROVE  /\ nodes' \in Seq(R!NodeType) /\ results' \in Seq(DOMAIN nodes')
           /\ Len(nodes) \in Nat /\ Len(nodes') = Len(nodes) + 1 /\ nodes'[Len(nodes')] = x
           /\ DOMAIN nodes = 1..Len(nodes) /\ DOMAIN nodes' = 1..Len(nodes')
           /\ \A n \in DOMAIN nodes : n \in DOMAIN nodes' /\ nodes'[n] = nodes[n]
           /\ R!TextInv' /\ R!OwnerInv' /\ R!ResultInv'
<1>1. /\ nodes' \in Seq(R!NodeType)
      /\ Len(nodes) \in Nat /\ Len(nodes') = Len(nodes) + 1 /\ nodes'[Len(nodes')] = x
      /\ DOMAIN nodes = 1..Len(nodes) /\ DOMAIN nodes' = 1..Len(nodes')
      /\ \A n \in DOMAIN nodes : nodes'[n] = nodes[n]
  BY Grown DEF R!TreeInv, R!TypeOK
<1>2. \A n \in DOMAIN nodes' : n \in DOMAIN nodes \/ n = Len(nodes')
  BY <1>1
<1>3. \A n \in DOMAIN nodes : n \in DOMAIN nodes'
  BY <1>1
<1>4. results' \in Seq(DOMAIN nodes')
  BY <1>3 DEF R!TreeInv, R!TypeOK
<1>5. R!TextInv'
  <2>1. ASSUME NEW n \in DOMAIN nodes' PROVE
          /\ R!Holder(nodes[n].parent)'
          /\ nodes'[n].kind = "assistant" \/ nodes'[n].shown
          /\ nodes'[n].role = "subagent_return" => nodes'[n].kind = "result"
    <3>1. CASE n \in DOMAIN nodes
      BY <1>1, <1>3, <3>1 DEF R!TreeInv, R!TextInv, R!Holder
    <3>2. CASE n = Len(nodes')
      <4>1. None # "subagent_return"
        BY Assumptions DEF R!TraceAssumption
      <4> QED BY <1>1, <1>3, <3>2, <4>1 DEF R!Holder
    <3> QED BY <1>2, <3>1, <3>2
  <2> QED BY <2>1 DEF R!TextInv
<1>6. R!OwnerInv'
  <2>1. ASSUME NEW n \in DOMAIN nodes', NEW a \in Agents,
               nodes'[n].parent = subagent'[a], subagent'[a] # 0,
               nodes'[n].kind = "assistant" \/ nodes'[n].role = "subagent_return"
        PROVE  nodes'[n].owner = a
    <3>1. CASE n \in DOMAIN nodes
      <4>1. R!Holder(nodes[n].parent)
        BY <3>1 DEF R!TreeInv, R!TextInv
      <4>2. nodes[n].parent # Len(nodes) + 1
        BY <1>1, <4>1 DEF R!Holder, R!Root
      <4> QED BY <1>1, <2>1, <3>1, <4>2 DEF R!TreeInv, R!OwnerInv
    <3>2. CASE n = Len(nodes')
      BY <1>1, <2>1, <3>2
    <3> QED BY <1>2, <3>1, <3>2
  <2> QED BY <2>1 DEF R!OwnerInv
<1>7. R!ResultInv'
  <2>1. \A k \in DOMAIN results : results[k] \in DOMAIN nodes
    BY DEF R!TreeInv, R!TypeOK
  <2>2. results # <<>> => results[Len(results)] \in DOMAIN nodes
    BY DEF R!TreeInv, R!TypeOK
  <2>3. ASSUME NEW n \in DOMAIN nodes', nodes'[n].role = "session_result"
        PROVE  /\ nodes'[n].parent = R!Root /\ nodes'[n].owner = None
               /\ nodes'[n].kind = "assistant" => \E k \in DOMAIN results : results[k] = n
    BY <1>1, <1>2, <2>3 DEF R!TreeInv, R!ResultInv
  <2> QED BY <1>1, <2>1, <2>2, <2>3 DEF R!TreeInv, R!ResultInv
<1> QED BY <1>1, <1>3, <1>4, <1>5, <1>6, <1>7

\* What was said before stays where it is when its nodes do.
LEMMA SaidStays ==
    ASSUME R!SaidInv, NEW s \in said, UNCHANGED <<results, displaced, built>>,
           \A n \in DOMAIN nodes : n \in DOMAIN nodes' /\ nodes'[n] = nodes[n]
    PROVE  R!Displaced(s)' \/ \E n \in DOMAIN nodes' :
             /\ nodes'[n].shown /\ nodes'[n].owner = s.owner
             /\ R!SameNarrative(nodes'[n].text, s.text)
             /\ built' \/ R!Own(n, s)' \/ (\E k \in DOMAIN results' : results'[k] = n)
BY DEF R!SaidInv, R!Own, R!Displaced

LEMMA SaidKept ==
    ASSUME R!SaidInv, UNCHANGED <<results, displaced, built, said>>,
           \A n \in DOMAIN nodes : n \in DOMAIN nodes' /\ nodes'[n] = nodes[n]
    PROVE  R!SaidInv'
BY SaidStays DEF R!SaidInv

\* The failures that are counted.
LEMMA FailureAdded ==
    ASSUME R!TreeInv, NEW x \in R!NodeType, nodes' = Append(nodes, x)
    PROVE  /\ x.kind = "tool_result" /\ x.error => R!Cardinality(R!Failures') = R!Cardinality(R!Failures) + 1
           /\ ~(x.kind = "tool_result" /\ x.error) => R!Failures' = R!Failures
<1>1. /\ Len(nodes) \in Nat /\ nodes'[Len(nodes) + 1] = x
      /\ DOMAIN nodes = 1..Len(nodes) /\ DOMAIN nodes' = 1..(Len(nodes) + 1)
      /\ \A n \in DOMAIN nodes : nodes'[n] = nodes[n]
  BY Grown DEF R!TreeInv, R!TypeOK
<1>2. \A n : n \in DOMAIN nodes' <=> n \in DOMAIN nodes \/ n = Len(nodes) + 1
  BY <1>1
<1>3. CASE ~(x.kind = "tool_result" /\ x.error)
  <2>1. R!Failures' = R!Failures
    BY <1>1, <1>2, <1>3 DEF R!Failures
  <2> QED BY <1>3, <2>1
<1>4. CASE x.kind = "tool_result" /\ x.error
  <2>1. R!Failures' = R!Failures \cup {Len(nodes) + 1}
    BY <1>1, <1>2, <1>4 DEF R!Failures
  <2>2. IsFiniteSet(R!Failures) /\ Len(nodes) + 1 \notin R!Failures
    <3>1. R!Failures \subseteq 1..Len(nodes) /\ Len(nodes) + 1 \notin 1..Len(nodes)
      BY <1>1 DEF R!Failures
    <3>2. IsFiniteSet(1..Len(nodes))
      BY <1>1, FS_Interval
    <3> QED BY <3>1, <3>2, FS_Subset
  <2>3. Cardinality(R!Failures \cup {Len(nodes) + 1}) = Cardinality(R!Failures) + 1
    BY <2>2, FS_AddElement
  <2> QED BY <1>4, <2>1, <2>3, CountsAlike
<1> QED BY <1>3, <1>4
\* A step that adds a node, with what it changes beside.
LEMMA AddKeeps ==
    ASSUME R!TreeInv, NEW x \in R!NodeType, nodes' = Append(nodes, x),
           x.shown, R!Holder(x.parent), x.kind = "assistant" => x.role = None,
           x.role = "subagent_return" => x.kind = "result",
           x.role = "session_result" => x.parent = R!Root /\ x.owner = None /\ x.kind # "assistant",
           UNCHANGED <<results, displaced, built>>,
           subagent' \in [Agents -> Nat], byTask' \in [Agents -> Nat],
           unanswered' \in [R!Tools -> Nat], active' \in Nat,
           \A a \in Agents : subagent'[a] \in {subagent[a], Len(nodes) + 1},
           \A a \in Agents : x.kind = "assistant" \/ x.role = "subagent_return" =>
             subagent'[a] = subagent[a] /\ (x.parent = subagent[a] /\ subagent[a] # 0 => x.owner = a),
           \A i \in {unanswered'[t] : t \in R!Tools} \cup {active'} \cup {subagent'[a] : a \in Agents}
                     \cup {byTask'[a] : a \in Agents} :
             R!Holder(i) \/ (i = Len(nodes) + 1 /\ x.kind \in {"subagent", "messaging", "tool_call"}),
           R!AgentInv',
           stats' \in [calls : Nat, errors : Nat],
           stats'.errors = IF x.kind = "tool_result" /\ x.error THEN stats.errors + 1
                           ELSE stats.errors,
           \/ said' = said
           \/ /\ said' = said \cup {[owner |-> x.owner, text |-> x.text]}
              /\ x.kind = "assistant" /\ x.role = None /\ x.text \in Texts
    PROVE  R!TreeInv'
<1>1. /\ nodes' \in Seq(R!NodeType) /\ results' \in Seq(DOMAIN nodes')
      /\ Len(nodes) \in Nat /\ Len(nodes') = Len(nodes) + 1 /\ nodes'[Len(nodes')] = x
      /\ DOMAIN nodes = 1..Len(nodes) /\ DOMAIN nodes' = 1..Len(nodes')
      /\ \A n \in DOMAIN nodes : n \in DOMAIN nodes' /\ nodes'[n] = nodes[n]
      /\ R!TextInv' /\ R!OwnerInv' /\ R!ResultInv'
  BY NodeAdded
<1>2. said' \in SUBSET [owner : R!Senders, text : Texts]
  BY DEF R!TreeInv, R!TypeOK, R!NodeType
<1>3. R!TypeOK'
  BY <1>1, <1>2 DEF R!TypeOK, R!TreeInv
<1>4. R!HolderInv'
  <2>1. \A i \in {unanswered'[t] : t \in R!Tools} \cup {active'} \cup {subagent'[a] : a \in Agents}
                  \cup {byTask'[a] : a \in Agents} :
          i # R!Root => i \in DOMAIN nodes' /\ nodes'[i].kind \in {"subagent", "messaging", "tool_call"}
    BY <1>1 DEF R!Holder
  <2> QED BY <2>1 DEF R!HolderInv, R!Holder
<1>5. R!SaidInv'
  <2>1. R!SaidInv
    BY DEF R!TreeInv
  <2>2. CASE said' = said
    BY <1>1, <2>1, <2>2, SaidKept
  <2>3. CASE /\ said' = said \cup {[owner |-> x.owner, text |-> x.text]}
             /\ x.kind = "assistant" /\ x.role = None /\ x.text \in Texts
    <3>1. ASSUME NEW s \in said'
          PROVE  R!Displaced(s)' \/ \E n \in DOMAIN nodes' :
                   /\ nodes'[n].shown /\ nodes'[n].owner = s.owner
                   /\ R!SameNarrative(nodes'[n].text, s.text)
                   /\ built' \/ R!Own(n, s)' \/ (\E k \in DOMAIN results' : results'[k] = n)
      <4>1. CASE s \in said
        BY <1>1, <2>1, <4>1, SaidStays
      <4>2. CASE s \notin said
        <5>1. s.owner = x.owner /\ s.text = x.text
          BY <2>3, <4>2
        <5>2. x.text \in Seq(Nat) /\ x.text # <<>>
          BY <2>3, Assumptions DEF R!TraceAssumption
        <5>3. R!SameNarrative(x.text, s.text)
          BY <5>1, <5>2, AlikeItself
        <5>4. Len(nodes') \in DOMAIN nodes'
          BY <1>1
        <5>5. \E n \in DOMAIN nodes' :
                /\ nodes'[n].shown /\ nodes'[n].owner = s.owner
                /\ R!SameNarrative(nodes'[n].text, s.text) /\ R!Own(n, s)'
          BY <1>1, <2>3, <5>1, <5>3, <5>4 DEF R!Own
        <5> QED BY <5>5
      <4> QED BY <4>1, <4>2
    <3> QED BY <3>1 DEF R!SaidInv
  <2> QED BY <2>2, <2>3
<1>6. stats'.errors = R!Cardinality(R!Failures')
  BY FailureAdded DEF R!TreeInv
<1> QED BY <1>1, <1>3, <1>4, <1>5, <1>6 DEF R!TreeInv

LEMMA ParentHolds ==
    ASSUME R!TreeInv, NEW p \in R!Senders
    PROVE  R!ParentOf(p) \in Nat /\ R!Holder(R!ParentOf(p))
BY DEF R!TreeInv, R!TypeOK, R!HolderInv, R!ParentOf, R!Root, R!Holder

LEMMA RoleNames == None \notin {"session_result", "subagent_return"}
BY Assumptions DEF R!TraceAssumption

\* What a step has that adds a node and leaves the pointers alone.
LEMMA PointersStay ==
    ASSUME R!TreeInv, UNCHANGED <<unanswered, subagent, byTask, active>>
    PROVE  /\ subagent' \in [Agents -> Nat] /\ byTask' \in [Agents -> Nat]
           /\ unanswered' \in [R!Tools -> Nat] /\ active' \in Nat
           /\ \A a \in Agents : subagent'[a] = subagent[a]
           /\ \A i \in {unanswered'[t] : t \in R!Tools} \cup {active'} \cup {subagent'[a] : a \in Agents}
                     \cup {byTask'[a] : a \in Agents} : R!Holder(i)
           /\ R!AgentInv'
<1>1. R!AgentInv'
  BY DEF R!TreeInv, R!AgentInv
<1> QED BY <1>1 DEF R!TreeInv, R!TypeOK, R!HolderInv

LEMMA SayKeeps ==
    ASSUME R!TreeInv, NEW p \in R!Senders, NEW text \in Texts, R!Say(p, text)
    PROVE  R!TreeInv'
<1> DEFINE x == R!NodeAs(None, FALSE, "assistant", R!ParentOf(p), p, text)
<1>1. text \in Seq(Nat)
  BY Assumptions DEF R!TraceAssumption
<1>2. /\ x \in R!NodeType
      /\ x.kind = "assistant" /\ x.parent = R!ParentOf(p) /\ x.owner = p /\ x.text = text
      /\ x.role = None /\ ~x.error /\ x.shown
  BY <1>1, ParentHolds DEF R!NodeAs, R!NodeType
<1>3. ASSUME NEW a \in Agents, x.parent = subagent[a], subagent[a] # 0 PROVE x.owner = a
  BY <1>2, <1>3 DEF R!ParentOf, R!Root, R!TreeInv, R!AgentInv
<1>4. /\ nodes' = Append(nodes, x)
      /\ said' = said \cup {[owner |-> x.owner, text |-> x.text]}
      /\ UNCHANGED <<unanswered, subagent, byTask, active, results, stats, displaced, built>>
  BY <1>2 DEF R!Say, R!Reads, R!Node
<1>5. stats \in [calls : Nat, errors : Nat]
  BY DEF R!TreeInv, R!TypeOK
<1> HIDE DEF x
<1> QED BY <1>2, <1>3, <1>4, <1>5, ParentHolds, PointersStay, RoleNames, AddKeeps

\* Nodes that are not texts, under the message's parent or the active subagent.
LEMMA AsideKeeps ==
    ASSUME R!TreeInv, \/ \E p \in R!Senders : R!Think(p)
                    \/ R!SessionFailed \/ R!Aside
    PROVE  R!TreeInv'
<1>1. PICK k \in {"thinking", "error", "lifecycle"}, i \in Nat, p \in R!Senders, err \in BOOLEAN :
        /\ R!Holder(i)
        /\ nodes' = Append(nodes, R!NodeAs(None, err, k, i, p, <<>>))
        /\ UNCHANGED <<unanswered, subagent, byTask, active, results, stats, said, displaced, built>>
  <2>1. None \in R!Senders /\ R!Holder(R!Root) /\ R!Root \in Nat
    BY DEF R!Senders, R!Holder, R!Root
  <2>2. R!Holder(active) /\ active \in Nat
    BY DEF R!TreeInv, R!HolderInv, R!TypeOK
  <2>3. CASE \E p \in R!Senders : R!Think(p)
    BY <2>3, ParentHolds DEF R!Think, R!Reads, R!Node
  <2>4. CASE R!SessionFailed
    BY <2>1, <2>4 DEF R!SessionFailed, R!Reads
  <2>5. CASE R!Aside
    BY <2>1, <2>2, <2>5 DEF R!Aside, R!Reads, R!CurrentParent, R!Node
  <2> QED BY <2>3, <2>4, <2>5
<1> DEFINE x == R!NodeAs(None, err, k, i, p, <<>>)
<1>2. /\ x \in R!NodeType /\ x.kind = k /\ x.parent = i /\ x.role = None /\ x.shown
  <2>1. <<>> \in Seq(Nat)
    OBVIOUS
  <2> QED BY <2>1 DEF R!NodeAs, R!NodeType
<1>3. stats \in [calls : Nat, errors : Nat]
  BY DEF R!TreeInv, R!TypeOK
<1>4. nodes' = Append(nodes, x)
  BY <1>1
<1> HIDE DEF x
<1> QED BY <1>1, <1>2, <1>3, <1>4, PointersStay, RoleNames, AddKeeps
LEMMA Counted ==
    ASSUME NEW s \in [calls : Nat, errors : Nat], NEW u
    PROVE  /\ u = [s EXCEPT !.calls = @ + 1] =>
                u \in [calls : Nat, errors : Nat] /\ u.errors = s.errors
           /\ u = [s EXCEPT !.errors = @ + 1] =>
                u \in [calls : Nat, errors : Nat] /\ u.errors = s.errors + 1
           /\ u = [s EXCEPT !.errors = @] =>
                u \in [calls : Nat, errors : Nat] /\ u.errors = s.errors
OBVIOUS

LEMMA Pointed ==
    ASSUME NEW S, NEW f \in [S -> Nat], NEW b, NEW v \in Nat, NEW g, g = [f EXCEPT ![b] = v]
    PROVE  g \in [S -> Nat]
OBVIOUS

\* A step that makes no node.
LEMMA RestKeeps ==
    ASSUME R!TreeInv, UNCHANGED <<nodes, subagent, results, said, displaced, built>>,
           byTask' \in [Agents -> Nat], unanswered' \in [R!Tools -> Nat], active' \in Nat,
           \A i \in {unanswered'[t] : t \in R!Tools} \cup {active'} \cup {byTask'[a] : a \in Agents} :
             R!Holder(i),
           R!AgentInv', stats' \in [calls : Nat, errors : Nat], stats'.errors = stats.errors
    PROVE  R!TreeInv'
<1>1. R!TypeOK' /\ R!HolderInv'
  BY DEF R!TreeInv, R!TypeOK, R!HolderInv, R!Holder
<1>2. R!TextInv' /\ R!OwnerInv' /\ R!ResultInv' /\ R!SaidInv'
  BY DEF R!TreeInv, R!TextInv, R!Holder, R!OwnerInv, R!ResultInv, R!SaidInv, R!Own, R!Displaced
<1>3. R!Failures' = R!Failures
  BY DEF R!Failures
<1> QED BY <1>1, <1>2, <1>3 DEF R!TreeInv

LEMMA CallAgentKeeps ==
    ASSUME R!TreeInv, NEW p \in R!Senders, NEW b \in Agents \ {p}, R!CallAgent(p, b)
    PROVE  R!TreeInv'
<1> DEFINE x == R!NodeAs(None, FALSE, "subagent", R!ParentOf(p), p, <<>>)
<1>1. /\ x \in R!NodeType /\ x.kind = "subagent" /\ x.parent = R!ParentOf(p)
      /\ x.role = None /\ ~x.error /\ x.shown
  <2>1. <<>> \in Seq(Nat)
    OBVIOUS
  <2> QED BY <2>1, ParentHolds DEF R!NodeAs, R!NodeType
<1>2. nodes' = Append(nodes, x) /\ UNCHANGED <<byTask, results, said, displaced, built>>
  BY DEF R!CallAgent, R!Reads, R!Node
<1>3. Len(nodes') = Len(nodes) + 1 /\ Len(nodes) \in Nat /\ DOMAIN nodes = 1..Len(nodes)
  <2> HIDE DEF x
  <2> QED BY <1>1, <1>2, Grown DEF R!TreeInv, R!TypeOK
<1>4. /\ subagent' = [subagent EXCEPT ![b] = Len(nodes) + 1] /\ active' = Len(nodes) + 1
      /\ unanswered' = [unanswered EXCEPT ![b] = Len(nodes) + 1]
      /\ stats' = [stats EXCEPT !.calls = @ + 1]
  BY <1>3 DEF R!CallAgent
<1>5. /\ subagent \in [Agents -> Nat] /\ byTask \in [Agents -> Nat] /\ unanswered \in [R!Tools -> Nat]
      /\ stats \in [calls : Nat, errors : Nat]
      /\ \A a \in Agents : R!Holder(subagent[a]) /\ R!Holder(byTask[a])
      /\ \A t \in R!Tools : R!Holder(unanswered[t])
  BY DEF R!TreeInv, R!TypeOK, R!HolderInv
<1> HIDE DEF x
<1>6. /\ subagent' \in [Agents -> Nat] /\ byTask' \in [Agents -> Nat] /\ unanswered' \in [R!Tools -> Nat]
      /\ active' \in Nat
      /\ stats' \in [calls : Nat, errors : Nat] /\ stats'.errors = stats.errors
  <2>1. stats' \in [calls : Nat, errors : Nat] /\ stats'.errors = stats.errors
    BY <1>4, <1>5, Counted
  <2>2. Len(nodes) + 1 \in Nat
    BY <1>3
  <2>3. subagent' \in [Agents -> Nat]
    BY <1>4, <1>5, <2>2, Pointed
  <2>4. unanswered' \in [R!Tools -> Nat]
    BY <1>4, <1>5, <2>2, Pointed
  <2> QED BY <1>2, <1>4, <1>5, <2>1, <2>2, <2>3, <2>4
<1>7. \A a \in Agents : subagent'[a] \in {subagent[a], Len(nodes) + 1}
  BY <1>4, <1>5
<1>8. \A i \in {unanswered'[t] : t \in R!Tools} \cup {active'} \cup {subagent'[a] : a \in Agents}
                  \cup {byTask'[a] : a \in Agents} : R!Holder(i) \/ i = Len(nodes) + 1
  BY <1>2, <1>4, <1>5
<1>9. R!AgentInv'
  <2>1. \A a \in Agents : byTask[a] # Len(nodes) + 1 /\ subagent[a] # Len(nodes) + 1
    <3>1. \A i \in Nat : R!Holder(i) => i <= Len(nodes)
      BY <1>3 DEF R!Holder, R!Root
    <3>2. \A i \in Nat : R!Holder(i) => i # Len(nodes) + 1
      BY <1>3, <3>1
    <3> QED BY <1>5, <3>2
  <2> QED BY <1>2, <1>4, <1>5, <2>1 DEF R!TreeInv, R!AgentInv
<1> QED BY <1>1, <1>2, <1>6, <1>7, <1>8, <1>9, ParentHolds, RoleNames, AddKeeps

\* A call of a message or another tool, shown as a node that waits for its result.
LEMMA ShownCallKeeps ==
    ASSUME R!TreeInv, NEW p \in R!Senders, NEW t \in Messages \cup Others,
           NEW k \in {"messaging", "tool_call"},
           nodes' = Append(nodes, R!Node(k, R!ParentOf(p), p, <<>>)),
           unanswered' = [unanswered EXCEPT ![t] = Len(nodes')],
           stats' = [stats EXCEPT !.calls = @ + 1],
           UNCHANGED <<subagent, byTask, active, results, said, displaced, built>>
    PROVE  R!TreeInv'
<1> DEFINE x == R!NodeAs(None, FALSE, k, R!ParentOf(p), p, <<>>)
<1>1. /\ x \in R!NodeType /\ x.kind = k /\ x.parent = R!ParentOf(p)
      /\ x.role = None /\ ~x.error /\ x.shown
  <2>1. <<>> \in Seq(Nat)
    OBVIOUS
  <2> QED BY <2>1, ParentHolds DEF R!NodeAs, R!NodeType
<1>2. nodes' = Append(nodes, x)
  BY DEF R!Node
<1>3. Len(nodes') = Len(nodes) + 1 /\ Len(nodes) \in Nat
  <2> HIDE DEF x
  <2> QED BY <1>1, <1>2, Grown DEF R!TreeInv, R!TypeOK
<1>4. /\ subagent \in [Agents -> Nat] /\ byTask \in [Agents -> Nat] /\ unanswered \in [R!Tools -> Nat]
      /\ active \in Nat /\ stats \in [calls : Nat, errors : Nat]
      /\ \A a \in Agents : R!Holder(subagent[a]) /\ R!Holder(byTask[a])
      /\ \A u \in R!Tools : R!Holder(unanswered[u])
      /\ R!Holder(active)
  BY DEF R!TreeInv, R!TypeOK, R!HolderInv
<1> HIDE DEF x
<1>5. /\ subagent' \in [Agents -> Nat] /\ byTask' \in [Agents -> Nat] /\ unanswered' \in [R!Tools -> Nat]
      /\ active' \in Nat
      /\ stats' \in [calls : Nat, errors : Nat] /\ stats'.errors = stats.errors
  <2>1. stats' \in [calls : Nat, errors : Nat] /\ stats'.errors = stats.errors
    BY <1>4, Counted
  <2>2. Len(nodes') \in Nat
    BY <1>3
  <2>3. unanswered' \in [R!Tools -> Nat]
    BY <1>4, <2>2, Pointed
  <2> QED BY <1>4, <2>1, <2>3
<1>6. \A i \in {unanswered'[u] : u \in R!Tools} \cup {active'} \cup {subagent'[a] : a \in Agents}
                  \cup {byTask'[a] : a \in Agents} : R!Holder(i) \/ i = Len(nodes) + 1
  BY <1>3, <1>4
<1>7. R!AgentInv'
  BY DEF R!TreeInv, R!AgentInv
<1> QED BY <1>1, <1>2, <1>5, <1>6, <1>7, ParentHolds, RoleNames, AddKeeps

LEMMA CallsKeep ==
    ASSUME R!TreeInv, NEW p \in R!Senders,
           \/ \E t \in Messages, whole \in BOOLEAN : R!CallMessage(p, t, whole)
           \/ \E t \in Others : R!CallTool(p, t)
    PROVE  R!TreeInv'
<1>1. ASSUME NEW t \in Messages, NEW whole \in BOOLEAN, R!CallMessage(p, t, whole) PROVE R!TreeInv'
  <2>1. CASE whole
    <3>1. /\ nodes' = Append(nodes, R!Node("messaging", R!ParentOf(p), p, <<>>))
          /\ unanswered' = [unanswered EXCEPT ![t] = Len(nodes')]
          /\ stats' = [stats EXCEPT !.calls = @ + 1]
          /\ UNCHANGED <<subagent, byTask, active, results, said, displaced, built>>
      BY <1>1, <2>1 DEF R!CallMessage, R!Reads
    <3> QED BY <3>1, ShownCallKeeps
  <2>2. CASE ~whole
    <3>1. /\ stats' = [stats EXCEPT !.calls = @ + 1]
          /\ UNCHANGED <<nodes, unanswered, subagent, byTask, active, results, said, displaced, built>>
      BY <1>1, <2>2 DEF R!CallMessage, R!Reads
    <3>2. stats' \in [calls : Nat, errors : Nat] /\ stats'.errors = stats.errors
      BY <3>1, Counted DEF R!TreeInv, R!TypeOK
    <3> QED BY <3>1, <3>2, PointersStay, RestKeeps
  <2> QED BY <2>1, <2>2
<1>2. ASSUME NEW t \in Others, R!CallTool(p, t) PROVE R!TreeInv'
  <2>1. /\ nodes' = Append(nodes, R!Node("tool_call", R!ParentOf(p), p, <<>>))
        /\ unanswered' = [unanswered EXCEPT ![t] = Len(nodes')]
        /\ stats' = [stats EXCEPT !.calls = @ + 1]
        /\ UNCHANGED <<subagent, byTask, active, results, said, displaced, built>>
    BY <1>2 DEF R!CallTool, R!Reads
  <2> QED BY <2>1, ShownCallKeeps
<1> QED BY <1>1, <1>2

LEMMA ToolResultKeeps ==
    ASSUME R!TreeInv, NEW p \in R!Senders, NEW t \in R!Tools, NEW err \in BOOLEAN, R!ToolResult(p, t, err)
    PROVE  R!TreeInv'
<1> DEFINE i == IF unanswered[t] # 0 THEN unanswered[t] ELSE R!ParentOf(p)
           x == R!NodeAs(None, err, "tool_result", i, p, <<>>)
<1>1. /\ subagent \in [Agents -> Nat] /\ byTask \in [Agents -> Nat] /\ unanswered \in [R!Tools -> Nat]
      /\ active \in Nat /\ stats \in [calls : Nat, errors : Nat]
      /\ \A a \in Agents : R!Holder(subagent[a]) /\ R!Holder(byTask[a])
      /\ \A u \in R!Tools : R!Holder(unanswered[u])
      /\ R!Holder(active)
  BY DEF R!TreeInv, R!TypeOK, R!HolderInv
<1>2. i \in Nat /\ R!Holder(i)
  BY <1>1, ParentHolds
<1>3. /\ x \in R!NodeType /\ x.kind = "tool_result" /\ x.parent = i
      /\ x.role = None /\ (x.error <=> err) /\ x.shown
  <2>1. <<>> \in Seq(Nat)
    OBVIOUS
  <2> HIDE DEF i
  <2> QED BY <1>2, <2>1 DEF R!NodeAs, R!NodeType
<1>4. /\ nodes' = IF R!ShowsResult(t, err) THEN Append(nodes, x) ELSE nodes
      /\ unanswered' = [unanswered EXCEPT ![t] = 0]
      /\ stats' = [stats EXCEPT !.errors = IF err THEN @ + 1 ELSE @]
      /\ UNCHANGED <<subagent, byTask, active, results, said, displaced, built>>
  BY DEF R!ToolResult, R!Reads
<1> HIDE DEF x, i
<1>5. /\ subagent' \in [Agents -> Nat] /\ byTask' \in [Agents -> Nat] /\ unanswered' \in [R!Tools -> Nat]
      /\ active' \in Nat
      /\ stats' \in [calls : Nat, errors : Nat]
      /\ stats'.errors = IF err THEN stats.errors + 1 ELSE stats.errors
  <2>1. /\ stats' \in [calls : Nat, errors : Nat]
        /\ stats'.errors = IF err THEN stats.errors + 1 ELSE stats.errors
    <3>1. CASE err
      <4>1. stats' = [stats EXCEPT !.errors = @ + 1]
        BY <1>4, <3>1
      <4> QED BY <1>1, <3>1, <4>1, Counted
    <3>2. CASE ~err
      <4>1. stats' = [stats EXCEPT !.errors = @]
        BY <1>4, <3>2
      <4> QED BY <1>1, <3>2, <4>1, Counted
    <3> QED BY <3>1, <3>2
  <2> QED BY <1>1, <1>4, <2>1
<1>6. \A j \in {unanswered'[u] : u \in R!Tools} \cup {active'} \cup {subagent'[a] : a \in Agents}
                  \cup {byTask'[a] : a \in Agents} : R!Holder(j)
  <2>1. R!Holder(0)
    BY DEF R!Holder, R!Root
  <2> QED BY <1>1, <1>4, <2>1
<1>7. R!AgentInv'
  BY <1>4 DEF R!TreeInv, R!AgentInv
<1>8. CASE R!ShowsResult(t, err)
  <2>1. nodes' = Append(nodes, x)
    BY <1>4, <1>8
  <2> QED BY <1>2, <1>3, <1>4, <1>5, <1>6, <1>7, <2>1, RoleNames, AddKeeps
<1>9. CASE ~R!ShowsResult(t, err)
  <2>1. ~err
    BY <1>9 DEF R!ShowsResult
  <2> QED BY <1>4, <1>5, <1>6, <1>7, <1>9, <2>1, RestKeeps
<1> QED BY <1>8, <1>9

LEMMA TaskStartedKeeps ==
    ASSUME R!TreeInv, NEW b \in Agents, R!TaskStarted(b)
    PROVE  R!TreeInv'
<1>1. /\ subagent \in [Agents -> Nat] /\ byTask \in [Agents -> Nat] /\ unanswered \in [R!Tools -> Nat]
      /\ active \in Nat /\ stats \in [calls : Nat, errors : Nat]
      /\ \A a \in Agents : R!Holder(subagent[a]) /\ R!Holder(byTask[a])
      /\ \A u \in R!Tools : R!Holder(unanswered[u])
      /\ R!Holder(active)
  BY DEF R!TreeInv, R!TypeOK, R!HolderInv
<1>2. UNCHANGED <<nodes, unanswered, subagent, results, stats, said, displaced, built>>
  BY DEF R!TaskStarted, R!Reads
<1>3. CASE subagent[b] = 0
  <2>1. UNCHANGED <<byTask, active>>
    BY <1>3 DEF R!TaskStarted
  <2> QED BY <1>1, <1>2, <2>1, PointersStay, RestKeeps
<1>4. CASE subagent[b] # 0
  <2>1. byTask' = [byTask EXCEPT ![b] = subagent[b]] /\ active' = subagent[b]
    BY <1>4 DEF R!TaskStarted
  <2>2. byTask' \in [Agents -> Nat] /\ active' \in Nat
    BY <1>1, <2>1
  <2>3. \A i \in {unanswered'[t] : t \in R!Tools} \cup {active'} \cup {byTask'[a] : a \in Agents} :
          R!Holder(i)
    BY <1>1, <1>2, <2>1
  <2>4. R!AgentInv'
    BY <1>1, <1>2, <2>1 DEF R!TreeInv, R!AgentInv
  <2> QED BY <1>1, <1>2, <2>2, <2>3, <2>4, RestKeeps
<1> QED BY <1>3, <1>4
LEMMA Retexted ==
    ASSUME NEW r \in R!NodeType, NEW text \in Seq(Nat)
    PROVE  /\ LET u == [r EXCEPT !.kind = "result", !.text = text] IN
             /\ u \in R!NodeType /\ u.kind = "result" /\ u.text = text
             /\ u.parent = r.parent /\ u.owner = r.owner /\ u.role = r.role
             /\ (u.error = r.error) /\ (u.shown = r.shown)
           /\ LET u == [r EXCEPT !.text = text] IN
             /\ u \in R!NodeType /\ u.kind = r.kind /\ u.text = text
             /\ u.parent = r.parent /\ u.owner = r.owner /\ u.role = r.role
             /\ (u.error = r.error) /\ (u.shown = r.shown)
BY DEF R!NodeType

\* A step that completes the text of a result: of a subagent's, or of the session.
LEMMA TextCompleted ==
    ASSUME R!TreeInv, NEW m \in DOMAIN nodes, NEW u \in R!NodeType, nodes' = [nodes EXCEPT ![m] = u],
           u.parent = nodes[m].parent, u.owner = nodes[m].owner, u.role = nodes[m].role,
           u.error = nodes[m].error, u.shown = nodes[m].shown,
           u.kind = "result", nodes[m].kind \in {"assistant", "result"}, u.shown,
           u.text # <<>> \/ u.role # "session_result" \/ results = <<>>,
           UNCHANGED <<unanswered, subagent, results, said, built, active, stats>>,
           displaced \subseteq displaced', displaced' \subseteq Seq(Nat),
           byTask' \in [Agents -> Nat], \A a \in Agents : R!Holder(byTask'[a]), R!AgentInv',
           \A s \in said : ~R!Own(m, s),
           \A s \in said, j \in DOMAIN results :
             /\ results[j] = m /\ nodes[m].owner = s.owner /\ R!SameNarrative(nodes[m].text, s.text)
             => R!SameNarrative(u.text, s.text) \/ R!Displaced(s)',
           ~built
    PROVE  R!TreeInv'
<1>1. nodes \in Seq(R!NodeType) /\ DOMAIN nodes = 1..Len(nodes) /\ Len(nodes) \in Nat
  BY DEF R!TreeInv, R!TypeOK
<1>2. /\ DOMAIN nodes' = DOMAIN nodes /\ Len(nodes') = Len(nodes)
      /\ \A n \in DOMAIN nodes : n # m => nodes'[n] = nodes[n]
      /\ nodes'[m] = u
      /\ nodes' \in Seq(R!NodeType)
  BY <1>1
<1>3. \A n \in DOMAIN nodes :
        /\ n \in DOMAIN nodes'
        /\ nodes[n].kind \in {"subagent", "messaging", "tool_call"} => nodes'[n].kind = nodes[n].kind
  BY <1>2
<1>4. \A i : R!Holder(i) => (i # R!Root => i \in DOMAIN nodes'
                               /\ nodes'[i].kind \in {"subagent", "messaging", "tool_call"})
  BY <1>3 DEF R!Holder
<1>5. R!TypeOK' /\ R!HolderInv'
  <2>1. R!TypeOK'
    BY <1>2 DEF R!TreeInv, R!TypeOK
  <2>2. R!HolderInv'
    BY <1>4 DEF R!TreeInv, R!HolderInv, R!Holder
  <2> QED BY <2>1, <2>2
<1>6. R!TextInv'
  <2>1. ASSUME NEW n \in DOMAIN nodes' PROVE
          /\ nodes'[n].parent # R!Root => /\ nodes'[n].parent \in DOMAIN nodes'
                                        /\ nodes'[nodes'[n].parent].kind
                                              \in {"subagent", "messaging", "tool_call"}
          /\ nodes'[n].kind = "assistant" \/ nodes'[n].shown
          /\ nodes'[n].role = "subagent_return" => nodes'[n].kind = "result"
    <3>1. nodes'[n].parent = nodes[n].parent
      BY <1>2
    <3>2. R!Holder(nodes[n].parent)
      BY <1>2 DEF R!TreeInv, R!TextInv
    <3>3. nodes'[n].parent # R!Root => /\ nodes'[n].parent \in DOMAIN nodes'
                                     /\ nodes'[nodes'[n].parent].kind
                                           \in {"subagent", "messaging", "tool_call"}
      BY <1>4, <3>1, <3>2
    <3>4. CASE n = m
      BY <1>2, <3>3, <3>4
    <3>5. CASE n # m
      BY <1>2, <3>3, <3>5 DEF R!TreeInv, R!TextInv
    <3> QED BY <3>4, <3>5
  <2> QED BY <2>1 DEF R!TextInv, R!Holder
<1>7. R!OwnerInv'
  BY <1>2 DEF R!TreeInv, R!OwnerInv
<1>8. R!ResultInv'
  <2>1. \A j \in DOMAIN results : results[j] \in DOMAIN nodes
    BY DEF R!TreeInv, R!TypeOK
  <2>2. results # <<>> => results[Len(results)] \in DOMAIN nodes
    BY DEF R!TreeInv, R!TypeOK
  <2>3. ASSUME NEW n \in DOMAIN nodes', nodes'[n].role = "session_result"
        PROVE  /\ nodes'[n].parent = R!Root /\ nodes'[n].owner = None
               /\ nodes'[n].kind = "assistant" => \E k \in DOMAIN results : results[k] = n
    BY <1>2, <2>3 DEF R!TreeInv, R!ResultInv
  <2>4. ASSUME NEW j \in DOMAIN results
        PROVE  /\ nodes'[results[j]].role = "session_result" /\ nodes'[results[j]].text # <<>>
               /\ nodes'[results[j]].kind \in {"assistant", "result"}
    BY <1>2, <2>1, <2>4 DEF R!TreeInv, R!ResultInv
  <2>5. results # <<>> => nodes'[results[Len(results)]].shown
    BY <1>2, <2>2 DEF R!TreeInv, R!ResultInv
  <2> QED BY <2>3, <2>4, <2>5 DEF R!ResultInv
<1>9. R!SaidInv'
  <2>1. ASSUME NEW s \in said
        PROVE  R!Displaced(s)' \/ \E n \in DOMAIN nodes' :
                 /\ nodes'[n].shown /\ nodes'[n].owner = s.owner
                 /\ R!SameNarrative(nodes'[n].text, s.text)
                 /\ built' \/ R!Own(n, s)' \/ (\E k \in DOMAIN results' : results'[k] = n)
    <3>1. CASE R!Displaced(s)
      BY <3>1 DEF R!Displaced
    <3>2. ASSUME NEW n \in DOMAIN nodes,
                 nodes[n].shown, nodes[n].owner = s.owner,
                 R!SameNarrative(nodes[n].text, s.text),
                 R!Own(n, s) \/ (\E k \in DOMAIN results : results[k] = n), ~R!Displaced(s)'
          PROVE  \E k \in DOMAIN nodes' :
                   /\ nodes'[k].shown /\ nodes'[k].owner = s.owner
                   /\ R!SameNarrative(nodes'[k].text, s.text)
                   /\ built' \/ R!Own(k, s)' \/ (\E i \in DOMAIN results' : results'[i] = k)
      <4>1. CASE n = m
        BY <1>2, <3>2, <4>1
      <4>2. CASE n # m
        BY <1>2, <3>2, <4>2 DEF R!Own
      <4> QED BY <4>1, <4>2
    <3> QED BY <3>1, <3>2 DEF R!TreeInv, R!SaidInv
  <2> QED BY <2>1 DEF R!SaidInv
<1>10. R!Failures' = R!Failures
  BY <1>2 DEF R!Failures
<1> QED BY <1>5, <1>6, <1>7, <1>8, <1>9, <1>10 DEF R!TreeInv
LEMMA LastChild ==
    ASSUME R!TreeInv, NEW S, S \subseteq DOMAIN nodes, S # {}
    PROVE  R!Max(S) \in S
<1>1. Len(nodes) \in Nat /\ DOMAIN nodes = 1..Len(nodes)
  BY DEF R!TreeInv, R!TypeOK
<1> QED BY <1>1, MaxOf

LEMMA TaskCompletedKeeps ==
    ASSUME R!TreeInv, NEW b \in Agents, NEW summary \in Texts, R!TaskCompleted(b, summary)
    PROVE  R!TreeInv'
<1> DEFINE s == R!Notified(b)
<1>1. /\ subagent \in [Agents -> Nat] /\ byTask \in [Agents -> Nat] /\ unanswered \in [R!Tools -> Nat]
      /\ active \in Nat /\ stats \in [calls : Nat, errors : Nat]
      /\ \A a \in Agents : R!Holder(subagent[a]) /\ R!Holder(byTask[a])
      /\ \A t \in R!Tools : R!Holder(unanswered[t])
      /\ R!Holder(active) /\ R!AgentInv
  BY DEF R!TreeInv, R!TypeOK, R!HolderInv
<1>2. /\ UNCHANGED <<unanswered, subagent, active, results, stats, said, displaced, built>>
      /\ ~built /\ displaced \subseteq Seq(Nat)
  BY DEF R!TaskCompleted, R!Reads, R!TreeInv, R!TypeOK
<1>3. summary \in Seq(Nat) /\ summary # <<>>
  BY Assumptions DEF R!TraceAssumption
<1>4. s \in Nat /\ R!Holder(s) /\ \A a \in Agents : s = subagent[a] /\ s # 0 => a = b
  BY <1>1 DEF R!Notified, R!AgentInv
<1>5. CASE s = 0
  <2>1. UNCHANGED <<nodes, byTask>>
    BY <1>5 DEF R!TaskCompleted
  <2> QED BY <1>1, <1>2, <2>1, PointersStay, RestKeeps
<1>6. CASE s # 0
  <2> HIDE DEF s
  <2>1. /\ byTask' = [byTask EXCEPT ![b] = s]
        /\ nodes' = IF R!Returns(s) # {} THEN [nodes EXCEPT ![R!Max(R!Returns(s))].text = summary]
                    ELSE Append(nodes, R!NodeAs("subagent_return", FALSE, "result", s, b, summary))
    BY <1>6 DEF R!TaskCompleted, s
  <2>2. byTask' \in [Agents -> Nat] /\ \A a \in Agents : R!Holder(byTask'[a])
    BY <1>1, <1>4, <2>1
  <2>3. R!AgentInv'
    BY <1>1, <1>2, <1>4, <2>1 DEF R!AgentInv
  <2>4. CASE R!Returns(s) # {}
    <3> DEFINE m == R!Max(R!Returns(s))
               u == [nodes[m] EXCEPT !.text = summary]
    <3>1. m \in R!Returns(s)
      <4>1. R!Returns(s) \subseteq DOMAIN nodes
        BY DEF R!Returns, R!Children
      <4> QED BY <2>4, <4>1, LastChild
    <3>2. m \in DOMAIN nodes /\ nodes[m].role = "subagent_return" /\ nodes[m].shown
      BY <3>1 DEF R!Returns, R!Children
    <3>3. nodes[m] \in R!NodeType /\ nodes[m].kind = "result"
      BY <3>2 DEF R!TreeInv, R!TypeOK, R!TextInv
    <3>4. nodes' = [nodes EXCEPT ![m] = u]
      BY <2>1, <2>4
    <3>5. /\ u \in R!NodeType /\ u.kind = "result" /\ u.text = summary
          /\ u.parent = nodes[m].parent /\ u.owner = nodes[m].owner /\ u.role = nodes[m].role
          /\ (u.error = nodes[m].error) /\ (u.shown = nodes[m].shown)
      <4> HIDE DEF m
      <4> QED BY <1>3, <3>3, Retexted
    <3>6. \A j \in DOMAIN results : results[j] # m
      BY <3>2 DEF R!TreeInv, R!ResultInv
    <3>7. \A q \in said : ~R!Own(m, q)
      BY <3>3 DEF R!Own
    <3> HIDE DEF m, u
    <3> QED BY <1>2, <1>3, <2>2, <2>3, <3>2, <3>3, <3>4, <3>5, <3>6, <3>7, TextCompleted
  <2>5. CASE R!Returns(s) = {}
    <3> DEFINE x == R!NodeAs("subagent_return", FALSE, "result", s, b, summary)
    <3>1. /\ x \in R!NodeType /\ x.kind = "result" /\ x.parent = s /\ x.owner = b
          /\ x.role = "subagent_return" /\ ~x.error /\ x.shown
      BY <1>3, <1>4 DEF R!NodeAs, R!NodeType, R!Senders
    <3>2. nodes' = Append(nodes, x)
      BY <2>1, <2>5
    <3>3. unanswered' \in [R!Tools -> Nat] /\ active' \in Nat /\ subagent' \in [Agents -> Nat]
      BY <1>1, <1>2
    <3>4. \A i \in {unanswered'[t] : t \in R!Tools} \cup {active'} \cup {subagent'[a] : a \in Agents}
                     \cup {byTask'[a] : a \in Agents} : R!Holder(i)
      BY <1>1, <1>2, <2>2
    <3>5. \A a \in Agents : subagent'[a] = subagent[a] /\ (s = subagent[a] /\ subagent[a] # 0 => b = a)
      BY <1>2, <1>4
    <3> HIDE DEF x
    <3> QED BY <1>1, <1>2, <1>4, <2>2, <2>3, <3>1, <3>2, <3>3, <3>4, <3>5, RoleNames, AddKeeps
  <2> QED BY <2>4, <2>5
<1> QED BY <1>5, <1>6

LEMMA SessionCompleteKeeps ==
    ASSUME R!TreeInv, NEW full \in Texts, R!SessionComplete(full)
    PROVE  R!TreeInv'
<1> DEFINE found == {n \in R!Children(R!Root) : nodes[n].kind = "result"}
<1>1. /\ UNCHANGED <<unanswered, subagent, byTask, active, results, stats, said, built>>
      /\ ~built /\ displaced \subseteq Seq(Nat)
  BY DEF R!SessionComplete, R!Reads, R!TreeInv, R!TypeOK
<1>2. full \in Seq(Nat) /\ full # <<>>
  BY Assumptions DEF R!TraceAssumption
<1>3. /\ byTask' \in [Agents -> Nat] /\ \A a \in Agents : R!Holder(byTask'[a])
      /\ R!AgentInv' /\ stats \in [calls : Nat, errors : Nat]
  BY <1>1 DEF R!TreeInv, R!TypeOK, R!HolderInv, R!AgentInv
<1>4. CASE results # <<>>
  <2> DEFINE m == results[Len(results)]
             longer == Len(full) > Len(nodes[m].text)
             text == IF longer THEN full ELSE nodes[m].text
             u == [nodes[m] EXCEPT !.kind = "result", !.text = text]
  <2>1. /\ nodes' = [nodes EXCEPT ![m] = u]
        /\ displaced' = IF longer /\ ~R!Completes(full, nodes[m].text)
                        THEN displaced \cup {nodes[m].text} ELSE displaced
    <3>1. nodes' = [nodes EXCEPT ![m] = u]
      BY <1>4 DEF R!SessionComplete
    <3>2. displaced' = IF longer /\ ~R!Completes(full, nodes[m].text)
                        THEN displaced \cup {nodes[m].text} ELSE displaced
      BY <1>4 DEF R!SessionComplete
    <3> QED BY <3>1, <3>2
  <2>2. Len(results) \in DOMAIN results /\ m \in DOMAIN nodes
    BY <1>4 DEF R!TreeInv, R!TypeOK
  <2>3. /\ nodes[m] \in R!NodeType /\ nodes[m].shown /\ nodes[m].role = "session_result"
        /\ nodes[m].kind \in {"assistant", "result"} /\ nodes[m].owner = None
        /\ nodes[m].text # <<>>
    BY <1>4, <2>2 DEF R!TreeInv, R!TypeOK, R!ResultInv
  <2>4. nodes[m].text \in Seq(Nat) /\ text \in Seq(Nat) /\ text # <<>>
    BY <1>2, <2>3 DEF R!NodeType
  <2>5. /\ u \in R!NodeType /\ u.kind = "result" /\ u.text = text
        /\ u.parent = nodes[m].parent /\ u.owner = nodes[m].owner /\ u.role = nodes[m].role
        /\ (u.error = nodes[m].error) /\ (u.shown = nodes[m].shown)
    <3> HIDE DEF m, text
    <3> QED BY <2>3, <2>4, Retexted
  <2>6. \A s \in said : ~R!Own(m, s)
    BY <2>3, RoleNames DEF R!Own
  <2>7. displaced \subseteq displaced' /\ displaced' \subseteq Seq(Nat)
    BY <1>1, <2>1, <2>4
  <2>8. ASSUME NEW s \in said, nodes[m].owner = s.owner, R!SameNarrative(nodes[m].text, s.text)
        PROVE  R!SameNarrative(text, s.text) \/ R!Displaced(s)'
    <3>1. s.text \in Seq(Nat)
      BY Assumptions DEF R!TreeInv, R!TypeOK, R!TraceAssumption
    <3> HIDE DEF m
    <3>2. CASE longer /\ R!Completes(full, nodes[m].text)
      BY <1>2, <2>4, <2>8, <3>1, <3>2, AlikeCompleted
    <3>3. CASE longer /\ ~R!Completes(full, nodes[m].text)
      <4>1. nodes[m].text \in displaced'
        BY <2>1, <3>3
      <4> QED BY <1>1, <2>3, <2>8, <4>1 DEF R!Displaced
    <3>4. CASE ~longer
      BY <2>8, <3>4
    <3> QED BY <3>2, <3>3, <3>4
  <2> HIDE DEF m, u, text, longer
  <2> QED BY <1>1, <1>3, <1>4, <2>1, <2>2, <2>3, <2>4, <2>5, <2>6, <2>7, <2>8, TextCompleted
<1>5. CASE results = <<>> /\ found = {}
  <2> DEFINE x == R!NodeAs("session_result", FALSE, "result", R!Root, None, full)
  <2>1. /\ x \in R!NodeType /\ x.kind = "result" /\ x.parent = R!Root /\ x.owner = None
        /\ x.role = "session_result" /\ ~x.error /\ x.shown
    BY <1>2 DEF R!NodeAs, R!NodeType, R!Senders, R!Root
  <2>2. nodes' = Append(nodes, x) /\ displaced' = displaced
    BY <1>5 DEF R!SessionComplete
  <2>3. R!Holder(R!Root)
    BY DEF R!Holder
  <2> HIDE DEF x
  <2> QED BY <1>1, <1>3, <2>1, <2>2, <2>3, PointersStay, RoleNames, AddKeeps
<1>6. CASE results = <<>> /\ found # {}
  <2> DEFINE m == R!Max(found)
             text == IF Len(full) > Len(nodes[m].text) THEN full ELSE nodes[m].text
             u == [nodes[m] EXCEPT !.text = text]
  <2>1. m \in found
    <3>1. found \subseteq DOMAIN nodes
      BY DEF R!Children
    <3> HIDE DEF found
    <3> QED BY <1>6, <3>1, LastChild
  <2>2. m \in DOMAIN nodes /\ nodes[m].kind = "result" /\ nodes[m].shown
    BY <2>1 DEF R!Children
  <2>3. nodes[m] \in R!NodeType
    BY <2>2 DEF R!TreeInv, R!TypeOK
  <2>4. nodes' = [nodes EXCEPT ![m] = u] /\ displaced' = displaced
    BY <1>6 DEF R!SessionComplete
  <2>5. text \in Seq(Nat)
    BY <1>2, <2>3 DEF R!NodeType
  <2>6. /\ u \in R!NodeType /\ u.kind = nodes[m].kind
        /\ u.parent = nodes[m].parent /\ u.owner = nodes[m].owner /\ u.role = nodes[m].role
        /\ (u.error = nodes[m].error) /\ (u.shown = nodes[m].shown)
    <3> HIDE DEF m, text
    <3> QED BY <2>3, <2>5, Retexted
  <2>7. /\ \A s \in said : ~R!Own(m, s)
        /\ DOMAIN results = {}
    BY <1>6, <2>2 DEF R!Own
  <2> HIDE DEF m, u, found
  <2> QED BY <1>1, <1>3, <1>6, <2>2, <2>4, <2>6, <2>7, TextCompleted
<1> QED BY <1>4, <1>5, <1>6
\* A result takes the place of the coordinator's last text when it is alike.
LEMMA ResultSnapshotKeeps ==
    ASSUME R!TreeInv, NEW preview \in Texts, R!ResultSnapshot(preview)
    PROVE  R!TreeInv'
<1> DEFINE h == R!Max(R!Children(R!Root))
           x == R!NodeAs("session_result", FALSE, "assistant", R!Root, None, preview)
           hidden == R!RepeatsLast(preview)
           old == IF hidden THEN [nodes EXCEPT ![h].shown = FALSE] ELSE nodes
           new == Len(nodes) + 1
<1>1. /\ UNCHANGED <<unanswered, subagent, byTask, active, stats, built>> /\ ~built
      /\ nodes' = Append(old, x)
      /\ results' = Append(results, Len(nodes'))
      /\ said' = said \cup {[owner |-> None, text |-> preview]}
      /\ displaced' = IF hidden /\ nodes[h].role = "session_result" /\ nodes[h].text # preview
                      THEN displaced \cup {nodes[h].text} ELSE displaced
  BY DEF R!ResultSnapshot, R!Reads
<1>2. preview \in Seq(Nat) /\ preview # <<>>
  BY Assumptions DEF R!TraceAssumption
<1>3. /\ x \in R!NodeType /\ x.kind = "assistant" /\ x.parent = R!Root /\ x.owner = None
      /\ x.text = preview /\ x.role = "session_result" /\ ~x.error /\ x.shown
  BY <1>2 DEF R!NodeAs, R!NodeType, R!Senders, R!Root
<1>4. nodes \in Seq(R!NodeType) /\ results \in Seq(DOMAIN nodes) /\ said \in SUBSET [owner : R!Senders, text : Texts]
  BY DEF R!TreeInv, R!TypeOK
<1>5. hidden =>
        /\ h \in DOMAIN nodes /\ nodes[h].kind = "assistant" /\ nodes[h].owner = None
        /\ R!SameNarrative(nodes[h].text, preview)
  <2>1. R!Children(R!Root) \subseteq DOMAIN nodes
    BY DEF R!Children
  <2>2. hidden => h \in DOMAIN nodes
    BY <2>1, LastChild DEF R!RepeatsLast
  <2> QED BY <1>1, <2>2 DEF R!RepeatsLast
<1> HIDE DEF x, h, hidden
<1>6. /\ old \in Seq(R!NodeType) /\ Len(old) = Len(nodes) /\ DOMAIN old = DOMAIN nodes
      /\ \A n \in DOMAIN nodes :
           /\ old[n].kind = nodes[n].kind /\ old[n].parent = nodes[n].parent
           /\ old[n].owner = nodes[n].owner /\ old[n].text = nodes[n].text
           /\ old[n].role = nodes[n].role /\ (old[n].error = nodes[n].error)
           /\ (old[n].shown = nodes[n].shown) \/ (hidden /\ n = h)
  <2>1. CASE ~hidden
    BY <1>4, <2>1
  <2>2. CASE hidden
    <3> DEFINE u == [nodes[h] EXCEPT !.shown = FALSE]
    <3>1. nodes[h] \in R!NodeType
      BY <1>4, <1>5, <2>2
    <3>2. /\ u \in R!NodeType /\ u.kind = nodes[h].kind /\ u.parent = nodes[h].parent
          /\ u.owner = nodes[h].owner /\ u.text = nodes[h].text
          /\ u.role = nodes[h].role /\ (u.error = nodes[h].error)
      BY <3>1 DEF R!NodeType
    <3>3. old = [nodes EXCEPT ![h] = u]
      BY <2>2
    <3> HIDE DEF u, old
    <3> QED BY <1>4, <1>5, <2>2, <3>2, <3>3
  <2> QED BY <2>1, <2>2
<1> HIDE DEF old
<1>7. /\ nodes' \in Seq(R!NodeType) /\ Len(nodes') = new /\ nodes'[new] = x
      /\ DOMAIN nodes = 1..Len(nodes) /\ DOMAIN nodes' = 1..new /\ Len(nodes) \in Nat
      /\ \A n \in DOMAIN nodes :
           /\ n \in DOMAIN nodes'
           /\ nodes'[n].kind = nodes[n].kind /\ nodes'[n].parent = nodes[n].parent
           /\ nodes'[n].owner = nodes[n].owner /\ nodes'[n].text = nodes[n].text
           /\ nodes'[n].role = nodes[n].role /\ (nodes'[n].error = nodes[n].error)
           /\ (nodes'[n].shown = nodes[n].shown) \/ (hidden /\ n = h)
  <2>1. /\ nodes' \in Seq(R!NodeType) /\ Len(nodes') = Len(old) + 1 /\ nodes'[Len(old) + 1] = x
        /\ DOMAIN old = 1..Len(old) /\ DOMAIN nodes' = 1..(Len(old) + 1) /\ Len(old) \in Nat
        /\ \A n \in DOMAIN old : nodes'[n] = old[n]
    BY <1>1, <1>3, <1>6, Grown
  <2>2. Len(nodes') = new /\ nodes'[new] = x /\ DOMAIN nodes' = 1..new /\ Len(nodes) \in Nat
        /\ DOMAIN nodes = 1..Len(nodes)
    BY <1>6, <2>1
  <2>3. \A n \in DOMAIN nodes : n \in DOMAIN nodes' /\ nodes'[n] = old[n]
    BY <1>6, <2>1
  <2> QED BY <1>6, <2>1, <2>2, <2>3
<1>8. \A n \in DOMAIN nodes' : n \in DOMAIN nodes \/ n = new
  BY <1>7
<1>9. /\ results' \in Seq(DOMAIN nodes') /\ DOMAIN results' = DOMAIN results \cup {Len(results) + 1}
      /\ Len(results') = Len(results) + 1 /\ results'[Len(results) + 1] = new
      /\ \A j \in DOMAIN results : results'[j] = results[j] /\ results[j] \in DOMAIN nodes
  <2>1. results' = Append(results, new)
    BY <1>1, <1>7
  <2>2. results \in Seq(DOMAIN nodes') /\ new \in DOMAIN nodes'
    BY <1>4, <1>7
  <2> QED BY <1>4, <2>1, <2>2
<1>10. \A i : R!Holder(i) => (i # R!Root => i \in DOMAIN nodes'
                                /\ nodes'[i].kind \in {"subagent", "messaging", "tool_call"})
  BY <1>7 DEF R!Holder
<1>11. R!TypeOK' /\ R!HolderInv'
  <2>1. said' \in SUBSET [owner : R!Senders, text : Texts]
    BY <1>1, <1>4 DEF R!Senders
  <2>2. displaced' \subseteq Seq(Nat)
    <3>1. hidden => nodes[h].text \in Seq(Nat)
      <4>1. hidden => nodes[h] \in R!NodeType
        BY <1>4, <1>5
      <4> QED BY <4>1 DEF R!NodeType
    <3> QED BY <1>1, <3>1 DEF R!TreeInv, R!TypeOK
  <2>3. R!TypeOK'
    BY <1>1, <1>7, <1>9, <2>1, <2>2 DEF R!TreeInv, R!TypeOK
  <2>4. R!HolderInv'
    BY <1>1, <1>10 DEF R!TreeInv, R!HolderInv, R!Holder
  <2> QED BY <2>3, <2>4
<1>12. R!TextInv'
  <2>1. ASSUME NEW n \in DOMAIN nodes' PROVE
          /\ nodes'[n].parent # R!Root => /\ nodes'[n].parent \in DOMAIN nodes'
                                        /\ nodes'[nodes'[n].parent].kind
                                              \in {"subagent", "messaging", "tool_call"}
          /\ nodes'[n].kind = "assistant" \/ nodes'[n].shown
          /\ nodes'[n].role = "subagent_return" => nodes'[n].kind = "result"
    <3>1. CASE n \in DOMAIN nodes
      <4>1. /\ R!Holder(nodes[n].parent)
            /\ nodes[n].kind = "assistant" \/ nodes[n].shown
            /\ nodes[n].role = "subagent_return" => nodes[n].kind = "result"
        BY <3>1 DEF R!TreeInv, R!TextInv
      <4> QED BY <1>5, <1>7, <1>10, <3>1, <4>1
    <3>2. CASE n = new
      BY <1>3, <1>7, <3>2
    <3> QED BY <1>8, <3>1, <3>2
  <2> QED BY <2>1 DEF R!TextInv, R!Holder
<1>13. R!AgentInv'
  BY <1>1 DEF R!TreeInv, R!AgentInv
<1>14. R!OwnerInv'
  <2>1. ASSUME NEW n \in DOMAIN nodes', NEW a \in Agents,
               nodes'[n].parent = subagent'[a], subagent'[a] # 0,
               nodes'[n].kind = "assistant" \/ nodes'[n].role = "subagent_return"
        PROVE  nodes'[n].owner = a
    <3>1. CASE n \in DOMAIN nodes
      BY <1>1, <1>7, <2>1, <3>1 DEF R!TreeInv, R!OwnerInv
    <3>2. CASE n = new
      BY <1>3, <1>7, <2>1, <3>2 DEF R!Root
    <3> QED BY <1>8, <3>1, <3>2
  <2> QED BY <2>1 DEF R!OwnerInv
<1>15. R!ResultInv'
  <2>1. ASSUME NEW n \in DOMAIN nodes', nodes'[n].role = "session_result"
        PROVE  /\ nodes'[n].parent = R!Root /\ nodes'[n].owner = None
               /\ nodes'[n].kind = "assistant" => \E k \in DOMAIN results' : results'[k] = n
    <3>1. CASE n \in DOMAIN nodes
      BY <1>7, <1>9, <2>1, <3>1 DEF R!TreeInv, R!ResultInv
    <3>2. CASE n = new
      BY <1>3, <1>7, <1>9, <3>2
    <3> QED BY <1>8, <3>1, <3>2
  <2>2. ASSUME NEW j \in DOMAIN results'
        PROVE  /\ nodes'[results'[j]].role = "session_result" /\ nodes'[results'[j]].text # <<>>
               /\ nodes'[results'[j]].kind \in {"assistant", "result"}
    <3>1. CASE j \in DOMAIN results
      <4>1. /\ nodes[results[j]].role = "session_result" /\ nodes[results[j]].text # <<>>
            /\ nodes[results[j]].kind \in {"assistant", "result"}
        BY <3>1 DEF R!TreeInv, R!ResultInv
      <4> QED BY <1>7, <1>9, <3>1, <4>1
    <3>2. CASE j = Len(results) + 1
      BY <1>2, <1>3, <1>7, <1>9, <3>2
    <3> QED BY <1>9, <3>1, <3>2
  <2>3. nodes'[results'[Len(results')]].shown
    BY <1>3, <1>7, <1>9
  <2> QED BY <2>1, <2>2, <2>3 DEF R!ResultInv
<1>16. R!SaidInv'
  <2>1. ASSUME NEW s \in said'
        PROVE  R!Displaced(s)' \/ \E n \in DOMAIN nodes' :
                 /\ nodes'[n].shown /\ nodes'[n].owner = s.owner
                 /\ R!SameNarrative(nodes'[n].text, s.text)
                 /\ built' \/ R!Own(n, s)' \/ (\E k \in DOMAIN results' : results'[k] = n)
    <3>1. ASSUME s.owner = None, R!SameNarrative(preview, s.text)
          PROVE  R!Displaced(s)' \/ \E n \in DOMAIN nodes' :
                   /\ nodes'[n].shown /\ nodes'[n].owner = s.owner
                   /\ R!SameNarrative(nodes'[n].text, s.text)
                   /\ built' \/ R!Own(n, s)' \/ (\E k \in DOMAIN results' : results'[k] = n)
      <4>1. new \in DOMAIN nodes' /\ Len(results) + 1 \in DOMAIN results'
        BY <1>7, <1>9
      <4> QED BY <1>3, <1>7, <1>9, <3>1, <4>1
    <3>2. CASE s \in said
      <4>0. CASE R!Displaced(s)
        BY <1>1, <4>0 DEF R!Displaced
      <4> SUFFICES ASSUME ~R!Displaced(s)
                   PROVE  R!Displaced(s)' \/ \E n \in DOMAIN nodes' :
                            /\ nodes'[n].shown /\ nodes'[n].owner = s.owner
                            /\ R!SameNarrative(nodes'[n].text, s.text)
                            /\ built' \/ R!Own(n, s)' \/ (\E k \in DOMAIN results' : results'[k] = n)
        BY <4>0
      <4>1. PICK n \in DOMAIN nodes :
              /\ nodes[n].shown /\ nodes[n].owner = s.owner
              /\ R!SameNarrative(nodes[n].text, s.text)
              /\ R!Own(n, s) \/ (\E k \in DOMAIN results : results[k] = n)
        BY <1>1, <3>2 DEF R!TreeInv, R!SaidInv
      <4>2. CASE hidden /\ n = h
        <5>1. s.owner = None
          BY <1>5, <4>1, <4>2
        <5>2. CASE R!Own(n, s)
          <6>1. nodes[h].text = s.text /\ s.text \in Seq(Nat)
            BY <1>4, <3>2, <4>2, <5>2, Assumptions DEF R!Own, R!TraceAssumption
          <6>2. R!SameNarrative(s.text, preview)
            BY <1>5, <4>2, <6>1
          <6> QED BY <1>2, <3>1, <5>1, <6>1, <6>2, AlikeTurned
        <5>3. CASE \E k \in DOMAIN results : results[k] = n
          <6>1. nodes[h].role = "session_result"
            BY <4>2, <5>3 DEF R!TreeInv, R!ResultInv
          <6>2. CASE nodes[h].text = preview
            BY <3>1, <4>1, <4>2, <5>1, <6>2
          <6>3. CASE nodes[h].text # preview
            BY <1>1, <4>1, <4>2, <5>1, <6>1, <6>3 DEF R!Displaced
          <6> QED BY <6>2, <6>3
        <5> QED BY <4>1, <5>2, <5>3
      <4>3. CASE ~(hidden /\ n = h)
        <5>1. /\ n \in DOMAIN nodes' /\ nodes'[n].shown /\ nodes'[n].owner = s.owner
              /\ R!SameNarrative(nodes'[n].text, s.text)
          BY <1>7, <4>1, <4>3
        <5>2. R!Own(n, s)' \/ (\E k \in DOMAIN results' : results'[k] = n)
          BY <1>7, <1>9, <4>1 DEF R!Own
        <5> QED BY <5>1, <5>2
      <4> QED BY <4>2, <4>3
    <3>3. CASE s \notin said
      <4>1. s.owner = None /\ s.text = preview
        BY <1>1, <3>3
      <4> QED BY <1>2, <3>1, <4>1, AlikeItself
    <3> QED BY <3>2, <3>3
  <2> QED BY <2>1 DEF R!SaidInv
<1>17. R!Failures' = R!Failures
  BY <1>3, <1>7, <1>8 DEF R!Failures
<1> QED BY <1>1, <1>11, <1>12, <1>13, <1>14, <1>15, <1>16, <1>17 DEF R!TreeInv
\* At the end the texts go that a subagent's findings repeat; those are shown.
LEMMA TreeFinishKeeps ==
    ASSUME R!TreeInv, R!Finish
    PROVE  R!TreeInv'
<1> DEFINE node(n) == [nodes[n] EXCEPT !.shown = @ /\ ~R!Repeated(n)]
<1>1. /\ built' = TRUE /\ ~built /\ nodes' = [n \in DOMAIN nodes |-> node(n)]
      /\ UNCHANGED <<unanswered, subagent, byTask, active, results, stats, said, displaced>>
  BY DEF R!Finish
<1>2. nodes \in Seq(R!NodeType) /\ DOMAIN nodes = 1..Len(nodes) /\ Len(nodes) \in Nat
      /\ results \in Seq(DOMAIN nodes)
  BY DEF R!TreeInv, R!TypeOK
<1>3. ASSUME NEW n \in DOMAIN nodes
      PROVE  /\ node(n) \in R!NodeType
             /\ node(n).kind = nodes[n].kind /\ node(n).parent = nodes[n].parent
             /\ node(n).owner = nodes[n].owner /\ node(n).text = nodes[n].text
             /\ node(n).role = nodes[n].role /\ (node(n).error = nodes[n].error)
             /\ node(n).shown <=> (nodes[n].shown /\ ~R!Repeated(n))
  <2>1. nodes[n] \in R!NodeType
    BY <1>2
  <2> QED BY <2>1 DEF R!NodeType
<1> HIDE DEF node
<1>4. /\ nodes' \in Seq(R!NodeType) /\ DOMAIN nodes' = DOMAIN nodes /\ Len(nodes') = Len(nodes)
      /\ \A n \in DOMAIN nodes :
           /\ nodes'[n].kind = nodes[n].kind /\ nodes'[n].parent = nodes[n].parent
           /\ nodes'[n].owner = nodes[n].owner /\ nodes'[n].text = nodes[n].text
           /\ nodes'[n].role = nodes[n].role /\ (nodes'[n].error = nodes[n].error)
           /\ nodes'[n].shown <=> (nodes[n].shown /\ ~R!Repeated(n))
  <2>1. nodes' \in [1..Len(nodes) -> R!NodeType]
    BY <1>1, <1>2, <1>3
  <2>2. nodes' \in Seq(R!NodeType) /\ DOMAIN nodes' = DOMAIN nodes /\ Len(nodes') = Len(nodes)
    BY <1>2, <2>1
  <2> QED BY <1>1, <1>3, <2>2
<1>5. \A i : R!Holder(i) <=> (i # R!Root => i \in DOMAIN nodes'
                                /\ nodes'[i].kind \in {"subagent", "messaging", "tool_call"})
  BY <1>4 DEF R!Holder
<1>6. R!TypeOK' /\ R!HolderInv'
  <2>1. R!TypeOK'
    BY <1>1, <1>4 DEF R!TreeInv, R!TypeOK
  <2>2. R!HolderInv'
    BY <1>1, <1>5 DEF R!TreeInv, R!HolderInv, R!Holder
  <2> QED BY <2>1, <2>2
<1>7. \A n \in DOMAIN nodes : R!Repeated(n) => nodes[n].kind = "assistant"
  BY DEF R!Repeated
<1>8. R!TextInv'
  <2>1. ASSUME NEW n \in DOMAIN nodes' PROVE
          /\ nodes'[n].parent # R!Root => /\ nodes'[n].parent \in DOMAIN nodes'
                                        /\ nodes'[nodes'[n].parent].kind
                                              \in {"subagent", "messaging", "tool_call"}
          /\ nodes'[n].kind = "assistant" \/ nodes'[n].shown
          /\ nodes'[n].role = "subagent_return" => nodes'[n].kind = "result"
    <3>1. /\ R!Holder(nodes[n].parent)
          /\ nodes[n].kind = "assistant" \/ nodes[n].shown
          /\ nodes[n].role = "subagent_return" => nodes[n].kind = "result"
      BY <1>4 DEF R!TreeInv, R!TextInv
    <3> QED BY <1>4, <1>5, <1>7, <3>1
  <2> QED BY <2>1 DEF R!TextInv, R!Holder
<1>9. R!AgentInv' /\ R!OwnerInv'
  BY <1>1, <1>4 DEF R!TreeInv, R!AgentInv, R!OwnerInv
<1>10. \A n \in DOMAIN nodes : nodes[n].role = "session_result" => ~R!Repeated(n)
  BY <1>2 DEF R!TreeInv, R!ResultInv, R!Repeated, R!Root
<1>11. R!ResultInv'
  <2>1. \A j \in DOMAIN results : results[j] \in DOMAIN nodes
    BY <1>2
  <2>2. results # <<>> => Len(results) \in DOMAIN results
    BY <1>2
  <2>3. ASSUME NEW n \in DOMAIN nodes', nodes'[n].role = "session_result"
        PROVE  /\ nodes'[n].parent = R!Root /\ nodes'[n].owner = None
               /\ nodes'[n].kind = "assistant" => \E k \in DOMAIN results : results[k] = n
    BY <1>4, <2>3 DEF R!TreeInv, R!ResultInv
  <2>4. ASSUME NEW j \in DOMAIN results
        PROVE  /\ nodes'[results[j]].role = "session_result" /\ nodes'[results[j]].text # <<>>
               /\ nodes'[results[j]].kind \in {"assistant", "result"}
    BY <1>4, <2>1, <2>4 DEF R!TreeInv, R!ResultInv
  <2>5. ASSUME results # <<>> PROVE nodes'[results[Len(results)]].shown
    <3>1. nodes[results[Len(results)]].shown /\ nodes[results[Len(results)]].role = "session_result"
      BY <2>2, <2>5 DEF R!TreeInv, R!ResultInv
    <3> QED BY <1>4, <1>10, <2>1, <2>2, <2>5, <3>1
  <2>6. results' = results /\ DOMAIN nodes' = DOMAIN nodes
    BY <1>1, <1>4
  <2>7. \A n \in DOMAIN nodes' : nodes'[n].role = "session_result" =>
          /\ nodes'[n].parent = R!Root /\ nodes'[n].owner = None
          /\ nodes'[n].kind = "assistant" => \E k \in DOMAIN results' : results'[k] = n
    BY <2>3, <2>6
  <2>8. \A j \in DOMAIN results' :
          /\ nodes'[results'[j]].role = "session_result" /\ nodes'[results'[j]].text # <<>>
          /\ nodes'[results'[j]].kind \in {"assistant", "result"}
    BY <2>4, <2>6
  <2>9. results' # <<>> => nodes'[results'[Len(results')]].shown
    BY <2>5, <2>6
  <2> QED BY <2>7, <2>8, <2>9 DEF R!ResultInv
<1>12. R!SaidInv'
  <2>1. ASSUME NEW s \in said, ~R!Displaced(s)
        PROVE  \E n \in DOMAIN nodes' :
                 /\ nodes'[n].shown /\ nodes'[n].owner = s.owner
                 /\ R!SameNarrative(nodes'[n].text, s.text)
    <3>1. PICK n \in DOMAIN nodes :
            /\ nodes[n].shown /\ nodes[n].owner = s.owner
            /\ R!SameNarrative(nodes[n].text, s.text)
            /\ R!Own(n, s) \/ (\E k \in DOMAIN results : results[k] = n)
      BY <1>1, <2>1 DEF R!TreeInv, R!SaidInv
    <3>2. CASE ~R!Repeated(n)
      BY <1>4, <3>1, <3>2
    <3>3. CASE R!Repeated(n)
      <4>1. R!Own(n, s)
        BY <1>10, <3>1, <3>3 DEF R!TreeInv, R!ResultInv
      <4>2. PICK a \in Agents : /\ subagent[a] # 0 /\ nodes[n].parent = subagent[a]
                                /\ \E r \in R!Returns(subagent[a]) : R!SameNarrative(nodes[n].text, nodes[r].text)
        BY <3>3 DEF R!Repeated
      <4>3. PICK r \in R!Returns(subagent[a]) : R!SameNarrative(nodes[n].text, nodes[r].text)
        BY <4>2
      <4>4. /\ r \in DOMAIN nodes /\ nodes[r].parent = subagent[a] /\ nodes[r].shown
            /\ nodes[r].role = "subagent_return" /\ nodes[r].kind = "result"
        BY <4>3 DEF R!Returns, R!Children, R!TreeInv, R!TextInv
      <4>5. nodes[r].owner = a /\ nodes[n].owner = a
        BY <1>7, <3>3, <4>2, <4>4 DEF R!TreeInv, R!OwnerInv
      <4>6. R!SameNarrative(nodes[r].text, s.text)
        <5>1. nodes[n].text = s.text /\ nodes[n].text \in Seq(Nat) /\ nodes[r].text \in Seq(Nat)
          <6>1. nodes[n] \in R!NodeType /\ nodes[r] \in R!NodeType
            BY <1>2, <4>4
          <6> QED BY <4>1, <6>1 DEF R!Own, R!NodeType
        <5> QED BY <4>3, <5>1, AlikeTurned
      <4>7. ~R!Repeated(r)
        BY <1>7, <4>4
      <4> QED BY <1>4, <3>1, <4>4, <4>5, <4>6, <4>7
    <3> QED BY <3>2, <3>3
  <2> QED BY <1>1, <2>1 DEF R!SaidInv, R!Displaced
<1>13. R!Failures' = R!Failures
  BY <1>4 DEF R!Failures
<1> QED BY <1>1, <1>6, <1>8, <1>9, <1>11, <1>12, <1>13 DEF R!TreeInv

LEMMA TreeStep == R!TreeInv /\ R!Next => R!TreeInv'
<1> SUFFICES ASSUME R!TreeInv, R!Next PROVE R!TreeInv'
  OBVIOUS
<1>1. ASSUME NEW p \in R!Senders,
             \/ \E x \in Texts : R!Say(p, x)
             \/ R!Think(p)
             \/ \E a \in Agents \ {p} : R!CallAgent(p, a)
             \/ \E t \in Messages, whole \in BOOLEAN : R!CallMessage(p, t, whole)
             \/ \E t \in Others : R!CallTool(p, t)
             \/ \E t \in R!Tools, err \in BOOLEAN : R!ToolResult(p, t, err)
      PROVE  R!TreeInv'
  BY <1>1, SayKeeps, AsideKeeps, CallAgentKeeps, CallsKeep, ToolResultKeeps
<1>2. ASSUME NEW a \in Agents, R!TaskStarted(a) \/ \E x \in Texts : R!TaskCompleted(a, x)
      PROVE  R!TreeInv'
  BY <1>2, TaskStartedKeeps, TaskCompletedKeeps
<1>3. ASSUME NEW x \in Texts, R!ResultSnapshot(x) \/ R!SessionComplete(x) PROVE R!TreeInv'
  BY <1>3, ResultSnapshotKeeps, SessionCompleteKeeps
<1>4. CASE R!SessionFailed \/ R!Aside \/ R!Finish
  BY <1>4, AsideKeeps, TreeFinishKeeps
<1> QED BY <1>1, <1>2, <1>3, <1>4 DEF R!Next

\* Only texts are hidden, and nothing hangs under a text.
LEMMA ShownIsShown == R!TreeInv => R!Shown = {n \in DOMAIN nodes : nodes[n].shown}
<1> SUFFICES ASSUME R!TreeInv PROVE R!Shown = {n \in DOMAIN nodes : nodes[n].shown}
  OBVIOUS
<1> DEFINE A == {n \in DOMAIN nodes : nodes[n].shown}
<1>1. \A m \in A : nodes[m].parent \in A \cup {R!Root}
  BY DEF R!TreeInv, R!TextInv, R!Holder
<1>2. A \in SUBSET DOMAIN nodes
  OBVIOUS
<1>3. \A n \in A : n \in R!Shown
  BY <1>1, <1>2 DEF R!Shown
<1>4. \A n \in R!Shown : n \in A
  BY DEF R!Shown
<1> QED BY <1>3, <1>4 DEF R!Shown

LEMMA TreeShows == R!TreeInv => R!NothingHidden
<1> SUFFICES ASSUME R!TreeInv PROVE R!NothingHidden
  OBVIOUS
<1>1. \A n : n \in R!Shown <=> n \in DOMAIN nodes /\ nodes[n].shown
  BY ShownIsShown
<1>2. R!Failures = {n \in R!Shown : nodes[n].kind = "tool_result" /\ nodes[n].error}
  BY <1>1 DEF R!Failures, R!TreeInv, R!TextInv
<1>3. R!ErrorsShown
  BY <1>2 DEF R!ErrorsShown, R!TreeInv
<1>4. R!NarrativeShown
  BY <1>1 DEF R!NarrativeShown, R!TreeInv, R!SaidInv
<1> QED BY <1>3, <1>4 DEF R!NothingHidden

LEMMA TreeRests == R!TreeInv /\ UNCHANGED R!vars => R!TreeInv'
<1> SUFFICES ASSUME R!TreeInv, UNCHANGED R!vars PROVE R!TreeInv'
  OBVIOUS
<1>1. UNCHANGED <<nodes, unanswered, subagent, byTask, active, results, stats, said, displaced, built>>
  BY DEF R!vars
<1>2. /\ subagent' \in [Agents -> Nat] /\ byTask' \in [Agents -> Nat]
      /\ stats' \in [calls : Nat, errors : Nat]
  BY <1>1 DEF R!TreeInv, R!TypeOK
<1> QED BY <1>1, <1>2, PointersStay, RestKeeps

LEMMA TreeHolds == MCSpec => []R!TreeInv
<1>1. MCInit => R!TreeInv
  BY TreeInit DEF MCInit
<1>2. ASSUME R!TreeInv, [MCNext]_mcvars PROVE R!TreeInv'
  <2>1. R!Next \/ UNCHANGED R!vars
    BY <1>2 DEF MCNext, mcvars, rvars, R!vars
  <2> QED BY <1>2, <2>1, TreeStep, TreeRests
<1> QED BY <1>1, <1>2, PTL DEF MCSpec

\* Whatever was lost or sent again, a failed call is in the tree as often as it was
\* counted, and a text that is taken out stands there in a text of the same agent,
\* or was that of a result of the coordinator which another, not the same, took the
\* place of (build_trace_tree).
THEOREM TreeHidesNothing == MCSpec => []NothingHidden
<1>1. R!TreeInv => NothingHidden
  BY TreeShows DEF NothingHidden
<1> QED BY <1>1, TreeHolds, PTL
=============================================================================
