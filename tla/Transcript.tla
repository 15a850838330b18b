----------------------------- MODULE Transcript -----------------------------
(***************************************************************************)
(* How a runtime session (runtime/session_entrypoint.py) reports its         *)
(* conversation and its end.                                                 *)
(*                                                                           *)
(* Every SDK message is appended to `conversation`; flush_conversation_      *)
(* batches posts what is not flushed yet, in batches, under flush_lock.  The *)
(* main loop, the SDK's hook callbacks and the timed flush loop all flush.   *)
(* A task runs alone between two awaits: a flush yields only where it waits  *)
(* for the lock and where it waits for the answer to a post.                 *)
(*                                                                           *)
(* The conversation is its length: message i is the i-th one appended.       *)
(***************************************************************************)
EXTENDS Integers, Sequences, FiniteSets

CONSTANTS
    BatchSize,     \* CONVERSATION_BATCH_SIZE
    MaxMessages,   \* bound: messages of one conversation
    MaxLost,       \* bound: posts that never reach the event collector
    None

Main == "main"      \* the loop over the SDK's messages
Hook == "hook"      \* a PreToolUse or can_use_tool callback
Timer == "timer"    \* conversation_batch_flush_loop
Tasks == {Main, Hook, Timer}

\* What the constants have to satisfy; the modules that instantiate this one
\* assume it.
TranscriptAssumption ==
    /\ BatchSize \in Nat \ {0} /\ MaxMessages \in Nat /\ MaxLost \in Nat
    /\ None \notin Tasks

VARIABLES
    conversation,  \* len(conversation)
    flushed,       \* flushed_messages
    pending,       \* pending_batch_started_at: None, "young", or "old" (past MAX_AGE)
    lock,          \* holder of flush_lock, or None
    flush,         \* per task: [at, force, from, to], where its flush is
    phase,         \* "run", "stop" (finally), "flush", "report", "end", "killed"
    outcome,       \* how the loop ended: None, "complete", "timeout", "error"
    collected,     \* batches the event collector has received, oldest first
    terminal,      \* terminal events it has received
    marker,        \* MEMORY_COMPLETE_MARKER exists
    lost,          \* posts lost so far
    overtaken,     \* messages appended while a forced post was under way, or in a lost post
    cutOff         \* history: places in `collected` of the batches whose flush was cancelled
                   \* once the collector had them

vars == <<conversation, flushed, pending, lock, flush, phase, outcome, collected,
          terminal, marker, lost, overtaken, cutOff>>

NoFlush == [at |-> "idle", force |-> FALSE, from |-> 0, to |-> 0]
Stopped == [NoFlush EXCEPT !.at = "stopped"]
Forced == {t \in Tasks : flush[t].at = "post" /\ flush[t].force /\ flush[t].to - flush[t].from < BatchSize}

Init ==
    /\ conversation = 0 /\ flushed = 0 /\ pending = None
    /\ lock = None /\ flush = [t \in Tasks |-> NoFlush]
    /\ phase = "run" /\ outcome = None
    /\ collected = <<>> /\ terminal = <<>> /\ marker = FALSE
    /\ lost = 0 /\ overtaken = {} /\ cutOff = {}

-----------------------------------------------------------------------------
(* flush_conversation_batches *)

\* What a task that holds the lock does until its next await: it posts the next
\* full batch, or, when forced, the tail; else it settles the age and returns.
\* `done` is flushed_messages and `total` len(conversation) as the task sees them.
Proceed(t, force, done, total) ==
    LET posts == total - done >= BatchSize \/ (force /\ done < total)
        upTo == IF total - done >= BatchSize THEN done + BatchSize ELSE total
    IN /\ flushed' = done
       /\ flush' = [flush EXCEPT ![t] =
             IF posts THEN [at |-> "post", force |-> force, from |-> done, to |-> upTo]
                      ELSE NoFlush]
       /\ lock' = IF posts THEN t ELSE None
       /\ pending' = IF posts THEN pending
                     ELSE IF done = total THEN None
                     ELSE IF pending = None THEN "young" ELSE pending

\* Mutant: no flush_lock
EnterFlushUnlocked(t, force, total) == Proceed(t, force, flushed, total)

\* async with flush_lock: enter at once when it is free, else wait.
EnterFlush(t, force, total) ==
    IF lock = None THEN Proceed(t, force, flushed, total)
    ELSE /\ flush' = [flush EXCEPT ![t] = [NoFlush EXCEPT !.at = "lock", !.force = force]]
         /\ UNCHANGED <<flushed, pending, lock>>

GetLock(t) ==
    /\ flush[t].at = "lock" /\ lock = None
    /\ Proceed(t, flush[t].force, flushed, conversation)
    /\ UNCHANGED <<conversation, phase, outcome, collected, terminal, marker, lost, overtaken,
                   cutOff>>

\* Mutant: a full batch, too, counts everything appended so far as flushed
FlushedAfterLength(t) == conversation

\* What flushed_messages becomes after a post: the boundary of a full batch, but
\* after the tail the length the conversation has NOW.
FlushedAfter(t) ==
    IF flush[t].to - flush[t].from = BatchSize THEN flush[t].to ELSE conversation

\* report_event has its answer, or has given up: it swallows every failure.
PostDone(t) ==
    /\ flush[t].at = "post"
    /\ Proceed(t, flush[t].force, FlushedAfter(t), conversation)
    /\ UNCHANGED <<conversation, phase, outcome, terminal, marker, cutOff>>
    /\ \/ /\ collected' = Append(collected, <<flush[t].from, flush[t].to>>)
          /\ UNCHANGED <<lost, overtaken>>
       \/ /\ lost < MaxLost /\ lost' = lost + 1
          /\ overtaken' = overtaken \cup ((flush[t].from + 1)..flush[t].to)
          /\ UNCHANGED collected

-----------------------------------------------------------------------------
(* Who appends and flushes *)

\* The main loop has handled one SDK message, or a hook appends what it asked and
\* was answered (append_transcript_messages); each then flushes what is full.
Capture(t) ==
    /\ t \in {Main, Hook} /\ phase = "run" /\ flush[t] = NoFlush
    /\ conversation < MaxMessages
    /\ conversation' = conversation + 1
    /\ overtaken' = overtaken \cup IF Forced = {} THEN {} ELSE {conversation + 1}
    /\ EnterFlush(t, FALSE, conversation + 1)
    /\ UNCHANGED <<phase, outcome, collected, terminal, marker, lost, cutOff>>

Age ==
    /\ pending = "young" /\ phase = "run"
    /\ pending' = "old"
    /\ UNCHANGED <<conversation, flushed, lock, flush, phase, outcome, collected, terminal,
                   marker, lost, overtaken, cutOff>>

TimedFlush ==
    /\ flush[Timer] = NoFlush /\ pending = "old"
    /\ EnterFlush(Timer, TRUE, conversation)
    /\ UNCHANGED <<conversation, phase, outcome, collected, terminal, marker, lost, overtaken,
                   cutOff>>

-----------------------------------------------------------------------------
(* The end of the session *)

\* The loop breaks or raises while the main task is not inside a flush.
LeaveLoop(how) ==
    /\ phase = "run" /\ flush[Main] = NoFlush
    /\ phase' = "stop" /\ outcome' = how
    /\ UNCHANGED <<conversation, flushed, pending, lock, flush, collected, terminal, marker,
                   lost, overtaken, cutOff>>

\* The tasks of T end in the middle of what they do: a post under way may have
\* reached the collector, and flushed_messages does not count it.
CutOff(T) ==
    \/ \E t \in T : /\ flush[t].at = "post"
                    /\ collected' = Append(collected, <<flush[t].from, flush[t].to>>)
                    /\ cutOff' = cutOff \cup {Len(collected) + 1}
    \/ UNCHANGED <<collected, cutOff>>

\* finally: query_task with its hooks, then timed_flush_task, is cancelled and
\* awaited; the lock is freed.
CancelTask(t) ==
    /\ phase = "stop" /\ t # Main /\ flush[t] # Stopped
    /\ t = Timer => flush[Hook] = Stopped
    /\ flush' = [flush EXCEPT ![t] = Stopped]
    /\ lock' = IF lock = t THEN None ELSE lock
    /\ CutOff({t})
    /\ UNCHANGED <<conversation, flushed, pending, phase, outcome, terminal, marker, lost, overtaken>>

\* Mutant: the cancelled tasks are not awaited
FinalFlushAtOnce ==
    /\ phase = "stop"
    /\ IF outcome = "complete"
       THEN phase' = "flush" /\ EnterFlush(Main, TRUE, conversation)
       ELSE phase' = "report" /\ UNCHANGED <<flushed, pending, lock, flush>>
    /\ UNCHANGED <<conversation, outcome, collected, terminal, marker, lost, overtaken, cutOff>>

\* After a complete query the rest is flushed; an error or a timeout goes
\* straight to its terminal event.
FinalFlush ==
    /\ phase = "stop" /\ \A t \in Tasks \ {Main} : flush[t] = Stopped
    /\ IF outcome = "complete"
       THEN /\ phase' = "flush"
            /\ EnterFlush(Main, TRUE, conversation)
       ELSE /\ phase' = "report"
            /\ UNCHANGED <<flushed, pending, lock, flush>>
    /\ UNCHANGED <<conversation, outcome, collected, terminal, marker, lost, overtaken, cutOff>>

Returned ==
    /\ phase = "flush" /\ flush[Main] = NoFlush
    /\ phase' = "report"
    /\ UNCHANGED <<conversation, flushed, pending, lock, flush, outcome, collected, terminal,
                   marker, lost, overtaken, cutOff>>

\* session_complete, session_timeout or session_error, then the finally of main.
ReportTerminal ==
    /\ phase = "report"
    /\ phase' = "end" /\ marker' = TRUE
    /\ \/ terminal' = Append(terminal, outcome) /\ UNCHANGED lost
       \/ lost < MaxLost /\ lost' = lost + 1 /\ UNCHANGED terminal
    /\ UNCHANGED <<conversation, flushed, pending, lock, flush, outcome, collected, overtaken,
                   cutOff>>

\* handle_signal: touch the marker and exit(0); no terminal event, and asyncio
\* cancels every task.
HandleSignal ==
    /\ phase \in {"run", "stop", "flush", "report"}
    /\ phase' = "killed" /\ marker' = TRUE
    /\ lock' = None /\ flush' = [t \in Tasks |-> Stopped]
    /\ CutOff(Tasks)
    /\ UNCHANGED <<conversation, flushed, pending, outcome, terminal, lost, overtaken>>

Next ==
    \/ \E t \in Tasks : GetLock(t) \/ PostDone(t) \/ Capture(t) \/ CancelTask(t)
    \/ \E how \in {"complete", "timeout", "error"} : LeaveLoop(how)
    \/ Age \/ TimedFlush \/ FinalFlush \/ Returned \/ ReportTerminal \/ HandleSignal

Spec == Init /\ [][Next]_vars
Fairness ==
    /\ \A t \in Tasks : WF_vars(GetLock(t)) /\ WF_vars(PostDone(t)) /\ WF_vars(CancelTask(t))
    /\ WF_vars(FinalFlush) /\ WF_vars(Returned) /\ WF_vars(ReportTerminal)
FairSpec == Spec /\ Fairness

-----------------------------------------------------------------------------
(* Properties *)

MessagesOf(batch) == (batch[1] + 1)..batch[2]
\* How far the conversation is settled once batch i has come.
SettledTo(i) == IF i \in cutOff THEN collected[i][1] ELSE collected[i][2]
Received == UNION {MessagesOf(collected[i]) : i \in DOMAIN collected}

\* The collector gets every message at most once and in the order of the
\* conversation (flush_lock: two flushes must never post from the same
\* flushed_messages), to the end of the session, but for one thing: the batch of
\* a flush that is cancelled in mid-post, which flushed_messages does not count,
\* may come again, in a batch that starts where it did.
InOrderOnce == \A i, j \in DOMAIN collected : i < j => SettledTo(i) <= collected[j][1]

\* A complete session has reported every message, except those appended while a
\* forced post was under way and those of a lost post: nothing else may go
\* missing in the hand-over between the loop, the timer and the final flush.
OnlyOvertakenMissing ==
    phase = "end" /\ outcome = "complete" => 1..conversation \subseteq Received \cup overtaken

\* "Capture EVERY message ... We capture all of them" (session_entrypoint.py):
\* a complete session whose posts all arrived has reported its whole transcript.
EveryMessageReported ==
    phase = "end" /\ outcome = "complete" /\ lost = 0 => 1..conversation \subseteq Received

\* The terminal event is the last thing a session says, and it says it once: no
\* flush still runs when it is posted, and a signal never adds one.
TerminalIsLast ==
    [][terminal # <<>> => terminal' = terminal /\ collected' = collected]_vars

-----------------------------------------------------------------------------
(* What the properties rest on *)

TypeOK ==
    /\ conversation \in Nat /\ flushed \in Nat /\ overtaken \subseteq Nat
    /\ lock \in Tasks \cup {None}
    /\ flush \in [Tasks -> [at : {"idle", "lock", "post", "stopped"}, force : BOOLEAN,
                           from : Nat, to : Nat]]
    /\ collected \in Seq(Nat \X Nat)

\* The holder of the lock is the one task that posts, from where flushed_messages
\* stands: a full batch, or the tail.
LockInv ==
    /\ flushed <= conversation
    /\ lock # None => flush[lock].at = "post"
    /\ \A t \in Tasks : flush[t].at = "post" =>
          /\ lock = t
          /\ flush[t].from = flushed /\ flushed < flush[t].to /\ flush[t].to <= conversation
          /\ flush[t].to - flushed <= BatchSize
          /\ flush[t].force \/ flush[t].to - flushed = BatchSize

\* What is counted as flushed was received or overtaken, and what is appended
\* behind a tail that is being posted is overtaken.
CoverInv ==
    /\ 1..flushed \subseteq Received \cup overtaken
    /\ \A t \in Forced : (flush[t].to + 1)..conversation \subseteq overtaken

\* What is settled is counted as flushed, and the next batch starts there.
OrderInv ==
    /\ \A i \in DOMAIN collected : SettledTo(i) <= flushed
    /\ InOrderOnce

\* The last flush runs alone and leaves nothing, and the terminal event follows it.
EndInv ==
    /\ phase = "stop" => flush[Main] = NoFlush
    /\ phase \in {"flush", "report", "end"} => \A t \in Tasks \ {Main} : flush[t] = Stopped
    /\ phase = "flush" =>
          \/ flush[Main] = NoFlush /\ flushed = conversation
          \/ flush[Main].at = "post" /\ flush[Main].force
    /\ phase \in {"report", "end"} =>
          flush[Main] = NoFlush /\ (outcome = "complete" => flushed = conversation)
    /\ terminal # <<>> => phase = "end"

\* The inductive invariant of a session's reports.
ReportInv == TypeOK /\ LockInv /\ CoverInv /\ OrderInv /\ EndInv

=============================================================================
