--------------------------- MODULE RuntimeSession ---------------------------
(***************************************************************************)
(* The message loop of run_agent_session (runtime/session_entrypoint.py) and *)
(* the Claude CLI it drives over the SDK's control stream.                   *)
(*                                                                           *)
(* The CLI runs a coordinator and the subagents it launches (Agent, Task) or *)
(* resumes (SendMessage), in the background or while the coordinator waits.  *)
(* The runtime only sees the messages, in order.  It has to tell an interim  *)
(* result of the coordinator from its last one: stopping at the former would *)
(* kill the subagents that still run, waiting on after the latter ends in    *)
(* the progress watchdog.                                                    *)
(***************************************************************************)
EXTENDS Integers, Sequences, FiniteSets

CONSTANTS
    Calls,     \* ids of the tool calls that launch or resume a subagent
    Askers,    \* who may ask a human: calls (their subagents) and the coordinator
    MaxLag,    \* bound: messages the loop may be behind
    None

Coordinator == "coordinator"

ASSUME SessionAssumption ==
    /\ Askers \subseteq Calls \cup {Coordinator} /\ MaxLag \in Nat
    /\ None \notin Calls \cup {"hung", "crashed", "complete", "error", "timeout"}

Tools == {"Agent", "Task", "SendMessage"}
Active == {"asked", "inline", "running"}

VARIABLES
    \* the CLI
    turn,        \* of the coordinator: "on", "off", or "gone" (the process ended)
    run,         \* per call: "none", "asked", "inline" (the coordinator waits for it),
                 \* "running" (in the background), "over", "refused"
    tool, task,  \* per call: its tool, and the subagent's task (the call that launched it)
    name,        \* per call: the id the CLI gives its run
    updated,     \* calls whose task_updated was sent
    news,        \* a subagent ended since the coordinator last looked
    shut,        \* its stdin is closed
    fault,       \* None, "hung" or "crashed"
    blocked,     \* who waits for a human: the coordinator or subagents
    asked,       \* who has ever asked a human (each asks once: a bound)
    \* between them
    out,         \* output_queue
    inbox,       \* prompt_queue after the task's prompt
    \* the runtime
    pending,     \* pending_async_subagent_tool_ids
    owners,      \* async_subagent_task_ids: task -> call, or None
    hadAsync,    \* had_async_subagents
    final,       \* last_result_text, with the subagents unfinished when it was given
    closed,      \* prompt_stream_closed
    reminded,    \* ask_user_question_reminder_sent
    retried,     \* empty_subagent_retries
    waits,       \* active_human_waits
    outcome,     \* None, "complete", "error" or "timeout"
    overlooked   \* an end of a run or of a turn was one the loop does not recognise

cli == <<turn, run, tool, task, name, updated, news, shut, fault, asked>>
loop == <<pending, owners, hadAsync, final, closed, retried, outcome>>
vars == <<cli, blocked, out, inbox, loop, reminded, waits, overlooked>>

NoResult == [text |-> "", unfinished |-> {}]

Init ==
    /\ turn = "on" /\ run = [c \in Calls |-> "none"]
    /\ tool = [c \in Calls |-> None] /\ task = [c \in Calls |-> None] /\ name = [c \in Calls |-> None]
    /\ updated = {} /\ news = FALSE /\ shut = FALSE /\ fault = None
    /\ blocked = {} /\ asked = {} /\ out = <<>> /\ inbox = <<>>
    /\ pending = {} /\ owners = [t \in Calls |-> None] /\ hadAsync = FALSE
    /\ final = NoResult /\ closed = FALSE /\ reminded = FALSE /\ retried = {}
    /\ waits = {} /\ outcome = None /\ overlooked = FALSE

-----------------------------------------------------------------------------
(* The CLI, as the messages the runtime handles describe it *)

Unfinished == {c \in Calls : run[c] \in Active}
Works == turn # "gone" /\ fault = None /\ outcome = None /\ Len(out) <= MaxLag
Thinks == Works /\ turn = "on" /\ Coordinator \notin blocked
            /\ \A c \in Calls : run[c] # "inline"
Says(messages) == out' = out \o messages

\* A launch makes a task of its own; SendMessage resumes one that has ended.
Call(c, how) ==
    /\ Thinks /\ run[c] = "none"
    /\ \E t \in Calls :
         /\ IF how = "SendMessage"
            THEN /\ \E d \in Calls : task[d] = t /\ run[d] = "over"
                 /\ \A d \in Calls : task[d] = t => run[d] \notin Active
            ELSE t = c
         /\ task' = [task EXCEPT ![c] = t]
         /\ Says(<<[kind |-> "call", call |-> c, tool |-> how, task |-> t]>>)
    /\ run' = [run EXCEPT ![c] = "asked"] /\ tool' = [tool EXCEPT ![c] = how]
    /\ UNCHANGED <<turn, name, updated, news, shut, fault, asked, blocked, inbox, loop, reminded,
                   waits, overlooked>>

Result(c, how) == [kind |-> "tool_result", call |-> c, tool |-> tool[c], how |-> how]

\* is_error: the subagent never starts.
Refuse(c) ==
    /\ Thinks /\ run[c] = "asked"
    /\ run' = [run EXCEPT ![c] = "refused"] /\ Says(<<Result(c, "error")>>)
    /\ overlooked' = (overlooked \/ tool[c] # "Agent")
    /\ UNCHANGED <<turn, tool, task, name, updated, news, shut, fault, asked, blocked, inbox, loop,
                   reminded, waits>>

\* task_started; a resumed run is called after its first call or after the new one.
Begin(c, where) ==
    /\ Thinks /\ run[c] = "asked" /\ where \in {"inline", "running"}
    /\ \E id \in {c, task[c]} :
         /\ name' = [name EXCEPT ![c] = id]
         /\ Says(<<[kind |-> "started", call |-> id, task |-> task[c]]>>
                 \o IF where = "running" THEN <<Result(c, "ok")>> ELSE <<>>)
    /\ run' = [run EXCEPT ![c] = where]
    /\ UNCHANGED <<turn, tool, task, updated, news, shut, fault, asked, blocked, inbox, loop, reminded,
                   waits, overlooked>>

Update(c) ==
    /\ Works /\ run[c] \in {"inline", "running"} /\ c \notin updated
    /\ updated' = updated \cup {c}
    /\ Says(<<[kind |-> "updated", call |-> name[c]]>>)
    /\ UNCHANGED <<turn, run, tool, task, name, news, shut, fault, asked, blocked, inbox, loop, reminded,
                   waits, overlooked>>

\* task_notification, with or without the call's id; an inline run answers its call.
Finish(c, status) ==
    /\ Works /\ run[c] \in {"inline", "running"} /\ c \notin blocked
    /\ run' = [run EXCEPT ![c] = "over"] /\ news' = (run[c] = "running" \/ news)
    /\ \E id \in {name[c], None}, text \in {"ok", "no output"} :
         Says(<<[kind |-> "notified", call |-> id, task |-> task[c], status |-> status]>>
              \o IF run[c] = "inline" THEN <<Result(c, text)>> ELSE <<>>)
    /\ overlooked' = (overlooked \/ status = "stopped")
    /\ UNCHANGED <<turn, tool, task, name, updated, shut, fault, asked, blocked, inbox, loop, reminded, waits>>

\* The coordinator's result; it may have taken in the ends it was told of.
EndTurn(text) ==
    /\ Thinks /\ \A c \in Calls : run[c] # "asked"
    /\ turn' = "off" /\ news' \in {news, FALSE}
    /\ Says(<<[kind |-> "result", text |-> text, unfinished |-> Unfinished]>>)
    /\ overlooked' = (overlooked \/ text = "")
    /\ UNCHANGED <<run, tool, task, name, updated, shut, fault, asked, blocked, inbox, loop, reminded, waits>>

\* An idle coordinator takes up the end of a subagent, or what stdin brings.
Wake ==
    /\ Works /\ turn = "off" /\ ~shut
    /\ \/ news /\ turn' = "on" /\ news' = FALSE /\ UNCHANGED <<shut, inbox>>
       \/ /\ inbox # <<>> /\ inbox' = Tail(inbox)
          /\ IF Head(inbox) = "close" THEN shut' = TRUE /\ UNCHANGED turn
                                      ELSE turn' = "on" /\ UNCHANGED shut
          /\ UNCHANGED news
    /\ UNCHANGED <<run, tool, task, name, updated, fault, asked, blocked, out, loop, reminded, waits,
                   overlooked>>

\* With stdin closed and nothing left to do the process ends.
Leave ==
    /\ Works /\ turn = "off" /\ shut /\ Unfinished = {}
    /\ turn' = "gone" /\ Says(<<[kind |-> "done"]>>)
    /\ UNCHANGED <<run, tool, task, name, updated, news, shut, fault, asked, blocked, inbox, loop, reminded,
                   waits, overlooked>>

Fail(how) ==
    /\ Works /\ fault' = how
    /\ IF how = "crashed" THEN turn' = "gone" /\ Says(<<[kind |-> "error"]>>)
                          ELSE UNCHANGED <<turn, out>>
    /\ UNCHANGED <<run, tool, task, name, updated, news, shut, asked, blocked, inbox, loop, reminded, waits,
                   overlooked>>

-----------------------------------------------------------------------------
(* Human waits: _track_human_wait around an approval or a question *)

AskHuman(who) ==
    /\ Works /\ who \in Askers \ asked
    /\ who = Coordinator => Thinks
    /\ who \in Calls => run[who] \in {"inline", "running"}
    /\ asked' = asked \cup {who} /\ blocked' = blocked \cup {who} /\ waits' = waits \cup {who}
    /\ UNCHANGED <<turn, run, tool, task, name, updated, news, shut, fault, out, inbox, loop, reminded,
                   overlooked>>

\* Mutant: the end of one wait forgets the others.
WaitsAfterAll(who) == {}
WaitsAfter(who) == waits \ {who}

HumanAnswers(who) ==
    /\ outcome = None /\ who \in blocked
    /\ blocked' = blocked \ {who} /\ waits' = WaitsAfter(who)
    /\ UNCHANGED <<cli, out, inbox, loop, reminded, overlooked>>

-----------------------------------------------------------------------------
(* The loop *)

\* _resumed_subagent_recipient: a known task none of whose calls is pending.
Resumes(m) == m.tool = "SendMessage" /\ owners[m.task] # None /\ owners[m.task] \notin pending

HandleCall(m) ==
    /\ pending' = IF m.tool # "SendMessage" \/ Resumes(m) THEN pending \cup {m.call} ELSE pending
    /\ owners' = IF Resumes(m) THEN [owners EXCEPT ![m.task] = m.call] ELSE owners
    /\ hadAsync' = (hadAsync \/ m.tool # "SendMessage")
    /\ UNCHANGED <<inbox, final, closed, retried, outcome>>

\* _set_pending_subagent_owner: the new call takes over from the task's earlier one.
SetPendingOwner(m) ==
    /\ pending' = (pending \ {owners[m.task]}) \cup {m.call}
    /\ owners' = [owners EXCEPT ![m.task] = m.call]

HandleStarted(m) ==
    /\ hadAsync' = TRUE /\ SetPendingOwner(m)
    /\ UNCHANGED <<inbox, final, closed, retried, outcome>>

\* Mutant: a task_updated is taken for the end of the run.
HandleUpdatedEnds(m) ==
    /\ pending' = pending \ {m.call}
    /\ UNCHANGED <<inbox, owners, hadAsync, final, closed, retried, outcome>>

\* It can describe an intermediate completion: ignored.
HandleUpdated(m) == UNCHANGED <<inbox, loop>>

HandleNotified(m) ==
    LET id == IF m.call # None THEN m.call ELSE owners[m.task]
    IN /\ owners' = IF id # None THEN [owners EXCEPT ![m.task] = id] ELSE owners
       /\ pending' = IF m.status \in {"completed", "failed"} THEN pending \ {id} ELSE pending
       /\ UNCHANGED <<inbox, hadAsync, final, closed, retried, outcome>>

\* The result of an Agent call: an error ends the run, an empty output has the
\* coordinator try once more.
HandleToolResult(m) ==
    LET retry == m.tool = "Agent" /\ m.how = "no output" /\ m.call \notin retried
    IN /\ pending' = IF m.tool = "Agent" /\ m.how = "error" THEN pending \ {m.call} ELSE pending
       /\ retried' = IF retry THEN retried \cup {m.call} ELSE retried
       /\ inbox' = IF retry THEN Append(inbox, "retry") ELSE inbox
       /\ UNCHANGED <<owners, hadAsync, final, closed, outcome>>

ClosesWhenIdle(m) == m.text # "" /\ pending = {} /\ ~closed

\* Interim while subagents are pending; else the answer.  With subagents it ends
\* the loop, without it closes the prompt stream once (close_prompt_stream_when_idle).
HandleResult(m) ==
    LET interim == hadAsync /\ pending # {}
        close == ~hadAsync /\ ClosesWhenIdle(m)
    IN /\ final' = IF interim THEN final ELSE [text |-> m.text, unfinished |-> m.unfinished]
       /\ outcome' = IF hadAsync /\ ~interim THEN "complete" ELSE None
       /\ closed' = (closed \/ close)
       /\ inbox' = IF close THEN Append(inbox, "close") ELSE inbox
       /\ UNCHANGED <<pending, owners, hadAsync, retried>>

\* The stream ended: fine without subagents, an error when their result is missing.
HandleEnd(m) ==
    /\ outcome' = IF m.kind = "error" \/ hadAsync THEN "error" ELSE "complete"
    /\ UNCHANGED <<inbox, pending, owners, hadAsync, final, closed, retried>>

Handle ==
    /\ outcome = None /\ out # <<>>
    /\ out' = Tail(out)
    /\ LET m == Head(out)
       IN \/ m.kind = "call" /\ HandleCall(m)
          \/ m.kind = "started" /\ HandleStarted(m)
          \/ m.kind = "updated" /\ HandleUpdated(m)
          \/ m.kind = "notified" /\ HandleNotified(m)
          \/ m.kind = "tool_result" /\ HandleToolResult(m)
          \/ m.kind = "result" /\ HandleResult(m)
          \/ m.kind \in {"done", "error"} /\ HandleEnd(m)
    /\ UNCHANGED <<cli, blocked, reminded, waits, overlooked>>

ShouldRemind == ~reminded /\ final.text = ""

\* The reminder to ask the user: once, and never after a result.
Remind ==
    /\ outcome = None /\ ShouldRemind
    /\ reminded' = TRUE /\ inbox' = Append(inbox, "reminder")
    /\ UNCHANGED <<cli, blocked, out, loop, waits, overlooked>>

\* The CLI says nothing for QUERY_PROGRESS_TIMEOUT_SEC although it is not slow.
Silent ==
    /\ out = <<>>
    /\ \/ fault = "hung"
       \/ /\ turn # "gone" /\ ~Thinks
          /\ \A c \in Calls : run[c] \in {"inline", "running"} => c \in blocked
          /\ turn = "off" => IF shut THEN Unfinished # {} ELSE ~news /\ inbox = <<>>

\* Mutant: an open wait suspends the watchdog for good.
WatchdogGivesUp ==
    /\ outcome = None /\ Silent /\ asked = {}
    /\ outcome' = "timeout"
    /\ UNCHANGED <<cli, blocked, out, inbox, pending, owners, hadAsync, final, closed, retried,
                   reminded, waits, overlooked>>

\* _next_query_event: no message in time, and no human wait is open.
Watchdog ==
    /\ outcome = None /\ Silent /\ waits = {}
    /\ outcome' = "timeout"
    /\ UNCHANGED <<cli, blocked, out, inbox, pending, owners, hadAsync, final, closed, retried,
                   reminded, waits, overlooked>>

CliNext ==
    \/ \E c \in Calls :
         \/ \E how \in Tools : Call(c, how)
         \/ Refuse(c) \/ Update(c)
         \/ \E where \in {"inline", "running"} : Begin(c, where)
         \/ \E status \in {"completed", "stopped"} : Finish(c, status)
    \/ \E text \in {"", "text"} : EndTurn(text)
    \/ Wake \/ Leave

Next ==
    \/ CliNext \/ \E how \in {"hung", "crashed"} : Fail(how)
    \/ \E who \in Calls \cup {Coordinator} : AskHuman(who) \/ HumanAnswers(who)
    \/ Handle \/ Remind \/ Watchdog

Spec == Init /\ [][Next]_vars

\* The CLI works unless it hangs, humans answer (or their wait times out), the
\* event loop runs, and time passes.
Fairness ==
    /\ WF_vars(CliNext) /\ WF_vars(Handle) /\ WF_vars(Watchdog)
    /\ \A who \in Calls \cup {Coordinator} : WF_vars(HumanAnswers(who))
FairSpec == Spec /\ Fairness

-----------------------------------------------------------------------------
(* Properties *)

\* An answer the loop takes for the session's result was given after every
\* subagent had ended: no finding of a specialist is cut off by stopping early.
AnswerCoversSubagents ==
    outcome = "complete" => final.unfinished = {}

\* The watchdog ends a session only when the CLI hangs, or after an end the loop
\* does not recognise (a refused Task or SendMessage call, a run reported as
\* stopped, an empty result); never while a human is being asked.
TimeoutExplained ==
    outcome = "timeout" => (fault = "hung" \/ overlooked) /\ blocked = {}

\* Every session ends, whatever the CLI and the humans do.
SessionEnds == <>(outcome # None)

-----------------------------------------------------------------------------
(* What the properties rest on *)

MessageType ==
    [kind : {"call"}, call : Calls, tool : Tools, task : Calls]
    \cup [kind : {"started"}, call : Calls, task : Calls]
    \cup [kind : {"updated"}, call : Calls]
    \cup [kind : {"notified"}, call : Calls \cup {None}, task : Calls, status : {"completed", "stopped"}]
    \cup [kind : {"tool_result"}, call : Calls, tool : Tools, how : {"ok", "no output", "error"}]
    \cup [kind : {"result"}, text : {"", "text"}, unfinished : SUBSET Calls]
    \cup [kind : {"done", "error"}]

TypeOK ==
    /\ turn \in {"on", "off", "gone"}
    /\ run \in [Calls -> Active \cup {"none", "over", "refused"}]
    /\ tool \in [Calls -> Tools \cup {None}] /\ task \in [Calls -> Calls \cup {None}]
    /\ name \in [Calls -> Calls \cup {None}] /\ fault \in {None, "hung", "crashed"}
    /\ news \in BOOLEAN /\ shut \in BOOLEAN /\ closed \in BOOLEAN
    /\ hadAsync \in BOOLEAN /\ overlooked \in BOOLEAN
    /\ out \in Seq(MessageType) /\ inbox \in Seq({"close", "retry", "reminder"})
    /\ pending \subseteq Calls /\ owners \in [Calls -> Calls \cup {None}]
    /\ final \in [text : {"", "text"}, unfinished : SUBSET Calls]
    /\ outcome \in {None, "complete", "error", "timeout"}

Starts(m, t) == m.kind = "started" /\ m.task = t
Resumption(m, t) == m.kind = "call" /\ m.tool = "SendMessage" /\ m.task = t
Launch(m, t) == m.kind = "call" /\ m.tool # "SendMessage" /\ m.task = t
Ends(m, t) == m.kind = "notified" /\ m.task = t
Refuses(m, t) == m.kind = "tool_result" /\ m.tool = "Agent" /\ m.how = "error" /\ m.call = t

\* The messages after which the loop counts the task's subagent as pending, or not.
Opens(m, t) == Launch(m, t) \/ Resumption(m, t) \/ Starts(m, t)
Shuts(m, t) == Ends(m, t) \/ Refuses(m, t)
Acts(m, t) == Opens(m, t) \/ Shuts(m, t)

\* A task that has run; the call it is named by launched it.
Begun(t) == task[t] = t /\ run[t] \in {"inline", "running", "over"}

(* The calls of the CLI: one at a time works on a task, and a resumed task  *)
(* has ended before.                                                        *)
CallInv ==
    /\ \A c \in Calls : run[c] = "none" <=> task[c] = None
    /\ \A c \in Calls : task[c] \notin {c, None} => task[task[c]] = task[c] /\ run[task[c]] = "over"
    /\ \A c \in Calls : task[c] # None => tool[c] \in Tools /\ (tool[c] # "SendMessage" => task[c] = c)
    /\ \A c, d \in Calls : run[c] \in Active /\ run[d] \in Active /\ task[c] = task[d] => c = d
    /\ turn = "off" => \A c \in Calls : run[c] \notin {"asked", "inline"}
    /\ fault = "crashed" => turn = "gone"
    /\ waits = blocked

(* When the loop gets to message i (or to the next one the CLI sends) the   *)
(* task's subagent is pending, under this id.                               *)
RunsAs(t, id, i) ==
    \/ owners[t] = id /\ id \in pending /\ \A k \in 1..i-1 : ~Acts(out[k], t)
    \/ \E j \in 1..i-1 : /\ Starts(out[j], t) /\ out[j].call = id
                         /\ \A k \in j+1..i-1 : ~Acts(out[k], t)

(* When the loop gets to message i the task's subagent is not pending.      *)
GoneAt(t, i) ==
    \/ (\A p \in pending : task[p] # t) /\ \A k \in 1..i-1 : ~Opens(out[k], t)
    \/ \E j \in 1..i-1 : Shuts(out[j], t) /\ \A k \in j+1..i-1 : ~Opens(out[k], t)

(* Message i is about the call and the task it names, and comes in order.   *)
InPlace(i) ==
    LET m == out[i]
    IN /\ m.kind = "call" => task[m.call] = m.task /\ (m.tool # "SendMessage" => m.task = m.call)
       /\ m.kind = "started" =>
            /\ task[m.call] = m.task
            /\ m.call = m.task \/ owners[m.task] # None \/ \E k \in 1..i-1 : Starts(out[k], m.task)
       /\ m.kind = "notified" => \E id \in Calls : m.call \in {id, None} /\ RunsAs(m.task, id, i)
       /\ m.kind = "tool_result" /\ m.tool = "Agent" /\ m.how = "error" =>
            task[m.call] = m.call /\ run[m.call] = "refused"
       /\ m.kind = "result" =>
            \A c \in m.unfinished : task[c] # None /\ \E id \in Calls : RunsAs(task[c], id, i)
MessageInv == \A i \in 1..Len(out) : InPlace(i)

\* What only a task that has begun is heard of.
Later(m, t) == Starts(m, t) \/ Ends(m, t) \/ Resumption(m, t)

(* What the loop knows of a task and when.                                  *)
OwnerInv ==
    /\ \A t \in Calls : owners[t] # None => task[owners[t]] = t /\ hadAsync
    /\ \A p \in pending : task[p] # None
    /\ pending # {} => hadAsync
    /\ \A t \in Calls : ~Begun(t) =>
         owners[t] = None /\ \A i \in 1..Len(out) : ~Later(out[i], t)
    /\ \A t \in Calls : Begun(t) => owners[t] # None \/ \E i \in 1..Len(out) : Starts(out[i], t)
    /\ \A t \in Calls, i \in 1..Len(out) : Launch(out[i], t) =>
         owners[t] = None /\ \A k \in 1..i-1 : ~Later(out[k], t)
    /\ \A c \in Calls : run[c] \in {"inline", "running"} =>
         name[c] \in Calls /\ RunsAs(task[c], name[c], Len(out) + 1)

(* Until the loop overlooks an end, it keeps one id for each pending task   *)
(* and none for one that has ended.                                         *)
EndInv ==
    ~overlooked =>
      /\ \A p \in pending : owners[task[p]] = p \/ (owners[task[p]] = None /\ task[p] = p)
      /\ \A i \in 1..Len(out) :
           /\ out[i].kind = "notified" => out[i].status = "completed"
           /\ out[i].kind = "result" =>
                \A t \in Calls : GoneAt(t, i) \/ \E c \in out[i].unfinished : task[c] = t
      /\ \A t \in Calls : GoneAt(t, Len(out) + 1) \/ \E c \in Unfinished : task[c] = t

(* The coordinator, idle with nothing left to hear of, has given a result   *)
(* that ends the loop or closes its stdin.                                  *)
IdleInv ==
    /\ closed => shut \/ \E i \in 1..Len(inbox) : inbox[i] = "close"
    /\ turn = "off" /\ ~news /\ Unfinished = {} /\ ~overlooked /\ outcome = None =>
         closed \/ \E i \in 1..Len(out) :
                     out[i].kind = "result" /\ out[i].text # "" /\ out[i].unfinished = {}

AnswerInv == final.unfinished # {} => hadAsync

\* The inductive invariant of the loop.
LoopInv ==
    /\ TypeOK /\ CallInv /\ MessageInv /\ OwnerInv /\ EndInv /\ IdleInv /\ AnswerInv
    /\ AnswerCoversSubagents /\ TimeoutExplained

=============================================================================
