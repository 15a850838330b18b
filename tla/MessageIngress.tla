--------------------------- MODULE MessageIngress ---------------------------
(***************************************************************************)
(* The gateway's message ingress (gateway/message_ingress.py,                *)
(* shared/lib/message_ingress.py) between a chat provider, the task table    *)
(* and one runtime that asks its human questions.                            *)
(*                                                                           *)
(* One listener reads a WebSocket and handles one event at a time.           *)
(* Mattermost sends a post to the sockets that are connected and never       *)
(* again; Slack keeps an envelope until it is acknowledged, and the listener *)
(* acknowledges BEFORE it handles.  A reply in the thread of a task that     *)
(* waits for user input is recorded for the runtime, which polls for it;     *)
(* any other message is routed and submitted.                                *)
(*                                                                           *)
(* A post is its sender, its thread and its channel; texts are left out.     *)
(* Time is the number of replies recorded so far; beside it, a task may stop *)
(* being one that the look-up of its dedupe policy finds.                    *)
(***************************************************************************)
EXTENDS Integers, Sequences, FiniteSets

CONSTANTS
    Providers,    \* the providers to choose settings.message_bus.provider from
    Posts,        \* what people and alert systems write
    Sender,       \* per post: "human", "stranger" (a human outside the allow-list),
                  \* "bot", "editor" (the event of an edited post), "press" (a button)
    InThread,     \* posts that are replies in the asking task's thread
    Routes,       \* message routes: [name, priority, bots], all of the posts' channel
    Key,          \* per post: the dedupe key of its policy, or None
    Questions,    \* questions of the AskUserQuestion call
    Skew,         \* replies recorded within the lag of the runtime's clock
    BotAccount,   \* the provider flags the gateway's own account as a bot
    MaxFaults,    \* bound: disconnections, crashes, lost requests
    MaxOps,       \* bound: pause and resume requests
    None

\* What the constants have to satisfy; the modules that instantiate this one
\* assume it.
IngressAssumption ==
    /\ Providers \subseteq {"mattermost", "slack"}
    /\ Sender \in [Posts -> {"human", "stranger", "bot", "editor", "press"}]
    /\ InThread \subseteq Posts
    /\ DOMAIN Key = Posts
    /\ Questions \in Nat \ {0} /\ Skew \in Int
    /\ Posts \cap ({"prompt"} \X (1..Questions)) = {}   \* the runtime's own posts
    /\ None \notin Posts \cup ({"prompt"} \X (1..Questions)) \cup [want : BOOLEAN, was : BOOLEAN]
    /\ BotAccount \in BOOLEAN
    /\ MaxFaults \in Nat /\ MaxOps \in Nat

VARIABLES
    provider,   \* settings.message_bus.provider
    listener,   \* the gateway: "dead"; its listener: "off", "wait" (to connect), "up"
    identity,   \* _bot_user_id is known
    aliased,    \* the routes' channel names were resolved to ids at start
    paused,     \* connector state in the database
    op,         \* pause or resume request in progress, or None
    unwritten,  \* posts nobody has written yet
    wire,       \* what the socket still holds
    unacked,    \* Slack envelopes that Slack will deliver (again)
    hand,       \* the event being handled and how far the handler is
    made,       \* tasks created by submit_task, by the post they are for
    past,       \* those that the look-up of their policy does not find any more:
                \* older than window_sec or, unless the policy says "any", ended
    absorbed,   \* posts a policy absorbed into an existing task
    decided,    \* button presses that decided an approval
    replies,    \* user_question_reply events of the asking task, oldest first
    row,        \* status of the asking task
    ask,        \* the runtime inside _handle_ask_user_question
    ackLost,    \* envelopes whose acknowledgement did not reach Slack
    faults, ops

gate == <<provider, listener, identity, aliased, paused, op>>
bus  == <<unwritten, wire, unacked>>
rows == <<made, past, absorbed, decided, replies>>
vars == <<gate, bus, hand, rows, row, ask, ackLost, faults, ops>>

\* The runtime's prompts are posts of the gateway's own account.
Prompts == {"prompt"} \X (1..Questions)
Events == Posts \cup Prompts
Idle == [event |-> None, at |-> "idle"]
Busy == hand # Idle
At(stage) == hand.at = stage
Step(stage) == hand' = [hand EXCEPT !.at = stage]

Init ==
    /\ provider \in Providers
    /\ listener = "dead" /\ identity = FALSE /\ aliased = FALSE
    /\ paused \in BOOLEAN           \* as an earlier gateway left it
    /\ op = None
    /\ unwritten = Posts /\ wire = <<>> /\ unacked = {}
    /\ hand = Idle
    /\ made = <<>> /\ past = {}
    /\ absorbed = {} /\ decided = {} /\ replies = <<>>
    /\ row = "running"
    /\ ask = [at |-> "work", q |-> 1, started |-> 0, answers |-> <<>>]
    /\ ackLost = {} /\ faults = 0 /\ ops = 0

Fault == faults < MaxFaults /\ faults' = faults + 1

-----------------------------------------------------------------------------
(* What a provider's payload says of its sender                              *)

IsOwn(e) == e \in Prompts
ThreadOf(e) == IF IsOwn(e) \/ e \in InThread THEN "asked" ELSE "other"
Root(e) == ThreadOf(e) = "other"

\* Slack marks every event with a bot id or a subtype as a bot's; Mattermost
\* says so in the post's props.
IsBot(e) ==
    IF IsOwn(e) THEN provider = "slack" \/ BotAccount
    ELSE Sender[e] = "bot" \/ (provider = "slack" /\ Sender[e] = "editor")

\* An edit is no `posted` event on Mattermost; on Slack it parses, but the text
\* is in the nested message, so the handler finds none.  Buttons come over the
\* socket on Slack only.
Parses(e) ==
    \/ IsOwn(e)
    \/ Sender[e] \in {"editor", "press"} => provider = "slack"
IsPress(e) == ~IsOwn(e) /\ Sender[e] = "press"
HasText(e) == IsOwn(e) \/ Sender[e] # "editor"

-----------------------------------------------------------------------------
(* match_message_route                                                       *)

\* A Slack event names its channel by id only, so a route whose name was not
\* resolved when the listener started does not match.
MatchesChannel == provider = "mattermost" \/ aliased

\* Bots need a route that trusts them.
Trusted(route, e) == IsBot(e) => route.bots /\ ~IsOwn(e)

\* The allow-list of usernames holds for humans on Mattermost.
Admits(route, e) ==
    /\ MatchesChannel /\ Trusted(route, e)
    /\ provider = "mattermost" /\ ~IsBot(e) /\ ~IsOwn(e) => Sender[e] # "stranger"

Matching(e) == {r \in Routes : Admits(r, e)}
Winners(e) == {r \in Matching(e) : \A s \in Matching(e) : s.priority <= r.priority}

\* Two routes of one priority make a message ambiguous: it is rejected.
Routed(e) == Cardinality(Winners(e)) = 1

-----------------------------------------------------------------------------
(* Starting, stopping and losing the listener                                *)

\* start(): who am I, which channels are the routes'; a failed look-up is
\* logged and the listener starts without it.
StartListener ==
    /\ \E known \in BOOLEAN, resolved \in BOOLEAN :
          /\ identity' = known /\ aliased' = resolved
          /\ IF known /\ resolved THEN UNCHANGED faults ELSE Fault
    /\ listener' = "wait"

\* The socket's buffer goes with the connection, the event in hand with the
\* handler.
DropSocket == wire' = <<>> /\ hand' = Idle

\* lifespan: the persisted flag decides whether a new gateway listens.
GatewayStarts ==
    /\ listener = "dead"
    /\ IF paused
       THEN listener' = "off" /\ UNCHANGED <<identity, aliased, faults>>
       ELSE StartListener
    /\ UNCHANGED <<provider, paused, op, bus, hand, rows, row, ask, ackLost, ops>>

GatewayDies ==
    /\ listener # "dead" /\ Fault
    /\ listener' = "dead" /\ op' = None
    /\ DropSocket
    /\ UNCHANGED <<provider, identity, aliased, paused, unwritten, unacked, rows, row, ask, ackLost, ops>>

Connect ==
    /\ listener = "wait"
    /\ listener' = "up"
    /\ UNCHANGED <<provider, identity, aliased, paused, op, bus, hand, rows, row, ask, ackLost, faults, ops>>

\* recv or the handler raises: the listener waits and connects again.  The
\* socket is read only between two events, so a handler goes on until then.
Disconnect ==
    /\ listener = "up" /\ Fault
    /\ hand.at \in {"idle", "ack", "check", "submit"}
    /\ listener' = "wait"
    /\ DropSocket
    /\ UNCHANGED <<provider, identity, aliased, paused, op, unwritten, unacked, rows, row, ask, ackLost, ops>>

\* Mutant: the listener is left as the failed request made it.
OpFailsForgets ==
    /\ op # None /\ Fault
    /\ op' = None
    /\ UNCHANGED <<provider, identity, aliased, listener, paused, bus, hand, rows, row, ask, ackLost, ops>>

\* _set_platform_connector_paused stops or starts the listener first ...
OpBegins ==
    /\ op = None /\ ops < MaxOps /\ listener # "dead"
    /\ ops' = ops + 1
    /\ \E want \in BOOLEAN :
          /\ op' = [want |-> want, was |-> paused]
          /\ \/ /\ want
                /\ listener' = "off" /\ DropSocket
                /\ UNCHANGED <<identity, aliased, faults>>
             \/ /\ ~want /\ listener = "off"
                /\ StartListener
                /\ UNCHANGED <<wire, hand>>
             \/ /\ ~want /\ listener # "off"          \* start() is a no-op
                /\ UNCHANGED <<listener, identity, aliased, faults, wire, hand>>
    /\ UNCHANGED <<provider, paused, unwritten, unacked, rows, row, ask, ackLost>>

\* ... then saves the flag ...
OpCommits ==
    /\ op # None
    /\ paused' = op.want /\ op' = None
    /\ UNCHANGED <<provider, listener, identity, aliased, bus, hand, rows, row, ask, ackLost, faults, ops>>

\* ... or, when that fails, puts the listener back.
OpFails ==
    /\ op # None /\ faults < MaxFaults
    /\ op' = None
    /\ faults' = faults + 1
    /\ \/ /\ op.was = op.want
          /\ UNCHANGED <<listener, identity, aliased, wire, hand>>
       \/ /\ op.was /\ ~op.want
          /\ listener' = "off" /\ DropSocket
          /\ UNCHANGED <<identity, aliased>>
       \/ /\ ~op.was /\ op.want
          /\ listener' = "wait"
          /\ identity' \in BOOLEAN /\ aliased' \in BOOLEAN
          /\ UNCHANGED <<wire, hand>>
    /\ UNCHANGED <<provider, paused, unwritten, unacked, rows, row, ask, ackLost, ops>>

-----------------------------------------------------------------------------
(* The provider                                                              *)

\* A post reaches the sockets that are open, or waits as an envelope.
Arrives(e) ==
    IF provider = "slack"
    THEN unacked' = unacked \cup {e} /\ UNCHANGED wire
    ELSE wire' = (IF listener = "up" THEN Append(wire, e) ELSE wire) /\ UNCHANGED unacked

Write(e) ==
    /\ e \in unwritten
    /\ unwritten' = unwritten \ {e}
    /\ Arrives(e)
    /\ UNCHANGED <<gate, hand, rows, row, ask, ackLost, faults, ops>>

\* Slack delivers what is not acknowledged, in any order and again after a
\* reconnection or a retry.
Deliver(e) ==
    /\ listener = "up" /\ e \in unacked
    /\ \A i \in 1..Len(wire) : wire[i] # e
    /\ hand.event # e
    /\ wire' = Append(wire, e)
    /\ UNCHANGED <<gate, unwritten, unacked, hand, rows, row, ask, ackLost, faults, ops>>

-----------------------------------------------------------------------------
(* run and handle_event                                                      *)

Receive ==
    /\ listener = "up" /\ ~Busy /\ wire # <<>>
    /\ wire' = Tail(wire)
    /\ hand' = [event |-> Head(wire), at |-> IF provider = "slack" THEN "ack" ELSE "check"]
    /\ UNCHANGED <<gate, unwritten, unacked, rows, row, ask, ackLost, faults, ops>>

\* Mutant: the envelope is acknowledged after its event has been handled.
AckAfter ==
    /\ At("ack")
    /\ Step("check")
    /\ UNCHANGED <<gate, bus, rows, row, ask, ackLost, faults, ops>>

\* The frame may be written to a connection that is already gone.
Ack ==
    /\ At("ack")
    /\ Step("check")
    /\ \/ unacked' = unacked \ {hand.event} /\ UNCHANGED <<ackLost, faults>>
       \/ ackLost' = ackLost \cup {hand.event} /\ Fault /\ UNCHANGED unacked
    /\ UNCHANGED <<gate, unwritten, wire, rows, row, ask, ops>>

Ignored(e) ==
    \/ ~Parses(e)
    \/ IsOwn(e) /\ identity
    \/ ~IsPress(e) /\ ~HasText(e)

Ignore ==
    /\ At("check") /\ Ignored(hand.event)
    /\ hand' = Idle
    /\ UNCHANGED <<gate, bus, rows, row, ask, ackLost, faults, ops>>

\* _handle_interactive_action: a press of a decided prompt is a ValueError.
HandlePress ==
    /\ At("check") /\ ~Ignored(hand.event) /\ IsPress(hand.event)
    /\ decided' = decided \cup {hand.event}
    /\ hand' = Idle
    /\ UNCHANGED <<gate, bus, made, past, absorbed, replies, row, ask, ackLost, faults, ops>>

\* Mutant: bots are not told apart, so the prompt may answer itself.
AnswersWaitAny(e) == row = "waiting" /\ ThreadOf(e) = "asked"

\* The asking task is the one that waits in this thread.
AnswersWait(e) == ~IsBot(e) /\ row = "waiting" /\ ThreadOf(e) = "asked"

RecordQuestionReply ==
    /\ At("check") /\ ~Ignored(hand.event) /\ ~IsPress(hand.event)
    /\ AnswersWait(hand.event)
    /\ replies' = Append(replies, hand.event)
    /\ hand' = Idle
    /\ UNCHANGED <<gate, bus, made, past, absorbed, decided, row, ask, ackLost, faults, ops>>

Match ==
    /\ At("check") /\ ~Ignored(hand.event) /\ ~IsPress(hand.event)
    /\ ~AnswersWait(hand.event)
    /\ IF ~Routed(hand.event) THEN hand' = Idle
       ELSE Step(IF Root(hand.event) THEN "submit" ELSE "hydrate")
    /\ UNCHANGED <<gate, bus, rows, row, ask, ackLost, faults, ops>>

\* _hydrate_thread_prompt: without its history the message is dropped.
Hydrate ==
    /\ At("hydrate")
    /\ \/ Step("submit") /\ UNCHANGED faults
       \/ hand' = Idle /\ Fault
    /\ UNCHANGED <<gate, bus, rows, row, ask, ackLost, ops>>

Keyed(i) == ~IsOwn(made[i]) /\ Key[made[i]] # None

\* Mutant: the look-up finds the tasks that have ended, or are too old.
TwinsPast(e) ==
    IF IsOwn(e) \/ Key[e] = None THEN {}
    ELSE {i \in past : Keyed(i) /\ Key[made[i]] = Key[e]}

\* dedupe_checks and submit_task: the tasks that the policy of the route finds for
\* the message's key.
Twins(e) ==
    IF IsOwn(e) \/ Key[e] = None THEN {}
    ELSE {i \in 1..Len(made) \ past : ~IsOwn(made[i]) /\ Key[made[i]] = Key[e]}

\* submit_task, atomic: TaskSubmission shows that its locks make it so.
Submit ==
    LET e == hand.event IN
    /\ At("submit")
    /\ IF Twins(e) # {}
       THEN absorbed' = absorbed \cup {e} /\ UNCHANGED made
       ELSE made' = Append(made, e) /\ UNCHANGED absorbed
    /\ Step("notify")
    /\ UNCHANGED <<gate, bus, past, decided, replies, row, ask, ackLost, faults, ops>>

\* The notice in the thread; a failed post is only logged.
Notify ==
    /\ At("notify")
    /\ hand' = Idle
    /\ UNCHANGED <<gate, bus, rows, row, ask, ackLost, faults, ops>>

\* A task with a key ends, or the window of its policy passes; which of the two
\* ends the look-ups depends on the policy.  (Reruns are those of TaskSubmission.)
Lapse(i) ==
    /\ Keyed(i) /\ i \notin past
    /\ past' = past \cup {i}
    /\ UNCHANGED <<gate, bus, hand, made, absorbed, decided, replies, row, ask, ackLost, faults, ops>>

-----------------------------------------------------------------------------
(* The runtime: _handle_ask_user_question                                    *)

AskAt(p) == ask.at = p
AskGoto(p) == ask' = [ask EXCEPT !.at = p]

\* report_event swallows failures: the row may not learn of the question.
ReportRequested ==
    /\ AskAt("work")
    /\ AskGoto("mark")
    /\ \/ row' = (IF row = "over" THEN row ELSE "waiting") /\ UNCHANGED faults
       \/ Fault /\ UNCHANGED row
    /\ UNCHANGED <<gate, bus, hand, rows, ackLost, ops>>

\* started_at_ms is read from the runtime's clock.
Mark ==
    /\ AskAt("mark")
    /\ ask' = [ask EXCEPT !.at = "post", !.started = Len(replies) - Skew]
    /\ UNCHANGED <<gate, bus, hand, rows, row, ackLost, faults, ops>>

PostQuestion ==
    /\ AskAt("post")
    /\ AskGoto("poll")
    /\ Arrives(<<"prompt", ask.q>>)
    /\ UNCHANGED <<gate, unwritten, hand, rows, row, ackLost, faults, ops>>

\* user_question_delivery_failed leaves the row waiting; the call is denied.
PostFails ==
    /\ AskAt("post") /\ Fault
    /\ AskGoto("denied")
    /\ row' = IF row = "over" THEN row ELSE "waiting"
    /\ UNCHANGED <<gate, bus, hand, rows, ackLost, ops>>

Heard == {i \in 1..Len(replies) : i > ask.started}

\* The first reply after the watermark answers the question.
PollReply ==
    /\ AskAt("poll") /\ Heard # {}
    /\ ask' = [ask EXCEPT !.answers = Append(@, CHOOSE i \in Heard : \A j \in Heard : i <= j),
                          !.q = IF @ < Questions THEN @ + 1 ELSE @,
                          !.at = IF ask.q < Questions THEN "work" ELSE "resolve"]
    /\ UNCHANGED <<gate, bus, hand, rows, row, ackLost, faults, ops>>

\* Mutant: only the gateway's clock ends the wait.
GiveUpNever == AskAt("poll") /\ row = "over" /\ AskGoto("denied")
                 /\ UNCHANGED <<gate, bus, hand, rows, row, ackLost, faults, ops>>

\* The budget of the whole call is used up; no event tells the gateway.
GiveUp ==
    /\ AskAt("poll")
    /\ AskGoto("denied")
    /\ UNCHANGED <<gate, bus, hand, rows, row, ackLost, faults, ops>>

ReportResolved ==
    /\ AskAt("resolve")
    /\ AskGoto("resume")
    /\ \/ row' = (IF row = "over" THEN row ELSE "resume_pending") /\ UNCHANGED faults
       \/ Fault /\ UNCHANGED row
    /\ UNCHANGED <<gate, bus, hand, rows, ackLost, ops>>

\* _wait_for_resume_admission; a task that ended meanwhile ends the session.
Resume ==
    /\ AskAt("resume") /\ row \in {"running", "over"}
    /\ AskGoto(IF row = "running" THEN "answered" ELSE "done")
    /\ UNCHANGED <<gate, bus, hand, rows, row, ackLost, faults, ops>>

\* The hook denies the call and the session goes on without an answer.  Nobody
\* tells the row, which keeps waiting, and replies go on being recorded.
DenyCall ==
    /\ AskAt("denied")
    /\ AskGoto("done")
    /\ UNCHANGED <<gate, bus, hand, rows, row, ackLost, faults, ops>>

\* session_complete does not end a task that waits.
SessionCompletes ==
    /\ ask.at \in {"answered", "done"} /\ row \in {"running", "resume_pending"}
    /\ row' = "over"
    /\ UNCHANGED <<gate, bus, hand, rows, ask, ackLost, faults, ops>>

\* dequeue_task re-admits, the waiting sweep stops the session.
Admit ==
    /\ row = "resume_pending" /\ row' = "running"
    /\ UNCHANGED <<gate, bus, hand, rows, ask, ackLost, faults, ops>>

WaitingTimeout ==
    /\ row = "waiting" /\ ~AskAt("answered")
    /\ row' = "over"
    /\ AskGoto("done")
    /\ UNCHANGED <<gate, bus, hand, rows, ackLost, faults, ops>>

-----------------------------------------------------------------------------
Handler ==
    \/ Receive \/ Ack \/ Ignore \/ HandlePress \/ RecordQuestionReply
    \/ Match \/ Hydrate \/ Submit \/ Notify
Runtime ==
    \/ ReportRequested \/ Mark \/ PostQuestion \/ PostFails \/ PollReply
    \/ GiveUp \/ ReportResolved \/ Resume \/ DenyCall \/ SessionCompletes
Gateway ==
    \/ GatewayStarts \/ GatewayDies \/ Connect \/ Disconnect
    \/ OpBegins \/ OpCommits \/ OpFails

Next ==
    \/ Gateway \/ Handler \/ Runtime \/ Admit \/ WaitingTimeout
    \/ \E e \in Posts : Write(e)
    \/ \E e \in Events : Deliver(e)
    \/ \E i \in 1..Len(made) : Lapse(i)

Spec == Init /\ [][Next]_vars

\* The runtime's coroutine runs and its deadline passes, the session managers
\* admit and sweep.  Nothing is assumed of people, providers or the gateway.
Fairness == WF_vars(Runtime) /\ WF_vars(Admit) /\ WF_vars(WaitingTimeout)

FairSpec == Spec /\ Fairness

-----------------------------------------------------------------------------
Times(e, s) == Cardinality({i \in 1..Len(s) : s[i] = e})

\* No look-up finds two tasks of one dedupe key.
KeysOnce ==
    \A i, j \in 1..Len(made) \ past :
        Keyed(i) /\ Keyed(j) /\ Key[made[i]] = Key[made[j]] => i = j

\* A message has one effect: it becomes one task or one reply, whatever crash,
\* reconnection, redelivery or pause happens.  Only when Slack did not see the
\* acknowledgement is an event handled again.  (Slack keeps an envelope until it
\* is acknowledged; run() acknowledges before it handles.)  And of the messages of
\* one dedupe key, redelivered or not, none becomes a task as long as the look-up
\* of the key's policy finds one, which may have ended or grown too old since.
HandledOnce ==
    /\ \A e \in Events \ ackLost : Times(e, made) + Times(e, replies) <= 1
    /\ KeysOnce

\* Every answer is what a human wrote in the thread, and no reply answers two
\* questions: the gateway's own prompt, which comes back over the socket while
\* the row waits, is not taken for an answer although the bot's identity may be
\* unknown, and the watermark moves on with every question.
AnswersGenuine ==
    \A i \in 1..Len(ask.answers) :
       /\ ask.answers[i] \in 1..Len(replies)
       /\ LET e == replies[ask.answers[i]] IN ~IsOwn(e) /\ e \in InThread
       /\ i > 1 => ask.answers[i] > ask.answers[i - 1]

\* Between requests a connector saved as paused has no listener: also when the
\* flag could not be saved, and after a restart of the gateway.
PauseHolds == op = None /\ paused => listener \in {"off", "dead"} /\ hand = Idle

\* A question ends: answered and admitted again, or the session is over.
AskEnds == AskAt("poll") ~> ask.at \in {"answered", "done"}

-----------------------------------------------------------------------------
(* What the properties rest on                                               *)

\* What stops a listener: a request in progress knows the flag it replaces, and
\* nothing is in hand but in a handler of a connected listener.
ListenerInv ==
    /\ listener \in {"dead", "off", "wait", "up"} /\ paused \in BOOLEAN
    /\ op = None \/ /\ op \in [want : BOOLEAN, was : BOOLEAN] /\ op.was = paused
                    /\ listener # "dead" /\ (op.want => listener = "off")
    /\ op = None /\ paused => listener \in {"off", "dead"}
    /\ listener # "up" => hand = Idle

In(e, s) == \E i \in 1..Len(s) : s[i] = e

\* Nobody has written e yet.
Fresh(e) ==
    \/ e \in unwritten
    \/ \E k \in 1..Questions :
          /\ e = <<"prompt", k>>
          /\ k > ask.q \/ (k = ask.q /\ ask.at \in {"work", "mark", "post"})

\* e is on its way to its handling.
Coming(e) ==
    \/ e \in unacked \/ In(e, wire)
    \/ hand.event = e /\ hand.at \in {"ack", "check", "hydrate", "submit"}

Once(e, s) == \A i, j \in 1..Len(s) : s[i] = e /\ s[j] = e => i = j

IngressType ==
    /\ provider \in Providers
    /\ unwritten \subseteq Posts /\ unacked \subseteq Events
    /\ past \subseteq 1..Len(made)
    /\ wire \in Seq(Events) /\ made \in Seq(Events) /\ replies \in Seq(Events)
    /\ hand \in [event : Events \cup {None},
                 at : {"idle", "ack", "check", "hydrate", "submit", "notify"}]
    /\ hand = Idle \/ (hand.event \in Events /\ hand.at # "idle")
    /\ ask \in [at : {"work", "mark", "post", "poll", "resolve", "resume", "answered",
                      "denied", "done"},
                q : 1..Questions, started : Int, answers : Seq(Nat)]

\* An event is in one place: on the socket once, in hand or handled.  Slack
\* forgets it when it is acknowledged, before it is handled, so that it cannot
\* come again.
DeliveryInv ==
    /\ \A e \in Events : Once(e, wire)
    /\ hand # Idle => ~In(hand.event, wire)
    /\ provider = "slack" => \A i \in 1..Len(wire) : wire[i] \in unacked
    /\ provider = "slack" /\ hand.at = "ack" => hand.event \in unacked
    /\ provider = "mattermost" => unacked = {} /\ hand.at # "ack"
    /\ \A e \in Events : Fresh(e) => ~Coming(e) /\ hand.event # e /\ ~In(e, made) /\ ~In(e, replies)
    /\ \A e \in Events \ ackLost :
          /\ Coming(e) => ~In(e, made) /\ ~In(e, replies)
          /\ hand.event = e /\ hand.at # "ack" => e \notin unacked
          /\ Once(e, made) /\ Once(e, replies) /\ ~(In(e, made) /\ In(e, replies))

\* What is recorded is a human's, and while a question is open its watermark is
\* past every earlier answer.
AnswersInv ==
    /\ \A i \in 1..Len(replies) : ~IsOwn(replies[i]) /\ replies[i] \in InThread
    /\ \A i \in 1..Len(ask.answers) :
          /\ ask.answers[i] \in 1..Len(replies)
          /\ i > 1 => ask.answers[i] > ask.answers[i - 1]
          /\ ask.at \in {"post", "poll"} => ask.answers[i] <= ask.started

IngressInv == IngressType /\ ListenerInv /\ DeliveryInv /\ KeysOnce
=============================================================================
