------------------------------ MODULE Approvals ------------------------------
(***************************************************************************)
(* The approvals of one gated tool of one task.  The runtime reports a call  *)
(* (permission_callback), then a request (approval_requested) and polls the  *)
(* row that carries its request id; the event collector keeps one open row   *)
(* per tool and posts a prompt whose buttons carry the row and the request   *)
(* id; a button press is handled by resolve_approval_action.                 *)
(*                                                                           *)
(* receive_event holds the task row FOR UPDATE, so an event is one step.  A  *)
(* press reads the approval without a lock; from its first insert (which     *)
(* takes a key-share lock of the task row) to its commit no event can run,   *)
(* but other presses can.                                                    *)
(***************************************************************************)
EXTENDS Naturals, FiniteSets

CONSTANTS Requests,       \* calls of the tool, by request id
          Rows,           \* identities of approval rows
          Handlers,       \* button presses handled at the same time
          None,
          Parallel,       \* may the tool be called while a call waits
          MaxPresses,     \* bound: presses that pass the checks
          MaxFaults       \* bound: lost events, failed posts, waits that time out

ASSUME ApprovalsAssumption ==
    /\ None \notin Requests \cup Rows
    /\ IsFiniteSet(Requests) /\ IsFiniteSet(Rows) /\ IsFiniteSet(Handlers)
    /\ Parallel \in BOOLEAN
    /\ MaxPresses \in Nat /\ MaxFaults \in Nat

VARIABLES status,    \* Approval.status, absent before the row is inserted
          request,   \* metadata.approval_requested.request_id
          posted,    \* metadata.gateway_delivery.post_id is set
          prompts,   \* prompts in the channel: [row, request]
          call,      \* the runtime's side of each request
          at,        \* handler of a press: idle, read or found
          press,     \* what it has read: [row, request, decision]
          target,    \* the row it is about to decide, None to insert one
          written,   \* the request id it is about to write there
          granted,   \* history: requests approved on their own prompt
          approvals, \* history: number of approving presses
          contended, \* history: two presses of one row were in hand at once
          displaced, \* history: requests whose id another's took the place of
          presses, faults

table    == <<status, request, posted, prompts>>
handlers == <<at, press, target, written>>
pressed  == <<granted, approvals, contended, presses>>
vars     == <<table, call, handlers, pressed, displaced, faults>>

Decisions == {"approved", "rejected"}
NoPress   == [row |-> None, request |-> None, decision |-> "rejected"]

Init ==
    /\ status = [a \in Rows |-> "absent"]
    /\ request = [a \in Rows |-> None]
    /\ posted = [a \in Rows |-> FALSE]
    /\ prompts = {}
    /\ call = [r \in Requests |-> "new"]
    /\ at = [h \in Handlers |-> "idle"]
    /\ press = [h \in Handlers |-> NoPress]
    /\ target = [h \in Handlers |-> None]
    /\ written = [h \in Handlers |-> None]
    /\ granted = {} /\ approvals = 0 /\ contended = FALSE /\ displaced = {}
    /\ presses = 0 /\ faults = 0

Fault == faults < MaxFaults /\ faults' = faults + 1

\* Mutant: the look-up does not filter by status.
AnyRow == {a \in Rows : status[a] # "absent"}

\* _find_open_approval
Open == {a \in Rows : status[a] = "pending"}

\* The row that is inserted next: which identity it gets makes no difference.
Fresh(a) == status[a] = "absent" /\ a = CHOOSE b \in Rows : status[b] = "absent"

\* The row an event works on: the open one, else a new one.
EventRow(a) == IF Open # {} THEN a \in Open ELSE Fresh(a)

\* FOR UPDATE of the task row waits for presses that have inserted.
TaskFree == \A h \in Handlers : at[h] # "found"

-----------------------------------------------------------------------------
(* The runtime and its events                                                *)

\* Mutant: a call always gets a row of its own.
CallbackInserts(r) ==
    /\ call[r] = "new" /\ TaskFree
    /\ \E a \in Rows : Fresh(a) /\ status' = [status EXCEPT ![a] = "pending"]
    /\ call' = [call EXCEPT ![r] = "callback"]
    /\ UNCHANGED <<request, posted, prompts, handlers, pressed, displaced, faults>>

\* permission_callback
Callback(r) ==
    /\ call[r] = "new" /\ TaskFree
    /\ Parallel \/ \A q \in Requests : call[q] \notin {"callback", "asked"}
    /\ \/ \E a \in Rows : EventRow(a) /\ status' = [status EXCEPT ![a] = "pending"]
             /\ UNCHANGED faults
       \/ Fault /\ UNCHANGED status            \* the event is lost
    /\ call' = [call EXCEPT ![r] = "callback"]
    /\ UNCHANGED <<request, posted, prompts, handlers, pressed, displaced>>

\* A row with a delivered prompt gets no second one.  gateway_delivery is put
\* into the row's dict in place and the same dict assigned: the ORM sees no
\* change if the dict was flushed before, so the delivery may not be saved.
PostPrompt(a, r) ==
    \/ posted[a] /\ UNCHANGED <<prompts, posted, faults>>
    \/ /\ ~posted[a]
       /\ \/ /\ prompts' = prompts \cup {[row |-> a, request |-> r]}
             /\ \E saved \in BOOLEAN : posted' = [posted EXCEPT ![a] = saved]
             /\ UNCHANGED faults
          \/ Fault /\ UNCHANGED <<prompts, posted>>

\* approval_requested: an open row is taken over, whoever asked before.
Request(r) ==
    /\ call[r] = "callback" /\ TaskFree
    /\ \/ \E a \in Rows :
            /\ EventRow(a) /\ PostPrompt(a, r)
            /\ status' = [status EXCEPT ![a] = "pending"]
            /\ request' = [request EXCEPT ![a] = r]
            /\ displaced' = displaced \cup ({request[a]} \ {None})
       \/ Fault /\ UNCHANGED <<table, displaced>>   \* the event is lost
    /\ call' = [call EXCEPT ![r] = "asked"]
    /\ UNCHANGED <<handlers, pressed>>

\* The poll finds the row of the request decided.
Poll(r) ==
    /\ call[r] = "asked"
    /\ \E a \in Rows : /\ request[a] = r /\ status[a] \in Decisions
                       /\ call' = [call EXCEPT ![r] = IF status[a] = "approved" THEN "allowed" ELSE "denied"]
    /\ UNCHANGED <<table, handlers, pressed, displaced, faults>>

\* The wait ends in the runtime; the row is left pending.
TimesOut(r) ==
    /\ call[r] = "asked" /\ Fault
    /\ call' = [call EXCEPT ![r] = "timed_out"]
    /\ UNCHANGED <<table, handlers, pressed, displaced>>

-----------------------------------------------------------------------------
(* resolve_approval_action                                                   *)

\* What a press leaves in the histories.
Counted(p, d) ==
    /\ granted' = IF d = "approved" THEN granted \cup {p.request} ELSE granted
    /\ approvals' = IF d = "approved" THEN approvals + 1 ELSE approvals
    /\ contended' = (contended \/ \E g \in Handlers : at[g] # "idle" /\ press[g].row = p.row)
    /\ presses' = presses + 1

\* Mutant: the request id of the button is not compared.
PressUnmatched(h, p, d) ==
    /\ at[h] = "idle" /\ presses < MaxPresses
    /\ status[p.row] = "pending"
    /\ at' = [at EXCEPT ![h] = "read"]
    /\ press' = [press EXCEPT ![h] = [row |-> p.row, request |-> request[p.row], decision |-> d]]
    /\ Counted(p, d)
    /\ UNCHANGED <<table, call, target, written, displaced, faults>>

\* The row of the button must still carry its request and be pending; any
\* other press is answered with an error and changes nothing.
Press(h, p, d) ==
    /\ at[h] = "idle" /\ presses < MaxPresses
    /\ status[p.row] = "pending" /\ request[p.row] = p.request
    /\ at' = [at EXCEPT ![h] = "read"]
    /\ press' = [press EXCEPT ![h] = [row |-> p.row, request |-> p.request, decision |-> d]]
    /\ Counted(p, d)
    /\ UNCHANGED <<table, call, target, written, displaced, faults>>

\* approval_result is applied to the open row of the tool.  If that is the row
\* read before, its metadata are the ones read before.
FindOpen(h) ==
    /\ at[h] = "read"
    /\ \/ \E b \in Open :
            /\ target' = [target EXCEPT ![h] = b]
            /\ written' = [written EXCEPT ![h] = IF b = press[h].row THEN press[h].request ELSE request[b]]
       \/ /\ Open = {}
          /\ target' = [target EXCEPT ![h] = None]
          /\ written' = [written EXCEPT ![h] = None]
    /\ at' = [at EXCEPT ![h] = "found"]
    /\ UNCHANGED <<table, call, press, pressed, displaced, faults>>

\* The session of the press is over.
Done(h) ==
    /\ at' = [at EXCEPT ![h] = "idle"]
    /\ press' = [press EXCEPT ![h] = NoPress]
    /\ target' = [target EXCEPT ![h] = None]
    /\ written' = [written EXCEPT ![h] = None]

\* Mutant: the decision replaces the row's metadata.
DecideForgets(h) ==
    /\ at[h] = "found"
    /\ \E b \in Rows :
         /\ IF target[h] # None THEN b = target[h] ELSE Fresh(b)
         /\ status' = [status EXCEPT ![b] = press[h].decision]
         /\ request' = [request EXCEPT ![b] = None]
    /\ Done(h)
    /\ UNCHANGED <<posted, prompts, call, pressed, displaced, faults>>

\* The row is written by its key, whatever it holds by now.
Decide(h) ==
    /\ at[h] = "found"
    /\ \E b \in Rows :
         /\ IF target[h] # None THEN b = target[h] ELSE Fresh(b)
         /\ status' = [status EXCEPT ![b] = press[h].decision]
         /\ request' = [request EXCEPT ![b] = written[h]]
         /\ displaced' = (displaced \cup ({request[b]} \ {None})) \ {written[h]}
    /\ Done(h)
    /\ UNCHANGED <<posted, prompts, call, pressed, faults>>

-----------------------------------------------------------------------------
Runtime(r) == Callback(r) \/ Request(r) \/ Poll(r)
Handle(h)  == FindOpen(h) \/ Decide(h)
Operator   == \E h \in Handlers, p \in prompts, d \in Decisions : Press(h, p, d)

Next ==
    \/ \E r \in Requests : Runtime(r) \/ TimesOut(r)
    \/ \E h \in Handlers : Handle(h)
    \/ Operator

Spec == Init /\ [][Next]_vars

\* Events and presses are handled, the runtime polls, and somebody answers a
\* prompt that can be answered.
Fairness ==
    /\ \A r \in Requests : WF_vars(Runtime(r))
    /\ \A h \in Handlers : WF_vars(Handle(h))
    /\ WF_vars(Operator)

FairSpec == Spec /\ Fairness

-----------------------------------------------------------------------------
\* Type invariant.
TypeOK ==
    /\ status \in [Rows -> {"absent", "pending"} \cup Decisions]
    /\ request \in [Rows -> Requests \cup {None}]
    /\ posted \in [Rows -> BOOLEAN]
    /\ prompts \in SUBSET [row : Rows, request : Requests]
    /\ call \in [Requests -> {"new", "callback", "asked", "allowed", "denied", "timed_out"}]
    /\ at \in [Handlers -> {"idle", "read", "found"}]
    /\ press \in [Handlers -> [row : Rows \cup {None}, request : Requests \cup {None}, decision : Decisions]]
    /\ target \in [Handlers -> Rows \cup {None}]
    /\ written \in [Handlers -> Requests \cup {None}]
    /\ granted \in SUBSET Requests /\ displaced \in SUBSET Requests
    /\ approvals \in Nat /\ contended \in BOOLEAN
    /\ presses \in 0..MaxPresses /\ faults \in 0..MaxFaults

\* A tool call has at most one open approval, however calls, requests and
\* decisions interleave.
OneOpen == \A a, b \in Open : a = b

Allowed == {r \in Requests : call[r] = "allowed"}

\* A call is allowed only if an operator approved that very request on its own
\* prompt, unless two presses of one row overlapped; and even if they do, a press
\* lets one call run at most: never more calls are allowed than were approved.
AllowedIsGranted ==
    /\ ~contended => Allowed \subseteq granted
    /\ Cardinality(Allowed) <= approvals

\* A decision is final but for the presses that had found the row open before it
\* was made: once they are done, no press, event or request changes the row, and
\* the poll of its request gets that decision.
DecisionStable ==
    [][\A a \in Rows :
         status[a] \in Decisions /\ (\A h \in Handlers : at[h] = "found" => target[h] # a)
           => status'[a] = status[a] /\ request'[a] = request[a]]_vars

\* As long as no two presses of a row overlap, presses are handled one at a time,
\* what a press has read is still so when it is applied, and approved rows belong
\* to granted requests.
PressInv ==
    ~contended =>
        /\ \A g, h \in Handlers : at[g] # "idle" /\ at[h] # "idle" => g = h
        /\ \A a \in Rows : status[a] = "approved" => request[a] \in granted \cup {None}
        /\ \A h \in Handlers :
             /\ at[h] # "idle" => /\ press[h].row \in Open
                                  /\ press[h].decision = "approved" => press[h].request \in granted
             /\ at[h] = "found" => target[h] = press[h].row /\ written[h] = press[h].request

\* An approving press is in hand, or has made a row that no call has been allowed by,
\* or a call was allowed by it.
Approving == {h \in Handlers : at[h] # "idle" /\ press[h].decision = "approved"}
Unused    == {a \in Rows : status[a] = "approved" /\ request[a] \notin Allowed}
SpentInv  == Cardinality(Approving) + Cardinality(Unused) + Cardinality(Allowed) <= approvals

\* The request waits, owns a row, and a prompt of its own is in the channel.
Prompted(r) ==
    /\ call[r] = "asked"
    /\ \E p \in prompts : p.request = r /\ request[p.row] = r

\* If prompts are answered, a request with a prompt of its own is decided, unless
\* another's id takes the place of its own in its row: that of a later request, or
\* that of a press which had read the row before this one asked, or which overlaps
\* the press of its prompt.  Nothing else loses the answer.
PromptedAnswered ==
    \A r \in Requests : Prompted(r) ~> call[r] # "asked" \/ r \in displaced
=============================================================================
