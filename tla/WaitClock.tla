------------------------------ MODULE WaitClock ------------------------------
(***************************************************************************)
(* The clocks of one task: the active-time ceiling of a session, which must  *)
(* not count the time a human takes to answer, and the deadline of such a    *)
(* wait.  The task row keeps wait_started, waited_sec and wait_deadline; the *)
(* event collector opens and closes a wait, dequeue_task closes it, and the  *)
(* two sweeps of the heartbeat monitor read the columns.  The runtime keeps  *)
(* a limit of its own for every request.                                     *)
(*                                                                           *)
(* The sweeps run many times per unit of time: no tick passes while one of   *)
(* them has something to do.                                                 *)
(***************************************************************************)
EXTENDS Integers

CONSTANTS Reqs,            \* human requests: approvals and clarifications
          Budget,          \* wait_timeout_sec of each request
          RuntimeTimeout,  \* runtime.runtime_timeout_sec
          MaxAttempts,     \* bound: session attempts (reruns + 1)
          MaxTime          \* bound: clock

ASSUME ClockAssumption ==
    /\ Budget \in [Reqs -> Nat \ {0}]
    /\ RuntimeTimeout \in Nat \ {0}
    /\ MaxAttempts \in Nat \ {0}
    /\ MaxTime \in Nat

Null == -1

VARIABLES now, status,
          started,        \* Session.started of the latest attempt
          wait_started, waited_sec, wait_deadline,
          ask,            \* what the runtime does about each request
          since,          \* when the request was made
          attempt,
          active,         \* history: time of this attempt with no request open
          worked,         \* history: time of this attempt in status running
          shadowed,       \* history: open requests whose wait the answer to another
                          \* one has closed, and none opened again
          exposed         \* history: time of this attempt with a shadowed request

columns == <<wait_started, waited_sec, wait_deadline>>
runtime == <<ask, since>>
history == <<active, worked, exposed>>
vars == <<now, status, started, columns, runtime, attempt, shadowed, history>>

LiveStatuses == {"running", "waiting", "resume_pending"}
Live == status \in LiveStatuses
Ended == [q \in Reqs |-> "no"]

Init ==
    /\ now = 0 /\ status = "queued" /\ started = Null
    /\ wait_started = Null /\ waited_sec = 0 /\ wait_deadline = Null
    /\ ask = Ended /\ since = [q \in Reqs |-> 0]
    /\ attempt = 1 /\ active = 0 /\ worked = 0
    /\ shadowed = {} /\ exposed = 0

\* Mutant: a repeated request restarts the clock.
wait_restarted_updates(q) ==
    /\ wait_started' = now
    /\ wait_deadline' = now + Budget[q]
    /\ UNCHANGED waited_sec

\* Start the clock unless a wait is open; the deadline counts from its start.
wait_started_updates(q) ==
    LET begin == IF wait_started = Null THEN now ELSE wait_started IN
    /\ wait_started' = begin
    /\ wait_deadline' = begin + Budget[q]
    /\ UNCHANGED waited_sec

\* Mutant: the wait is closed without being added up.
wait_dropped_updates ==
    /\ wait_started' = Null
    /\ UNCHANGED waited_sec

\* Mutant: an answered wait stays open.
wait_kept_updates == UNCHANGED <<wait_started, waited_sec>>

\* Mutant: the operands of the elapsed time are swapped.
wait_negative_updates ==
    /\ wait_started' = Null
    /\ waited_sec' = IF wait_started = Null THEN waited_sec ELSE waited_sec + (wait_started - now)

wait_finished_updates ==
    /\ wait_started' = Null
    /\ waited_sec' = IF wait_started = Null THEN waited_sec ELSE waited_sec + (now - wait_started)

\* The active time the sweep computes from the row.
active_runtime_sec ==
    LET open == IF wait_started = Null THEN 0 ELSE now - wait_started
        t == now - started - waited_sec - open
    IN  IF t < 0 THEN 0 ELSE t

-----------------------------------------------------------------------------
\* A queued task is claimed and its session started.
Start ==
    /\ status = "queued"
    /\ status' = "running" /\ started' = now
    /\ wait_finished_updates /\ wait_deadline' = Null
    /\ active' = 0 /\ worked' = 0 /\ exposed' = 0
    /\ UNCHANGED <<now, runtime, attempt, shadowed>>

\* The task is claimed again after a wait.
Resume ==
    /\ status = "resume_pending"
    /\ status' = "running"
    /\ wait_finished_updates /\ wait_deadline' = Null
    /\ UNCHANGED <<now, started, runtime, attempt, shadowed, history>>

\* approval_requested or user_question_requested: requests may overlap, and the
\* row has one wait for all of them.
Request(q) ==
    /\ Live /\ ask[q] = "no"
    /\ ask' = [ask EXCEPT ![q] = "open"]
    /\ since' = [since EXCEPT ![q] = now]
    /\ status' = "waiting"
    /\ wait_started_updates(q) /\ shadowed' = {}
    /\ UNCHANGED <<now, started, attempt, history>>

\* user_question_delivery_failed, or a request received twice
Retry(q) ==
    /\ Live /\ ask[q] = "open"
    /\ status' = "waiting"
    /\ wait_started_updates(q) /\ shadowed' = {}
    /\ UNCHANGED <<now, started, runtime, attempt, history>>

\* The answer reaches the runtime: approval_wait_resolved or
\* user_question_resolved, then the runtime waits to be admitted.  This closes
\* the wait although other requests may be open.
Resolve(q) ==
    /\ Live /\ ask[q] = "open"
    /\ ask' = [ask EXCEPT ![q] = "admission"]
    /\ status' = "resume_pending"
    /\ wait_finished_updates /\ wait_deadline' = Null
    /\ shadowed' = {r \in Reqs \ {q} : ask[r] = "open"}
    /\ UNCHANGED <<now, started, since, attempt, history>>

Admitted(q) ==
    /\ status = "running" /\ ask[q] = "admission"
    /\ ask' = [ask EXCEPT ![q] = "no"]
    /\ UNCHANGED <<now, status, started, columns, since, attempt, shadowed, history>>

\* The limit of the request passes in the runtime: the tool is denied, the
\* agent goes on, and no event is sent.
GiveUp(q) ==
    /\ Live /\ ask[q] = "open" /\ now >= since[q] + Budget[q]
    /\ ask' = [ask EXCEPT ![q] = "no"] /\ shadowed' = shadowed \ {q}
    /\ UNCHANGED <<now, status, started, columns, since, attempt, history>>

\* The session ends; nothing resets the wait columns.
End ==
    /\ Live /\ ask = Ended
    /\ status' \in {"succeeded", "failed"}
    /\ UNCHANGED <<now, started, columns, runtime, attempt, shadowed, history>>

RuntimeTimedOut == status = "running" /\ active_runtime_sec > RuntimeTimeout
WaitTimedOut == status = "waiting" /\ wait_deadline # Null /\ wait_deadline < now

\* _runtime_timeout_sweep and waiting_timeout_sweep; the Job is cancelled.
RuntimeSweep ==
    /\ RuntimeTimedOut
    /\ status' = "timed_out" /\ ask' = Ended /\ shadowed' = {}
    /\ UNCHANGED <<now, started, columns, since, attempt, history>>

WaitingSweep ==
    /\ WaitTimedOut
    /\ status' = "timed_out" /\ ask' = Ended /\ shadowed' = {}
    /\ UNCHANGED <<now, started, columns, since, attempt, history>>

\* rerun_task_api: the wait columns are not among those it resets.
Rerun ==
    /\ status \in {"failed", "timed_out"} /\ attempt < MaxAttempts
    /\ status' = "queued"
    /\ attempt' = attempt + 1
    /\ UNCHANGED <<now, started, columns, runtime, shadowed, history>>

Tick ==
    /\ now < MaxTime
    /\ ~RuntimeTimedOut /\ ~WaitTimedOut
    /\ now' = now + 1
    /\ active' = IF Live /\ \A q \in Reqs : ask[q] # "open" THEN active + 1 ELSE active
    /\ worked' = IF status = "running" THEN worked + 1 ELSE worked
    /\ exposed' = IF shadowed # {} THEN exposed + 1 ELSE exposed
    /\ UNCHANGED <<status, started, columns, runtime, attempt, shadowed>>

Next ==
    \/ Start \/ Resume \/ End \/ RuntimeSweep \/ WaitingSweep \/ Rerun \/ Tick
    \/ \E q \in Reqs : Request(q) \/ Retry(q) \/ Resolve(q) \/ Admitted(q) \/ GiveUp(q)

Spec == Init /\ [][Next]_vars

-----------------------------------------------------------------------------
\* Type invariant.
TypeOK ==
    /\ now \in 0..MaxTime
    /\ status \in LiveStatuses \cup {"queued", "succeeded", "failed", "timed_out"}
    /\ started \in Nat \cup {Null}
    /\ wait_started \in Nat \cup {Null}
    /\ waited_sec \in Nat
    /\ wait_deadline \in Nat \cup {Null}
    /\ ask \in [Reqs -> {"no", "open", "admission"}]
    /\ since \in [Reqs -> Nat]
    /\ attempt \in 1..MaxAttempts
    /\ active \in Nat /\ worked \in Nat /\ exposed \in Nat
    /\ shadowed \subseteq Reqs

\* The time the sweep charges to a session is never more than the time in
\* which no request to a human was open, and so the sweep ends no session early.
\* Requests of one session may overlap, and the first answer closes the one wait
\* the row has: the time until the wait is opened again, the next request is
\* answered or the runtime gives it up, and no other, is charged although a human
\* is being asked.
NotCutShort == Live => active_runtime_sec <= active + exposed

\* The first attempt is stopped at its ceiling: it does not work for longer than
\* runtime_timeout_sec and the time unit in which the sweep comes round.  (A
\* rerun may: rerun_task_api keeps the waits of the earlier attempts.)
CeilingEnforced == attempt = 1 => worked <= RuntimeTimeout + 1

(* The inductive invariants behind NotCutShort and CeilingEnforced.           *)
Charged == (IF wait_started = Null THEN now ELSE wait_started) - started - waited_sec

\* An open request that no answer to another one has shadowed has an open wait.
ChargeInv ==
    /\ Live => started # Null /\ Charged <= active + exposed
    /\ wait_started <= now /\ started <= now
    /\ \A q \in Reqs \ shadowed : ask[q] = "open" => status = "waiting" /\ wait_started # Null
    /\ \A q \in shadowed : ask[q] = "open"
    /\ ~Live => ask = Ended

\* In the first attempt, all time in status running is charged.
WorkInv ==
    attempt = 1 =>
      /\ status = "queued" => worked = 0 /\ waited_sec = 0 /\ wait_started = Null
      /\ status = "running" => wait_started = Null
      /\ Live => started # Null /\ worked <= Charged
      /\ worked <= RuntimeTimeout + 1

=============================================================================
