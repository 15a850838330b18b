-------------------------- MODULE PubSubConnector --------------------------
(* The Pub/Sub connector (connectors/gcp-pubsub-connector/main.py): one     *)
(* coroutine that subscribes, follows the activated configuration and the   *)
(* pause flag, and callbacks on threads of the client library, each with    *)
(* one message and the configuration of the subscription it came through.   *)
(*                                                                          *)
(* A subscription that ends does not wait for its callbacks.  Pub/Sub       *)
(* delivers at least once: a message that is not acknowledged comes again,  *)
(* also while an earlier callback still has it.                             *)
EXTENDS Integers, FiniteSets

CONSTANTS Messages, Versions, None,
          Passes,        \* messages that the payload filter of a version lets in
          Callbacks,     \* threads of the subscriber
          MaxActivations, MaxFaults

PubSubAssumption ==
  /\ None \notin Versions /\ None \notin Nat
  /\ Passes \in [Versions -> SUBSET Messages]
  /\ MaxActivations \in Nat /\ MaxFaults \in Nat

VARIABLES
  managed,    \* activations hold the deployment guard
  activation, \* "none", "open" or "failed"
  file,       \* version of the configuration on disk
  revision,   \* number of the last activation
  paused,     \* the pause flag of the connector
  pc,         \* "down", "start", "loop", "reload", "ready", "waiting", "compare"
  config,     \* version the coroutine holds
  outer,      \* revision of run_subscriber
  inner,      \* revision of _wait_for_subscriber
  latest,     \* revision it has just read
  call,       \* what each callback has in hand
  acked,      \* messages Pub/Sub has forgotten
  dropped,    \* history: message and version whose filter rejected it
  tasks,      \* messages a task was created for
  faults

vars == <<managed, activation, file, revision, paused, pc, config, outer, inner,
          latest, call, acked, dropped, tasks, faults>>

world   == <<managed, activation, file, revision, paused>>
process == <<pc, config, outer, inner, latest>>
mail    == <<call, acked, dropped, tasks>>

Free == [message |-> None, config |-> None, stage |-> "free", open |-> FALSE]

Init ==
  /\ managed \in BOOLEAN /\ activation = "none" /\ file \in Versions
  /\ revision = 0 /\ paused \in BOOLEAN
  /\ pc = "down" /\ config = file /\ outer = None /\ inner = None /\ latest = None
  /\ call = [c \in Callbacks |-> Free]
  /\ acked = {} /\ dropped = {} /\ tasks = {} /\ faults = 0

Fault == faults < MaxFaults /\ faults' = faults + 1

-----------------------------------------------------------------------------
(* Activations, and the operator's pause *)

BeginActivation ==
  /\ activation # "open" /\ revision < MaxActivations /\ activation' = "open"
  /\ UNCHANGED <<managed, file, revision, paused, process, mail, faults>>

MoveFile(v) ==
  /\ activation = "open" /\ file' = v
  /\ UNCHANGED <<managed, activation, revision, paused, process, mail, faults>>

Activate ==
  /\ activation = "open" /\ activation' = "none" /\ revision' = revision + 1
  /\ UNCHANGED <<managed, file, paused, process, mail, faults>>

(* A pipeline that fails records its error and leaves the files it moved.   *)
FailActivation ==
  /\ activation = "open" /\ Fault /\ activation' = "failed"
  /\ UNCHANGED <<managed, file, revision, paused, process, mail>>

SetPaused ==
  /\ paused' = ~paused
  /\ UNCHANGED <<managed, activation, file, revision, process, mail, faults>>

(* Nothing is active behind the guard or after a failure.                   *)
ActiveRevision ==
  IF activation = "failed" \/ (managed /\ activation = "open") THEN None
  ELSE revision

-----------------------------------------------------------------------------
(* The coroutine *)

Start ==
  \/ /\ pc = "down" /\ outer' = ActiveRevision /\ pc' = "start"
     /\ UNCHANGED <<world, config, inner, latest, mail, faults>>
  \/ /\ pc = "start" /\ config' = file /\ pc' = "loop"
     /\ UNCHANGED <<world, outer, inner, latest, mail, faults>>

Changed(known) == latest' # None /\ latest' # known

LoopRead ==
  /\ pc = "loop" /\ latest' = ActiveRevision
  /\ pc' = IF Changed(outer) THEN "reload" ELSE "ready"
  /\ UNCHANGED <<world, config, outer, inner, mail, faults>>

Reload ==
  /\ pc = "reload" /\ config' = file /\ outer' = latest /\ pc' = "ready"
  /\ UNCHANGED <<world, inner, latest, mail, faults>>

Subscribe ==
  /\ pc = "ready" /\ ~paused /\ pc' = "waiting" /\ inner' = outer
  /\ UNCHANGED <<world, config, outer, latest, mail, faults>>

ReadyPaused ==
  /\ pc = "ready" /\ paused /\ pc' = "loop"
  /\ UNCHANGED <<world, config, outer, inner, latest, mail, faults>>

(* future.cancel and subscriber.close: the callbacks go on by themselves.   *)
Closed == [c \in Callbacks |-> [call[c] EXCEPT !.open = FALSE]]

Unsubscribe == pc' = "loop" /\ call' = Closed

WaitPaused ==
  /\ pc = "waiting" /\ paused /\ Unsubscribe
  /\ UNCHANGED <<world, config, outer, inner, latest, acked, dropped, tasks, faults>>

WaitRead ==
  /\ pc = "waiting" /\ ~paused /\ latest' = ActiveRevision
  /\ pc' = IF Changed(inner) THEN "compare" ELSE "waiting"
  /\ UNCHANGED <<world, config, outer, inner, mail, faults>>

Compare ==
  /\ pc = "compare"
  /\ \/ file # config /\ Unsubscribe /\ UNCHANGED inner
     \/ file = config /\ inner' = latest /\ pc' = "waiting" /\ UNCHANGED call
  /\ UNCHANGED <<world, config, outer, latest, acked, dropped, tasks, faults>>

(* The stream ends by itself, a read fails, or SIGTERM: the process exits,  *)
(* its callbacks with it, and the container is started again.               *)
Exit ==
  /\ pc # "down" /\ Fault /\ pc' = "down"
  /\ call' = [c \in Callbacks |-> Free]
  /\ outer' = None /\ inner' = None /\ latest' = None
  /\ UNCHANGED <<world, config, acked, dropped, tasks>>

-----------------------------------------------------------------------------
(* The callbacks *)

Deliver(c, m) ==
  /\ pc \in {"waiting", "compare"} /\ call[c] = Free /\ m \notin acked
  /\ call' = [call EXCEPT ![c] =
       [message |-> m, config |-> config, stage |-> "begun", open |-> TRUE]]
  /\ UNCHANGED <<world, process, acked, dropped, tasks, faults>>

(* An acknowledgement through a closed subscription may be lost.            *)
Acknowledge(c) ==
  \/ acked' = acked \cup {call[c].message}
  \/ ~call[c].open /\ UNCHANGED acked

Filter(c) ==
  LET m == call[c].message  v == call[c].config IN
  /\ call[c].stage = "begun"
  /\ IF m \in Passes[v]
       THEN /\ call' = [call EXCEPT ![c].stage = "passed"]
            /\ UNCHANGED <<acked, dropped>>
       ELSE /\ dropped' = dropped \cup {<<m, v>>} /\ Acknowledge(c)
            /\ call' = [call EXCEPT ![c] = Free]
  /\ UNCHANGED <<world, process, tasks, faults>>

Nack(c) == call' = [call EXCEPT ![c] = Free] /\ UNCHANGED acked

\* Mutant: the result of the coroutine is not looked at.
CheckPausedIgnored(c) ==
  /\ call[c].stage = "passed"
  /\ IF paused THEN /\ Acknowledge(c) /\ call' = [call EXCEPT ![c] = Free]
               ELSE call' = [call EXCEPT ![c].stage = "active"] /\ UNCHANGED acked
  /\ UNCHANGED <<world, process, dropped, tasks, faults>>

CheckPaused(c) ==
  /\ call[c].stage = "passed"
  /\ IF paused THEN Nack(c)
               ELSE call' = [call EXCEPT ![c].stage = "active"] /\ UNCHANGED acked
  /\ UNCHANGED <<world, process, dropped, tasks, faults>>

(* The object is fetched and the task submitted, which merges with an open  *)
(* one of its key (TaskSubmission).  Either fails before or after the commit. *)
CreateTask(c) ==
  /\ call[c].stage = "active"
  /\ \/ /\ tasks' = tasks \cup {call[c].message}
        /\ call' = [call EXCEPT ![c].stage = "created"]
        /\ UNCHANGED <<acked, faults>>
     \/ Fault /\ Nack(c) /\ UNCHANGED tasks
     \/ Fault /\ Nack(c) /\ tasks' = tasks \cup {call[c].message}
  /\ UNCHANGED <<world, process, dropped>>

Ack(c) ==
  /\ call[c].stage = "created" /\ Acknowledge(c)
  /\ call' = [call EXCEPT ![c] = Free]
  /\ UNCHANGED <<world, process, dropped, tasks, faults>>

-----------------------------------------------------------------------------
Next ==
  \/ BeginActivation \/ (\E v \in Versions : MoveFile(v))
  \/ Activate \/ FailActivation \/ SetPaused
  \/ Start \/ LoopRead \/ Reload \/ Subscribe \/ ReadyPaused
  \/ WaitPaused \/ WaitRead \/ Compare \/ Exit
  \/ \E c \in Callbacks :
       \/ \E m \in Messages : Deliver(c, m)
       \/ Filter(c) \/ CheckPaused(c) \/ CreateTask(c) \/ Ack(c)

Spec == Init /\ [][Next]_vars

-----------------------------------------------------------------------------
(* A message that Pub/Sub has forgotten has its task, or the filter of a    *)
(* configuration it was delivered under rejected it.                        *)
AckedHandled ==
  \A m \in acked : m \in tasks \/ \E v \in Versions : <<m, v>> \in dropped

(* A subscription that knows the last activation runs with its files.       *)
ConfigFollowed ==
  pc = "waiting" /\ activation = "none" /\ inner = revision => config = file

(* The connector neither loses a message to a pause, a failure, a change of *)
(* configuration or a restart, nor goes on with a configuration that an     *)
(* activation has replaced once it has seen that activation.                *)
ConnectorKeepsUp == AckedHandled /\ ConfigFollowed

-----------------------------------------------------------------------------
(* What the property rests on *)

(* A callback that holds a message has a configuration, and has its task    *)
(* before it acknowledges.                                                   *)
CallInv ==
  /\ call \in [Callbacks -> [message : Messages \cup {None},
                             config : Versions \cup {None},
                             stage : {"free", "begun", "passed", "active", "created"},
                             open : BOOLEAN]]
  /\ \A c \in Callbacks :
       /\ call[c].stage # "free" => call[c].config \in Versions
       /\ call[c].stage = "created" => call[c].message \in tasks
  /\ AckedHandled

(* The files of a revision do not change until the next activation begins:  *)
(* who knows the last one has its files.                                     *)
Follows(known) == activation = "none" /\ known = revision => config = file

RevisionInv ==
  /\ file \in Versions /\ config \in Versions /\ revision \in Nat
  /\ \A known \in {outer, inner, latest} : known = None \/ known \in 0..revision
  /\ pc \notin {"down", "start"} => Follows(outer)
  /\ pc \in {"waiting", "compare"} => Follows(inner)

ConnectorInv == CallInv /\ RevisionInv
=============================================================================
