------------------------------ MODULE MCSources ------------------------------
(* Where tasks come from: submissions of alerts with two policies (key 1 is  *)
(* the identity of the alert, key 2 its sender), the scheduler, the PubSub   *)
(* connector and the ServiceNow connector.  They share no state here.  A     *)
(* behaviour runs one of them; the connectors use the slots s1, s2, ..., and *)
(* leave those they do not need empty.                                       *)
EXTENDS TaskSubmission, TLC

\* p1 and p2 are alike, and so are q1 and q2.
CONSTANTS
    a1, a2, a3, a4, p1, p2, p3, q1, q2,
    Schedules, Versions, Broken, Requests, MaxRevisions, MaxStarts,   \* Scheduler
    Messages, Passes, Callbacks, MaxActivations,                      \* PubSubConnector
    Records, Configs, Identity, PageLimit, MaxSeen, MaxReloads,       \* ServiceNowConnector
    MaxFaults                                                         \* both connectors

VARIABLES part, s1, s2, s3, s4, s5, s6, s7, s8, s9, s10, s11, s12, s13, s14, s15

identity(w) == [key |-> 1, window |-> w, any |-> FALSE]
sender(w)   == [key |-> 2, window |-> w, any |-> TRUE]

\* Two alerts carry the identity and the sender, in either order; the others one
\* of the two, so that they may match one task and have no key in common.
MCChecks ==
  a1 :> <<identity(2), sender(1)>> @@ a2 :> <<sender(1), identity(1)>>
    @@ a3 :> <<identity(1)>> @@ a4 :> <<sender(1)>>

S == INSTANCE Scheduler WITH
       MaxActivations <- MaxRevisions,
       managed <- s1, guard <- s2, revision <- s3, activation <- s4, rows <- s5,
       paused <- s6, gateway <- s7, jobs <- s8, watcher <- s9, request <- s10,
       handler <- s11, crossed <- s12, starts <- s13

P == INSTANCE PubSubConnector WITH
       managed <- s1, activation <- s2, file <- s3, revision <- s4, paused <- s5,
       pc <- s6, config <- s7, outer <- s8, inner <- s9, latest <- s10, call <- s11,
       acked <- s12, dropped <- s13, tasks <- s14, faults <- s15

N == INSTANCE ServiceNowConnector WITH
       table <- s1, config <- s2, source <- s3, seen <- s4, pc <- s5, batch <- s6,
       due <- s7, paused <- s8, created <- s9, lost <- s10, reloads <- s11,
       faults <- s12

MCPasses   == <<{}, {1}>>
MCIdentity == <<"a", "b">>

ASSUME Assumptions ==
  S!SchedulerAssumption /\ P!PubSubAssumption /\ N!ServiceNowAssumption

-----------------------------------------------------------------------------
slots == <<s1, s2, s3, s4, s5, s6, s7, s8, s9, s10, s11, s12, s13, s14, s15>>
mcvars == <<part, vars, slots>>

Empty ==
  /\ s1 = None /\ s2 = None /\ s3 = None /\ s4 = None /\ s5 = None /\ s6 = None
  /\ s7 = None /\ s8 = None /\ s9 = None /\ s10 = None /\ s11 = None /\ s12 = None
  /\ s13 = None /\ s14 = None /\ s15 = None

MCInit ==
  /\ Init
  /\ \/ part \in {"submission", "policies"} /\ Empty
     \/ part = "scheduler"  /\ S!Init /\ s14 = None /\ s15 = None
     \/ part = "pubsub"     /\ P!Init
     \/ part = "servicenow" /\ N!Init /\ s13 = None /\ s14 = None /\ s15 = None

\* Three of the four alerts arrive, in one behaviour or the other; in the other
\* no submission dies.
MCNext ==
  \/ part = "submission" /\ Next /\ pc'[a4] = "idle" /\ UNCHANGED <<part, slots>>
  \/ part = "policies"   /\ Next /\ pc'[a2] = "idle" /\ crashes' = 0
                           /\ UNCHANGED <<part, slots>>
  \/ part = "scheduler"  /\ S!Next /\ UNCHANGED <<part, vars, s14, s15>>
  \/ part = "pubsub"     /\ P!Next /\ UNCHANGED <<part, vars>>
  \/ part = "servicenow" /\ N!Next /\ UNCHANGED <<part, vars, s13, s14, s15>>

MCSpec == MCInit /\ [][MCNext]_mcvars

\* Names that no definition tells apart.
Symmetry == Permutations({p1, p2}) \cup Permutations({q1, q2})

-----------------------------------------------------------------------------
\* The property of each part, for the behaviours that run it.
JobsMatchRows    == part = "scheduler"  => S!JobsMatchRows
ConnectorKeepsUp == part = "pubsub"     => P!ConnectorKeepsUp
PolledOnce       == part = "servicenow" => N!PolledOnce
===============================================================================
