------------------------- MODULE ServiceNowConnector -------------------------
(* The ServiceNow connector (connectors/servicenow-connector/main.py): it    *)
(* polls a table, and makes a task of each record whose sys_id it has not    *)
(* seen.  What it has seen is kept in memory only, for one source identity   *)
(* (the URL, the table and the workflow); a sys_id is remembered before its  *)
(* task is submitted.                                                        *)
EXTENDS Integers, Sequences, FiniteSets

CONSTANTS Records,
          Configs,       \* configurations an activation may bring
          Identity,      \* source identity of each
          None,
          PageLimit,     \* sysparm_limit, 50
          MaxSeen,       \* 10000
          MaxReloads, MaxFaults

ServiceNowAssumption ==
  /\ None \notin Records /\ DOMAIN Identity = Configs
  /\ PageLimit \in Nat \ {0} /\ MaxSeen \in Nat
  /\ MaxReloads \in Nat /\ MaxFaults \in Nat

VARIABLES
  table,     \* the records the query matches, in the order of its reply
  config,    \* the configuration loaded
  source,    \* source_identity, None before the first pass
  seen,      \* seen_sys_ids
  pc,        \* "down", "loop", "poll", "batch" or "submit"
  batch,     \* rest of the reply
  due,       \* the interval since the last poll is over
  paused,
  created,   \* times each record was submitted since seen was last empty
  lost,      \* those whose submission failed since then
  reloads, faults

vars == <<table, config, source, seen, pc, batch, due, paused, created, lost,
          reloads, faults>>

Init ==
  /\ table = <<>> /\ config \in Configs /\ source = None /\ seen = {}
  /\ pc = "down" /\ batch = <<>> /\ due = TRUE /\ paused \in BOOLEAN
  /\ created = [r \in Records |-> 0] /\ lost = {}
  /\ reloads = 0 /\ faults = 0

Fault == faults < MaxFaults /\ faults' = faults + 1

Uncounted == created' = [r \in Records |-> 0] /\ lost' = {}

Forget == seen' = {} /\ Uncounted

-----------------------------------------------------------------------------
(* The table, the operator and the clock *)

Appear(r) ==
  /\ \A n \in DOMAIN table : table[n] # r
  /\ table' = Append(table, r)
  /\ UNCHANGED <<config, source, seen, pc, batch, due, paused, created, lost,
                 reloads, faults>>

(* A record that no longer matches, closed or resolved for instance.        *)
Disappear ==
  /\ table # <<>> /\ table' = Tail(table)
  /\ UNCHANGED <<config, source, seen, pc, batch, due, paused, created, lost,
                 reloads, faults>>

SetPaused ==
  /\ paused' = ~paused
  /\ UNCHANGED <<table, config, source, seen, pc, batch, due, created, lost,
                 reloads, faults>>

Tick ==
  /\ ~due /\ due' = TRUE
  /\ UNCHANGED <<table, config, source, seen, pc, batch, paused, created, lost,
                 reloads, faults>>

-----------------------------------------------------------------------------
(* The loop *)

Start ==
  /\ pc = "down" /\ pc' = "loop" /\ config' \in Configs
  /\ source' = None /\ due' = TRUE
  /\ UNCHANGED <<table, seen, batch, paused, created, lost, reloads, faults>>

(* After an activation the file and the workflow's settings are read again,  *)
(* and the next poll is due.                                                 *)
Reload ==
  /\ pc = "loop" /\ reloads < MaxReloads /\ reloads' = reloads + 1
  /\ config' \in Configs /\ due' = TRUE
  /\ UNCHANGED <<table, source, seen, pc, batch, paused, created, lost,
                 faults>>

\* Mutant: what was seen of the old source stays seen.
IdentifyKeeps ==
  /\ source # Identity[config] /\ source' = Identity[config]
  /\ Uncounted /\ UNCHANGED seen

Identify ==
  source # Identity[config] /\ source' = Identity[config] /\ Forget

Pass ==
  /\ pc = "loop"
  /\ \/ Identify
     \/ source = Identity[config] /\ UNCHANGED <<source, seen, created, lost>>
  /\ IF due /\ ~paused THEN pc' = "poll" /\ due' = FALSE ELSE UNCHANGED <<pc, due>>
  /\ UNCHANGED <<table, config, batch, paused, reloads, faults>>

(* The reply holds at most PageLimit records; an error ends the pass.        *)
Poll ==
  /\ pc = "poll"
  /\ \/ /\ batch' = SubSeq(table, 1, IF Len(table) < PageLimit
                                       THEN Len(table) ELSE PageLimit)
        /\ pc' = "batch" /\ UNCHANGED faults
     \/ Fault /\ pc' = "loop" /\ UNCHANGED batch
  /\ UNCHANGED <<table, config, source, seen, due, paused, created, lost,
                 reloads>>

Skip ==
  /\ pc = "batch" /\ batch # <<>> /\ Head(batch) \in seen
  /\ batch' = Tail(batch)
  /\ UNCHANGED <<table, config, source, seen, pc, due, paused, created, lost,
                 reloads, faults>>

Remember ==
  /\ pc = "batch" /\ batch # <<>> /\ Head(batch) \notin seen
  /\ seen' = seen \cup {Head(batch)} /\ pc' = "submit"
  /\ UNCHANGED <<table, config, source, batch, due, paused, created, lost,
                 reloads, faults>>

Submitted(r) == created' = [created EXCEPT ![r] = @ + 1]

(* A task is created, or the record merges into an open one of its key       *)
(* (TaskSubmission).  A failure, before or after the commit, drops the rest  *)
(* of the reply; the record itself stays seen.                               *)
Submit ==
  LET r == Head(batch) IN
  /\ pc = "submit"
  /\ \/ /\ Submitted(r) /\ pc' = "batch" /\ batch' = Tail(batch)
        /\ UNCHANGED <<lost, faults>>
     \/ /\ Fault /\ pc' = "loop" /\ batch' = <<>>
        /\ lost' = lost \cup {r}
        /\ Submitted(r) \/ UNCHANGED created
  /\ UNCHANGED <<table, config, source, seen, due, paused, reloads>>

PassDone ==
  /\ pc = "batch" /\ batch = <<>> /\ pc' = "loop"
  /\ IF Cardinality(seen) > MaxSeen THEN Forget
                                    ELSE UNCHANGED <<seen, created, lost>>
  /\ UNCHANGED <<table, config, source, batch, due, paused, reloads, faults>>

(* SIGTERM, a crash, or settings that cannot be loaded end the process.      *)
Exit ==
  /\ pc # "down" /\ Fault /\ pc' = "down" /\ Forget
  /\ source' = None /\ batch' = <<>>
  /\ UNCHANGED <<table, config, due, paused, reloads>>

-----------------------------------------------------------------------------
Next ==
  \/ (\E r \in Records : Appear(r)) \/ Disappear \/ SetPaused \/ Tick
  \/ Start \/ Reload \/ Pass \/ Poll \/ Skip \/ Remember \/ Submit \/ PassDone
  \/ Exit

Spec == Init /\ [][Next]_vars

-----------------------------------------------------------------------------
(* Every record that the connector would skip has been submitted for the    *)
(* source it polls now, is being submitted, or failed to be.                *)
SkippedWasSubmitted ==
  \A r \in seen : \/ created[r] > 0 \/ r \in lost
                  \/ pc = "submit" /\ Head(batch) = r

(* None is submitted twice, unless the connector has forgotten all it saw.  *)
SubmittedOnce == \A r \in Records : created[r] <= 1

PolledOnce == SkippedWasSubmitted /\ SubmittedOnce

-----------------------------------------------------------------------------
(* What the property rests on *)

TypeOK ==
  /\ table \in Seq(Records) /\ batch \in Seq(Records)
  /\ seen \subseteq Records /\ lost \subseteq Records
  /\ created \in [Records -> Nat]

(* A record is remembered before it is submitted, and forgotten together    *)
(* with the count of its submissions.                                        *)
PollInv ==
  /\ TypeOK
  /\ \A r \in Records \ seen : created[r] = 0
  /\ pc = "submit" =>
       batch # <<>> /\ Head(batch) \in seen /\ created[Head(batch)] = 0
  /\ PolledOnce
==============================================================================
