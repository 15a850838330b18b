----------------------------- MODULE Scheduler -----------------------------
(* The cron schedules: the rows that provisioning and operators write, and  *)
(* the jobs that the gateway's in-memory scheduler runs                     *)
(* (gateway/scheduler.py, gateway/provisioner.py, the schedule routes of    *)
(* gateway/api.py and the watcher of gateway/main.py).                      *)
(*                                                                          *)
(* Three parties change the jobs.  A start of the gateway registers all     *)
(* enabled rows.  An operator's request commits a row and then registers or *)
(* removes its job.  The watcher notices a new activation, reads the rows   *)
(* and then makes the jobs match what it read.  An activation commits its   *)
(* revision first and the rows of the schedules after that; in a managed    *)
(* instance it holds the deployment guard around both.                      *)
EXTENDS Integers, FiniteSets

CONSTANTS Schedules, Versions, None,
          Broken,            \* versions whose cron expression does not parse
          Requests,          \* operators' requests
          MaxActivations, MaxStarts

SchedulerAssumption ==
  /\ None \notin Versions /\ Broken \subseteq Versions
  /\ MaxActivations \in Nat /\ MaxStarts \in Nat

VARIABLES
  managed,    \* activations hold the deployment guard
  guard,      \* the guard is there
  revision,   \* number of the last successful activation
  activation, \* stage of the activation in progress
  rows,       \* version of each schedule, and whether it is enabled
  paused,     \* the agent is paused
  gateway,    \* "up", "down" or "scanned"
  jobs,       \* version each registered job was made from, or None
  watcher,    \* its stage, the revision it knows, the one it is at, its rows,
              \* and the names that changed since it read them
  request,    \* the operators' requests
  handler,    \* the job that has fired and found its row enabled, or None
  crossed,    \* names whose job may not match, see below
  starts

vars == <<managed, guard, revision, activation, rows, paused, gateway, jobs,
          watcher, request, handler, crossed, starts>>

Gone == [version |-> None, enabled |-> FALSE]
Row  == [version : Versions, enabled : BOOLEAN] \cup {Gone}

Watching == [stage |-> "idle", seen |-> 0, next |-> 0,
             rows |-> [s \in Schedules |-> Gone], dirty |-> {}]
Idle == [stage |-> "idle", name |-> None, row |-> Gone]

Parses(row) == row.enabled => row.version \notin Broken

(* The job of a row: one that is disabled, or does not parse, has none. *)
JobOf(row) == IF row.enabled /\ Parses(row) THEN row.version ELSE None

Init ==
  /\ managed \in BOOLEAN /\ guard = FALSE /\ revision = 0
  /\ activation = "none"
  /\ rows = [s \in Schedules |-> Gone] /\ paused = FALSE
  /\ gateway = "down" /\ jobs = [s \in Schedules |-> None]
  /\ watcher = Watching /\ request = [q \in Requests |-> Idle]
  /\ handler = None /\ crossed = {} /\ starts = 0

-----------------------------------------------------------------------------
(* Activations and provisioning *)

BeginActivation ==
  /\ activation = "none" /\ revision < MaxActivations
  /\ activation' = "syncing" /\ guard' = managed
  /\ UNCHANGED <<managed, revision, rows, paused, gateway, jobs, watcher,
                 request, handler, crossed, starts>>

CommitRevision ==
  /\ activation = "syncing" /\ activation' = "provisioning"
  /\ revision' = revision + 1
  /\ UNCHANGED <<managed, guard, rows, paused, gateway, jobs, watcher, request,
                 handler, crossed, starts>>

(* Too late for the watcher: it has taken its rows, or knows the revision.  *)
Taken == watcher.stage = "rows" \/ watcher.seen = revision

(* A scan of the checkout replaces all rows, their enabled flags included;  *)
(* a schedule that is no longer in agent.yaml is deleted.                    *)
Scan == rows' \in [Schedules -> Row]

Provision ==
  /\ activation = "provisioning" /\ activation' = "leaving"
  /\ Scan
  /\ crossed' = IF Taken THEN Schedules ELSE crossed
  /\ watcher' = [watcher EXCEPT !.dirty = IF Taken THEN Schedules ELSE @]
  /\ UNCHANGED <<managed, guard, revision, paused, gateway, jobs, request,
                 handler, starts>>

EndActivation ==
  /\ activation = "leaving" /\ activation' = "none" /\ guard' = FALSE
  /\ UNCHANGED <<managed, revision, rows, paused, gateway, jobs, watcher,
                 request, handler, crossed, starts>>

-----------------------------------------------------------------------------
(* The gateway starts and stops *)

StartScan ==
  /\ gateway = "down" /\ starts < MaxStarts /\ starts' = starts + 1
  /\ gateway' = "scanned" /\ Scan
  /\ UNCHANGED <<managed, guard, revision, activation, paused, jobs, watcher,
                 request, handler, crossed>>

(* Every enabled row is registered; one that does not parse is skipped. *)
StartScheduler ==
  /\ gateway = "scanned" /\ gateway' = "up"
  /\ jobs' = [s \in Schedules |-> JobOf(rows[s])]
  /\ crossed' = {}
  /\ UNCHANGED <<managed, guard, revision, activation, rows, paused, watcher,
                 request, handler, starts>>

Stop ==
  /\ gateway = "up" /\ starts < MaxStarts /\ gateway' = "down"
  /\ jobs' = [s \in Schedules |-> None]
  /\ watcher' = Watching /\ handler' = None
  /\ request' = [q \in Requests |->
       IF request[q].stage = "idle" THEN Idle ELSE [Idle EXCEPT !.stage = "done"]]
  /\ UNCHANGED <<managed, guard, revision, activation, rows, paused,
                 crossed, starts>>

-----------------------------------------------------------------------------
(* The watcher, once a second *)

CheckGuard ==
  /\ gateway = "up" /\ watcher.stage = "idle" /\ ~guard
  /\ watcher.seen # revision \/ activation # "none"
  /\ watcher' = [watcher EXCEPT !.stage = "unguarded"]
  /\ UNCHANGED <<managed, guard, revision, activation, rows, paused, gateway,
                 jobs, request, handler, crossed, starts>>

ReadRevision ==
  /\ watcher.stage = "unguarded"
  /\ watcher' = IF watcher.seen = revision
                  THEN [watcher EXCEPT !.stage = "idle"]
                  ELSE [watcher EXCEPT !.stage = "reload", !.next = revision]
  /\ UNCHANGED <<managed, guard, revision, activation, rows, paused, gateway,
                 jobs, request, handler, crossed, starts>>

Pending == {request[q].name : q \in {p \in Requests : request[p].stage = "committed"}}

ReadRows ==
  /\ watcher.stage = "reload"
  /\ watcher' = [watcher EXCEPT !.stage = "rows", !.rows = rows, !.dirty = Pending]
  /\ UNCHANGED <<managed, guard, revision, activation, rows, paused, gateway,
                 jobs, request, handler, crossed, starts>>

\* Mutant: the jobs of rows that are gone or disabled are not removed.
ReconciledAdds ==
  [s \in Schedules |-> IF watcher.rows[s].enabled THEN watcher.rows[s].version
                       ELSE jobs[s]]

Reconciled == [s \in Schedules |-> JobOf(watcher.rows[s])]

(* One enabled row that does not parse stops the whole reload; the revision *)
(* stays unknown, and the next second tries again.                           *)
Reconcile ==
  /\ watcher.stage = "rows"
  /\ IF \A s \in Schedules : Parses(watcher.rows[s])
       THEN /\ jobs' = Reconciled /\ crossed' = watcher.dirty
            /\ watcher' = [Watching EXCEPT !.seen = watcher.next]
       ELSE /\ watcher' = [Watching EXCEPT !.seen = watcher.seen]
            /\ UNCHANGED <<jobs, crossed>>
  /\ UNCHANGED <<managed, guard, revision, activation, rows, paused, gateway,
                 request, handler, starts>>

-----------------------------------------------------------------------------
(* An operator enables or disables a schedule *)

(* The row is committed.  Somebody else who has the same row between its    *)
(* commit and its job crosses this request, and so does a watcher that has  *)
(* read the row before.                                                      *)
CommitRow(q, s, on) ==
  /\ gateway = "up" /\ request[q].stage = "idle" /\ rows[s] # Gone
  /\ rows' = [rows EXCEPT ![s].enabled = on]
  /\ request' = [request EXCEPT ![q] =
       [stage |-> "committed", name |-> s, row |-> rows'[s]]]
  /\ crossed' = crossed \cup ({s} \cap Pending)
  /\ watcher' = [watcher EXCEPT !.dirty = @ \cup {s}]
  /\ UNCHANGED <<managed, guard, revision, activation, paused, gateway, jobs,
                 handler, starts>>

(* Then the job follows; if the expression does not parse the request fails *)
(* here, with the row committed.                                             *)
ChangeJob(q) ==
  LET s == request[q].name IN
  /\ request[q].stage = "committed"
  /\ jobs' = [jobs EXCEPT ![s] =
       IF Parses(request[q].row) THEN JobOf(request[q].row) ELSE @]
  /\ request' = [request EXCEPT ![q] = [Idle EXCEPT !.stage = "done"]]
  /\ crossed' = IF rows[s] # request[q].row THEN crossed \cup {s} ELSE crossed
  /\ watcher' = [watcher EXCEPT !.dirty = @ \cup {s}]
  /\ UNCHANGED <<managed, guard, revision, activation, rows, paused, gateway,
                 handler, starts>>

PauseAgent ==
  /\ gateway = "up" /\ paused' = ~paused
  /\ UNCHANGED <<managed, guard, revision, activation, rows, gateway, jobs,
                 watcher, request, handler, crossed, starts>>

-----------------------------------------------------------------------------
(* A job fires.  It creates a task from what was registered, if the row is  *)
(* now enabled and the agent not paused; creating it is TaskQueue's business. *)
Fire(s) ==
  /\ gateway = "up" /\ jobs[s] # None /\ handler = None
  /\ rows[s].enabled /\ ~paused
  /\ handler' = [name |-> s, version |-> jobs[s]]
  /\ UNCHANGED <<managed, guard, revision, activation, rows, paused, gateway,
                 jobs, watcher, request, crossed, starts>>

CreateTask ==
  /\ handler # None /\ handler' = None
  /\ UNCHANGED <<managed, guard, revision, activation, rows, paused, gateway,
                 jobs, watcher, request, crossed, starts>>

-----------------------------------------------------------------------------
Next ==
  \/ BeginActivation \/ CommitRevision \/ Provision \/ EndActivation
  \/ StartScan \/ StartScheduler \/ Stop
  \/ CheckGuard \/ ReadRevision \/ ReadRows \/ Reconcile
  \/ \E q \in Requests :
       \/ \E s \in Schedules, on \in BOOLEAN : CommitRow(q, s, on)
       \/ ChangeJob(q)
  \/ PauseAgent
  \/ \E s \in Schedules : Fire(s)
  \/ CreateTask

Spec == Init /\ [][Next]_vars

-----------------------------------------------------------------------------
(* When nothing is under way and the watcher knows the last activation,     *)
(* each enabled schedule that parses has the job of its row, and no other   *)
(* has one: except those that two parties changed at the same time, whose   *)
(* job stays wrong until the next activation or start.                       *)
JobsMatchRows ==
  gateway = "up" /\ activation = "none" /\ Pending = {}
    /\ watcher.stage = "idle" /\ watcher.seen = revision
  => \A s \in Schedules \ crossed :
       jobs[s] = JobOf(rows[s])

-----------------------------------------------------------------------------
(* What the property rests on *)

TypeOK ==
  /\ rows \in [Schedules -> Row]
  /\ request \in [Requests -> [stage : {"idle", "committed", "done"},
                               name : Schedules \cup {None}, row : Row]]
  /\ \A q \in Requests : request[q].stage = "committed" =>
       request[q].name \in Schedules /\ request[q].row # Gone
  /\ jobs \in [Schedules -> Versions \cup {None}]
  /\ watcher \in [stage : {"idle", "unguarded", "reload", "rows"}, seen : Nat,
                  next : Nat, rows : [Schedules -> Row], dirty : SUBSET Schedules]
  /\ revision \in Nat /\ crossed \subseteq Schedules
  /\ watcher.seen <= revision /\ watcher.next <= revision

(* The job of s is that of its row, but for the flag that a request has     *)
(* committed and not acted on yet.                                           *)
Matches(s) ==
  /\ s \notin Pending => jobs[s] = JobOf(rows[s])
  /\ s \in Pending => \E on \in BOOLEAN : jobs[s] = JobOf([rows[s] EXCEPT !.enabled = on])
  /\ \A q \in Requests : request[q].stage = "committed" /\ request[q].name = s
       => request[q].row = rows[s]

SchedulerInv ==
  /\ TypeOK
  /\ gateway = "up" /\ watcher.seen = revision => \A s \in Schedules \ crossed : Matches(s)
  /\ watcher.stage = "rows" =>
       \A s \in Schedules \ watcher.dirty : watcher.rows[s] = rows[s] /\ s \notin Pending
  /\ gateway # "up" => watcher = Watching /\ Pending = {}
  /\ activation = "provisioning" => revision > 0
============================================================================
