# TLA+ specifications of Sage Run

Sage Run runs AI-agent sessions for operations work. Alerts, chat messages,
schedules and connectors become rows of a PostgreSQL task table; session managers
admit them under limits and start one Kubernetes Job per task; the runtime in the
Job drives an agent, reports events to the gateway, asks humans for approvals and
answers, and ends; sweeps end what got stuck. A separate indexer keeps the
Knowledge Sources that sessions may consult, an MCP server answers from them, and
in-cluster deployment Jobs replace the platform under its own feet.

The code has little shared memory and much shared state: nearly every hazard is
two processes that read and write the same rows or objects in separate
statements, a coroutine that goes on after an await over state that changed, or a
process that dies between two steps. The modules here model those protocols
statement by statement and check them with TLC; the results that matter most are
proved with TLAPS for all values of the parameters.

    tlc -workers 2 -config MCPlatform.cfg MCPlatform       # one run
    tlapm PlatformProofs.tla                               # one module's proofs

`PROJECT.json` lists components, runs, the source lines each definition
translates, mutants, findings, hazards and theorems.

## Inventory

| Component | State it keeps | Operations | Interacts with | What makes it correct |
| --- | --- | --- | --- | --- |
| Task queue (`shared/lib/task_queue.py`, `session-manager/main.py`) | task status, priority, `archived_at` | dequeue, complete, archive, rerun, sweeps | every service writes the row | running tasks within platform and workflow limits; nothing archived starts; the queue drains |
| Submission (`submit_task`) | `dedupe_keys`, metadata, advisory locks | submit, merge, create | connectors, message ingress, API | no duplicate task; every absorbed alert recorded; no deadlock |
| Lifecycle (`container_lifecycle.py`, `heartbeat.py`, `event_collector.py`) | status, heartbeat, container id, session row, Job | claim, launch, monitor, sweep, receive event, rerun, delete | Kubernetes, runtime pods | every task ends and its Job goes |
| Wait clock (`task_queue.py`, `event_collector.py`, `heartbeat.py`) | `wait_started`, `waited_sec`, `wait_deadline` | request, resolve, sweep | runtime, rerun | human time is not charged, the ceiling holds |
| Approvals (`approval_broker.py`, `approvals.py`, `message.py`) | approval rows, request ids, posted prompts | request, post, press, poll | runtime gate, chat providers | a call runs only if that very request was approved; decisions are final; answers arrive |
| Message ingress (`gateway/message_ingress.py`) | connection, unacknowledged envelopes, pause flags, question replies | receive, route, hydrate, submit, reply, pause, resume | chat providers, submission, runtime | one message has one effect; an answer is what a human wrote; a saved pause holds |
| Runtime session (`session_entrypoint.py`) | message stream, live subagents, human waits, conversation, flush lock | handle message, remind, time out, flush, end, SIGTERM | agent CLI, gateway | the final answer covers all subagents; the transcript is sent once, in order, before the terminal event |
| Trace tree (`shared/lib/trace_tree.py`) | nodes, pending calls, texts already shown | one pass over a session's events | UI | whatever the session produced can be found |
| Knowledge sync (`knowledge-indexer`, `knowledge_source_indexer.py`, `background_jobs.py`) | source, run and version rows, source lock | queue, claim, build, promote, fail, reconcile, edit, prune | API, housekeeping, serving | what is served is complete and of the current configuration |
| Publication (`knowledge_source_publication.py`) | immutable objects under a version's key | snapshot, extract, pack, upload | object store | a succeeded version's objects are the ones it names |
| Hybrid index and retrieval (`knowledge_source_hybrid_*.py`, `knowledge_source_confluence.py`) | pages, chunks, embeddings, membership | discover, fetch, scrub, embed, promote; query, fuse, rerank, pack | Confluence, PostgreSQL | a snapshot holds what one fetch saw; a response admits what it left out |
| Knowledge serving and cache (`knowledge_source_serving.py`, `knowledge_source_cache.py`, `task_call_budget.py`, `mcp_knowledge.py`) | cache directories, served map, pins, budgets | refresh, hydrate, pin, query, prune | object store, registry | what a call has pinned stays on disk; a suspended source leaves; searches are complete |
| Scheduler (`gateway/scheduler.py`) | schedule rows, cron jobs | start, reload, watch, enable, disable, fire | submission, provisioning | the jobs are those of the rows |
| Workflow repository and releases (`workflow_repo_sync.py`, `workflow_bundles.py`, `workflow_paths.py`) | checkout, pin, release objects, pointer | pin, sync, publish, launch | sessions, provisioning | a session gets configuration and bundle of one release |
| Connectors (`gcp-pubsub-connector`, `servicenow-connector`) | configuration, subscription, seen records | reload, subscribe, poll, submit, acknowledge | submission | at least once, no silent loss, newest configuration |
| Memory sync (`memory_sync.py`, `runtime_launchers.py`) | memory directory, latest archive, versions, marker | restore, upload, prune | sessions, object store | what a session learned reaches the next one |
| Deployment (`sage_run/incluster.py`, `deployment.py`, `remote.py`) | lock, guard, checkout, secret, Helm release, manifests, activation | deploy, recover, back up | cluster | what is installed is one commit, or something says it is not |
| Housekeeping (`shared/lib/housekeeping.py`) | retention limits | archive, delete, prune | everything above | nothing in use is removed |
| Secrets, integration MCP servers, hooks, UI | | | | sequential or stateless |

Hard behaviours: replicas that interleave at every statement of a transaction;
objects held by an ORM session that are older than their rows; events that are
lost or applied late; crashes between a Kubernetes call and the row that records
it; three clocks over one wait; button presses that overlap; locks that must be
taken in one order; coroutines that append to a list another one is sending;
deliveries acknowledged before they are handled; caches pruned under readers;
pointers that move under a launch; recoveries of which a step fails.

## Modules

| Module | Models | Abstractions |
| --- | --- | --- |
| `Admission` | abstract specification: a running slot is taken in one step, within limits | no replicas, no locks |
| `TaskQueue` | `dequeue_task` of several replicas, one action per statement, the platform advisory lock and the candidate's row lock; all other writers of a task's status; pause, archive, replica crash | timestamps are the order of tasks; Jobs are not modelled |
| `TaskSubmission` | `submit_task`: locks in sorted order, one look-up per policy, merge or create; completions, reruns, crash | a metadata list is the set of alerts recorded in it |
| `TaskLifecycle` | one task: consumer, monitor, both sweeps, Job, pods, events under way, rerun, delete | a heartbeat is fresh or stale, a deadline ahead or passed |
| `WaitClock` | the wait columns under a discrete clock; requests, resolutions, timeouts in the runtime, both sweeps, rerun | one unit of time is one sweep interval |
| `Approvals` | one gated tool of one task: calls, ledger rows, prompts, presses, polls, timeouts | prompt text and provider are left out |
| `MessageIngress` | a listener and its connection, envelopes in transit, acknowledgement and redelivery, routing, history, dedupe, presses, thread replies, a call that asks two questions and polls, pause and resume | text is left out; HTTP clients are steps that may fail; a task leaves the look-up of its dedupe policy at any time (it ends, or grows older than the window) |
| `RuntimeSession` | the loop over the CLI's messages: subagent calls inline and in the background, results, reminder, progress watchdog, overlapping human waits | tool policies, prompts and usage are left out |
| `Transcript` | the conversation list, its flushes by loop, hook and timer under one lock, the last flush, the terminal event, SIGTERM | a message is its position |
| `TraceTree` | `build_trace_tree` event by event: call and result nodes, subagents, repeated texts, counters, final answer | previews and formatting are left out; of texts only what the comparison of two needs is kept; any event may be missing |
| `KnowledgeSync` | one source: indexers, claims, both handlers, edits, manual and scheduled runs, pruning | git, Graphify, Confluence and embeddings are steps that succeed or fail |
| `KnowledgeBundle` | one code-graph sync down to its objects: snapshot, extraction, packing, publication one object at a time, retries after a fault, edits of scope and URL | a file is a model value; Graphify's log differs between runs |
| `HybridIndex` | a hybrid build over a space of pages that are edited, moved and restricted under it | a page's text is its revision and the rules that scrubbed it |
| `HybridRetrieval` | one `search_knowledge` call against promotions, suspensions and pruning | scores of the fusion are exact, in parts of a common multiple (`Scale`); what a lane or the reranker returns is any order the code allows |
| `KnowledgeServing` | the Knowledge MCP's cache: refresh, hydration, damage, pins, prune in two phases, budgets, crash and restart | a version is a number |
| `KnowledgeQueries` | `find_paths` turn by turn, and the tools that answer in one pass | symbols are numbers; a partial path is the links it follows, of which the symbols it visits (`Trail`) are a function; in a literal search a link is a matching line and its source the file, which may be one the search skips |
| `WorkflowRelease` | pin, managed and unmanaged synchronisations over one checkout, a release's objects, the pointer, a launch | a file is the commit it is of |
| `Scheduler` | gateway start, watcher, reload, enable and disable requests, agent pause, firing | cron arithmetic is the library's |
| `PubSubConnector` | reload, subscription, callback threads, pause, acknowledgement, coalescing | a configuration is the set of messages it accepts |
| `ServiceNowConnector` | settings reload, identity, poll, seen records, submission | a query returns the oldest records it matches |
| `AgentMemory` | init helper, runtime, sidecar helper and housekeeping around the memory archive | an archive is the set of sessions that wrote it |
| `Deployment` | in-cluster Jobs, the command line over SSH and the nightly backup: every step of an installation and of its recovery | manifests, values and files are the commit they are of |

Each variable is named after the column, the object or the local state it stands
for, and each action is one handler or, where a handler has several statements
that others can see between, one statement of it. Operators whose comment begins
with "Mutant" are wrong variants of the definition after them, used to show that
the properties can fail; no specification uses them.

How the modules fit together: `TaskQueue` shows that dequeuing is atomic
(property `Refinement`, theorem `ImplementsAdmission`); `TaskLifecycle` therefore
takes a claim in one step, and `WaitClock` refines what its "deadline passed" and
"heartbeat stale" mean. `Approvals` and the questions of `MessageIngress` model
what happens inside a wait. `TaskSubmission` models how the rows `TaskQueue` starts
from are created; `MessageIngress`, `Scheduler` and the connectors are its callers.
`KnowledgeBundle` opens the build step of `KnowledgeSync`, `HybridIndex` the one of
its hybrid handler; `KnowledgeServing` reads what they promote, `KnowledgeQueries`
and `HybridRetrieval` answer from it. `WorkflowRelease` and `AgentMemory` model what
a launch of `TaskLifecycle` puts into a pod.

`MC*` modules give constants that cannot be written in a `.cfg`. Six of them put
several modules side by side that share no state the properties are about: a
variable (`part` or `half`) chooses at the start which module a behaviour runs, and
the other modules' variables stay put. In `MCSources` and `MCServing` the variables
of the instantiated modules are the slots `s1`, `s2`, ... so that no state carries
variables of a part it does not run. Such a run visits the sum of
the parts' states, not their product, and each property is about the behaviours of
its part.

## Runs

Passing runs:

| Run | Shows | Bounds |
| --- | --- | --- |
| `platform` | **queue**: both limits hold and the protocol refines `Admission`; **deployment**: what is installed is one commit with its manifests, values and files, or a recovery or a guard says otherwise; **release**: a session's configuration and bundle are of one release that the pointer named; **memory**: no memory is lost except by an overlap | 3 tasks of 2 workflows (limits 1 and 2, platform 2), 2 replicas, one crash or operator action; 2 deployment Jobs, a command line and a nightly backup, 3 commits of which one is invalid, one fault; 2 synchronisations, 2 refs, one launch, one fault; 3 sessions, one version kept, 2 faults |
| `progress` | **approvals**: one open row per tool, only approved calls run, and never more than were approved, a decision stays but for presses that overlap it, an answered prompt reaches its call unless another request took its row; **queue**: every runnable task is admitted unless held back | 2 overlapping calls, 3 rows, 3 presses on 2 handlers, so that two are in hand at once, one fault; 2 tasks, one slot, 2 replicas, one crash |
| `waits` | **clock**: human time is not charged, but for what is left of a request when the answer to another one has closed the wait of both; a first attempt works at most its ceiling and one interval; **messages**: one effect per message, genuine answers, a pause that holds, every question ends | 2 requests with different limits that may overlap, 2 attempts, 6 units, which is more than the ceiling and either limit together; an alert with a key, a reply and a press, 2 routes, 2 questions, one fault and one pause or resume, on either provider |
| `lifecycle` | a running row has a heartbeat and a waiting row a deadline, so some sweep sees it; the task ends or is deleted; its Job is removed, except that of a runtime killed without its marker when its task was over | 2 pods (one rerun), one wait each, one fault of any kind (a crash, a lost event, a failed write or an operator's action) |
| `sources` | **submission**: no duplicate task, merges counted, no cycle of waiting for locks; **scheduler**: jobs are those of the rows once reloads and requests are over; **pubsub**: an acknowledged message was handled, the connector ends on the newest configuration; **servicenow**: a skipped record was submitted and none is submitted twice | 3 of 4 submissions: either the two that carry both keys in different orders and with different windows, with one crash, or two that share no key beside one that shares one with each; 3 time units; 2 schedules, 2 requests, 1 activation, 2 starts; 1 message, 2 callbacks, 2 activations, one fault; 3 records, pages of 2, 2 reloads, one fault |
| `knowledge` | the served version is complete, also after prunings that fail or die half-way, unless it is one of those whose row they kept; content of former roots is never served | 2 indexers, 2 runs and 2 versions at a time (rows are reused after pruning), 2 commits, 2 configurations for a hybrid source, one crash, prunings that fail at any versions before or after some of their objects are gone |
| `session` | **loop**: the answer covers every subagent, the watchdog fires only on silence nothing explains, the session ends; **transcript**: in order and once, but that the batch of a cancelled flush may come again, nothing missing but what a flush overtook, nothing after the terminal event; **trace**: every text, call and result that arrived can be found in the tree, unless it stood in a result that another took the place of | 2 subagent calls, 2 askers, the loop up to a message behind; 5 messages in batches of 2, one lost post; 4 events and texts with common beginnings |
| `serving` | **cache**: a pinned version stays on disk and a suspended source leaves; **bundle**: a succeeded version's objects are those its row names; **queries**: an answer that does not say it was cut is complete, that of a search as far as the files it reads go; **retrieval**: a response admits what it left out; **index**: a snapshot holds, for each page, text of one fetch under its rules | 4 versions, 2 calls of 2 tasks, one budget, one fault, one switch; 2 commits, 2 files, 2 URLs, 2 scopes, one fault and one edit; all graphs of up to 4 links out of 7 possible ones over 4 nodes, paths from 1 to 1 and to 4; 3 chunks, 2 overlapping pairs, `Scale` the least common multiple of 61, 62 and 63; 2 pages, 2 rule sets, 2 models, 2 changes |

Runs that TLC refutes, each a disagreement between the code and what the
repository says of it (the quotations are in `PROJECT.json`):

| Run | What happens |
| --- | --- |
| `session_batches` | a message appended while the timed flush posts the tail is counted as flushed and never reported |
| `release_pin` | after a pin is checked out, discovery fetches and checks out the configured reference again, so a pinned release holds files of another commit |
| `knowledge_suspended` | a code-graph source that an edit suspended stays suspended after a successful sync |
| `knowledge_url` | the URL of a source is not part of its version's identity: after it changes, the sync is skipped as done and the Knowledge MCP refuses the version it has |

Further behaviour that the models contain and that a reader may not expect. No
run states a property about these, because the code does not have it.

*Tasks.*
- The lost sweep reads the running tasks without a lock, and its later flush
  overwrites a result, a wait or a rerun that committed in between
  (`heartbeat.py:200`).
- Policies with missing key parts are skipped, so two alerts can merge into one task
  through different keys, with no common lock: one is then lost from the metadata
  (`task_queue.py:209`). `MergesCounted` is therefore about tasks all of whose alerts
  share a key, pair by pair; the run has alerts that do not.
- A pause that commits between the consumer's read of the agents and its claim is
  not seen: the task of a paused agent is started (`session-manager/main.py:80`).
- A rerun keeps `waited_sec` and `wait_started`, so a second attempt may work past
  its ceiling; `CeilingEnforced` is therefore about the first attempt.
- With overlapping requests the first to be resolved closes the wait of both, and
  the rest of the other is charged as active time, so that the sweep may stop a
  session while a human is asked. `NotCutShort` allows for exactly that time
  (`exposed`: a request is open that the answer to another one has `shadowed`).
- A runtime that is killed alone (out of memory, say) leaves no marker; the memory
  helper waits for it without a limit (`memory_sync.py:97`) and the Job has no
  deadline. As long as the task is active a sweep ends both; once its row is
  terminal no sweep looks, and the Job stays (`orphans` in `TaskLifecycle`).
  `JobReaped` is about every other Job.
- A request that times out in the runtime sends no event. The row stays waiting with
  the old `wait_started`: a later request gets the earlier wait's deadline, and the
  waiting sweep may stop a session that went on (`WaitClock!GiveUp`).
- Retention (not modelled) selects ids and acts later: a task unarchived or rerun in
  between is still deleted; a rerun does not clear `archived_at`.

*Approvals and messages.*
- Presses may overlap (`approval_broker.py:199`). The second of two presses of one
  row may overwrite the decision of the first, which it had found open; or it finds
  that row closed and decides the next request of the tool, or inserts a row that is
  already decided. Which call a decision is for holds only without such an overlap
  (`contended`); that a press lets one call run at most, and that a decision stays
  once the presses that had found its row open are done, holds with it.
- A second call of a tool takes over the open approval row of the first, whose call
  then waits until it times out (`approvals.py:125`). The reverse happens as well: a
  press of the first call's prompt that was read before the takeover writes that
  call's id back, and the second call loses its prompt. `PromptedAnswered` excepts
  the call that was `displaced` in either way, and no other.
- `gateway_delivery` is written into a dictionary the ORM does not notice
  (`approval_broker.py:282`); the model records the delivery.
- A failed history read drops the message that triggered it
  (`message_ingress.py:431`), although `docs/security.md:254` says it is used alone.
- An envelope is acknowledged before it is handled: a crash or a pause between the
  two loses it; an acknowledgement that is lost duplicates a message without a key.
- Two messages of one dedupe key become two tasks when the first task has ended or is
  older than the window of the policy (`task_queue.py:198`): `past` in
  `MessageIngress`, which the look-up of `HandledOnce` leaves out.
- `AnswersGenuine` assumes that the runtime's clock does not run behind the provider's
  (`Skew = 0`) and that Mattermost prompts are posted by a bot account: with a failed
  identity lookup of a plain account the prompt answers itself.
- After a denied or timed-out question the row stays waiting, and posts in the thread
  are swallowed as replies. Overlapping pause and resume requests may leave flag and
  listener different. A Slack route whose channel lookup failed is dead until restart.

*Sessions.*
- A refused Task or SendMessage call, a run reported "stopped" or an empty final
  result leave the loop waiting until the session timeout. A reminder injected just
  before the final result may be cut off. The watchdog's window may expire right after
  a human has answered. On a timeout or an error the unflushed tail is not sent; a
  flush cancelled in mid-post resends its batch (`cutOff`); SIGTERM ends with exit code 0 and the
  memory marker but no terminal event.
- The trace shows hooks, approvals and phases under the subagent started last, even
  after it returned.
- When a batch is lost, two results of the coordinator may meet in the trace: the
  later one is shown in the place of the earlier one if both begin alike
  (`trace_tree.py:633`), and the final result is written over the last one that
  arrived, if it is longer (`trace_tree.py:677`). The text that stood there is gone,
  with any narrative taken out for it (`displaced` in `TraceTree`).
- A task's end is reported, and its slot freed, before the memory helper uploads: even
  with concurrency 1 the next session may restore before and overwrite the previous
  upload (`docs/memory.md:96`). `MemoryKept` excepts sessions that overlapped in this
  sense. A runtime that dies without the marker leaves helper and Job to the sweep;
  two versions of one second share a name.

*Knowledge.*
- An indexer restarted before its run looks stale leaves it running, since
  reconciliation runs only at startup. With `SlowWork = TRUE` (a phase outlasts the
  stale limit) another indexer fails a run that goes on and then writes success over
  it; `FinishedStays`, which the proofs state for both values, excepts such a run
  (`disowned`). The run `knowledge` has `SlowWork = FALSE`, on which neither of its
  properties depends.
- Pruning deletes a version's objects one by one before its row. An error in between
  is caught and leaves the row, succeeded, with some of its objects gone
  (`housekeeping.py:344`), and so does a death before the commit for every version
  pruned so far. A later sync that returns to that commit skips to the row and
  promotes it (`halfPruned`); `CurrentServable` excepts these versions and no others.
- A retry after a partial publication whose Graphify output differs, or whose URL
  changed, can never be published for that commit ("Immutable Knowledge Source object
  differs"). Versions that a dead indexer left pending or running are never pruned.
- Heartbeats inside a hybrid build commit its partial documents and chunks. A version
  pruned between pin and query gives an empty answer without a warning; a warning
  appended after packing may exceed `max_response_chars`; a suspension after the pin
  still answers.
- Directories of a crashed hydration are never removed; replacing a damaged directory
  removes it under its readers; evicting a budget entry resets that task's count;
  `find_paths` may return more than `limit` paths.
- `search_source` skips some directories, files of more than 2 MiB and files with a zero
  byte (`knowledge_source_serving.py:317`) and does not say so: `truncated` is only
  about the matches of the files it reads, and so is `AnswersHonest`.

*Platform.*
- Deployment: the guard a killed Job leaves blocks deployments and reloads until an
  operator clears it. The command line has no recovery and its lock is an SSH
  connection: when it drops, the lock is gone and the command goes on. It resolves its
  commit before it has the lock. Recovery covers the listed exceptions only, and a step
  of it may fail, leaving the phase "recovering". `workflowRepo.commit` is never
  recorded, so the drift check never fires.
- Releases: when a launch finds no pointer, its configuration may come from a release
  published meanwhile while it has no bundle. Unmanaged synchronisations that overlap
  mix commits in one release.
- Scheduler: an unmanaged sync commits the revision before it provisions, so the
  watcher may reload the old rows and not look again until the next activation. An
  enable or disable that crosses a reload or another request leaves the job wrong
  (`crossed` in the model). One unparseable cron expression blocks every reload.
- PubSub: callbacks of a cancelled subscription keep the old configuration, and their
  acknowledgement may be lost; redelivery duplicates what is not coalesced.
- ServiceNow: a record is remembered before it is submitted, so a failed submission
  loses it until a restart; a fixed query with a limit of 50 starves later records;
  the memory is cleared when it overflows, on an identity change and on restart.

### Bounds

Counters exist only to keep the state space finite and are named in CONSTANTS
(`MaxFaults`, `MaxCrashes`, `MaxOps`, `MaxWaits`, `MaxPresses`, `MaxTime`,
`MaxAttempts`, `MaxLaunches`, `MaxAsks`, `MaxSwitches`, `MaxEdits`, `MaxChanges`,
`MaxReloads`, `MaxActivations`, `MaxStarts`, `MaxLost`, `MaxMessages`, `MaxEvents`).
Two processes of each kind are enough for every interleaving of a pair; the
properties speak of at most two, except the locks of three submissions and the
memory of three sessions, where a third changes the result. Where a proof exists
the bound does not matter for safety. Symmetry is used for replicas, Jobs, workflows,
requests, records, indexers and row ids, only in runs without liveness (`platform`,
`sources`, `knowledge`). `CHECK_DEADLOCK FALSE` stands in all runs but `knowledge`:
each has a part that is over when its work is done and its bounds are used up.
`KnowledgeSync` loops for ever and is checked for deadlock.

### Fairness

- Loops of the session manager, the indexer, the listener and the runtime run as long
  as their process lives, so their steps get weak fairness; Kubernetes restarts dead
  processes.
- PostgreSQL serves the waiters of a lock in turn: strong fairness for the steps
  that wait for an advisory or row lock (`TaskQueue`).
- Time passes: heartbeats expire, deadlines pass, watchdogs fire.
- `RuntimeSession!Fairness` is about the loop and its watchdogs, never about the CLI,
  which may hang. `MessageIngress!Fairness` is about the runtime, its admission and the
  waiting sweep, never about people or providers. `KnowledgeServing!Fairness` is about
  the refresh loop.
- No fairness for faults, operators or upstream changes, except that
  `PromptedAnswered` assumes that a human answers a prompt that is on screen, and
  `QueueDrains` that admitted tasks end, which `lifecycle` shows.

## Proofs

A theorem that states a property of a run is about the very definition the run checks.
The property of a component that a run composes with others is a definition of the MC
module, so the proofs of such components stand together in one module that extends it:
`PlatformProofs`, `WaitsProofs`, `SourcesProofs`, `SessionProofs` and `ServingProofs`.
There the theorem is about the composed specification with all constants arbitrary: in
each part the invariant of the component is kept, and the rest stays put.

| Theorem | Statement |
| --- | --- |
| `PlatformProofs!WithinLimits` | running tasks within both limits |
| `PlatformProofs!ArchiveRespected` | an archived task is not started |
| `PlatformProofs!ImplementsAdmission` | the dequeue protocol implements `Admission` |
| `PlatformProofs!DeploymentsAreWhole` | what is installed is one commit, or a recovery or a guard says otherwise |
| `PlatformProofs!ReleasesAreWhole` | the pointer names a complete release and a launch gets all it reads from one |
| `PlatformProofs!MemoryIsKept` | what a session learned is in the latest archive, unless sessions overlapped |
| `WaitsProofs!SweepIsFair` | nobody is charged for human time, but for what is left of a request when the answer to another one has closed the wait of both; for any overlap of requests |
| `WaitsProofs!CeilingHolds` | in a first attempt nobody works past the ceiling and one interval, with any overlap of requests |
| `WaitsProofs!MessagesHandledOnce` | a message becomes one task or one reply at most; none becomes a task while the look-up of its dedupe key's policy finds one |
| `WaitsProofs!PausedIsSilent` | a connector saved as paused has no listener and no event in hand |
| `WaitsProofs!AnswersAreGenuine` | answers are what people replied, each reply answers one question; under `BotAccount` and `Skew <= 0` |
| `SourcesProofs!NoDuplicates`, `AnswersStayRight` | no duplicate is created, no negative look-up goes stale |
| `SourcesProofs!NoDeadlock` | no set of submissions waits for its own advisory locks |
| `SourcesProofs!OccurrencesCounted` | every alert a task absorbed is counted, as far as they share a key |
| `SourcesProofs!JobsFollowRows` | the scheduler's jobs are those of the rows once nothing is under way |
| `SourcesProofs!ConnectorFollows` | PubSub: an acknowledged message was handled, and the newest configuration is followed |
| `SourcesProofs!RecordsPolledOnce` | ServiceNow: what is skipped was submitted, and nothing twice |
| `SessionProofs!AnswersCoverSubagents` | the answer was given after every subagent had ended |
| `SessionProofs!TimeoutsExplained` | the watchdog fires only on a silence nothing explains |
| `SessionProofs!MessagesInOrderOnce`, `OnlyOvertakenIsMissing`, `TerminalEndsReports` | the transcript arrives in order and once, but that the batch of a flush cancelled in mid-post may come again, lacks only what a forced post overtook or a lost one held, and ends with the terminal event |
| `ServingProofs!PublishedWhole` | a promoted version has its objects, all of one build, and the files of its commit and scope |
| `ServingProofs!PinnedStay` | what a call has pinned stays on disk |
| `ServingProofs!SnapshotsAreFaithful` | the promoted hybrid version holds what one build fetched, scrubbed and embedded |
| `ServingProofs!ResponsesAreHonest` | a search of a hybrid source that is not marked truncated leaves out nothing a lane found, but what repeats a result or what a full response has no room for; it is in order and within its size |
| `ServingProofs!QueriesAreHonest` | `find_paths` finds every walk there is, shortest first and none twice, up to its limit; the other graph tools say when they cut something off, the literal search among what it reads |
| `SessionProofs!TreeHidesNothing` | whatever was lost: every failed call and every text of an agent that arrived is to be found in the tree of its session, but for a text that stood in a result of the coordinator which another took the place of |
| `KnowledgeSyncProofs!Served` | the served version is complete, but for one promoted again after a pruning took some of its objects and kept its row |
| `KnowledgeSyncProofs!ServedIsOfConfig` | nothing of a former configuration is served |
| `KnowledgeSyncProofs!ResultsKept` | a finished run keeps its result, unless a starting indexer failed it while another still worked on it |
| `ApprovalsProofs!AtMostOneOpen` | one open row per tool, also with overlapping presses |
| `ApprovalsProofs!OnlyGrantedAllowed` | with any overlap of presses no more calls run than were approved; without one, only calls that were approved themselves |
| `ApprovalsProofs!DecisionsAreFinal` | with any overlap of presses a decision stays, but for presses that had found its row open before |
| `TaskLifecycleProofs!EveryTaskIsSeen` | a running row has a heartbeat and a waiting row a deadline |
| `TypeCorrect` | type correctness of the queue, the clock, the submissions and the approvals |

The arguments. Each names the inductive invariant and says what it adds to the property;
TLC checked it on the run's instance before it was proved.

- *Queue* (`QueueInv`). `PlatformLimit` is not inductive: a replica that has counted is
  about to claim. `DequeueInv` adds what each replica in the transaction relies on: it
  holds the platform lock, and what it has counted is still free, because other writers
  only lower the count while the lock is held and a candidate's row is locked.
  Only `Claim` raises the count, by one, from a count below both limits.
- *Submission.* `AnswersHold`: what a submitter found absent is still absent,
  because whoever could create it needs a lock the submitter holds, and a rerun
  only revives tasks the look-up already excludes. `NoDeadlock`: a submission takes
  its locks in the order of their keys; in a finite set of waiters one waits for
  the greatest key, and its holder, inside the set, would wait for a greater one.
  `OccurrencesCounted` needs `MergesSafe`: the count that a merging submission has read
  is still the task's, if all that the task absorbed shares a key with it, because
  whoever shares one waits for its lock.
- *Clock.* `ChargeInv` relates the three columns to the time really worked and
  waited: an open request that none has shadowed has an open wait, so that only the
  time of a shadowed one is charged beside work. `WorkInv` is the inequality the
  ceiling needs.
- *Ingress* (`IngressInv`). `DeliveryInv` follows an event: nobody has written it yet, or
  it is on its way, or it has had its effect. On the socket it is once; Slack forgets
  it when it is acknowledged, before it is handled, so that what is handled is not sent
  again. A lost acknowledgement is the one exception, and the invariant says nothing of
  such an event but that it is not fresh. `ListenerInv` knows which flag a pause or
  resume request replaces. `AnswersInv` keeps the watermark past every earlier answer.
- *Approvals.* `OneOpen` is inductive alone. `PressInv` says that, unless two presses of
  a row overlapped, nothing replaced the open row between the check of a press and its
  write. `SpentInv` counts for every overlap: each approving press is in hand, or has
  made one row that no call was allowed by yet, or one call was allowed by it. That a
  decision is final needs no invariant: every look-up that writes finds open rows only.
- *Knowledge.* `CurrentServable` needs to know what a promotion is about to do:
  `OwnVersion` says that the indexer in a sync has the lock and that its row is
  still the one it wrote; `RowsInv` that an identity has one row, so neither a
  failed retry nor a pruned bundle is the served one; `BundlesInv` that a succeeded
  row that may be promoted again still has its bundle, unless a pruning left it half-done. With the lock only one
  indexer is away from rest, so each step has one interesting actor. `ResultsKept`
  adds `RunsInv`: the run of a sync is running, or was failed under the sync's feet. `ServedIsOfConfig` adds
  `ConfigInv`: what an indexer builds has the configuration it read, and that is the
  source's, unless an edit suspended the source or will be noticed at the promotion.
- *Publication.* `BundleWhole` holds at a promotion because of `StoreInv`: each object
  before the sync's position is the one it built, put there by it or found equal.
  `KeyInv` adds that the version a sync works on has not succeeded, so nobody writes
  under a key that is served, and `BundleInv` that what was packed fits the snapshot.
- *Hybrid index* (`IndexInv`). A build reads in one session, whose rows include the stored
  ones; `BuildHeld` says that each page it has read is there whole, at the revision it
  discovered and under the rules it began with, and `ChunksTrue` that an embedding that
  is taken over from another document is of the same text. A promotion is then a rename.
- *Retrieval* (`RetrievalInv`). `FoundInv` follows each chunk a lane found: it is among the
  candidates or the results, or it overlaps one that is, unless the fusion kept as many
  as it may. `ApartInv` keeps candidates and results apart, so that a chunk is dropped
  only for one that stays. `OrderInv`: no chunk stands behind one that both lanes rank
  below it, because a rank adds more to the score the better it is. `PackedInv` is the
  budget: what was used, and that only a response marked truncated has a cut chunk.
- *Graph tools* (`QueriesInv`). `BeginsInv` is why a search misses nothing: of every walk
  still to be found the queue has a beginning, and the turn that takes it out puts its
  continuations in, since a walk within the depth that repeats no symbol is never skipped.
  `BreadthInv`: the queue's paths differ by one link at most, shortest first, and no path
  found is longer than the next. `OnceInv`: no queued path begins another or one
  found, so nothing is found twice. When the queue is empty, `BeginsInv` leaves no walk
  unfound. This is an invariant of the turns, not an induction over the graph.
- *Serving* (`ServingInv`). A pinned directory stays because what is served, and what is
  about to be, stays too: a call pins only the served version, and a cleanup has
  neither on its list. `KnowledgeServing!Retained` says which directories a cleanup
  keeps as a set, the held ones and the newest `VersionsToKeep`.
- *Loop* (`LoopInv`). The invariant relates three accounts of a subagent: what the CLI
  runs, what the messages under way say, and what the loop has pending. `MessageInv`
  says what each message under way refers to, `OwnerInv` which id the loop keeps for a
  subagent it has heard of, `EndInv` that every end is heard before the result that
  follows it. `IdleInv` is about the watchdog: a CLI that has nothing to do has said so.
- *Transcript* (`ReportInv`). `LockInv`: one task posts, from where `flushed_messages`
  stands. `OrderInv`: no batch reached beyond that, and one that was cut off started
  there. `CoverInv`: what is counted as flushed was received or overtaken. `EndInv`:
  the last flush runs alone, and the terminal event follows it.
- *Trace* (`TreeInv`). `TextInv` and `HolderInv`: only texts are ever hidden, and nothing
  hangs under a text, so hiding one takes nothing else away; a node is in the tree if a
  set of shown nodes that is closed under parents has it, which needs no recursion.
  `SaidInv` follows each text said: until the tree is built it stands in a node of its
  own or in a result of the coordinator, afterwards in some shown node of the same agent
  that is alike. `OwnerInv` and `AgentInv` say why a text that is hidden for the one
  returned under the same subagent is that agent's; `ResultInv`, that of the
  coordinator's results the last stays; the texts of those it took the place of are
  `displaced`. To be alike (equal, or alike in the first
  `Prefix` characters) is passed on to the result the text is hidden for
  (`AlikeMeans`).
- *Lifecycle.* `SweepsSeeAll` is inductive with `FinalInv`: what the monitor will write
  is never a status that a sweep looks for. It also needs that only known events are
  under way, proved first.
- *Deployment* (`DeploymentInv`, as long as no guard was cleared under a writer). One
  writer works at a time and has the guard; for each stage `Moved` says which parts
  are already the target's, and `HasBackup` that a recovery finds what was there
  before.
- *Releases* (`ReleaseInv`). `BuildInv` follows a release through its stages. `Published`
  is what the pointer and every launch rely on: complete, and its sync is past the
  pointer, so nobody changes it. In a managed instance `CheckoutInv` keeps the checkout
  at the commit of the active sync, since a deployment starts only when none is.
- *Memory* (`MemoryInv`). Without overlap one session at a time is between its restore and
  its upload, and its directory includes the latest archive, so an upload loses
  nothing.
- *Scheduler* (`SchedulerInv`). A job is that of its row but for a flag a request has
  committed and not acted on; what the watcher read of the rows is current except for
  schedules changed since.
- *Connectors.* PubSub (`ConnectorInv`): a callback has its task before it acknowledges,
  and whoever knows the last activation has its files. ServiceNow (`PollInv`): a record
  is remembered before it is submitted, and forgotten together with its count.

Assumptions on constants are the named ASSUMEs of the modules, and for modules that
are only instantiated the named operators that their MC module assumes; TLC
evaluates them in the runs. Some theorems have hypotheses of their own because the
code has the property only then: `BotAccount` and `Skew <= 0` of `AnswersAreGenuine`; what happens otherwise is
described above. Where the code breaks a property in a way that can be named, the
property excepts just that, by a history variable (`exposed`, `contended`, `displaced`,
`past`, `orphans`, `halfPruned`, `disowned`, `cutOff`, `overtaken`, `crossed`), and the
theorem holds without a hypothesis.

Every invariant and every action property that a passing run checks is stated by one of
these theorems. Only model-checked is liveness (`AskEnds`, `SuspendedLeaves`, `Settles`,
`JobReaped`, `LoopEnds`, `PromptsAnswered`, `QueueDrains`), which is out of the prover's
reach. That a run of `find_paths` ends is not stated: the theorem is about what it has
answered when it ends. `ContentLength`, `Scale` and the links are arbitrary in the
theorems; `RetrievalAssumption` asks of `Scale` only that every weight of the fusion is a
whole number of its parts.

## Not modelled

See `components` in `PROJECT.json`. The UI, integration MCP servers and hooks are
stateless adapters; encryption, secrets, rendering, the ranking inside a search lane, the
extraction programs and database migrations are data or libraries. Not modelled of
the parts that are: the `bundle_root` mode, which rebuilds bundles in place; usage
accounting and tool policies of a session; retention of tasks, sessions and learnings;
read-only listings and analytics of the API; local development commands. Known limits
of the models: one task in `TaskLifecycle`, one tool in `Approvals`, one thread in
`MessageIngress`, one source in the knowledge modules; the ORM's change detection of
dictionaries changed in place.

## Plan

Done: every component above that keeps state, and a theorem for every safety property
of a run. What is left, in order:

1. Retention in `housekeeping.py` against reruns and unarchiving, composed with
   `TaskQueue`.
2. A run that composes `KnowledgeSync` with `KnowledgeServing`: promotions and prunes of
   the one as the registry of the other.
3. Usage accounting and the reports of a session that is run again.
