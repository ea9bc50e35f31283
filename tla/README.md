# A verification project for the SheJane Runtime

The repository is a desktop agent: a React/Electron client, and a Python process, the
*Runtime* (`src/runtime`), that accepts commands over HTTP, executes *runs* of a LangGraph
agent, keeps every fact in SQLite and streams events back. What is hard in it, and what this
project is about, is the execution of runs: at any moment one attempt may execute a run, the
user may cancel it, the process may be stopped or killed, a lease may run out, a tool with
side effects may be half done, and afterwards the run must have one authoritative outcome.

## 1. Inventory

Paths are relative to `src/runtime/src/shejane_runtime` unless they start with `src/`.

| Component | State | Operations | Talks to | Hard behaviour | What makes it correct |
|---|---|---|---|---|---|
| Run store (`store/run_jobs`, `store/run_state`, `store/run_commands`) | `local_runs`, `local_run_jobs`, `local_events` | admit, enqueue, claim (with sweep and cascade), renew, commit result, quarantine, confirm cleanup, cancel tree | everything below calls it; one `BEGIN IMMEDIATE` transaction per method | lease expiry races; a transaction decides on facts another one changes | one live job per run, job and status agree, no stranded run, one end |
| Waits and decisions (`store/waits`, `store/run_commands/waits.py`, `runs/decision_routes.py`) | `local_wait_candidates` | open a cycle, decide, reconcile a tool, resume | run store | decisions before the waiting commit, replays, older cycles, two routes to one resume | one resume per wait, only for a complete cycle |
| Tool receipts (`store/tool_receipts`, `middleware/tool_execution.py`) | `local_tool_receipts` | prepare, begin, settle, reconcile, mark lost, cancel unstarted | written under the attempt's lease | crash during a side effect | never started twice by itself, never started after the end |
| Model call ledger (`store/model_calls.py`, `llm/ledger.py`) | `local_model_calls`, budgets | reserve, settle, fail, mark unknown | written under the lease | settlement after a lost answer, budget at its limit | no completed run with a call in doubt, budget kept |
| Run coordinator (`runs/`) | `_tasks`, `_slots`, `_started_jobs`, `_lost_leases`, `_unconfirmed_cleanup`, run context dictionaries | dispatch, execute, heartbeat, cancel_run, resume_run, stop, recover_orphans | run store, graph driver | `CancelledError` for four reasons at any await; two attempts of one run in memory; shutdown and crash | cleanup precedes the end; cancels are answered; shutdown ends |
| Graph driver (`runs/graph_driver.py`, `runs/graph_execution.py`) | the LangGraph checkpoint, the graph head | stream, collect interrupts, repair | middleware, tools, ledger | interruption in the middle | its outcome is reported once |
| Child runs (`store/collaboration`, `runs/collaboration.py`) | parent and dependency rows, slots lent | spawn, wait, cancel, settle, summarise | run store, coordinator | waiting parents holding slots, dependency failure | dependencies first; children told of the end |
| Agent loop (`middleware/budget_control.py`, `middleware/completion_*.py`, `llm/ledger.py`) | the middleware's state, rows of `local_model_calls` | begin a turn, reserve, stream, retry, delegate to subagents, repair, accept | model call ledger, model provider | subagents and retries draw on the budget the final answer needs; an attempt fails after it was seen | the forced answer has its calls; nothing that was seen is repeated |
| Event stream (`runs/event_stream.py`) | subscribers, publication locks | subscribe, replay, publish | run store, HTTP | replay/live hand-over, full queue, end of stream | no gap, no duplicate, an end |
| Agent mailbox (`store/agent_messages.py`) | `local_agent_messages` | send, reply, deliver, ack, expire | attempts of a tree | an attempt lost between delivery and saving, repeated tool calls, crossing answers | at least once; numbered conversations within the hop limit |
| Scheduler (`scheduler.py`, `store/schedules.py`) | `local_scheduled_runs` | claim, start, bind, finalise, recover | run admission | crash between steps | one run per schedule |
| Sandbox reaper (`sandbox_reaper.py`) | launcher records | record, reap, settle | quarantine | pid reuse | never signals a stranger |
| Checkpointer (`store/fenced_checkpointer.py`) | checkpoints, graph head | put, advance head, reconcile | graph driver | crash between two stores | head on the latest durable checkpoint |
| A2A gateway (`a2a_gateway`) | tasks, push outbox | accept, project, deliver, retry | Runtime over HTTP | a stop between two statements, deletion under way, two configurations on one cursor | every owed delivery settles; a deleted configuration is owed nothing |
| MCP catalogue (`tools/mcp`, `catalog_routes.py`) | entries with session and leases, retired entries, one refresh task | acquire, release, refresh, edit, invalidate, announce, close | attempts, the settings routes, server processes | leases taken without the lock while a refresh or an edit retires what is leased | no session stopped in use, none forgotten, a broken one replaced |
| Plugin platform (`plugins`, `store/plugins`) | installations | install, switch, acquire, retire | tools of a run | a switch while a version is in use | not modelled |
| Model services, middleware, tools, artifacts, client, Electron | – | – | – | I/O, data conversion, user interface | not modelled |

The hazards this code is exposed to, each with its line and the property that watches it, are
in `PROJECT.json`.

## 2. Modules

| Module | What it is |
|---|---|
| `RunLifecycle` | Abstract: per run a phase, the holder of the right to execute it, and whether an execution is owed. |
| `RunStore` | The tables and every transaction on them, with arbitrary callers. Implements `RunLifecycle`. |
| `RunWorker` | One Runtime process at a time around the store: dispatcher, tasks, heartbeats, cancels, stop, kill, boot. EXTENDS `RunStore`, so each of its steps that writes is a transaction of it. |
| `EventStream` | One run's event stream: publisher, publication lock, subscribers with bounded queues. |
| `ChildCoordination` | A parent attempt and its children: slots lent while waiting, the completion policy, the settlement. |
| `AgentLoop` | Model calls of one run and its subagents against one budget, retries, and the router that accepts an answer. |
| `Mailbox` | Messages between the runs of one collaboration, at-least-once across lost attempts. |
| `Schedules` | Scheduled runs: claim, admission, binding, following, outcome, recovery at boot. |
| `PushOutbox` | Push configurations of one A2A task, its cursor, its outbox and the coordinator. |
| `McpCatalog` | Server sessions shared by attempts: leases, retirement, refresh, edits. |
| `RunStoreProofs` | Theorems about the store: types, attempts, that it implements `RunLifecycle`, and what its tables promise each other (receipts, model calls, events, threads, the run tree). |
| `RunWorkerProofs` | Theorems about the process around the store. |
| `EventStreamProofs`, `ChildCoordinationProofs`, `McpCatalogProofs` | Theorems about the module each is named after. |
| `AgentProofs` | Theorems about `AgentLoop` and `Mailbox`. |
| `DurableServicesProofs` | Theorems about `Schedules` and `PushOutbox`. |
| `RuntimeServicesProofs` | That the services together implement each of them, and the type invariant of all. |
| `MCRunStore`, `MCRunWorker` | Constants of the instances. |
| `MCRuntimeServices` | Instances of the seven services. They share no variable, so an interleaving of two shows nothing either does not show alone; a behaviour moves the one that `focus` names, and the state space is the sum and not the product. |

How they fit together: `RunStore` has the transactions; `RunWorker` calls them the way one
process does. The seven services each look at one mechanism that the store's and the worker's
models pass over, at the granularity at which it can go wrong, with the rest of the run
reduced to what the mechanism observes of it (its status, whether it has a job), moving by
itself. One step of the store is left out of these reductions: a run that has ended stays
ended in them, although a late `resume_run` may revive it (finding 1). In `Schedules` this
means that `OutcomeIsTheRuns` is about a run's first end: an outcome that was reported is not
taken back when the run is executed again, and nothing in `scheduler.py` would.

### RunStore

Every store method opens a connection, takes `BEGIN IMMEDIATE` and commits or rolls back, so
one method is one action. Two things are not one transaction and are therefore two actions:
`resume_run`, which reads the status (`BeginResume`) and later enqueues (`EnqueueResume`), and
the settlement of a result, whose ledgers are read before the commit: between the two the
attempt writes no ledger itself, so `CommitResult` evaluates them in one step.

What `_settle_child_coordination` has done about the children when the result is committed is
the guard `Coordinated`: nothing for a waiting outcome; for a failed or cancelled one every
child is settled; for a completed one the completion policies are satisfied
(`CompletionMode`, and one quorum of `QuorumRequired` members per parent), which does not
mean that every child has ended: members of a quorum that was reached late may go on and are
asked nothing (`settlement.py:195-200,219`). How the settlement gets there is
`ChildCoordination`. The ledgers are looked at afterwards (`settlement.py:96-129`,
`SettledOutcome`), so a failed parent may be one whose waiting or completed outcome they
contradicted, and boot recovery fails a parent without a look at its children. Therefore
`NoUnawareChild` speaks of completed and cancelled parents only, and excepts the surplus
members of a quorum that a completed parent reached.

`status` merges `waiting_permission` and `waiting_input`. A `job` record is a row of
`local_run_jobs`; `cycle`, `asked` and `late` are not columns: the first is the wait cycle of
the resume payload, the second the attempt's program position (its interrupts are collected),
and `late` is a history mark on a resume job enqueued after the run had ended. Time is a
countdown per lease (`Tick`), a renewal resets it. A claim contains the sweep of expired
leases and the cancellation of runs whose dependency broke, because the code runs them in
the same transaction. A tool receipt is one per operation with the number of its starts and of
the occasions that made it startable (`grants`, a history variable). `log` keeps the `run.*`
lifecycle events by the status they publish.

| Action | Code |
|---|---|
| `AcceptRun`, `AcceptChild` | `accept_run_command`, `accept_child_run` |
| `Claim`, `Renew` | `claim_run_job` with `_requeue_expired_jobs_uncommitted`, `renew_run_job` |
| `CommitResult`, `OrphanFail` | `_settle_execution_outcome` + `commit_run_result`, and the same with `orphan_recovery` |
| `Quarantine`, `EnsureLostQuarantined`, `ConfirmCleanup` | the three methods of `store/run_jobs/quarantine.py` |
| `RequestCancel` | `request_run_cancel_command`, `request_run_cancel_tree` |
| `OpenWait` | `_waiting_outcome` |
| `Decide`, `DecideByRoute`, `ReplayDecision` | the four decision commands, the older decision routes, a decision repeated under a new command id |
| `BeginResume`, `EnqueueResume`, `AbandonResume` | `RunCoordinator.resume_run` |
| `PrepareTool` … `EndCall` | the receipt and model call methods of an attempt |

### RunWorker

A process has a fresh worker id (`proc`), a stage and its in-memory tables. A job's `task` is
the coroutine `_execute_claimed_job` with its heartbeat: `pc` names the await it is suspended
at, `cancel` a `task.cancel()` not delivered yet, `lost` and `unproven` its membership in
`_lost_leases` and `_unconfirmed_cleanup`, `frame` the exception handler it is in, `res` its
execution resources, `out` the outcome it will commit. `At(j, pc)` is the await returning,
`HitAt(j, pc)` the await raising `CancelledError`; when the await is a write transaction, both
"committed" and "not committed" are possible. `OnCancelled`, `OnFenced` and `Finally` say
which handler gets control. `current` is `_tasks`, `context` the eight per-run dictionaries,
`free` the semaphore `_slots`.

Boundaries: requests are served only between `coordinator.start()` and the lifespan's
shutdown (uvicorn waits for requests before it shuts the lifespan down; external); one
process at a time (the port). An attempt whose graph is running either ends by itself, with
any outcome, or is interrupted. Tools, model calls and children stay with `RunStore`.
The timeout of `stop()` is not modelled (that `StopDrains` holds means that it is not needed),
and an exception of the attempt's preparation, which `job_execution.py:131-163` handles like a
failed graph, is one of the outcomes of the body.

### EventStream

Rows of `local_events` are their numbers. A row is appended by the publisher inside
`publication()` (the attempt, or a child's derivation) or by a store transaction that takes
no publication lock (`AppendSilently`). The lock dictionary counts its users and drops the
object with the last one, so `entry` may be a new object while a task still waits for an old
one: `lock[t]` is the object a task asked for. A subscriber is its generator:

| Actions | Code |
|---|---|
| `Connect`, `Disconnect` | the request, `aclose()` or cancellation of the generator |
| `Acquire`, `SubscriberStep` | registration and replay under the lock, the live loop with its wake-ups, its poll on timeout, the end of stream check |
| `AttemptBegins`, `AttemptLeaves`, `PublisherStep`, `DeriveEvent` | `publish_event`, `publish_transient`, `publish_lifecycle` and what surrounds them |

A full queue drops the new entry. A subscriber's pages are one read, event payloads and
the SSE encoding are left out, and so is a second cancel while the generator's `finally` waits
for the publication lock (`runs/event_stream.py:153-160`).

### ChildCoordination

The parent's attempt in `settlement.py` (list the children, cancel the optional ones, wait
for the rest, look again, commit) and up to `ToolWaits` concurrent `child.wait` tool calls
share one `asyncio.Lock` per parent, made on demand. A wait is `lock`, `give` its slot,
`poll`, `take` a slot again. `task.cancel()` may arrive at every await (`MaxCuts`), and a
second one at the re-acquisition, which the code shields once. `parent.out` is the outcome the
settlement hands on and `parent.row` what is committed: `CommitParent` may turn any outcome
into a failure, as the checks of ledgers and draft in `settlement.py:96-129` do, and they come
after the children were settled for the outcome they replace. So `OnlySurplusOutlives` is about
`parent.out`: no child is left after a failure or a cancel, surplus members of a quorum after a
completed outcome, whatever is committed; of a waiting outcome that becomes a failure it claims
nothing, since the children were not looked at. `policy` is the completion mode, quorum group
and quorum of each child. Children take slots, run, pause and end; their
rows are in `RunStore`.

### AgentLoop

`limit` is the run's `max_model_calls`, which the code admits from 1 to 100 (`config.py:15-16`,
`run_configuration.py:35-37,56-57`) and freezes with the run. `used` counts reserved rows; a
row is never given back. A turn of the root or of a
subagent goes through the budget middleware (`BeginTurn`: normal, delegation closed,
converging), reserves (`CallStep`), streams, fails before or after output, is retried up to
`Retries` times, and its result is judged. `Delegate` starts subagents in parallel and
`Joined` ends their turn. The router's seven repair reasons and what each counts are in
`route` and `repaired`: they decide how often the model is asked again, and so how many turns a
run can have, but no property speaks of them. Whether a candidate is good is a free choice.

`FinalAnswerFits` says what the reserve is worth at every limit: the first converging turn has
all of it but `Retries` calls, which the last ordinary turn may have overrun it by. With the
code's two final turns and two retries the reserve is 6 from a limit of 7 on, and `limit - 1`
below (1 at a limit of 1). It covers the answer's own call and both retries when it is more
than 4, that is from a limit of 6 on; at a smaller one the answer, or a retry of it, may be
refused (at 2: one ordinary turn with one retry uses both calls), and the property says less
there, as the code promises less (section 6).

### Mailbox

`call[r]` is the one mailbox tool call a run has under way, with the status of its receipt:
a lost attempt turns `running` into `unknown`, and the repeated call finds the row its
operation has inserted (`made`). `Deliver` and `Save` are the middleware's
`abefore_model`, whose database write and whose checkpoint are two steps, so a crash between
them is a `Lose`. Expiry is an arbitrary subset of the open messages at each transaction that
runs `_expire_agent_messages_uncommitted`. Broadcasts are sends; message text is left out.

### Schedules

An `errand` is the coroutine that takes a row through `check`, `admit`, `bind`, `follow`,
`read` and `report`, one step per await; at each the process may stop (`Down`) and `Boot`
lists the claimed rows (`todo`). `recover_running` is awaited before the server serves
(`server.py:183`), so `Serve` comes after the last of them. A run is admitted under a command
id made from the row's id, and `receipt` is what the command table has stored for it.

### PushOutbox

`config` goes through a snapshot (`ReadSnapshot`) and its insertion (`InsertConfig`), two
requests of the gateway between which anything may happen. The coordinator's round is
`list`, `poll`, `record` (each statement of its own), then `deliver` and `send`. Times are
abstracted: a pending row may be due at any moment and a lease may be over whenever no
delivery is under way; attempts count until a row is settled. One payload per event; a task
without a live configuration is not listed.

### McpCatalog

An entry is numbered within its server: `current[s]` is the one in `_entries`, `table` has all
that were made, with the lease count the code keeps and the state of the session. `kept` is
`_retired`, and `stopping[a]` the list `to_close` of the operation `a` is in, whose sessions
end one by one. A session breaks by a failed call; that its server ends by itself while nobody
calls is left out (the handler in `tools/mcp/session.py:165-175`: once a session is ready its
task awaits nothing but the stop event, and what that await can raise is a `CancelledError`,
which the handler does not take). The `asyncio.Lock` is held across an await only by the refresh task while it
opens and installs, hence `LockFree`; what else the code does under it is one step.

| Actions | Code |
|---|---|
| `AcquireTools`, `EndAttempt`, `ReleaseLeases`, `CutRelease`, `AttemptGone` | an attempt's `acquire_tools` context, without the lock at its beginning and with it at its end |
| `BreakSession`, `Announce` | a call that raises, times out or is cancelled; `tools/list_changed` |
| `WriteServer`, `Invalidate`, `AnswerEdit` | the three routes that edit the configuration |
| `StartRefresh`, `OpenServer`, `InstallServer`, `RefreshDone`, `RefuseRefresh` | `_snapshot` in the background task, one step per await, and the repetition in `refresh_done` |
| `StopSession`, `CloseCatalog` | `supervisor.stop()`, `close()` |

An attempt may be cancelled a second time while it waits for the lock, so its leases are never
returned (`CutRelease`; `lost` remembers them). The back-off after a failed discovery may be
over at any moment. A configuration is its fingerprint, tools and metadata are left out.

## 3. Runs

Every instance is finite by `MaxJobs`, `MaxCycles` and `MaxStarts`, so behaviours end when no
job can be added; the runs therefore switch the deadlock check off.

| Run | Instance | Question and answer |
|---|---|---|
| `attempts` | 1 run, 3 jobs, 2 wait cycles, 2 workers, 2 tools (one recoverable), model calls | Who may execute a run; status, job and events agree; implements the lifecycle; no side effect repeats by itself or survives the end. Two workers give every race of an old owner with a new one, three jobs a resume that follows a resume. |
| `tree` | parent, 2 children with a dependency in a quorum of one, and beside them a best-effort child or another turn of the parent's thread; 1 worker, 3 jobs | Dependency order and cascade, tree cancel, who is told of the parent's end and which surplus members go on, one unsettled turn per thread. |
| `crash` | 1 run, 1 job, 2 processes, fair | Through cancel, lost lease, stop, kill and recovery: no end over an unproven cleanup; only a user's cancel is reported as one; cancels are answered, `stop()` ends. |
| `resume` | 1 run, 2 jobs, 1 process | Two attempts of one run in memory: none is taken for the other. |
| `services` | the seven services | Their safety properties. |
| `progress` | stream, coordination, schedules, push, fair | Rows reach readers, streams end, parents settle, schedules and deliveries end. |
| `terminal`, `canceled`, `slot`, `paused`, `told`, `orphan` | smallest instance of each | What the repository says, and the code does not do (section 6). |

`attempts` is two instances in one, separated by the state constraint `OneShape`: until the first
receipt or model call it explores two workers and three jobs, and beyond that one worker, two
jobs, waits that ask about tools only, and either a second tool or model calls. The product of
the two is too large; what a tool is made to do does not depend on which of two workers holds the
lease, and a receipt and a call meet in `SettledOutcome` only. Workers are alike and so are the
user's questions (`SYMMETRY Alike`): nothing chooses among them, and the properties are safety.

`tree` likewise is two instances in one (`OneExtra`): a best-effort child beside the quorum, or a
second turn of the thread, and one of the runs may wait for the user. The parent needs a job, and
so do two children, for instance the member of the quorum that completes and the one that goes
on; that a parent completes with an active member is reached. The theorems of section 4 have none
of these constraints.

In the store's runs a lease is fresh or expired (`LeaseTicks = 1`): the models do not tell apart
how long it has been fresh, and neither does the code.
One more job or worker adds attempts that are the same as the second. The `resume` instance
needs two slots, since a slot is held by each of the two attempts.

Bounds of the services, and why they are enough:

* stream: one subscriber and the two publishing tasks (three tasks contend for the lock), a
  queue of 2 (1 in `progress`) against 3 rows and a transient event, so wake-ups are dropped
  and the row they announced must be found by a later one or by the poll; 2 connections, so
  a cursor is resumed.
* coordination: 3 children and one slot, the case in which nobody runs unless slots are lent;
  a tool's wait beside the settlement; 2 cancels, enough for both at the re-acquisition. Three
  policies (required with best effort; best effort with a quorum of one of two; required with a
  quorum of two of two), and each covers its subsets, because not every child need be spawned.
* loop: 2 final turns with 2 retries each, two subagents that may draw at the same time, and
  limits of 1 (no reserve apart), 2 and 4 (the reserve is all but one call) and 9 (it is 6, and
  three calls are left for ordinary turns and subagents).
* mailbox: parent and child, 3 messages, one pending at most, one hop, one lost attempt: the
  caps, an expiry and a repeated answer are all reached.
* schedules: two rows with a claim limit of one, 2 restarts, a pause.
* push: two configurations on one cursor, 2 attempts, one event and one fault in `services`;
  one configuration and two events in `progress`.
* catalogue: one server, two attempts, three entries, and two of an edit, a broken session and a
  cut release: an entry in use is retired by an edit or a refresh and released by another
  attempt than the first to lease it. The theorem covers every number; two servers with one
  attempt, and two configurations with two edits, were checked once without a violation and
  are left out for their size.

The constraint `Apart` of `services` keeps the rarest coincidences out of the instance, to
let it finish in a few minutes: all three mishaps of the catalogue or two and a third entry, a
lost attempt with an expired or a third message, a transient event and a reconnection, a second
cancel when all three children were spawned, a second restart and a pause. The instance without it (2.0 million states) was checked
without a violation, and the theorems do not assume it.

Fairness of the worker (`WorkerSpec`, in `crash`): the event loop runs every ready task
(`WF(Proceed)`, `WF(Heartbeat)`), the dispatcher polls every half second (`WF(Dispatch)`), a
`cancel_run` call and `stop()` go on (`WF(DeliverCancel)`, `WF(CancelAll)`), and the lease of an
attempt without a heartbeat runs out. Nothing makes a graph end, a user decide or a client
call. The instance has one slot more than jobs, because a leaked slot (section 6) would stop
the dispatcher, which sweeps only after it has taken one.

Fairness of the services (in `progress`): the event loop runs every ready coroutine (`WF` on
the steps of subscribers, publishers, parents, errands and the coordinator) and `asyncio.Lock`
is first in, first out. The model does not keep the lock's queue, hence `SF(Acquire(s))` for a
subscriber that meets a publisher again and again. A child that has its slot ends or pauses:
this is an assumption about agents, without which no parent settles; a user need not answer.
`SF` on `Claim` says that the coordinator, which asks again every time it wakes, does not for
ever ask at moments when nothing is due; every claim uses up one of a bounded number of
attempts. The restarted process of a schedule is the user's doing
(`WF(Boot)`). The fairness is stated without a guard on `focus`, because no fair step is
enabled in the initial state in which the services out of focus stay.

## 4. Proofs

`RunStoreProofs` proves for all constants that satisfy the assumptions (ids distinct from the
null values, a topology of the right type, finitely many runs, `LeaseTicks > 0`). The topology is
that of the code: `MAX_DURABLE_CHILD_DEPTH` is 1, so a child has no children, and only a child
has dependencies. A wait's questions and its tools are different things
(`Ask \cap Tool = {}`).

* `TypeCorrect`: `Spec => []TypeOK`.
* `AttemptInvariant`: `Spec => [](TypeOK /\ AttemptInv)`, from which `AttemptIsUnique`,
  `StatusAgrees`, `NothingStranded`, `AttemptRunsOnce` follow.
* `EndedStaysEnded`: `Spec => OnlyLateJobRevives`.

None of the four safety properties is inductive alone. `OneActiveJob` needs that the claim
takes a job whose run has no other (itself) and that an admitted run had none
(`JobMatchesStatus`: status `none` has no live job); `JobMatchesStatus` for a leased job after
a commit needs `OneActiveJob`; `LeasedOnce` (no job is leased twice) needs that a pending row was never leased
(`FreshUntilLeased`); and a late `EnqueueResume` needs that its run was admitted
(`ResumingAdmitted`). `AttemptInv` is their conjunction, which TLC checked on the two-worker
instance first. The proof has one lemma per group of actions; those that only touch
ledgers share one.

`StoreImplementsLifecycle`: under the refinement mapping (phase
from status, holder from the one leased job, owed from a pending job) each transaction moves
every run by one of the lifecycle's moves and grants at most one. The mapping's `CHOOSE` is
discharged by `OneActiveJob`.

`RunStoreProofs` then proves every other safety property the runs check of the store, from one
invariant (`LedgerInvariant`: `Spec => [](TypeOK /\ AttemptInv /\ LedgerInv)`):
`NoBlindRestart`, `NoStartAfterEnd`, `LedgersSettled`, `LiveWorkIsOwned`, `OneVerdict`,
`OneTurnPerThread`, `DependenciesFirst`, `NoUnawareChild`. The last rests on what a commit finds
of the children (`Coordinated`) and on what lasts of it: an end and a quorum that was reached
stay (`SeenStays`, `QuorumStays`), except for revived runs. The store has twenty-odd
transactions and each property concerns one table, so the proof first says, per table, what
any transaction can do to one row of it: `ReceiptMove`, `CallMove`, `RowKept` and `RowAdded`
for jobs, `StatusMove` for a run and its event log. A property is then proved against these
few moves. What the properties need besides themselves:

* `AsksItsOwn`: a wait asks only about tools of its own run, so a decision cannot make
  another run's receipt startable.
* `FreeRows`: a job row that does not exist yet has no model calls and was never leased.
* `OwnReceipts`: an executing receipt names an attempt of its own run, so the sweep that
  fences the attempt reaches the receipt.
* `RestartInv`: a receipt that can be started has a grant left; an ended one may have none.
* `NoEarlyVerdict`: a run that has not ended and was not revived has told no end, so the first
  end it tells is the last.

`LedgersSettled` is checked by the code at the commit only; it stays true because after the
commit the job's lease is over and `OneActiveJob` leaves nobody who could write for the run
until it is admitted again. The late resume job (finding 1) is the exception in the
properties themselves (`Revivable`).

`RunWorkerProofs` proves of the process (`WorkerSafe`, no fairness, any number of runs, jobs,
slots and restarts; the topology, tools and bounds are arbitrary constants too):

* `WorkerCallsStore`: `WorkerSafe => Spec`. Each step between two awaits is one transaction of
  the store or leaves the tables alone, so the theorems above hold of the process;
  `WorkerAttemptIsUnique` is the first of them, restated.
* `HolderStaysRegistered`: `WorkerSafe => []HolderIsRegistered`.
* `CleanupComesFirst`: `WorkerSafe => []CleanupBeforeEnd`.
* `WorkerTypesHold`: `WorkerSafe => []WorkerTypeOK`.
* `OnlyAskedIsCanceled`: `WorkerSafe => []CanceledWasAsked`.

The inductive invariant `WorkerInv` adds to the store's that a task exists only for a job that
was once leased, that an attempt which has not come to settle anything, or whose resources are
not proved closed (`Early`), has a leased row, and what each kind of suspended task carries
(`GoodTask`: for instance, open resources only while it can still close or quarantine).
`CleanupBeforeEnd` follows because `JobMatchesStatus` says what status goes with a leased
row. The argument per step is in `Preserve`: nothing but a claim leases (`Rows`), the only
steps that end a lease are the commit and the confirmation of a task that is past its
cleanup, and no task comes back to life; `DispatchStep` needs `OneActiveJob` to show that the
new entry in `_tasks` replaces one whose attempt has lost or settled its lease. TLC checked
`WorkerInv` as an invariant of the `crash` and `resume` instances before it was proved.

The last two need more (`ProcessInvariant`: `WorkerSafe => []ProcessInv`):

* `PermitInv`: the free permits and the tasks that hold one (`SlotTakers`: dispatched and not
  released, the leaked ones of finding 3 included) add up to `Slots`, so none is given back
  twice. A step takes a permit for a job that had no task, gives one back in the inner
  `finally`, or leaves the set of holders alone (`Kinds`).
* `CancelInv`: every mark that can end in the outcome `canceled` has its reason
  (`Reasoned`). A `task.cancel()` comes from a request, from `stop()` or from a heartbeat
  that saw the lease lost; the graph's result and the handler of `CancelledError` turn it into
  `canceled` only when neither of the last two holds, and then it was a request, or the
  attempt no longer owns its job and the fence refuses the write. That reasons last
  (`ReasonsStay`) is where the races are: requests are never taken back, a stopping process
  does not come up again, a lost lease is never regained, and an entry of `_tasks` belongs to
  the run it is filed under, so a late `cancel_run` reaches a task of that run. The process
  admits no child run, so the claim's sweep of blocked runs cancels none; with children that
  is a cancel nobody asked for, and it is the store's properties that speak of it.

`EventStreamProofs`, for any number of subscribers, rows and connections and any queue size:

* `LockExcludes`: `StreamSpec => []OneInside`. The lock is an object made on demand and dropped with
  its last user, so exclusion rests on every task that is inside or waits having asked for the
  object that is still in the dictionary. `LockInv` says so, with the count of users equal to the
  number of tasks that asked; `UsersInv` ties who has asked to where each coroutine is.
* `RowsComeInOrder`: `StreamSpec => NoGapNoDuplicate`. `Reader`: the rows a generator has in hand
  are those right after its cursor up to some row (`Batch`), so yielding the least of them moves
  the cursor by one, whichever of replay, wake-up and poll has read them.
* `EndsAreComplete`: `StreamSpec => EndsComplete`. Also in `Reader`: after a poll, and as long as
  the queue is empty, what is in hand is all that was announced and is beyond the cursor. An
  announcement puts a wake-up into the queue of every registered subscriber, and a full queue
  drops it but is not empty.
* `StreamTypesHold`: `StreamSpec => []StreamTypeOK`.

`ChildCoordinationProofs`, for any number of children, slots, tool waits and cancels and any set of
policies. The invariant is `CoordInv`:

* `SlotInv`: free slots and slots in use are all slots and those lent, plus those a doubly
  cancelled wait never took back. `PlaceInv`: which waits may be under way where the parent is.
* `SettleInv` is the argument about the settlement. It looks at the children, cancels, waits and
  looks again, and children move between any two of these. What stays is that nobody new is
  spawned and that an end stays an end (`Progress`), so a policy that is satisfied stays
  satisfied and a quorum that is met stays met (`QuorumStays`, `SatisfiedStays`). The children
  cancelled at the first look contain every optional one that is still active
  (`Optional(kid) \subseteq parent.ids`), so when the wait for them is over none is, and at the
  commit whoever is active is a member of a met quorum (`Surplus`). The invariant says so of the
  outcome handed on, `parent.out` (`Justified`), and keeps saying it when the commit makes a
  failure of it.

From it: `CompletedIsByPolicy`, `NoOtherOutlives` (`CoordSpec => []OnlySurplusOutlives`) and
`CoordTypesHold`, whose last conjunct says that a settlement which can neither succeed nor fail has
a child to wait for (`SomebodyToWaitFor`): it does not poll for nothing. That a surplus member may
be active is not a gap of the proof but what the code does (finding 6).

`AgentProofs`, for any number of subagents, budget and retries:

* `RetriesStaySilent`: `LoopSpec => []RetriesAreSilent`. The invariant (`Silent`) says in
  which positions a turn may have been seen, and what its ledger row then is.
* `FinalAnswerAlwaysFits`: `LoopSpec => []FinalAnswerFits`, for every limit, reserve and number
  of retries. The invariant `Room` bounds how far the last ordinary turn can overrun the
  threshold where convergence begins (`Threshold == limit - Reserve`): it began below it, and it
  and its retries, or the subagents it waits for, take `Retries` calls too many at most.
  Subagents leave the reserve alone because the root delegates only in a turn that began below
  the threshold, which is then at least 1, so that their `max(1, ...)` adds nothing.
* `LargeReserveIsEnough`: where the reserve is more than `2 * Retries`, no first converging turn
  is refused its call or a retry of it.

`DurableServicesProofs`, of the outbox: `DeletedStaysSettled` and `NothingElseSkips`, from the
invariant `PushInv`: the two properties and `RoundInv`, what the coordinator's round knows (it does
not poll past the last event, and does not leave an event it has read unrecorded before the cursor
moves). `PushTypesHold` has the bound on attempts: the code compares a row's count with the maximum
only when an answer comes, and a stop loses the answer after the claim has counted, so the bound is
`MaxAttempts` plus one for each stop (`Tried`: an unsettled row that is not in flight has one less).

Of the schedules: `ScheduleRunsOnce` and `ScheduleTellsOutcome`, from `SchedInv`: per row, that
the command's receipt is its only run (`OneReceipt`), and `ErrandKnows`, what an errand in each
position knows of the row and of the run. The runs' own steps only leave terminal statuses
alone. `SchedTypesHold` adds the bounds (`SchedBounds`).

`AgentProofs`, of the mailbox: `MailIsSeen` and `ConversationsStayDense`, from `MailInv`: per run, that what
is delivered and open is either in the hands of the attempt that is before its model call or
in the checkpoint (`ReadsOf`), and that a call refers to messages the run was shown
(`CallsOf`); of the table, that every conversation's numbers are `1..n` (`Numbered`), by which
the number after the greatest is the number of its messages plus one. `MailTypesHold` adds that the
table keeps its bound although a call may be repeated after its row was inserted.

`McpCatalogProofs`: `SessionsAlwaysFollowUse`, from `CatalogInv`. An entry's count is the number
of attempts that hold it plus the leases that were lost, so a count of zero means that nobody
holds it; what is retired and still counted is in `kept`; what is about to be stopped is
retired, uncounted and no longer current, and so can never be leased again, since leases are
taken of current entries only. A broken current entry is marked for refresh, and while one is
marked either the task has yet to look or it was told to run again.

`RuntimeServicesProofs`: `ServicesKeepApart` says that the composition, in which the services' steps
interleave as `focus` allows, implements each of them; with their type theorems this gives
`ServicesTypesHold` (`ServicesSafe => []ServicesTypeOK`), and the other theorems about a service
hold of the composition in the same way.

Each of the invariants of the services was checked by TLC on small instances before it was
proved. None of the theorems assumes finiteness beyond the modules' own assumptions.

## 5. Only model-checked

Every safety invariant and every action property that a passing run checks is the statement of a
theorem, and so is the refinement of `RunLifecycle`. What is checked by TLC only is what needs
fairness: `CancelSettles`, `StopDrains`, `RowsReachReaders`, `StreamsEnd`, `ParentSettles`,
`ScheduleSettles` and `PushesSettle`. Their proofs would reason about `ENABLED` and about induction
over a ranking, which are out of the prover's reach. The counterexamples of section 6 are TLC's.

## 6. Where the code and the repository's words part

Six runs end in a counterexample; the findings in `PROJECT.json` quote the sentences.

1. `terminal`: `resume_run`'s late enqueue lets a cancelled run be executed again.
2. `canceled`: a waiting commit passes an accepted cancel; the run goes on waiting.
3. `slot`: a cancel at the await before the inner `finally` leaks the slot.
4. `paused`: at boot a claimed schedule whose run is still queued or running is reported as
   failed because its run paused.
5. `told`: a configuration's snapshot raises the task's cursor past events that another
   configuration was owed.
6. `orphan`: a quorum that is met while the settlement waits for a cancelled best-effort child makes
   the parent complete and leaves the quorum's other members active, where
   `src/docs/runtime-protocol.md:125` has them cancelled: the second summary is asked whether it is
   satisfied and not whom to cancel (`runs/settlement.py:195-200,219`).

Seen on the way, without a run of their own:

* A repeated decision of an older cycle creates a resume job although the current cycle is not
  complete (`store/run_commands/waits.py:19`).
* The finished attempt removes its successor's context (`runs/job_execution.py:197-204`).
* An attempt whose commit is fenced in its handler of `CancelledError`
  (`runs/job_execution.py:129`) has cleaned up but never submits the proof, so its run stays
  `cleanup_required`; so does the run of an attempt whose process died, since only the exact
  owner may confirm. Both are on the safe side.
* Slots do not bound attempts exactly. A parent cancelled twice at the re-acquisition of its
  slot does not take it again but gives one back when it ends (`runs/collaboration.py:340-345`,
  `runs/job_execution.py:205`; `leaked` in `ChildCoordination` counts them), where
  `src/docs/run-loop.md:74` states a limit. And two of three concurrent `child.wait` calls of one parent
  can both lend the one slot it holds: the first drops the lock object while the second has
  been woken and not run yet (`runs/collaboration.py:279-280`), and the third makes a new one.
* A cancelled child that commits that it waits makes its settling parent wait for the user.
* A waiting outcome that the ledgers turn into a failure (`runs/settlement.py:90-126,178`) and
  boot recovery leave the children of the failed parent active and unasked, where
  `src/docs/runtime-protocol.md:125` has a parent's failure propagate to them.
* `src/docs/run-loop.md:400` describes the calls kept for the final answer as safe for its
  retries; at a `max_model_calls` below 6, which the configuration accepts, they are not.
* A claimed schedule whose run was accepted but not bound fails with a workspace error on
  recovery when its workspace is gone by then, while its run goes on. An unbound schedule that
  recovery starts is followed to its end before HTTP is served (`server.py:183`), and a tick's
  `gather` holds up the schedules that come due in the meantime.
* The completion router looks at the last route only (`middleware/completion_evidence.py:270-276`),
  so two kinds of repair can alternate past the limit that `src/docs/run-loop.md:211` gives for one.
* The reserve for the final answer is partly eaten by the retries of the last ordinary turn
  (`src/docs/run-loop.md:400`); section 4 says when enough is left.
* A stream may end without a row that an unlocked transaction appends between its poll and its
  look at the status, and after an overflow of the queue transient output may overtake a row.
* Push: a projection that always fails (`a2a_gateway/push.py:327`, for instance on an artifact
  that is unavailable) ends every round of the coordinator, so no delivery of any task is made;
  `PushesSettle` holds for a bounded number of such failures. The id of a deleted configuration
  cannot be used again, and retries reorder events.
* The sandbox reaper (`plugins/sandbox_process.py:83-108`, `sandbox_reaper.py:70`) answers "reaped" when
  the leader exits on SIGTERM while members of its group survive, "gone" when only the leader
  had died; a process that is started but not yet recorded when the Runtime is killed has no
  record. It compares start time and command line of the process before it signals, which leaves the instant
  between the comparison and the signal.
* MCP: a call of one run that fails, times out or is cancelled ends the session that other runs
  lease (`tools/mcp/session.py:108-119`), so their calls fail until the refresh has replaced it,
  and in an attempt that keeps the old entry to its end; `src/docs/mcp-runtime-lifecycle-research.md:157`
  says that an execution must not close a connection other runs use. An announcement of other
  tools that arrives between a discovery and the callback (`tools/mcp/__init__.py:342-354`) is
  dropped. A refresh that leaves out the servers one run has disabled retires them for everyone,
  and a pending request is repeated with the first requester's list (`tools/mcp/__init__.py:191-210`).
  An attempt cancelled a second time while `_release` waits for the lock keeps its leases, so a
  retired session of its stays until `close()`.

## 7. Plan

Done: the store, its abstract lifecycle, the coordinator around it, and the seven services; the
proofs of every safety and action property the runs check, of the refinement, and of the services'
composition.

Next, in this order:

1. Lemmas towards the liveness properties that are safety: that a coroutine which has not ended
   always has a step of its own or somebody it waits for, for the stream and for `stop()`.
2. The switch of plugin versions while attempts lease them.
3. The command log (repeated commands with the same or another payload) as a module of its own.

### Not modelled

What an LLM answers, prompts, document, spreadsheet and presentation workers, speech, virtual
machines and sandboxes, HTTP adapters of model providers, the fake provider, database
migrations, the user interface and its build: they have no durable protocol of their own, or
are data conversion and I/O. They are most of the repository's lines, so the share of lines the
models stand for is small; it is large where runs are executed. The checkpointer's head is a
free choice of boot recovery in `RunWorker`, since an expired lease always quarantines and no
attempt starts from a head that a crash has left behind. The sandbox reaper is described above;
its process table is the operating system's. Of the MCP
catalogue the persisted descriptors (read at boot, then only written), the limits on servers and
tools, the validation of metadata and the transports are left out.
