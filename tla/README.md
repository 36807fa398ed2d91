# Hyperion: specifications and proofs

Hyperion is an asyncio program: a worker that executes workflows for a
business (e-mails, database queries, calls to ERP services, prompts to a
language model) and a handful of agents around a language model.  This
directory holds TLA+ modules of its core, the configurations TLC checks them
with, and proofs for TLAPS.  Paths below are relative to `src/`.

Running them: `tlc -config Loops.cfg MCWorkflowEngine`, `tlapm
WorkflowEngineProofs.tla`.  `PROJECT.json` lists the runs, which source lines
each definition models, the hazards of the code and the mutants that show that
a property can fail.

## 1. Inventory

| part | state | operations | properties that make it correct |
|---|---|---|---|
| Workflow executor (`core/workflow_engine.py`) | `active_executions`, `_metrics`, the semaphore of `max_concurrent`; per execution `errors`, `status`, `iteration`, `current_node_id`, the attempt; per integration a semaphore | `execute_workflow`, `execute_workflow_by_id`, `cancel_workflow`, `_execute_loop`, `_save_execution`, `get_metrics`, `close` | permits are conserved; each execution is counted, popped and recorded once; iterations do not overlap; completed means the success path was walked; a cancel is honoured; every execution ends |
| Node handlers (same file) | none, but may hang, raise, or swallow a cancel | one per `ActionType` | answers as the executor expects them |
| Worker and workflow manager (`main.py`, `core/workflow_manager.py`) | the tasks of `main`; `workflow_queue`, `active_workflows`, `_running`, `_running_tasks` | `main`, `start`, `_email_polling_loop`, `handle_event`, `_execute_workflow`, `close` | no queued workflow is lost or run twice; no e-mail is marked unhandled; the shutdown ends, and nothing works on a closed session |
| Workflow builder (`create_workflow_from_json`) | `active_workflows` | one pure translation of temp ids to node ids | every link of the definition leads where it says |
| Workflow database (`database/workflow_db.py`, `core/database.py`) | one `AsyncSession` shared by the worker, one per request of the web API; tables of workflows, nodes, executions | `get_workflow`, `save_workflow`, `soft_delete_workflow`, `execute`, `save_execution`, `update_task_status` | a definition is replaced as a whole, by its organization only; what an execution was told is stored, and its changes are made once |
| Circuit breaker (`utils/circuit_breaker.py`) | `state`, `failure_count`, `half_open_calls`, `last_failure_time` | `call`, `_record_success`, `_record_failure` | opens after the threshold, closes only after a probe |
| Rate limiter (`utils/rate_limiter.py`) | `tokens`, `last_refill` per key | `acquire`, `wait_and_acquire` | never grants more than capacity + rate * time |
| Retry, base agent (`utils/retry.py`, `agents/base.py`) | attempt, delay; memory | `think` | bounded attempts; the breaker sees what happened |
| Shared memory (`utils/shared_memory.py`, `utils/redis_client.py`) | values, expiries, backend | `set`, `get`, `delete`, `clear` | a value lives as long as it was set to |
| Orchestrator and agents (`agents/orchestrator.py`, `agents/specialists/`) | agent `status`, `routing_history` | `route_task`, the agents' `process` | no agent stays shown as working; each task is in the history once; a task that names its agent ends |
| Notion ERP (`integrations/notion_erp.py`) | remote pages | `manage_inventory`, `create_support_ticket`, `record_transaction`, `_notion_request` | repeated requests change the inventory once; pages are bounded by attempts |

Interactions.  The manager queues workflows and runs each in a task that calls
the executor; the web API calls `execute_workflow_by_id` and
`cancel_workflow`.  The executor calls the handlers through
`asyncio.wait_for`; the handler of a loop node calls `execute_workflow` again,
on the same semaphore and the same tables.  All executions and the manager
write through one database session.  Agents call the language model through
retry, limiter, breaker and a timeout.

What is hard here is asynchronous: cancels that arrive between a wake-up and
its turn to run, timeouts that race answers, `finally` blocks that suspend,
tasks that outlive their caller, nested acquisition of one semaphore, and
state read before an `await` and used after it.  There are no threads, and the
executor holds none of its locks across a suspension point; what runs between
two suspension points is therefore one atomic action.

## 2. Modules

| module | what it is |
|---|---|
| `AsyncSemaphore` | `asyncio.Semaphore` of CPython 3.11 (the version of the Dockerfile) as operators on a record: permits left, queue of waiters, waiters that were woken and have not run |
| `WorkflowEngine` | the executor, its executions and the handlers as it sees them |
| `ExecutionLifecycle` | what the executor promises about an execution, without any of the machinery |
| `MCWorkflowEngine` | workflow graphs for the runs |
| `WorkflowEngineProofs` | the theorems about single executions, the registry and the store |
| `AccountingProofs` | the theorems about permits, metrics, paths, cancels, nesting and the amount of work, and the refinement proof |
| `CircuitBreaker`, `TokenBucket` | the two utilities as operators on records |
| `AgentThink`, `AgentThinkProofs` | `BaseAgent.think` under concurrent callers, over both; its theorems |
| `RateEnvelope`, `RateEnvelopeProofs` | what a token bucket promises over any interval, and the proof |
| `Worker`, `WorkerProofs` | `main`, the dispatcher, the mailbox and the shutdown; the theorems |
| `DefinitionStore` | what the database promises about definitions: a map |
| `WorkflowStore`, `WorkflowStoreProofs` | the tables, the requests' transactions and the session all executions share; the theorems |
| `DefinitionRun` | what a definition in JSON means: a run along its temp ids |
| `WorkflowBuilder`, `MCWorkflowBuilder`, `WorkflowBuilderProofs` | the translation of definitions and the walk along what it built; all small definitions; the refinement proof |
| `AgentTasks`, `AgentTasksProofs` | the orchestrator, two agents and the connector under faults; the theorems |

### WorkflowEngine

`ex[e]` is the frame of execution `e`: the local variables of
`execute_workflow` (`node` = `current_node_id`, `iter`, `att`, `errors`,
`outs` = keys of `node_outputs`, `status`), the suspension point it is at
(`pc`), a cancel that is pending (`creq`), and the *call*: what has become of
the task in which `wait_for` runs the handler.  `child` and `item` belong to
the handler of a loop node: the iteration it awaits and its number.  A frame is
also the asyncio task it runs in; a loop's iteration runs in the task of its
parent's call, so cancelling that task means cancelling the iteration.

`pc`: `waiting` is in `semaphore.acquire`; `acting` in `wait_for`;
`cancelling` and `timingout` are `wait_for` after it has cancelled its call,
for either reason, until that call has ended; `backoff` is the sleep between
attempts; `saving` is `finally: await _save_execution`; `done` is after that.

| actions | code |
|---|---|
| `StartTop`, `LoopLoaded`, `IterationReturns` (through `Begin`) | `execute_workflow` up to its first suspension |
| `Acquired`, `AcquireCancelled` | the end of `async with self.semaphore` entry, either way |
| `HandlerEnds`, `HandlerStopped` | the handler of a node |
| `TimeoutFires`, `CancelDelivered` (through `Interrupt`) | `wait_for` cancels its call |
| `NodeSucceeded`, `StopReached`, `ErrorThrown`, `NodeGaveUp`, `AttemptFailed`, `BackoffOver`, `CancelRaised` | the body of the while loop from one suspension to the next, including `Visit` of the next node and, at the end, `Leave`, the release of the permit, the metrics and the registry (`Settle`) |
| `TopReturns`, `IterationReturns`, `SaveCancelled` | the end of `finally` |
| `CancelWorkflow`, `CancelTop` | `cancel_workflow`, `WorkflowManager.close` |

Data is abstracted to what the control depends on: a node is its kind, links,
retries and loop parameters; an answer is a word; errors are the set of reasons
recorded.  Times are abstracted away: a timeout may fire at any moment of a
call, and a sleep ends at some moment.  Conditions, `stop` and `throw_error`
have no suspension point and cannot be interrupted.  A cancelled handler may
nevertheless answer (it was past its last suspension, or had swallowed the
cancel in a `wait_for` of its own).  A save may succeed, fail (which is logged
and swallowed) or be cancelled before or after its commit.

`cancel_workflow` finds the task in `active_executions`; what it does depends
on where the task is suspended, and that is what `creq`, `WithdrawIfWaiting`
and the guards on `creq` model, after CPython 3.11: a waiter in the queue is
cancelled on the spot; a woken one gets its permit and then the error, and
passes the permit on; `wait_for` whose call has ended returns its result and
the cancel is lost (`Answered`).

`ExecutionLifecycle` has three kinds of steps: begin, end with a status,
record.  `ImplementsLifecycle` maps the frames to it (`LifeOf`) and keeps the
store and the metrics, which are the interface.  An iteration's record and the
begin of the next iteration happen in one step of the executor; the abstract
specification allows that step.

`Ready` says when the event loop has something to run for an execution: a permit
or a cancel that has come, a timer, an answer, a save.  `NobodyStuck` is about
the others: never all that have begun are without it.

### AgentThink

All callers of an agent share one bucket and one breaker; a caller is between
two thinks, polling the limiter (`limiting`), in the call to the model
(`calling`), or in the sleep of the retry decorator (`backoff`).  Since neither
utility holds its lock across a suspension, a poll that gets its token goes
through the breaker and starts the call in the same step (`Poll`).  Only
`LLMTimeoutError` is retried; an open breaker makes `think` return an empty
answer; a cancel passes the breaker by, because `CancelledError` is not an
`Exception`.  The answers of a call reach the breaker in whatever state it is
by then, which is what makes its counters worth checking.

Time is discrete.  A clock would make the state space infinite, so the modules
keep ages (since the last failure, since the last refill, since the first
poll); `AgentThink` stops an age where the code can no longer tell the
difference: one beyond `recovery_timeout` or `max_wait`, and `Capacity` ticks
for the bucket, which is then full at any rate (`SaturationUnseen` proves that the
bucket behaves the same).  Tokens are whole numbers of
a small unit, so floating-point rounding is not covered.  `tripped` is a
history variable: the age of the last opening, which the code does not keep.

`RateEnvelope` has the bucket alone, without that saturation, and an observer
that may begin an interval at any moment and counts what is granted in it.

### Worker

The tasks of the process and where each is suspended: `main`, `start` (the
dispatcher), `poll` (the mailbox) and one task per workflow.  An execution is a
task that begins and ends; `WorkflowEngine` says what happens inside, and
`EveryExecutionEnds` that it ends.  `wait_for(queue.get(), 1.0)` has an inner
task: `held` is what that has taken, so that a timeout or a cancel can arrive
between the get and the dispatch.  `main` goes from `connecting` over
`serving` to `joining` (the gather), `closing` and `draining` (`close`),
`finishing`, and the cancellations of `asyncio.run`.  `fate` records what a
shutdown is not written for: a cancel that `wait_for` swallowed because its get
had ended, a SIGINT into `main`, an `asyncio.wait` whose 5 seconds passed, a
task cancelled before its first step.  A mail goes through listing, parsing,
answering and marking, each of which may fail, and the answer of the model
may be any of those `parse_intent` distinguishes.

### WorkflowStore

A request of the web API is a transaction: its `SELECT ... FOR UPDATE`, which
waits for the row lock, and its commit or failure.  An execution loads the row
and then the nodes, queries, and saves its record, all through one session:
`pending` is what a flush will write, `work` what was executed without a
commit, and a rollback, whoever asks for it, drops both for all.  While a
commit is under way the session refuses other commits and rollbacks, and what
is added meanwhile (`late`) is not part of it.  An aborted session fails
everything until a rollback.  `save_execution` rolls back on `except Exception`,
which `CancelledError` is not: a save that is cancelled in its commit
(`SaveCancelled`) closes its connection, so the server drops the transaction, and
leaves the session aborted.  A commit may also take effect and its answer be lost, to
a broken connection or a cancel (`SaveUnanswered`).  The row an execution loads is shared through the
identity map with other loads of the same id.  `undone` and `raced` are history
variables.  `ImplementsDefinitionStore` maps row and nodes to one definition,
absent, deleted or, were they ever to differ, torn.

### WorkflowBuilder

`create_workflow_from_json` as operators on a definition (`NodeMap`, `Linked`,
`Build`), and the executor's walk: success, failure, branch, missing node,
iteration limit.  The ids of nodes, uuids in the code, are positions, which are
never temp ids.  A definition may repeat temp ids or leave them out.
`_execute_condition` renders its field to a text before it compares; the
operator `Compare` is what Python makes of each test.  `DefinitionRun` is the
meaning, and `ImplementsDefinitionRun` maps the node the walk is at to the temp
id it was given; a definition with a repeated temp id has no meaning, and the
branch of a condition leads nowhere, which is what the code does.

### AgentTasks

A task is new, being classified, with an agent that consults or thinks, or
with the connector.  The agents are the two whose `process` changes something
outside of them and one that stands for the others.  A delegation never reaches the
connector: `_delegate` passes on the description and the action but not the
parameters, so a delegated update ends at once with "Missing item_id", inside an
answer that reports success, and anything else thinks.  A request to Notion has its
attempt, whether it was executed, and the value it has read or carries.  The query
too is executed at one time and answered at another, and what it read may be stale
by then.  `late` counts the copies that a timeout, a cancel or an error status
(`MayCopy`: a 5xx does not tell) left behind and that may still be executed.
`_notion_request` repeats on a status 429 and on every `httpx.RequestError`, its
timeouts included, and returns `{"error": ...}` in
the end, which `manage_inventory` does not look at.  `overlap` is a history
variable: an update was written while another one had read what it will write
from (`HasRead`).

## 3. What the runs check

| run | instance | properties |
|---|---|---|
| `engine_steps` (`Steps.cfg`) | 2 executions, 1 permit, 2 cancels; a graph with call, condition, stop, throw, a cycle, a retry, a dangling link, and an empty workflow | `TypeOK`; `CompletedRanThrough` |
| `engine_permits` (`Permits.cfg`) | 4 executions, of one node or loops of two items over them, 2 permits, 1 cancel | `PermitConservation`, `NoLostWakeup`, `QueueMatchesWaiters`, `CancelledInQueueNeverRuns`, `NobodyStuck` |
| `engine_loops` (`Loops.cfg`) | a loop of two items with a retry: up to 4 executions, 2 permits, 2 cancels | `IterationsDoNotOverlap`, `OrphansComeFromCancels`, `CancelHonoured`, `ImplementsLifecycle` |
| `engine_contention` (`Contention.cfg`) | two loops of one item on two permits, no cancels | `MetricsAddUp`, `RegistryExact`, `EveryExecutionEnds` |
| `agent_think` (`Think.cfg`) | 3 callers, 2 attempts, thresholds of 2 | `TypeOK`, `BreakerAddsUp`, `OpenKeepsCallsAway`, `EveryThinkEnds` |
| `rate_envelope` (`Bucket.cfg`) | capacity 5, rate 2, requests up to 3, intervals up to 5 ticks | `Envelope` |
| `worker` (`Worker.cfg`) | 2 mails handled up to twice, 3 workflows, one mail per batch, 2 attempts to connect | `TypeOK`, `OnePlace`, `ActiveExact`, `EachMailHandled`, `NothingOutlivesSession`, `ShutdownEnds`, `QueuedRuns` |
| `store` (`Store.cfg`) | one id, 2 definitions, 2 organizations, 2 requests, 3 executions, one of them from an e-mail, one whose query has no rows | `TypeOK`, `RecordsAgree`, `ChangesAddUp`, `TornOnlyByRace`, `OrgIsolation`, `ImplementsDefinitionStore`, `Heals` |
| `builder` (`Builder.cfg`) | all definitions of up to two calls and of a condition before a call; conditions with all operators on texts, numbers, lists, None | `ConditionsSeeTexts`, `ImplementsDefinitionRun` |
| `tasks` (`Tasks.cfg`) | two updates, one of them without a type, a decision and a delegation with one, a post, 2 attempts, a history of 2 | `TypeOK`, `StatusAndHistory`, `InventoryAddsUp`, `PostsAddUp`, `OnlyClassificationWaits` |
| `engine_max_iterations` (`MaxIterations.cfg`) | one execution | `MaxIterationsMeansUnfinished` is violated |
| `engine_cancel_message` (`CancelMessage.cfg`) | a loop and its iteration, no cancel | `CancelledByUser` is violated |

What they show.  No interleaving of cancels, timeouts and wake-ups loses a
permit, a wake-up or a count.  A loop that times out waits for its iteration
before it retries.  The loops that hold the permits their iterations wait for
do get out of that state, by their timeouts: not a deadlock, but a failed run.
Nor is there a deadlock where no timeout is left: a loop that was interrupted
waits for its iteration without one, and if that iteration swallows the cancel
and ends, its successor queues for a permit uncancelled; by then the loop has
somebody else's permit to wait for, never its own alone (`NobodyStuck`).

A breaker cannot be confused by calls that report late: whatever it was when it
admitted them, it is closed exactly while it counts fewer failures than its
threshold, and no call begins while it is open and the time is not over.  (Such
a late success does close a half-open breaker; nothing in the repository says
it should not.)  A think ends although the model hangs and other callers drain
the bucket.

The worker loses no workflow between queue, getter and task, whichever of
timeout, cancel and dispatch comes first.  A mail may be handled twice, but only
after a mark that failed, and may be marked although nothing could be made of
it, but not unhandled.  `active_workflows` keeps for ever the workflows
whose task was cancelled before its first step, and the property says so.  The
shutdown ends unless `start()` swallows its cancel in a `wait_for` whose get
has just ended; then `main` waits for it.  A task may go on
after the session is closed, if the 5 seconds passed or `start()` was alive.

Of the database: a save replaces row and nodes at once for whoever reads
committed data, and what a request may change is decided under the row lock.
A load in two statements may nevertheless be torn, exactly when a save was
committed between them.  In the shared session the end of a transaction takes the
changes of others with it; `ChangesAddUp` says that nothing else does, and that no
change is made twice by a commit.  A query without rows raises after it has taken
effect, so a retry repeats it: such executions never count as answered, and their
change is made up to once per attempt.  A failed load or query leaves the session
unusable for all until a record fails to be saved.  So does a save that is cancelled in
its commit, and with it ends the execution that would have rolled back.  `Heals` says
what is left of the repair: every save that ends on an unusable session repairs it
unless it is cancelled too, and one comes as long as an execution runs; once the last
one was cancelled the session stays unusable until somebody starts another.

The builder runs a definition along its temp ids, in whatever order nodes and
links are given, except into the branches of a condition, whose temp ids are
not resolved.  Conditions compare texts, so equality with a number never holds.

Of the agents: the inventory survives repetition, loss and late execution of
requests, because a PATCH carries the sum: no update is ever counted twice.  One that
is written between the read and a write of another may be lost, even if nobody was
writing when the answer of that read arrived; never are all lost, and
`InventoryAddsUp` excludes every other loss.  A POST creates up to one page per attempt.
An agent shown as working has a task; one that has a task is shown as idle only after
another of its tasks has left (`StatusAndHistory`), which does happen.  A task without
a type may wait for ever for its classification, and no task for anything else
(`OnlyClassificationWaits`).

The two violations are disagreements between the code and what it says of
itself.  (1) `execute_workflow` tests `iteration >= max_iterations` after the
loop without asking whether a node is left, so a workflow that ends normally
in its last allowed iteration is failed with "possible infinite loop"
(`core/workflow_engine.py:509`).  (2) The handler of `CancelledError` records
"Workflow cancelled by user" also for an iteration whose loop node timed out
(`core/workflow_engine.py:522`).

Bounds, all named constants: `MaxExec` ids, `MaxTops` executions from outside,
`MaxCancels` cancels.  Two permits and four executions are the smallest
instance in which a woken waiter, a queued one and a holder coexist and a
permit can pass between two woken waiters, one of them cancelled; a second
cancel of the same execution (which leaves its call behind) needs two, which
`engine_steps` and `engine_loops` have.  Two
loop items with one retry give an iteration that follows another, and one that
follows an interrupted attempt.  Depth 1 is one level of nesting; what a deeper
loop does to its parent is what an iteration does to its own.  Loops compete with
single nodes in `engine_permits` (297,558 states), so that an iteration queues
while its loop and another execution hold both permits, and an interrupted loop
waits for an iteration that queues.  Deadlock is not
checked (`CHECK_DEADLOCK FALSE`) because a behaviour ends when the bounded
supply of executions is done; `NobodyStuck` and `EveryExecutionEnds` take its
place.

In `agent_think` three callers are what it takes for one to be in the call
since before the breaker opened while two others fail as probes; thresholds,
attempts and times are 1 or 2, so that each is reached and exceeded.
`rate_envelope` has requests larger than one tick's flow, and idle times longer
than it takes to fill the bucket.  Deadlock is checked in both.

In `worker` a second mail is what it takes for a mail to be listed while
another one is being handled, `MaxHandles` 2 for one that is handled again, and
three workflows for one queued, one taken and one executing (247,664 distinct
states).  In `store` two requests of two organizations race for one id, and two
executions with the database behind them commit, roll back, are cancelled and load at
each other's suspension points; `MaxOps` 2 allows a save and a delete, or a save and
the save that tears a load; the mail's execution has no workflow row (1,313,698
states).  Ids do not interact, so one is enough.  In `tasks` two updates overlap,
both direct, one of them after a classification that may hang; a decision and a
delegation share the status of the executive; two attempts give a repeated request
whose first copy is late; four tasks exceed the history of two (558,348 states).  The
post comes after the tasks and their late copies, with which it shares no state: a
bound, in the guard of `Post`.  In `builder` two nodes are enough for repeated and missing
temp ids, forward and backward links and cycles, `MaxIterations` 4 for a cycle
walked twice (28,523 states).  These runs too stop when their bounded supply is
used up, hence `CHECK_DEADLOCK FALSE`.

Fairness (`Fairness`): weak fairness of `Scheduled(e)`, for each execution:
ready tasks run, timers fire, and a call that was cancelled ends.  The event
loop does the first two; `HandlerStopped` relies on handlers not to ignore a
cancel forever, and the save on the `command_timeout` of 30 seconds of the
connection (`core/database.py:21`).  Handlers that may suspend have no
fairness: they may hang, and so may the load of a sub-workflow.  Those that
cannot suspend end.  Nobody need start or cancel anything.  In `AgentThink`
time advances, and polls, timeouts and the ends of sleeps happen (the event loop
schedules them); the model need not answer, and nobody need think.

In `Worker` the dispatcher's steps, the steps of `main` and the begin and end
of each execution are fair: the event loop runs what is ready, `main` waits with
timeouts only, and executions end.  Nobody need write a mail, and the server need not
stop.  In `WorkflowStore` a running execution goes on and its statements end,
by `command_timeout` at the latest, in any of the ways a commit can end; requests need
not go on.  In `AgentTasks`
a request ends because httpx times out after 5 seconds, a think because
`EveryThinkEnds`; the classification has neither, and is not fair.
`WorkflowBuilder` has only safety.

## 4. What is proved

For every set of workflows satisfying `FlowsTyped` (links are node ids that may
dangle; iteration limits are positive) and all bounds, `WorkflowEngineProofs`
proves

- `TypeCorrect`: `Spec => []TypeOK`
- `IterationsNeverOverlap`: `Spec => []IterationsDoNotOverlap`
- `OrphansOnlyByCancel`: `Spec => []OrphansComeFromCancels`
- `RegistryStaysExact`: `Spec => []RegistryExact`
- `StoreNeverDisagrees`: the record of an execution carries its final status, or is
  missing (`StoreAgrees`, stated there)

| module | theorem | states |
|---|---|---|
| `AccountingProofs`, under the same assumptions | `PermitsConserved`, `WakeupsNotLost`, `QueueHoldsWaiters`, `MetricsTrue`, `CompletedRan`, `CancelsHonoured`, `QueuedCancelNeverRuns`, `NobodyEverStuck`, `ExecutorImplementsLifecycle` | `PermitConservation`, `NoLostWakeup`, `QueueMatchesWaiters`, `MetricsAddUp`, `CompletedRanThrough`, `CancelHonoured`, `CancelledInQueueNeverRuns`, `NobodyStuck`, `ImplementsLifecycle` |
| `AgentThinkProofs`, for any callers, thresholds, times, rates | `TypeCorrect`, `BreakerStaysCoherent`, `OpenKeeps` | `TypeOK`, `BreakerAddsUp`, `OpenKeepsCallsAway` |
| `RateEnvelopeProofs`, for any rate, capacity, requests, interval | `BoundedGrants` | `Envelope` |
| `WorkerProofs`, for any mails and workflows | `TypeCorrect`, `MailsHandled`, `NoneLostNorDoubled`, `ActiveListed`, `SessionOutlives` | `TypeOK`, `EachMailHandled`, `OnePlace`, `ActiveExact`, `NothingOutlivesSession` |
| `WorkflowStoreProofs`, for any ids, definitions, organizations, requests, executions | `TypeCorrect`, `OrganizationsApart`, `TornLoads`, `ChangesKept`, `RecordsHold`, `StoreImplementsDefinitions` | `TypeOK`, `OrgIsolation`, `TornOnlyByRace`, `ChangesAddUp`, `RecordsAgree`, `ImplementsDefinitionStore` |
| `WorkflowBuilderProofs`, for any definitions and iteration limit | `BuilderImplementsDefinitionRun`, `ConditionsAlwaysSeeTexts` | `ImplementsDefinitionRun`, `ConditionsSeeTexts` |
| `AgentTasksProofs`, for any tasks, posts, retries | `TypeCorrect`, `QuantityAddsUp`, `PagesAddUp`, `AgentsAndHistory` | `TypeOK`, `InventoryAddsUp`, `PostsAddUp`, `StatusAndHistory` |

Beside the properties of the runs these are proved, of things the runs could
only sample:

| theorem | states |
|---|---|
| `AccountingProofs!LoopsNest` | loops and their iterations form a forest, at any depth: a running iteration is the child of one loop call, which waits for it, and a loop got its permit before its iterations queue for theirs |
| `AccountingProofs!WorkIsBounded` | no execution exceeds its iterations, no node its attempts, no loop its items, no nesting the depth limit |
| `AccountingProofs!WorkOnlyAdvances` | a handler is called only in a later iteration or as the next attempt of the same node, and a loop goes on only to its next item: no timeout, retry or cancel makes the executor do work again |
| `WorkerProofs!ShutdownWaitsForMoving` | unless its cancel was swallowed, the shutdown waits only for what ends by itself |
| `WorkerProofs!SwallowedCancelHangs` | and if it was, no step of the worker ends it: `start()` goes on, `gather` never returns |
| `WorkflowStoreProofs!SessionHeld` | the session commits for exactly the execution that is saving |
| `WorkflowStoreProofs!RollbackHeals` | nothing of an aborted transaction is stored, and only the rollback of a save that fails ends it, taking the open records and changes of all with it |
| `AgentTasksProofs!EveryTaskAttended` | a task in an agent waits for a sub-agent that has not answered, for think, or for a request under way |
| `AgentThinkProofs!SaturationUnseen` | a bucket whose age stops at `Capacity` starts, ages, answers and charges like one whose age runs on |

The assumptions are the `ASSUME` of each module: types of the constants,
disjointness of values the code can tell apart, and limits that are positive.

Of the executor's invariants none but the registry is inductive alone.  The
invariant `IInv` adds:

- `Sound(f)`, for each frame: a call or a sleep is about a node that exists;
  no call before the first node; a running call has somebody waiting for it or
  was left by a cancel; there is a status exactly from the end on.
- `Linked`: an iteration that has not ended is the `child` of its parent, whose
  call is running.  Two busy iterations of one parent would both be its child,
  which gives `IterationsDoNotOverlap`.  That a retry cannot break it is the
  point where `wait_for` waiting for its call matters: `AttemptOver` requires
  an ended call, and a call cannot end while it has a child, except by the end
  of that child.
- `StoreFinal`: a record exists only after the end, with the final status.

The proof of `NextInv` has one lemma per action.  `SettleInv` covers all that
stay in the execution's own frame: the walk over the graph is a function on
frames, and the lemmas about `Visit`, `Leave`, `Attempt` and `EnterFlow` say
that whatever a sound frame leads to is sound.  `BeginInv` covers the three
ways an execution begins, `CallEndsInv` those in which an iteration ends its
loop, `FrameStepInv` the steps that change no status.

`AccountingProofs` first reduces the actions to a few kinds of steps (`NextKind`):
a quiet one, in which nobody gets or gives back a permit or ends; a cancel; a begin;
a segment of whoever holds a permit; the end of a wait, with the permit or with a
cancel.  The invariant `CountInv` has four parts, each kept by every kind:

- `PermitInv`: the permits free, those with woken waiters and those held are
  `MaxConcurrent` together; the queue holds the waiters that are neither woken nor
  cancelled, without repetition; and a free permit beside a queue means that
  somebody was woken.  The last two need each other: a woken waiter that is cancelled
  must find the next one in the queue.
- `Tally`: each metric is the number of executions with that status.
- `AllPaths`: the nodes with an output lead from the start node to where the
  execution is (`Ran`), as long as it has no error.
- `Fresh`: nobody cancels, or runs in a loop, an execution that has not begun.

`NobodyStuck` needs more.  Suppose all that have begun wait for each other.  Then
each is in the queue, or is a loop that was interrupted and waits for its
iteration (`IdleForms`).  Nobody was woken, so no permit is free, and all are held
by such loops.  `Nesting` says that these loops and their iterations are a forest
(`Parents`), that a call with a child is a loop's (`AllCalls`), and that the
holders can be ranked in the order in which they got their permits, each loop
before its iterations (`Ordered`).  Take the last holder (`LastHolder`, the least
element of a set of numbers by `WellFoundedInduction`).  If its iteration held
a permit, it would rank after it; so it holds none and queues, uncancelled.  The interruption cancels
an iteration that queues, so a loop becomes *patient* (interrupted, with an iteration
nobody has cancelled) only while its iteration holds a permit of its own, ranked
after the loop's.  So the loop and the holders before it had not all permits, nor do
they later, since permits are given to the last in rank.  But the holders up to the
last are all.

`WorkIsBounded` and `WorkOnlyAdvances` come from one account of each step
(`WorkStep`): an execution is left alone, begins within its limits, or goes on from
one frame to the next, ordered by iteration, then attempt, then item.  The walk over the
graph is bounded by iterations alone, so cycles and dangling links need no case.

The refinement follows from the kinds: a quiet step and a cancel change no life and
at most record, a begin begins, and the others end one life or none.

For `AgentThink` the invariant adds that whoever sleeps between attempts has one
left, and that the breaker's last failure is no older than its last trip: so an
open breaker within `recovery_timeout` of the trip refuses.  For the bucket it is
a balance: what was granted in the interval and what is left came in before the
last refill.  Between a begin of the interval and its first acquire the refill
may reach back before the begin; there the balance is that nothing was granted.

For the worker the proof has three parts.  `MailInv`: the mail in hand is unread
and was handled no more often than its mark failed.  `WorkInv`: no workflow is twice
in queue, getter and tasks, and those made are the numbers up to `made`.  The
last relates the phases of the shutdown to the tasks `close` waits for, all of them
begun and cancelled; `ShutdownInv` adds `start()` and `_running`: before the gather
returns `_running` is true, so a `start()` that lost its cancel has no reason to end.

For the database: a request that is writing holds the lock of the row it found,
and it found it with its organization, so nobody changed it since; row and nodes
belong to one definition between any two steps; an execution's change is
committed, in the session, or undone, and a change that answered is one.

For the builder: the walk is at `None`, at a node, or at a name that no node has;
for definitions without repeated temp ids `Linked` is the node that `Place` names.
A condition's result is `Evaluate` of its test; over all values with a text, those of
`PyValues`, that a rendered number is a text decides every comparison with one.

For the agents three invariants.  `CallersInv` bounds a request: pages and late
copies together do not exceed its attempts (`Good`), and a task has a request
under way exactly while it is with the connector (`Placed`).  `InventoryInv` says what
each update carries (`Carries`): a query that was executed has read at most the number
of the other executed updates, and a PATCH, repeated or late, writes at most one more;
without an overlap it is exactly that, so executing it again changes nothing.  A write
makes it an overlap for whoever has read, and can only add to what bounds them.
`AgentsInv`: the tasks that left are finite and as many as `ended`, and
the history is a sequence of distinct ones, so its length counts them; an agent becomes
idle only with a task that leaves it.

Only model-checked: liveness (`EveryExecutionEnds`, `EveryThinkEnds`,
`ShutdownEnds`, `QueuedRuns`, `Heals`, `OnlyClassificationWaits`), which is outside the
prover.  Of four of them the safety half is proved: that somebody can move
(`NobodyStuck`) and that moving is bounded (`WorkIsBounded`,
`WorkOnlyAdvances`) for `EveryExecutionEnds`; `ShutdownWaitsForMoving` for
`ShutdownEnds`; `SessionHeld` and `RollbackHeals` for `Heals`;
`EveryTaskAttended` and the bound on attempts for `OnlyClassificationWaits`.

## 5. Plan

Done: all modules and theorems above.  What is left: an abstract specification of
the worker (each mail handled, each workflow run or abandoned at the shutdown) that
`Worker` implements, proved like the others, and the composition of `Worker` with
`WorkflowEngine`, in place of tasks that only begin and end.  TLC would need
smaller instances of both.

## 6. Not modelled

- Shared memory (`utils/shared_memory.py`, `utils/redis_client.py`): nothing in
  the repository calls `set` or `get`; there is no caller to take inputs from.
- Authentication and API keys: request handlers over library cryptography, each
  one database transaction.
- The requests of handlers and integrations to outside services, prompts and
  wording: input and output without state of their own.  What the executor sees of
  them is modelled.
- Observability, the browser pages, seed scripts, tests.
- `health_check`, the HTTP client, and the semaphores per integration, which
  handlers take inside a call and give back when it ends.
- A handler that blocks the event loop (the thread pool of the RSS reader): it would
  stop every action at once, and liveness with it.
- The HTTP API: `web/dashboard.py`, which `main.py` imports, is not in the repository.
  Its calls are taken from what the executor and the database offer it.
- Database queries that only read, remembered values and agent start-up.
- Which exceptions the database driver raises for a refused connection.
