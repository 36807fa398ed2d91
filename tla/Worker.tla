------------------------------- MODULE Worker -------------------------------
(***************************************************************************)
(* The worker process: main (main.py), the queue, the dispatch loop and    *)
(* the shutdown of WorkflowManager (core/workflow_manager.py), and the     *)
(* polling of the mailbox (integrations/google_workspace.py) with what the *)
(* language understanding (core/nlu_engine.py) makes of a mail.            *)
(*                                                                         *)
(* An action is what one task does between two suspension points.  What    *)
(* happens inside an execution is WorkflowEngine's subject; here it is a   *)
(* task that begins and ends.  The inner task of wait_for(queue.get(), 1)  *)
(* is kept as held: CPython 3.11 leaves the item in the queue when it      *)
(* cancels a get, so a get either has an item or takes none.               *)
(***************************************************************************)
EXTENDS Naturals, Sequences, FiniteSets

CONSTANTS
  Mails,         \* mails that may arrive
  BatchSize,     \* max_results of the polling loop
  MaxHandles,    \* bound: how often one mail is handled
  MaxWorkflows,  \* bound: workflows built
  MaxRetries     \* max_retries of init_db_with_retry

ASSUME WorkerParams ==
  /\ MaxHandles \in Nat /\ MaxWorkflows \in Nat
  /\ BatchSize \in Nat \ {0} /\ MaxRetries \in Nat \ {0}

VARIABLES
  main,       \* where main() is
  attempt,    \* of init_db_with_retry
  provider,   \* what is in integrations["email"]
  running,    \* self._running
  poll,       \* _email_polling_loop
  start,      \* start()
  held,       \* the item the get of start() has taken, if any
  queue,      \* self.workflow_queue
  tasks,      \* _execute_workflow, by workflow
  active,     \* the keys of self.active_workflows
  draining,   \* what asyncio.wait in close() waits for
  mail,       \* the mailbox
  made,       \* workflows built so far
  handled,    \* history: how often handle_event returned, by mail
  refused,    \* history: marks that left the mail unread
  fate        \* history: what went otherwise than the shutdown is written for

procVars == <<main, attempt, provider, running, draining, fate>>
mailVars == <<mail, made, handled, refused>>
workVars == <<start, held, queue, tasks, active>>
vars == <<procVars, poll, mailVars, workVars>>

Workflows == 1..MaxWorkflows
NoWorkflow == 0
At(pc, batch) == [pc |-> pc, batch |-> batch, cur |-> "none"]

Queued == {queue[i] : i \in 1..Len(queue)}
Live == {w \in Workflows : tasks[w] \in {"created", "running", "cancelled"}}
SessionClosed == main \in {"ended", "exiting"}

Init ==
  /\ main = "connecting" /\ attempt = 1
  /\ provider \in {"none", "google", "microsoft"}
  /\ running = TRUE
  /\ poll = At("absent", {})
  /\ start = "absent"
  /\ held = NoWorkflow /\ queue = <<>>
  /\ tasks = [w \in Workflows |-> "none"]
  /\ active = {} /\ draining = {}
  /\ mail = [m \in Mails |-> "absent"]
  /\ made = 0
  /\ handled = [m \in Mails |-> 0] /\ refused = [m \in Mails |-> 0]
  /\ fate = [swallowed |-> FALSE,    \* start() lost the cancel of main
             interrupted |-> FALSE,  \* main was cancelled by a SIGINT
             overran |-> FALSE,      \* the 5 seconds of close() passed
             unstarted |-> {}]       \* tasks cancelled before their first step

-----------------------------------------------------------------------------
(* Start-up *)

\* The polling loop ends at once without an e-mail integration.
Connected ==
  /\ main = "connecting"
  /\ main' = "serving"
  /\ start' = "getting"
  /\ poll' = [poll EXCEPT !.pc = IF provider = "none" THEN "ended" ELSE "listing"]
  /\ UNCHANGED <<attempt, provider, running, draining, fate, held, queue, tasks, active,
                 mailVars>>

\* mutant: one attempt too many
ConnectFailsOnceMore(retried) ==
  /\ main = "connecting"
  /\ IF retried /\ attempt <= MaxRetries
     THEN attempt' = attempt + 1 /\ UNCHANGED main
     ELSE main' = "exited" /\ UNCHANGED attempt
  /\ UNCHANGED <<provider, running, draining, fate, poll, workVars, mailVars>>

\* Only an OperationalError is retried; after the last attempt it is a RuntimeError.
ConnectFails(retried) ==
  /\ main = "connecting"
  /\ IF retried /\ attempt < MaxRetries
     THEN attempt' = attempt + 1 /\ UNCHANGED main
     ELSE main' = "exited" /\ UNCHANGED attempt
  /\ UNCHANGED <<provider, running, draining, fate, poll, workVars, mailVars>>

-----------------------------------------------------------------------------
(* The mailbox *)

MailArrives(m) ==
  /\ mail[m] = "absent"
  /\ mail' = [mail EXCEPT ![m] = "unread"]
  /\ UNCHANGED <<procVars, poll, made, handled, refused, workVars>>

PollWakes ==
  /\ poll.pc = "sleeping"
  /\ poll' = [poll EXCEPT !.pc = IF running THEN "listing" ELSE "ended"]
  /\ UNCHANGED <<procVars, mailVars, workVars>>

\* mutant: the query does not ask for unread mails
ListedAll ==
  /\ poll.pc = "listing" /\ provider = "google"
  /\ \E batch \in SUBSET {m \in Mails : mail[m] # "absent"} :
       /\ Cardinality(batch) <= BatchSize
       /\ poll' = At(IF batch = {} THEN "sleeping" ELSE "next", batch)
  /\ UNCHANGED <<procVars, mailVars, workVars>>

\* read_emails answers with all unread mails, or BatchSize of them.
Listed ==
  /\ poll.pc = "listing" /\ provider = "google"
  /\ LET unread == {m \in Mails : mail[m] = "unread"} IN
     \E batch \in SUBSET unread :
       /\ Cardinality(batch) <= BatchSize
       /\ batch = unread \/ Cardinality(batch) = BatchSize
       /\ poll' = At(IF batch = {} THEN "sleeping" ELSE "next", batch)
  /\ UNCHANGED <<procVars, mailVars, workVars>>

\* An HttpError gives an empty list, another error ends the round; Microsoft365
\* has no read_emails, which is an error every time.
ListFailed ==
  /\ poll.pc = "listing"
  /\ poll' = At("sleeping", {})
  /\ UNCHANGED <<procVars, mailVars, workVars>>

Parse(m) ==
  /\ poll.pc = "next" /\ m \in poll.batch
  /\ poll' = [pc |-> "parsing", batch |-> poll.batch, cur |-> m]
  /\ UNCHANGED <<procVars, mailVars, workVars>>

\* What parse_intent makes of the answer of the model: errors, text without JSON
\* and low confidence are "unknown"; params may be null.
Intent(answer) ==
  CASE answer \in {"error", "not_json", "unsure"} -> [name |-> "unknown", order |-> "none"]
    [] answer = "other"       -> [name |-> "other", order |-> "none"]
    [] answer = "null_params" -> [name |-> "check_status", order |-> "null"]
    [] answer = "bad_order"   -> [name |-> "check_status", order |-> "none"]
    [] answer = "order"       -> [name |-> "check_status", order |-> "valid"]

Answers == {"error", "not_json", "unsure", "other", "null_params", "bad_order", "order"}

\* handle_event builds and queues the reply; the queue is unbounded, put does not suspend.
Replies(m, answer) ==
  /\ Intent(answer).order = "valid"
  /\ made < MaxWorkflows
  /\ made' = made + 1
  /\ queue' = Append(queue, made')
  /\ active' = active \cup {made'}
  /\ handled' = [handled EXCEPT ![m] = @ + 1]
  /\ poll' = [poll EXCEPT !.pc = "marking"]

\* Nothing to reply to: the mail will be marked as read all the same.
Dismisses(m, answer) ==
  /\ Intent(answer).order = "none"
  /\ handled' = [handled EXCEPT ![m] = @ + 1]
  /\ poll' = [poll EXCEPT !.pc = "marking"]
  /\ UNCHANGED <<queue, active, made>>

\* None has no get(): the round ends, the rest of the batch waits for another.
Raises(answer) ==
  /\ Intent(answer).order = "null"
  /\ poll' = At("sleeping", {})
  /\ UNCHANGED <<queue, active, made, handled>>

HandleEvent(answer) ==
  /\ poll.pc = "parsing"
  /\ handled[poll.cur] < MaxHandles
  /\ \/ Replies(poll.cur, answer)
     \/ Dismisses(poll.cur, answer)
     \/ Raises(answer)
  /\ UNCHANGED <<procVars, mail, refused, start, held, tasks>>

NextMail ==
  LET rest == poll.batch \ {poll.cur} IN
  At(IF rest = {} THEN "sleeping" ELSE "next", rest)

Marked ==
  /\ poll.pc = "marking"
  /\ mail' = [mail EXCEPT ![poll.cur] = "read"]
  /\ poll' = NextMail
  /\ UNCHANGED <<procVars, made, handled, refused, workVars>>

\* mark_as_read returns its HttpErrors, and nobody looks at what it returns.
MarkRefused ==
  /\ poll.pc = "marking"
  /\ refused' = [refused EXCEPT ![poll.cur] = @ + 1]
  /\ poll' = NextMail
  /\ UNCHANGED <<procVars, mail, made, handled, workVars>>

\* Any other error ends the round, whether or not the request got through.
MarkRaised ==
  /\ poll.pc = "marking"
  /\ \/ mail' = [mail EXCEPT ![poll.cur] = "read"] /\ UNCHANGED refused
     \/ refused' = [refused EXCEPT ![poll.cur] = @ + 1] /\ UNCHANGED mail
  /\ poll' = At("sleeping", {})
  /\ UNCHANGED <<procVars, made, handled, workVars>>

-----------------------------------------------------------------------------
(* The queue and the tasks *)

\* mutant: the item stays in the queue
GetPeeks ==
  /\ start = "getting" /\ held = NoWorkflow /\ queue # <<>>
  /\ held' = Head(queue)
  /\ UNCHANGED <<procVars, poll, mailVars, start, queue, tasks, active>>

GetTakes ==
  /\ start = "getting" /\ held = NoWorkflow /\ queue # <<>>
  /\ held' = Head(queue) /\ queue' = Tail(queue)
  /\ UNCHANGED <<procVars, poll, mailVars, start, tasks, active>>

\* mutant: the loop is left after a workflow
DispatchOnce ==
  /\ start = "getting" /\ held # NoWorkflow
  /\ tasks' = [tasks EXCEPT ![held] = "created"]
  /\ held' = NoWorkflow
  /\ start' = "ended"
  /\ UNCHANGED <<procVars, poll, mailVars, queue, active>>

Dispatch ==
  /\ start = "getting" /\ held # NoWorkflow
  /\ tasks' = [tasks EXCEPT ![held] = "created"]
  /\ held' = NoWorkflow
  /\ start' = IF running THEN "getting" ELSE "ended"
  /\ UNCHANGED <<procVars, poll, mailVars, queue, active>>

\* A timeout of the get matters only when _running has become false meanwhile.
GetTimesOut ==
  /\ start = "getting" /\ held = NoWorkflow /\ ~running
  /\ start' = "ended"
  /\ UNCHANGED <<procVars, poll, mailVars, held, queue, tasks, active>>

TaskBegins(w) ==
  /\ tasks[w] = "created" /\ main # "exited"
  /\ tasks' = [tasks EXCEPT ![w] = "running"]
  /\ UNCHANGED <<procVars, poll, mailVars, start, held, queue, active>>

\* mutant: the pop is not in a finally block
TaskEndsUnlessCancelled(w) ==
  /\ tasks[w] \in {"running", "cancelled"} /\ main # "exited"
  /\ tasks' = [tasks EXCEPT ![w] = "ended"]
  /\ active' = IF tasks[w] = "running" THEN active \ {w} ELSE active
  /\ UNCHANGED <<procVars, poll, mailVars, start, held, queue>>

\* The execution returned, raised, or was cancelled.
TaskEnds(w) ==
  /\ tasks[w] \in {"running", "cancelled"} /\ main # "exited"
  /\ tasks' = [tasks EXCEPT ![w] = "ended"]
  /\ active' = active \ {w}
  /\ UNCHANGED <<procVars, poll, mailVars, start, held, queue>>

\* task.cancel() for every task: one that has not begun never runs its finally.
CancelTasks ==
  /\ tasks' = [w \in Workflows |-> CASE tasks[w] = "created" -> "ended"
                                     [] tasks[w] = "running" -> "cancelled"
                                     [] OTHER -> tasks[w]]

Unstarted == {w \in Workflows : tasks[w] = "created"}

-----------------------------------------------------------------------------
(* Shutdown *)

\* mutant: main forgets to cancel the pending tasks
ServerStopsOnly ==
  /\ main = "serving"
  /\ main' = "joining"
  /\ UNCHANGED <<attempt, provider, running, draining, poll, mailVars, workVars, fate>>

\* server.serve() is over and main cancels start(): a get that has its item
\* returns it instead, and the cancel is gone.
ServerStops ==
  /\ main = "serving"
  /\ main' = "joining"
  /\ IF held = NoWorkflow
     THEN start' = "ended" /\ UNCHANGED fate
     ELSE fate' = [fate EXCEPT !.swallowed = TRUE] /\ UNCHANGED start
  /\ UNCHANGED <<attempt, provider, running, draining, poll, mailVars, held, queue, tasks,
                 active>>

\* SIGINT before uvicorn has installed its handlers cancels main in asyncio.wait,
\* which leaves start() alone.
Interrupted ==
  /\ main = "serving"
  /\ main' = "closing"
  /\ fate' = [fate EXCEPT !.interrupted = TRUE]
  /\ UNCHANGED <<attempt, provider, running, draining, poll, mailVars, workVars>>

\* gather(*pending) returns.
Joined ==
  /\ main = "joining" /\ start = "ended"
  /\ main' = "closing"
  /\ UNCHANGED <<attempt, provider, running, draining, fate, poll, mailVars, workVars>>

\* mutant: close() does not wait for the tasks it cancels
CloseWithoutWaiting ==
  /\ main = "closing"
  /\ running' = FALSE
  /\ CancelTasks
  /\ fate' = [fate EXCEPT !.unstarted = @ \cup Unstarted]
  /\ draining' = {}
  /\ main' = "finishing"
  /\ UNCHANGED <<attempt, provider, poll, mailVars, start, held, queue, active>>

\* WorkflowManager.close up to asyncio.wait.
Close ==
  /\ main = "closing"
  /\ running' = FALSE
  /\ CancelTasks
  /\ fate' = [fate EXCEPT !.unstarted = @ \cup Unstarted]
  /\ draining' = Live \ Unstarted
  /\ main' = IF draining' = {} THEN "finishing" ELSE "draining"
  /\ UNCHANGED <<attempt, provider, poll, mailVars, start, held, queue, active>>

Drained ==
  /\ main = "draining" /\ draining \cap Live = {}
  /\ main' = "finishing" /\ draining' = {}
  /\ UNCHANGED <<attempt, provider, running, fate, poll, mailVars, workVars>>

DrainTimesOut ==
  /\ main = "draining"
  /\ main' = "finishing" /\ draining' = {}
  /\ fate' = [fate EXCEPT !.overran = TRUE]
  /\ UNCHANGED <<attempt, provider, running, poll, mailVars, workVars>>

\* The other parts are closed, each guarded against the errors of the one before,
\* and then, in the outer finally, the database session.
Finish ==
  /\ main = "finishing"
  /\ main' = "ended"
  /\ UNCHANGED <<attempt, provider, running, draining, fate, poll, mailVars, workVars>>

\* asyncio.run cancels what is left, waits for that without a limit and closes the loop.
CancelRest ==
  /\ main = "ended"
  /\ main' = "exiting"
  /\ poll' = At("ended", {})
  /\ CancelTasks
  /\ fate' = [fate EXCEPT !.unstarted = @ \cup Unstarted]
  /\ draining' = Live \ Unstarted
  /\ start' = IF held = NoWorkflow THEN "ended" ELSE start
  /\ UNCHANGED <<attempt, provider, running, mailVars, held, queue, active>>

Exit ==
  /\ main = "exiting" /\ start = "ended" /\ draining \cap Live = {}
  /\ main' = "exited" /\ draining' = {}
  /\ UNCHANGED <<attempt, provider, running, fate, poll, mailVars, workVars>>

-----------------------------------------------------------------------------
PollSteps ==
  \/ PollWakes \/ Listed \/ ListFailed
  \/ \E m \in Mails : Parse(m)
  \/ \E answer \in Answers : HandleEvent(answer)
  \/ Marked \/ MarkRefused \/ MarkRaised

TaskSteps ==
  \/ GetTakes \/ Dispatch \/ GetTimesOut
  \/ \E w \in Workflows : TaskBegins(w) \/ TaskEnds(w)

MainSteps ==
  Joined \/ Close \/ Drained \/ DrainTimesOut \/ Finish \/ CancelRest \/ Exit

Next ==
  \/ Connected
  \/ \E retried \in BOOLEAN : ConnectFails(retried)
  \/ \E m \in Mails : MailArrives(m)
  \/ PollSteps
  \/ TaskSteps
  \/ ServerStops \/ Interrupted
  \/ MainSteps

\* The event loop runs what is ready, and executions end (WorkflowEngine,
\* EveryExecutionEnds).  Nobody need write a mail or stop the server.
Fairness ==
  /\ WF_vars(GetTakes) /\ WF_vars(Dispatch) /\ WF_vars(GetTimesOut)
  /\ \A w \in Workflows : WF_vars(TaskBegins(w)) /\ WF_vars(TaskEnds(w))
  /\ WF_vars(MainSteps)

Spec == Init /\ [][Next]_vars
FairSpec == Spec /\ Fairness

-----------------------------------------------------------------------------
TypeOK ==
  /\ main \in {"connecting", "serving", "joining", "closing", "draining", "finishing",
               "ended", "exiting", "exited"}
  /\ attempt \in 1..MaxRetries
  /\ provider \in {"none", "google", "microsoft"}
  /\ running \in BOOLEAN
  /\ poll \in [pc : {"absent", "listing", "next", "parsing", "marking", "sleeping", "ended"},
               batch : SUBSET Mails, cur : Mails \cup {"none"}]
  /\ poll.pc \in {"parsing", "marking"} => poll.cur \in Mails
  /\ start \in {"absent", "getting", "ended"}
  /\ held \in Workflows \cup {NoWorkflow}
  /\ queue \in Seq(Workflows)
  /\ tasks \in [Workflows -> {"none", "created", "running", "cancelled", "ended"}]
  /\ active \subseteq Workflows /\ draining \subseteq Workflows
  /\ mail \in [Mails -> {"absent", "unread", "read"}]
  /\ made \in 0..MaxWorkflows
  /\ handled \in [Mails -> 0..MaxHandles] /\ refused \in [Mails -> Nat]
  /\ fate \in [swallowed : BOOLEAN, interrupted : BOOLEAN, overran : BOOLEAN,
               unstarted : SUBSET Workflows]

\* A workflow that was built is in the queue, with the getter or in a task, in one
\* place and once: start() and its wait_for neither lose one nor run one twice.
OnePlace ==
  /\ \A i, j \in 1..Len(queue) : i # j => queue[i] # queue[j]
  /\ held \notin Queued
  /\ \A w \in Workflows :
       /\ w \in Queued \/ w = held \/ tasks[w] # "none" <=> w <= made
       /\ w \in Queued \/ w = held => tasks[w] = "none"

\* active_workflows lists what is queued or executing; what stays in it for ever are
\* the workflows whose task was cancelled before its first step.
ActiveExact ==
  active = Queued \cup ({held} \ {NoWorkflow}) \cup Live \cup fate.unstarted

\* handle_event comes before mark_as_read: no mail is read of which nothing became,
\* and one is handled again only because a mark as read failed.
EachMailHandled == \A m \in Mails :
  /\ mail[m] = "read" => handled[m] > 0
  /\ handled[m] <= refused[m] + 1

\* close() waits for the tasks: one works on a closed database session only if it
\* needed more than the 5 seconds, or if start() was still alive beside close().
NothingOutlivesSession ==
  SessionClosed /\ Live # {} => fate.overran \/ fate.interrupted

\* Once the server has stopped the process ends, unless start() swallowed its cancel.
ShutdownEnds ==
  (main = "joining" /\ ~fate.swallowed) \/ main = "closing" ~> main = "exited"

\* A queued workflow is executed unless the process shuts down.
QueuedRuns ==
  \A w \in Workflows : w \in Queued ~> tasks[w] = "ended" \/ main # "serving"

=============================================================================
