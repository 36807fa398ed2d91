-------------------------- MODULE WorkflowEngine --------------------------
(***************************************************************************)
(* WorkflowExecutor (core/workflow_engine.py): executions of workflows as  *)
(* asyncio tasks that share a semaphore of concurrency permits, the table  *)
(* of active executions, the metrics and the execution store.              *)
(*                                                                         *)
(* An execution walks the graph of its workflow.  Every attempt of a node  *)
(* runs the node's handler in a task of its own (asyncio.wait_for), the    *)
(* "call" of the execution; the handler of a loop node runs further        *)
(* executions, one per item, inside that task.  An action is what a task   *)
(* does between two suspension points: the executor's locks are never held *)
(* across one, so nothing else can be interleaved.                         *)
(*                                                                         *)
(* Cancelling follows CPython 3.11, the version of the Dockerfile: a       *)
(* cancelled wait_for whose call has ended returns the call's result, and  *)
(* one whose call is running cancels it and waits for it to end.           *)
(***************************************************************************)
EXTENDS Integers, FiniteSets, Sequences, AsyncSemaphore

CONSTANTS
  Flows,          \* workflow id -> definition, as db.get_workflow returns it
  MaxConcurrent,  \* permits of self.semaphore
  DepthLimit,     \* WORKFLOW_DEPTH_LIMIT
  MaxExec,        \* bound: executions of a behaviour
  MaxTops,        \* bound: executions that are not loop iterations
  MaxCancels,     \* bound: task.cancel() calls from outside the executor
  NodeIds,        \* node ids, of nodes that exist and of dangling links
  NoNode          \* Python's None where a node id is expected

NoExec == 0
Exec == 1..MaxExec
Kinds == {"call", "condition", "loop", "stop", "throw"}
Handlers == {"call", "condition", "loop", "stop", "throw"}

\* What a node holds that the executor reads; a link may dangle.
NodeDefs ==
  [kind : Handlers, next : NodeIds, onError : NodeIds, yes : NodeIds,
   no : NodeIds, retry : Nat, sub : DOMAIN Flows \cup {"missing"},
   items : Nat, subMax : Nat]

FlowsAssumption ==
  /\ NoNode \in NodeIds
  /\ DOMAIN Flows # {}
  /\ \A w \in DOMAIN Flows :
       /\ Flows[w].start \in NodeIds
       /\ Flows[w].maxIter \in Nat \ {0}
       /\ DOMAIN Flows[w].nodes \subseteq NodeIds \ {NoNode}
       /\ \A n \in DOMAIN Flows[w].nodes : Flows[w].nodes[n] \in NodeDefs

ASSUME FlowsTyped == FlowsAssumption
ASSUME BoundsTyped ==
  /\ MaxConcurrent \in Nat \ {0}
  /\ DepthLimit \in Nat
  /\ MaxExec \in Nat
  /\ MaxTops \in Nat
  /\ MaxCancels \in Nat

VARIABLES
  ex,       \* the executions: local variables and program counter
  sem,      \* self.semaphore
  active,   \* keys of self.active_executions
  metrics,  \* self._metrics
  store,    \* rows of the executions table: the status each one holds
  cancels   \* history: task.cancel() calls so far

vars == <<ex, sem, active, metrics, store, cancels>>

Final == {"completed", "failed", "cancelled"}
Succeeding == {"ok", "met", "unmet"}
Ended == Succeeding \cup {"fail", "exc", "cancelled"}
CallStates == {"none", "running", "stopping"} \cup Ended
Reasons == {"no_start_node", "not_found", "node_failed", "max_iterations", "cancelled"}

Pcs == {"free",       \* the id is not in use yet
        "waiting",    \* in acquire() of the semaphore
        "acting",     \* in wait_for, the call not cancelled by it
        "cancelling", \* in wait_for, cancelled: waits for the call to end
        "timingout",  \* in wait_for, timed out: waits for the call to end
        "backoff",    \* in asyncio.sleep(2) between two attempts
        "saving",     \* in _save_execution
        "done"}

Frames ==
  [pc : Pcs, wf : DOMAIN Flows, parent : Exec \cup {NoExec}, depth : Nat,
   maxIter : Nat, node : NodeIds, iter : Nat, att : Nat,
   errors : SUBSET Reasons, outs : SUBSET NodeIds,
   status : Final \cup {"none"}, creq : BOOLEAN,
   call : CallStates, child : Exec \cup {NoExec}, item : Nat]

InFlight == {"waiting", "acting", "cancelling", "timingout", "backoff"}
Holding == InFlight \ {"waiting"}

Busy(e) == ex[e].pc \notin {"free", "done"}
Holds(e) == ex[e].pc \in Holding
NodeOf(f) == Flows[f.wf].nodes[f.node]

IsFresh(d) == /\ ex[d].pc = "free"
              /\ \A x \in Exec : x < d => ex[x].pc # "free"

---------------------------------------------------------------------------
(* The walk over the graph, on the frame of one execution.                 *)

\* The end of the `async with` body: the status follows from the errors.
Leave(f) ==
  LET errs == f.errors \cup
                (IF f.iter >= f.maxIter THEN {"max_iterations"} ELSE {})
  IN  [f EXCEPT !.pc = "saving", !.errors = errs,
                !.status = IF errs = {} THEN "completed" ELSE "failed"]

\* One attempt: wait_for(action_func(node, context), timeout).
Attempt(f) ==
  [f EXCEPT !.pc = "acting", !.call = "running", !.child = NoExec, !.item = 0]

\* The head of the while loop with current_node_id = n.
Visit(f, n) ==
  LET g == [f EXCEPT !.node = n] IN
  IF n = NoNode \/ f.iter >= f.maxIter THEN Leave(g)
  ELSE IF n \notin DOMAIN Flows[f.wf].nodes
       THEN Leave([g EXCEPT !.iter = @ + 1, !.errors = @ \cup {"not_found"}])
       ELSE Attempt([g EXCEPT !.iter = @ + 1, !.att = 0])

\* Inside `async with self.semaphore`: a workflow needs a start node.
EnterFlow(f) ==
  LET start == Flows[f.wf].start IN
  IF start = NoNode
  THEN [f EXCEPT !.pc = "saving", !.status = "failed", !.errors = {"no_start_node"}]
  ELSE Visit(f, start)

\* The branch a successful node takes.
Successor(n, outcome) ==
  CASE n.kind = "condition" /\ outcome = "met"   -> n.yes
    [] n.kind = "condition" /\ outcome = "unmet" -> n.no
    [] OTHER                                     -> n.next

NewFrame(w, p, d, max) ==
  [pc |-> "waiting", wf |-> w, parent |-> p, depth |-> d, maxIter |-> max,
   node |-> NoNode, iter |-> 0, att |-> 0, errors |-> {}, outs |-> {},
   status |-> "none", creq |-> FALSE, call |-> "none", child |-> NoExec,
   item |-> 0]

---------------------------------------------------------------------------
(* Starting, suspending and settling an execution.                         *)

Init ==
  /\ ex = [e \in Exec |-> [NewFrame(CHOOSE w \in DOMAIN Flows : TRUE, NoExec, 0, 1)
                             EXCEPT !.pc = "free"]]
  /\ sem = NewSemaphore(MaxConcurrent)
  /\ active = {}
  /\ metrics = [executed |-> 0, succeeded |-> 0, failed |-> 0, cancelled |-> 0]
  /\ store = [e \in Exec |-> "none"]
  /\ cancels = 0

\* mutant: a cancelled execution is counted as a failed one.
CountedCancelAsFailure(m, status) ==
  IF status = "completed" THEN [m EXCEPT !.succeeded = @ + 1]
                          ELSE [m EXCEPT !.failed = @ + 1]

Counted(m, status) ==
  CASE status = "completed" -> [m EXCEPT !.succeeded = @ + 1]
    [] status = "failed"    -> [m EXCEPT !.failed = @ + 1]
    [] status = "cancelled" -> [m EXCEPT !.cancelled = @ + 1]

\* execute_workflow up to its first suspension: register, count, acquire.
\* frames are the executions as the caller leaves them.
Begin(frames, d, w, p, depth, max) ==
  LET f == NewFrame(w, p, depth, max)
      g == EnterFlow(f)
      m == [metrics EXCEPT !.executed = @ + 1]
  IN  \/ /\ Locked(sem)
         /\ ex' = [frames EXCEPT ![d] = f]
         /\ sem' = Enqueue(sem, d)
         /\ active' = active \cup {d}
         /\ metrics' = m
      \/ /\ ~Locked(sem)
         /\ g.pc = "acting"
         /\ ex' = [frames EXCEPT ![d] = g]
         /\ sem' = Take(sem)
         /\ active' = active \cup {d}
         /\ metrics' = m
      \/ /\ ~Locked(sem)           \* over at once: registered, then popped
         /\ g.pc = "saving"
         /\ ex' = [frames EXCEPT ![d] = g]
         /\ sem' = sem
         /\ active' = active
         /\ metrics' = Counted(m, g.status)

\* The segment of e ends in frame f; s is the semaphore as it has left it.
\* A segment that ends in _save_execution has left `async with`, counted the
\* status and popped the execution from the table.
Settle(e, f, s) ==
  /\ ex' = [ex EXCEPT ![e] = f]
  /\ IF f.pc = "saving"
     THEN /\ sem' = Release(s)
          /\ metrics' = Counted(metrics, f.status)
          /\ active' = active \ {e}
     ELSE /\ sem' = s
          /\ UNCHANGED <<metrics, active>>
  /\ UNCHANGED <<store, cancels>>

\* `except asyncio.CancelledError`.
Cancelled(f) ==
  [f EXCEPT !.pc = "saving", !.status = "cancelled", !.creq = FALSE,
            !.errors = @ \cup {"cancelled"}]

\* mutant: cancelling a queued task leaves its waiter in the queue.
WithdrawNobody(s, e) == s

\* A task that waits for the semaphore leaves its queue when it is cancelled.
WithdrawIfWaiting(s, e) == IF ex[e].pc = "waiting" THEN Withdraw(s, e) ELSE s

---------------------------------------------------------------------------
(* Executions and their semaphore.                                         *)

\* execute_workflow called by the manager or the API.
StartTop(w, d) ==
  /\ IsFresh(d)
  /\ Cardinality({e \in Exec : ex[e].pc # "free" /\ ex[e].parent = NoExec}) < MaxTops
  /\ Begin(ex, d, w, NoExec, 0, Flows[w].maxIter)
  /\ UNCHANGED <<store, cancels>>

\* mutant: a cancel that comes after the permit is forgotten.
AcquiredAlthoughCancelled(e) ==
  /\ ex[e].pc = "waiting"
  /\ e \in sem.granted
  /\ Settle(e, EnterFlow([ex[e] EXCEPT !.creq = FALSE]), Resume(sem, e))

\* The permit has come.
Acquired(e) ==
  /\ ex[e].pc = "waiting"
  /\ e \in sem.granted
  /\ ~ex[e].creq
  /\ Settle(e, EnterFlow(ex[e]), Resume(sem, e))

\* mutant: the execution is popped from the table only if it got to run.
AcquireCancelledKeepsEntry(e) ==
  /\ ex[e].pc = "waiting"
  /\ ex[e].creq
  /\ ex' = [ex EXCEPT ![e] = Cancelled(@)]
  /\ sem' = IF e \in sem.granted THEN Abandon(sem, e) ELSE sem
  /\ metrics' = Counted(metrics, "cancelled")
  /\ UNCHANGED <<active, store, cancels>>

\* Cancelled in the queue, or woken by a permit and then cancelled.
AcquireCancelled(e) ==
  /\ ex[e].pc = "waiting"
  /\ ex[e].creq
  /\ ex' = [ex EXCEPT ![e] = Cancelled(@)]
  /\ sem' = IF e \in sem.granted THEN Abandon(sem, e) ELSE sem
  /\ metrics' = Counted(metrics, "cancelled")
  /\ active' = active \ {e}
  /\ UNCHANGED <<store, cancels>>

---------------------------------------------------------------------------
(* The call: the task in which wait_for runs the handler of a node.        *)

\* What a handler may answer.  Conditions, stop and throw_error never
\* suspend, so they are over before a timeout or a cancel can reach them.
Answers(kind) ==
  CASE kind = "call"      -> {"ok", "fail", "exc"}
    [] kind = "condition" -> {"met", "unmet", "fail"}
    [] kind = "loop"      -> {"fail", "exc"}   \* before its first iteration
    [] kind = "stop"      -> {"ok"}
    [] kind = "throw"     -> {"fail", "exc"}

Suspending == {"call", "loop"}

\* The handler itself is at a suspension point, not one of its iterations.
CallOpen(e, state) == ex[e].call = state /\ ex[e].child = NoExec

\* The handler returns or raises.
HandlerEnds(e, answer) ==
  /\ CallOpen(e, "running")
  /\ answer \in Answers(NodeOf(ex[e]).kind)
  /\ ex' = [ex EXCEPT ![e].call = answer]
  /\ UNCHANGED <<sem, active, metrics, store, cancels>>

\* The handler was cancelled: CancelledError ends it, or it was past its last
\* suspension (or its own wait_for swallowed the cancel) and it answers.
HandlerStopped(e, answer) ==
  /\ CallOpen(e, "stopping")
  /\ \/ answer = "cancelled"
     \/ /\ NodeOf(ex[e]).kind = "call"
        /\ answer \in Answers("call")
  /\ ex' = [ex EXCEPT ![e].call = answer]
  /\ UNCHANGED <<sem, active, metrics, store, cancels>>

\* _execute_loop has loaded the sub-workflow and starts its first iteration,
\* unless there is no item or the recursion is too deep.
LoopLoaded(e, d) ==
  LET f == ex[e]  n == NodeOf(f) IN
  /\ CallOpen(e, "running")
  /\ n.kind = "loop"
  /\ n.sub \in DOMAIN Flows
  /\ f.depth + 1 <= DepthLimit
  /\ \/ /\ n.items = 0
        /\ ex' = [ex EXCEPT ![e].call = "ok"]
        /\ UNCHANGED <<sem, active, metrics>>
     \/ /\ n.items > 0
        /\ IsFresh(d)
        /\ Begin([ex EXCEPT ![e].child = d, ![e].item = 1],
                 d, n.sub, e, f.depth + 1, n.subMax)
  /\ UNCHANGED <<store, cancels>>

\* mutant: a loop can be interrupted only between its iterations.
InterruptibleBetween(f) ==
  /\ f.pc = "acting"
  /\ f.call = "running"
  /\ NodeOf(f).kind \in Suspending
  /\ f.child = NoExec

\* A timeout or a cancel can reach wait_for: its call has not ended.
Interruptible(f) ==
  /\ f.pc = "acting"
  /\ f.call = "running"
  /\ NodeOf(f).kind \in Suspending

\* wait_for's `except CancelledError` and its timeout: cancel the call, which
\* for a loop is the task its current iteration runs in.
Interrupt(e, waitingFor) ==
  LET f == ex[e] IN
  /\ Interruptible(f)
  /\ IF f.child = NoExec
     THEN /\ ex' = [ex EXCEPT ![e].pc = waitingFor, ![e].creq = FALSE,
                              ![e].call = "stopping"]
          /\ sem' = sem
     ELSE /\ ex' = [ex EXCEPT ![e].pc = waitingFor, ![e].creq = FALSE,
                              ![f.child].creq = TRUE]
          /\ sem' = WithdrawIfWaiting(sem, f.child)
  /\ UNCHANGED <<active, metrics, store, cancels>>

TimeoutFires(e)    == ~ex[e].creq /\ Interrupt(e, "timingout")
CancelDelivered(e) == ex[e].creq /\ Interrupt(e, "cancelling")

---------------------------------------------------------------------------
(* The execution resumes with what became of the attempt.                  *)

\* wait_for answers with the call's result, also when it was cancelled or
\* timed out but the call had ended first.
Outcome(f) ==
  IF f.pc = "timingout" /\ f.call = "cancelled" THEN "timeout" ELSE f.call

\* mutant: a timeout cancels the call but does not wait for it to end.
AttemptOverAtTimeout(e) ==
  /\ \/ ex[e].pc = "acting" /\ ex[e].call \in Ended
     \/ ex[e].pc = "timingout" /\ ~ex[e].creq
  /\ Outcome(ex[e]) # "cancelled"

AttemptOver(e) ==
  /\ ex[e].call \in Ended
  /\ \/ ex[e].pc = "acting"
     \/ ex[e].pc = "timingout" /\ ~ex[e].creq
  /\ Outcome(ex[e]) # "cancelled"

\* The frame with the call's result consumed, and a swallowed cancel with it.
Answered(f) == [f EXCEPT !.creq = FALSE, !.call = "none"]

\* _store_node_output, then on to the next node.
NodeSucceeded(e) ==
  LET f == ex[e]  n == NodeOf(f) IN
  /\ AttemptOver(e)
  /\ Outcome(f) \in Succeeding
  /\ n.kind # "stop"
  /\ Settle(e, Visit([Answered(f) EXCEPT !.outs = @ \cup {f.node}],
                     Successor(n, Outcome(f))), sem)

\* `stop` leaves the while loop with current_node_id = None.
StopReached(e) ==
  LET f == ex[e] IN
  /\ AttemptOver(e)
  /\ NodeOf(f).kind = "stop"
  /\ Settle(e, Leave([Answered(f) EXCEPT !.outs = @ \cup {f.node}, !.node = NoNode]),
            sem)

\* `throw_error` leaves it with an error; it is the one failure that does not
\* go to on_error.
ErrorThrown(e) ==
  LET f == ex[e] IN
  /\ AttemptOver(e)
  /\ NodeOf(f).kind = "throw"
  /\ Outcome(f) = "fail"
  /\ Settle(e, Leave([Answered(f) EXCEPT !.errors = @ \cup {"node_failed"}]), sem)

Retries(n) == IF n.kind \in {"stop", "throw"} THEN 0 ELSE n.retry

\* A failed attempt with retries left: asyncio.sleep(2).
AttemptFailed(e) ==
  LET f == ex[e] IN
  /\ AttemptOver(e)
  /\ Outcome(f) \notin Succeeding
  /\ f.att < Retries(NodeOf(f))
  /\ Settle(e, [Answered(f) EXCEPT !.pc = "backoff"], sem)

\* mutant: only exceptions and timeouts are recorded.
ErrorsWithoutFailures(f) ==
  IF Outcome(f) = "fail" THEN f.errors ELSE f.errors \cup {"node_failed"}

\* A plain failure is recorded only if there is no error yet.
ErrorsAfter(f) ==
  IF Outcome(f) = "fail" /\ f.errors # {} THEN f.errors
  ELSE f.errors \cup {"node_failed"}

\* The last attempt failed: on_error.
NodeGaveUp(e) ==
  LET f == ex[e]
      n == NodeOf(f)
  IN  /\ AttemptOver(e)
      /\ Outcome(f) \notin Succeeding
      /\ f.att >= Retries(n)
      /\ ~(n.kind = "throw" /\ Outcome(f) = "fail")
      /\ Settle(e, Visit([Answered(f) EXCEPT !.errors = ErrorsAfter(f)], n.onError), sem)

\* mutant: a cancel that hits the sleep only cuts it short.
BackoffCutShort(e) ==
  /\ ex[e].pc = "backoff"
  /\ Settle(e, Attempt([ex[e] EXCEPT !.att = @ + 1, !.creq = FALSE]), sem)

BackoffOver(e) ==
  /\ ex[e].pc = "backoff"
  /\ ~ex[e].creq
  /\ Settle(e, Attempt([ex[e] EXCEPT !.att = @ + 1]), sem)

\* CancelledError reaches execute_workflow: out of the call, whose own task
\* was cancelled; out of a wait_for that was cancelled once (and has waited
\* for its call) or again (and leaves it running); out of the sleep.
CancelDue(f) ==
  \/ f.pc = "acting" /\ f.call = "cancelled"
  \/ f.pc = "cancelling" /\ f.call \in Ended /\ ~f.creq
  \/ f.pc = "cancelling" /\ f.creq
  \/ f.pc = "timingout" /\ f.creq
  \/ f.pc = "backoff" /\ f.creq

CancelRaised(e) == CancelDue(ex[e]) /\ Settle(e, Cancelled(ex[e]), sem)

---------------------------------------------------------------------------
(* The end of an execution: `finally` saves the record, then the coroutine *)
(* returns to its caller, or goes on raising CancelledError into it.       *)

\* save_execution has ended; a failure of it is logged and swallowed.
Saved(e, written) ==
  store' = [store EXCEPT ![e] = IF written THEN ex[e].status ELSE @]

\* frames, with the loop call of p ended by the given answer.
CallEnds(frames, p, answer) ==
  [frames EXCEPT ![p].call = answer, ![p].child = NoExec]

\* An execution nobody iterates over returns to the manager or the API.
TopReturns(e, written) ==
  /\ ex[e].pc = "saving"
  /\ ~ex[e].creq
  /\ ex[e].parent = NoExec
  /\ Saved(e, written)
  /\ ex' = [ex EXCEPT ![e].pc = "done"]
  /\ UNCHANGED <<sem, active, metrics, cancels>>

\* An iteration of a loop returns: the loop starts the next one, of the same
\* sub-workflow, or answers; how the iteration ended does not matter, unless
\* it was cancelled.
IterationReturns(e, d, written) ==
  LET p == ex[e].parent
      items == NodeOf(ex[p]).items
      frames == [ex EXCEPT ![e].pc = "done"]
  IN  /\ ex[e].pc = "saving"
      /\ ~ex[e].creq
      /\ p # NoExec
      /\ Saved(e, written)
      /\ \/ /\ ex[e].status = "cancelled"
            /\ ex' = CallEnds(frames, p, "cancelled")
            /\ UNCHANGED <<sem, active, metrics>>
         \/ /\ ex[e].status # "cancelled"
            /\ ex[p].item >= items
            /\ ex' = CallEnds(frames, p, "ok")
            /\ UNCHANGED <<sem, active, metrics>>
         \/ /\ ex[e].status # "cancelled"
            /\ ex[p].item < items
            /\ IsFresh(d)
            /\ Begin([frames EXCEPT ![p].child = d, ![p].item = @ + 1],
                     d, ex[e].wf, p, ex[e].depth, ex[e].maxIter)
      /\ UNCHANGED cancels

\* mutant: a cancel inside save_execution still turns the status.
SaveCancelledTurnsStatus(e, written) ==
  LET p == ex[e].parent
      frames == [ex EXCEPT ![e].pc = "done", ![e].creq = FALSE, ![e].status = "cancelled"]
  IN  /\ ex[e].pc = "saving"
      /\ ex[e].creq
      /\ Saved(e, written)
      /\ ex' = IF p = NoExec THEN frames ELSE CallEnds(frames, p, "cancelled")
      /\ UNCHANGED <<sem, active, metrics, cancels>>

\* Cancelled inside save_execution: the record may or may not be written, and
\* CancelledError goes to the caller whatever the status was.
SaveCancelled(e, written) ==
  LET p == ex[e].parent
      frames == [ex EXCEPT ![e].pc = "done", ![e].creq = FALSE]
  IN  /\ ex[e].pc = "saving"
      /\ ex[e].creq
      /\ Saved(e, written)
      /\ ex' = IF p = NoExec THEN frames ELSE CallEnds(frames, p, "cancelled")
      /\ UNCHANGED <<sem, active, metrics, cancels>>

---------------------------------------------------------------------------
(* task.cancel() from outside.                                             *)

RequestCancel(e) ==
  /\ cancels < MaxCancels
  /\ ~ex[e].creq
  /\ cancels' = cancels + 1
  /\ ex' = [ex EXCEPT ![e].creq = TRUE]
  /\ sem' = WithdrawIfWaiting(sem, e)
  /\ UNCHANGED <<active, metrics, store>>

\* cancel_workflow(execution_id).
CancelWorkflow(e) == e \in active /\ RequestCancel(e)

\* WorkflowManager.close cancels the tasks it still runs, also one that has
\* left the table of active executions and is saving its record.
CancelTop(e) ==
  /\ ex[e].parent = NoExec
  /\ ex[e].pc = "saving"
  /\ RequestCancel(e)

---------------------------------------------------------------------------
(* What the event loop runs without being asked to: every step of a task   *)
(* that is ready, every timer, and the end of a call that was cancelled.   *)
Scheduled(e) ==
  \/ Acquired(e)
  \/ AcquireCancelled(e)
  \/ \E a \in Ended : HandlerStopped(e, a)
  \/ TimeoutFires(e)
  \/ CancelDelivered(e)
  \/ NodeSucceeded(e)
  \/ StopReached(e)
  \/ ErrorThrown(e)
  \/ AttemptFailed(e)
  \/ NodeGaveUp(e)
  \/ BackoffOver(e)
  \/ CancelRaised(e)
  \/ \E written \in BOOLEAN : TopReturns(e, written)
  \/ \E written \in BOOLEAN : \E d \in Exec : IterationReturns(e, d, written)
  \/ \E written \in BOOLEAN : SaveCancelled(e, written)
  \/ ex[e].call # "none" /\ NodeOf(ex[e]).kind \notin Suspending
     /\ \E a \in Ended : HandlerEnds(e, a)

Unscheduled(e) ==
  \/ \E w \in DOMAIN Flows : StartTop(w, e)
  \/ \E a \in Ended : HandlerEnds(e, a)
  \/ \E d \in Exec : LoopLoaded(e, d)
  \/ CancelWorkflow(e)
  \/ CancelTop(e)

Next == \E e \in Exec : Scheduled(e) \/ Unscheduled(e)

Spec == Init /\ [][Next]_vars

\* A handler may hang and nobody need ever cancel anything; everything the
\* event loop schedules happens.  The save is bounded by the command_timeout
\* of the database connection.
Fairness == \A e \in Exec : WF_vars(Scheduled(e))
FairSpec == Spec /\ Fairness

---------------------------------------------------------------------------
(* Properties.                                                             *)

\* Every variable has its type.
TypeOK ==
  /\ ex \in [Exec -> Frames]
  /\ sem \in Semaphore(Exec)
  /\ active \subseteq Exec
  /\ metrics \in [executed : Nat, succeeded : Nat, failed : Nat, cancelled : Nat]
  /\ store \in [Exec -> Final \cup {"none"}]
  /\ cancels \in Nat

\* No path through the cancels, timeouts and early ends loses or duplicates a
\* permit: those left, those on their way to a woken waiter and those held by
\* executions add up to max_concurrent.
PermitConservation ==
  sem.value + Cardinality(sem.granted) + Cardinality({e \in Exec : Holds(e)})
    = MaxConcurrent

\* A permit is never left lying while somebody queues for it, unless a woken
\* waiter that has not run yet is going to pass it on.
NoLostWakeup == sem.value > 0 /\ sem.queue # <<>> => sem.granted # {}

\* The queue holds exactly the waiting executions nobody has cancelled or
\* woken, and a woken waiter still waits for its turn to run.
QueueMatchesWaiters ==
  /\ \A e \in Exec :
       (\E i \in DOMAIN sem.queue : sem.queue[i] = e)
         <=> ex[e].pc = "waiting" /\ ~ex[e].creq /\ e \notin sem.granted
  /\ \A e \in sem.granted : ex[e].pc = "waiting"

\* get_metrics: whatever way executions end, each is counted as executed once
\* and under exactly the status it ends with.
MetricsAddUp ==
  LET ending(s) == Cardinality({e \in Exec : ex[e].status = s}) IN
  /\ metrics.executed = Cardinality({e \in Exec : ex[e].pc # "free"})
  /\ metrics.succeeded = ending("completed")
  /\ metrics.failed = ending("failed")
  /\ metrics.cancelled = ending("cancelled")

\* active_executions leaks no entry and misses none: it has the executions
\* that cancel_workflow can still reach, those between registration and end.
RegistryExact == active = {e \in Exec : ex[e].pc \in InFlight}

\* The iterations of a loop never overlap, not even across the retries of a
\* loop node that timed out: wait_for ends only after its call has.
IterationsDoNotOverlap ==
  \A c, d \in Exec :
    Busy(c) /\ Busy(d) /\ ex[c].parent = ex[d].parent /\ ex[c].parent # NoExec
      => c = d

\* An iteration outlives the execution that runs it only if that execution was
\* cancelled; a timeout alone never leaves one behind.
OrphansComeFromCancels ==
  \A c \in Exec :
    Busy(c) /\ ex[c].parent # NoExec =>
      LET p == ex[ex[c].parent] IN
      p.pc \in {"acting", "cancelling", "timingout"} \/ p.status = "cancelled"

\* Status "completed" means that the execution went down the success path from
\* the start node to an end: every node on it has its output stored.
CompletedRanThrough ==
  \A e \in Exec : ex[e].status = "completed" =>
    LET f == ex[e]  nodes == Flows[f.wf].nodes IN
    /\ Flows[f.wf].start \in f.outs
    /\ \A n \in f.outs :
         \/ nodes[n].kind = "stop"
         \/ \E a \in Succeeding :
              Successor(nodes[n], a) \in f.outs \cup {NoNode}

\* The executor implements the life cycle of executions: each begins, ends,
\* is counted and is recorded at most once, and in that order.
LifeOf(f) ==
  CASE f.pc = "free"       -> "absent"
    [] f.pc \in InFlight   -> "active"
    [] OTHER               -> f.status

Lifecycle == INSTANCE ExecutionLifecycle
               WITH life <- [e \in Exec |-> LifeOf(ex[e])],
                    stored <- store, counts <- metrics

ImplementsLifecycle == Lifecycle!Spec

\* "Max iterations reached, possible infinite loop" (the message of
\* workflow_engine.py:510) is said of executions that had a node left to run.
MaxIterationsMeansUnfinished ==
  \A e \in Exec : "max_iterations" \in ex[e].errors => ex[e].node # NoNode

\* "Workflow cancelled by user" (the message of workflow_engine.py:522) is said
\* of executions only if somebody cancelled something.
CancelledByUser ==
  \A e \in Exec : "cancelled" \in ex[e].errors => cancels > 0

\* cancel_workflow returns True for a request that is then honoured, unless
\* the attempt the execution waits for had already ended: a pending cancel
\* makes way only for an interrupted call, the end of the execution, or the
\* result of such an attempt.
CancelHonoured ==
  [][\A e \in Exec : ex[e].creq /\ ~ex'[e].creq =>
       \/ ex'[e].pc \in {"cancelling", "done"}
       \/ ex'[e].status = "cancelled"
       \/ ex[e].pc = "acting" /\ ex[e].call \in Ended]_vars

\* Whoever is cancelled while it queues for a permit never runs a node.
CancelledInQueueNeverRuns ==
  [][\A e \in Exec : ex[e].pc = "waiting" /\ ex[e].creq
       => ex'[e].pc = "waiting" \/ ex'[e].status = "cancelled"]_vars

\* The event loop has something to run for e: its wake-up or cancel has come,
\* a timer may fire, its call answers or is over, or it saves its record.
Ready(e) ==
  LET f == ex[e] IN
  \/ f.pc = "waiting" /\ (f.creq \/ e \in sem.granted)
  \/ Interruptible(f)
  \/ CallOpen(e, "stopping")
  \/ CallOpen(e, "running") /\ NodeOf(f).kind \notin Suspending
  \/ AttemptOver(e) \/ CancelDue(f)
  \/ f.pc \in {"backoff", "saving"}

\* Nested loops hold permits while their iterations queue for one, and a loop
\* that was interrupted has no timeout left: the iteration it waits for may have
\* swallowed the cancel, and the next one queues uncancelled.  All the same
\* executions never all wait for each other.
NobodyStuck ==
  (\E e \in Exec : Busy(e)) => \E e \in Exec : Busy(e) /\ Ready(e)

\* Every execution that is started ends, although handlers may hang and loops
\* hold their permit while their iterations queue for one: the timeouts of the
\* nodes take the executor out of that.
EveryExecutionEnds ==
  \A e \in Exec : ex[e].pc = "waiting" \/ ex[e].pc = "acting" ~> ex[e].pc = "done"
===========================================================================
