----------------------------- MODULE AgentTasks -----------------------------
(***************************************************************************)
(* AgentOrchestrator (agents/orchestrator.py) with the executive and the   *)
(* operations agent, and the inventory they keep in Notion                 *)
(* (integrations/notion_erp.py).                                           *)
(*                                                                         *)
(* Tasks are routed concurrently.  A task on the operations agent may      *)
(* update the inventory; one on the executive may be decided there, after  *)
(* all other agents are consulted, or delegated, which hands on no         *)
(* parameters and so can only think; all else is one call of think, which  *)
(* AgentThink shows to end.  Posts are other users of the connector that   *)
(* create pages (tickets, transactions).                                   *)
(***************************************************************************)
EXTENDS Naturals, Sequences, FiniteSets

CONSTANTS
  Tasks,
  Typed,      \* tasks whose type names an agent
  Updates,    \* action update_inventory, by one
  Delegated,  \* action delegate
  Decisions,  \* action decide
  Posts,      \* create_support_ticket and record_transaction
  Retries,    \* retries of _notion_request
  MaxHistory  \* _max_history

ASSUME TaskParams ==
  /\ Typed \subseteq Tasks
  /\ Updates \subseteq Tasks /\ Decisions \subseteq Tasks \ Updates
  /\ Delegated \subseteq Tasks \ (Updates \cup Decisions)
  /\ Tasks \cap Posts = {}
  /\ Retries \in Nat \ {0} /\ MaxHistory \in Nat \ {0}

Agents == {"executive", "operations", "sales"}
SubAgents == Agents \ {"executive"}
Callers == Tasks \cup Posts
None == "none"

VARIABLES
  task,     \* the tasks in route_task
  status,   \* agent.status
  history,  \* routing_history: the tasks
  ended,    \* how many tasks have ended in an agent
  req,      \* the request of each caller
  late,     \* copies of its requests that were given up and may still be executed
  created,  \* pages each post created
  quantity, \* Quantity of the item
  applied,  \* updates whose PATCH was executed
  overlap   \* an update was written between the read and a write of another one

agents == <<task, status, history, ended>>
notion == <<late, created, quantity, applied, overlap>>
vars == <<agents, req, notion>>

NoRequest == [method |-> None, attempt |-> 0, executed |-> FALSE, value |-> 0, result |-> None]
Request(method, value) ==
  [method |-> method, attempt |-> 1, executed |-> FALSE, value |-> value, result |-> None]

\* What remains of the request of a task that has left: what its late copies will write.
Given(t, copies) ==
  [NoRequest EXCEPT !.method = "returned", !.value = IF copies > 0 THEN req[t].value ELSE 0]

Init ==
  /\ task = [t \in Tasks |-> [pc |-> "new", agent |-> None, consult |-> {}, result |-> None]]
  /\ status = [a \in Agents |-> "idle"]
  /\ history = <<>> /\ ended = 0
  /\ req = [c \in Callers |-> NoRequest]
  /\ late = [c \in Callers |-> 0]
  /\ created = [p \in Posts |-> 0]
  /\ quantity = 0 /\ applied = {} /\ overlap = FALSE

-----------------------------------------------------------------------------
(* Routing *)

NamedAgent(t) == IF t \in Decisions \cup Delegated THEN "executive"
                 ELSE IF t \in Updates THEN "operations" ELSE "sales"

EnterAgent(t, a, pc, consult) ==
  /\ task' = [task EXCEPT ![t].pc = pc, ![t].agent = a, ![t].consult = consult]
  /\ status' = [status EXCEPT ![a] = "working"]
  /\ UNCHANGED <<history, ended>>

\* mutant: no finally
LeaveAgentOnSuccess(t, a, pc, result) ==
  /\ task' = [task EXCEPT ![t] = [pc |-> pc, agent |-> a, consult |-> {}, result |-> result]]
  /\ status' = IF result = "ok" THEN [status EXCEPT ![a] = "idle"] ELSE status
  /\ LET h == Append(history, t) IN
     history' = IF Len(h) > MaxHistory THEN SubSeq(h, Len(h) - MaxHistory + 1, Len(h)) ELSE h
  /\ ended' = ended + 1

\* The finally of route_task, whatever the agent did.
LeaveAgent(t, a, pc, result) ==
  /\ task' = [task EXCEPT ![t] = [pc |-> pc, agent |-> a, consult |-> {}, result |-> result]]
  /\ status' = [status EXCEPT ![a] = "idle"]
  /\ LET h == Append(history, t) IN
     history' = IF Len(h) > MaxHistory THEN SubSeq(h, Len(h) - MaxHistory + 1, Len(h)) ELSE h
  /\ ended' = ended + 1

\* process of the operations agent: update_inventory begins with the query.
StartUpdate(t, a) ==
  /\ a = "operations" /\ t \in Updates
  /\ EnterAgent(t, a, "erp", {})
  /\ req' = [req EXCEPT ![t] = Request("query", 0)]

\* process of agent a.  _delegate passes on the description and the action but not the
\* parameters: an agent that needs them (update_inventory: "Missing item_id") returns at
\* once, as does a delegation to an unknown agent; all others think.
Begin(t, a) ==
  \/ /\ a = "executive" /\ t \in Decisions
     /\ EnterAgent(t, a, "consulting", SubAgents) /\ UNCHANGED req
  \/ /\ a = "executive" /\ t \in Delegated
     /\ LeaveAgent(t, a, "done", "ok") /\ UNCHANGED req
  \/ StartUpdate(t, a)
  \/ /\ ~(a = "executive" /\ t \in Decisions) /\ ~(a = "operations" /\ t \in Updates)
     /\ EnterAgent(t, a, "thinking", {}) /\ UNCHANGED req

Route(t) ==
  /\ task[t].pc = "new"
  /\ IF t \in Typed THEN Begin(t, NamedAgent(t))
     ELSE task' = [task EXCEPT ![t].pc = "classifying"] /\ UNCHANGED <<status, history, ended, req>>
  /\ UNCHANGED notion

\* The model's answer contains the name of an agent, or else the executive takes it.
Classified(t, a) ==
  /\ task[t].pc = "classifying"
  /\ Begin(t, a)
  /\ UNCHANGED notion

\* Each sub-agent is asked at once; what it raises becomes part of the advice.
Consulted(t, a) ==
  /\ task[t].pc = "consulting" /\ a \in task[t].consult
  /\ LET rest == task[t].consult \ {a} IN
     task' = [task EXCEPT ![t].consult = rest,
                          ![t].pc = IF rest = {} THEN "thinking" ELSE @]
  /\ UNCHANGED <<status, history, ended, req, notion>>

\* think returns or raises.  A decision that was thought cannot be remembered: remember
\* assigns to an item of SharedMemory, which has none.
ThinkEnds(t) ==
  /\ task[t].pc = "thinking"
  /\ \E result \in {"ok", "error"} :
       /\ t \in Decisions /\ task[t].agent = "executive" => result = "error"
       /\ LeaveAgent(t, task[t].agent, "done", result)
  /\ UNCHANGED <<req, notion>>

\* An attempt ends and leaves it open whether its request was, or will be, executed.
MayCopy(c) ==
  \E copy \in {0, 1} :
    /\ copy = 1 => req[c].method \in {"patch", "post"} /\ ~req[c].executed
    /\ late' = [late EXCEPT ![c] = @ + copy]

\* The caller of route_task is cancelled; a request under way may still be executed.
Cancel(t) ==
  /\ \/ /\ task[t].pc = "classifying"
        /\ task' = [task EXCEPT ![t].pc = "cancelled"]
        /\ UNCHANGED <<status, history, ended, req, notion>>
     \/ /\ task[t].pc \in {"consulting", "thinking", "erp"}
        /\ LeaveAgent(t, task[t].agent, "cancelled", None)
        /\ MayCopy(t)
        /\ req' = IF task[t].pc = "erp" THEN [req EXCEPT ![t] = Given(t, late'[t])] ELSE req
        /\ UNCHANGED <<created, quantity, applied, overlap>>

-----------------------------------------------------------------------------
(* The connector *)

\* manage_inventory: Notion reads the quantity.
QueryExecuted(t) ==
  /\ req[t].method = "query" /\ ~req[t].executed
  /\ req' = [req EXCEPT ![t].executed = TRUE, ![t].value = quantity]
  /\ UNCHANGED <<agents, notion>>

\* Its answer arrives, when the quantity may be another; the sum is sent.
QueryAnswered(t) ==
  /\ req[t].method = "query" /\ req[t].executed
  /\ req' = [req EXCEPT ![t] = Request("patch", req[t].value + 1)]
  /\ UNCHANGED <<agents, notion>>

\* Bound: posts come after the tasks, with which they share nothing.
Post(p) ==
  /\ \A t \in Tasks : task[t].pc \in {"done", "cancelled"} /\ late[t] = 0
  /\ req[p] = NoRequest
  /\ req' = [req EXCEPT ![p] = Request("post", 0)]
  /\ UNCHANGED <<agents, notion>>

\* An update that will still write what it has made of the quantity it read.
HasRead(u) == (req[u].method = "query" /\ req[u].executed) \/ req[u].method = "patch" \/ late[u] > 0

\* Notion executes a request: a PATCH sets what it says, a POST creates a page.
Effect(c) ==
  IF c \in Posts
  THEN created' = [created EXCEPT ![c] = @ + 1] /\ UNCHANGED <<quantity, applied, overlap>>
  ELSE /\ quantity' = req[c].value /\ applied' = applied \cup {c} /\ UNCHANGED created
       /\ overlap' = (overlap \/ \E u \in Updates \ {c} : HasRead(u))

Executed(c) ==
  /\ req[c].method \in {"patch", "post"} /\ ~req[c].executed
  /\ Effect(c)
  /\ req' = [req EXCEPT ![c].executed = TRUE]
  /\ UNCHANGED <<agents, late>>

ExecutedLate(c) ==
  /\ late[c] > 0
  /\ late' = [late EXCEPT ![c] = @ - 1]
  /\ Effect(c)
  /\ UNCHANGED <<agents, req>>

\* _notion_request returns: the caller goes on with an answer or with {"error": ...}.
\* manage_inventory does not look at the answer of its PATCH and finds no item in a
\* failed query; either way the operations agent reports success.
Return(c, result) ==
  IF c \in Posts
  THEN req' = [req EXCEPT ![c].method = "returned", ![c].result = result] /\ UNCHANGED agents
  ELSE req' = [req EXCEPT ![c] = Given(c, late'[c])] /\ LeaveAgent(c, task[c].agent, "done", "ok")

Answered(c) ==
  /\ req[c].method \in {"patch", "post"} /\ req[c].executed
  /\ UNCHANGED notion
  /\ Return(c, "answer")

\* Another status than 200, 201, 204 and 429 is not tried again, although a 5xx does not
\* tell whether the request was executed.
Rejected(c) ==
  /\ req[c].method \in {"query", "patch", "post"}
  /\ MayCopy(c)
  /\ Return(c, "error")
  /\ UNCHANGED <<created, quantity, applied, overlap>>

\* mutant: one attempt too many
AgainOnceMore(c) ==
  IF req[c].attempt <= Retries
  THEN /\ req' = [req EXCEPT ![c].attempt = @ + 1, ![c].executed = FALSE]
       /\ UNCHANGED agents
  ELSE Return(c, "error")

Again(c) ==
  IF req[c].attempt < Retries
  THEN /\ req' = [req EXCEPT ![c].attempt = @ + 1, ![c].executed = FALSE]
       /\ UNCHANGED agents
  ELSE Return(c, "error")

RateLimited(c) ==
  /\ req[c].method \in {"query", "patch", "post"} /\ ~req[c].executed
  /\ UNCHANGED notion
  /\ Again(c)

\* mutant: the update is retried as a whole
RequestErrorReadsAgain(c) ==
  /\ req[c].method \in {"query", "patch", "post"}
  /\ late' = late
  /\ IF req[c].attempt < Retries
     THEN /\ req' = [req EXCEPT ![c] =
                       [Request(IF c \in Posts THEN "post" ELSE "query", 0) EXCEPT
                          !.attempt = req[c].attempt + 1]]
          /\ UNCHANGED agents
     ELSE Return(c, "error")
  /\ UNCHANGED <<created, quantity, applied, overlap>>

\* mutant: attempts are not counted
RequestErrorUncounted(c) ==
  /\ req[c].method \in {"query", "patch", "post"}
  /\ req' = [req EXCEPT ![c].executed = FALSE]
  /\ UNCHANGED <<agents, notion>>

\* httpx.RequestError, which includes its timeouts.
RequestError(c) ==
  /\ req[c].method \in {"query", "patch", "post"}
  /\ MayCopy(c)
  /\ Again(c)
  /\ UNCHANGED <<created, quantity, applied, overlap>>

-----------------------------------------------------------------------------
Next ==
  \/ \E t \in Tasks : Route(t)
  \/ \E t \in Tasks, a \in Agents : Classified(t, a)
  \/ \E t \in Tasks, a \in SubAgents : Consulted(t, a)
  \/ \E t \in Tasks : ThinkEnds(t)
  \/ \E t \in Tasks : Cancel(t)
  \/ \E t \in Updates : QueryExecuted(t)
  \/ \E t \in Updates : QueryAnswered(t)
  \/ \E p \in Posts : Post(p)
  \/ \E c \in Callers : Executed(c)
  \/ \E c \in Callers : ExecutedLate(c)
  \/ \E c \in Callers : Answered(c)
  \/ \E c \in Callers : Rejected(c)
  \/ \E c \in Callers : RateLimited(c)
  \/ \E c \in Callers : RequestError(c)

Spec == Init /\ [][Next]_vars

\* think ends (AgentThink), and httpx ends every request after its default timeout.
\* The call that classifies has no timeout: nothing is assumed of it.
Fairness == \A t \in Tasks :
  /\ WF_vars(Route(t)) /\ WF_vars(ThinkEnds(t))
  /\ WF_vars(\E a \in SubAgents : Consulted(t, a))
  /\ WF_vars(QueryAnswered(t) \/ Answered(t) \/ Rejected(t) \/ RateLimited(t) \/ RequestError(t))

FairSpec == Spec /\ Fairness

-----------------------------------------------------------------------------
(* Properties *)

TypeOK ==
  /\ task \in [Tasks -> [pc : {"new", "classifying", "consulting", "thinking", "erp", "done",
                              "cancelled"},
                        agent : Agents \cup {None}, consult : SUBSET SubAgents,
                        result : {None, "ok", "error"}]]
  /\ status \in [Agents -> {"idle", "working"}]
  /\ history \in Seq(Tasks) /\ Len(history) <= MaxHistory
  /\ ended \in Nat
  /\ req \in [Callers -> [method : {None, "query", "patch", "post", "returned"},
                         attempt : 0 .. Retries, executed : BOOLEAN, value : Nat,
                         result : {None, "answer", "error"}]]
  /\ late \in [Callers -> 0 .. Retries] /\ created \in [Posts -> Nat]
  /\ quantity \in Nat /\ applied \subseteq Updates /\ overlap \in BOOLEAN

InAgent(t) == task[t].pc \in {"consulting", "thinking", "erp"}
Left == {t \in Tasks : task[t].agent # None /\ ~InAgent(t)}

\* An agent that is shown as working has a task, however its tasks end, and one that has
\* a task is shown as idle only after another of its tasks has left (the first of two that
\* ends sets the status); the history holds each task that has left its agent once, up to
\* its bound.
StatusAndHistory ==
  /\ \A a \in Agents : status[a] = "working" => \E t \in Tasks : InAgent(t) /\ task[t].agent = a
  /\ \A t \in Tasks : InAgent(t) /\ status[task[t].agent] = "idle"
       => \E u \in Left : task[u].agent = task[t].agent
  /\ {history[i] : i \in DOMAIN history} \subseteq Left
  /\ Cardinality(Left) = ended
  /\ Cardinality({history[i] : i \in DOMAIN history}) =
       IF ended < MaxHistory THEN ended ELSE MaxHistory

\* No update is counted twice, although requests are repeated and executed late: a PATCH
\* carries the sum, not the change.  Updates can only be lost, never all of them, and
\* none is unless one is written between the read and a write of another.
InventoryAddsUp ==
  /\ quantity <= Cardinality(applied)
  /\ applied # {} => quantity > 0
  /\ ~overlap => quantity = Cardinality(applied)

\* A POST has no such protection: it creates up to one page per attempt, and one at least
\* if it was answered.
PostsAddUp == \A p \in Posts :
  /\ created[p] + late[p] <= req[p].attempt
  /\ req[p].result = "answer" => created[p] >= 1

\* Every task ends, whatever its agent asks of others, but for one without a type, which
\* may wait for ever for the model that classifies it, and for nothing else.
OnlyClassificationWaits == \A t \in Tasks :
  \/ <>(task[t].pc \in {"done", "cancelled"})
  \/ t \notin Typed /\ <>[](task[t].pc = "classifying")
=============================================================================
