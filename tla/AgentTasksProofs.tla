-------------------------- MODULE AgentTasksProofs --------------------------
(***************************************************************************)
(* Safety of AgentTasks for any number of tasks, posts and retries: what a *)
(* request and its late copies may still do, and what follows for the      *)
(* pages, the inventory and the agents.                                    *)
(***************************************************************************)
EXTENDS AgentTasks, TLAPS, FiniteSetTheorems, SequenceTheorems

Requests == [method : {None, "query", "patch", "post", "returned"}, attempt : 0 .. Retries,
             executed : BOOLEAN, value : Nat, result : {None, "answer", "error"}]

Entries == [pc : {"new", "classifying", "consulting", "thinking", "erp", "done", "cancelled"},
            agent : Agents \cup {None}, consult : SUBSET SubAgents,
            result : {None, "ok", "error"}]

Active == {"query", "patch", "post"}

\* The request r of c, with l late copies and n pages: every attempt leaves one late copy
\* or one page at the most.
Good(c, r, l, n) ==
  /\ r \in Requests /\ l \in 0 .. Retries /\ n \in Nat
  /\ c \in Posts => r.method \in {None, "post", "returned"}
  /\ c \notin Posts => r.method \in {None, "query", "patch", "returned"}
  /\ r.method # None => c \in Updates \cup Posts
  /\ r.method = None => r = NoRequest /\ l = 0 /\ n = 0
  /\ r.method = "query" => l = 0
  /\ r.method \in Active => l + 1 <= r.attempt
  /\ c \in Posts => n + l <= r.attempt
  /\ r.method = "post" /\ ~r.executed => n + l + 1 <= r.attempt
  /\ c \in Posts /\ (r.executed \/ r.result = "answer") => n >= 1

\* A task has a request under way exactly while it is with the connector.
Placed(k, method) ==
  /\ k \in Entries
  /\ k.pc \in {"new", "classifying", "consulting", "thinking"} => method = None
  /\ k.pc = "erp" => method \in {"query", "patch"}
  /\ k.pc \in {"done", "cancelled"} => method \in {None, "returned"}
  /\ k.pc \in {"consulting", "thinking", "erp"} => k.agent \in Agents
  /\ k.pc \in {"new", "classifying"} => k.agent = None

Pages(c) == IF c \in Posts THEN created[c] ELSE 0

CallersInv ==
  /\ req \in [Callers -> Requests] /\ late \in [Callers -> 0 .. Retries]
  /\ created \in [Posts -> Nat] /\ task \in [Tasks -> Entries]
  /\ \A c \in Callers : Good(c, req[c], late[c], Pages(c))
  /\ \A t \in Tasks : Placed(task[t], req[t].method)

\* A step of one caller, to what it has afterwards.
Turn(c, k, r, l, n) ==
  /\ req' = [req EXCEPT ![c] = r] /\ late' = [late EXCEPT ![c] = l]
  /\ created' = IF c \in Posts THEN [created EXCEPT ![c] = n] ELSE created
  /\ task' = IF c \in Tasks THEN [task EXCEPT ![c] = k] ELSE task

\* A step of one caller keeps the invariant if what the caller has afterwards is good.
LEMMA TurnKeeps ==
  ASSUME CallersInv, NEW c \in Callers, NEW k, NEW r, NEW l, NEW n, Turn(c, k, r, l, n),
         Good(c, r, l, n), c \in Tasks => Placed(k, r.method), c \notin Posts => n = 0
  PROVE  CallersInv'
<1>1. /\ req' \in [Callers -> Requests] /\ late' \in [Callers -> 0 .. Retries]
      /\ created' \in [Posts -> Nat] /\ task' \in [Tasks -> Entries]
  BY DEF CallersInv, Turn, Good, Placed
<1>2. req'[c] = r /\ late'[c] = l /\ Pages(c)' = n
  BY DEF CallersInv, Turn, Pages
<1>3. ASSUME NEW d \in Callers, d # c
      PROVE  req'[d] = req[d] /\ late'[d] = late[d] /\ Pages(d)' = Pages(d)
  BY <1>3 DEF CallersInv, Turn, Pages
<1>4. ASSUME NEW d \in Callers
      PROVE  Good(d, req[d], late[d], Pages(d))'
  <2>1. Good(d, req'[d], late'[d], Pages(d)')
    BY <1>2, <1>3 DEF CallersInv
  <2> QED BY <2>1 DEF Good
<1>5. ASSUME NEW d \in Tasks
      PROVE  Placed(task[d], req[d].method)'
  <2>1. Placed(task'[d], req'[d].method)
    BY <1>2, <1>3 DEF CallersInv, Turn, Callers
  <2> QED BY <2>1 DEF Placed
<1> QED BY <1>1, <1>4, <1>5 DEF CallersInv

\* At the start nobody has a request.
LEMMA CallersInit == Init => CallersInv
BY TaskParams DEF Init, CallersInv, Callers, Good, Placed, Pages, Requests, Entries, NoRequest,
                  None, Active

-----------------------------------------------------------------------------
(* The steps of a task *)

\* An agent takes a task, or has done with it at once.
Takes(t, a, pc, consult) ==
  /\ EnterAgent(t, a, pc, consult) /\ UNCHANGED req
  /\ pc = "consulting" => consult = SubAgents

LEMMA BeginCases ==
  ASSUME NEW t \in Tasks, NEW a \in Agents, Begin(t, a)
  PROVE  \/ \E pc \in {"consulting", "thinking"}, consult \in SUBSET SubAgents :
              Takes(t, a, pc, consult)
         \/ /\ t \in Updates /\ EnterAgent(t, a, "erp", {})
            /\ req' = [req EXCEPT ![t] = Request("query", 0)]
         \/ LeaveAgent(t, a, "done", "ok") /\ UNCHANGED req
BY DEF Begin, StartUpdate, Takes

\* The entry of a task that an agent takes.
LEMMA EntryTaken ==
  ASSUME NEW t \in Tasks, task[t] \in Entries, NEW a \in Agents,
         NEW pc \in {"consulting", "thinking", "erp"}, NEW consult \in SUBSET SubAgents,
         EnterAgent(t, a, pc, consult)
  PROVE  \E k \in Entries : /\ task' = [task EXCEPT ![t] = k]
                            /\ k.pc = pc /\ k.agent = a /\ k.consult = consult
<1> DEFINE k == [task[t] EXCEPT !.pc = pc, !.agent = a, !.consult = consult]
<1>1. task' = [task EXCEPT ![t] = k]
  BY DEF EnterAgent
<1>2. k \in Entries /\ k.pc = pc /\ k.agent = a /\ k.consult = consult
  BY DEF Entries
<1> HIDE DEF k
<1> QED BY <1>1, <1>2

\* What remains of a request given up: only the value its late copies write.
LEMMA GivenRequest ==
  ASSUME NEW t, req[t] \in Requests, NEW copies
  PROVE  /\ Given(t, copies) \in Requests /\ Given(t, copies).method = "returned"
         /\ Given(t, copies).executed = FALSE
         /\ Given(t, copies).value = IF copies > 0 THEN req[t].value ELSE 0
<1> DEFINE v == IF copies > 0 THEN req[t].value ELSE 0
<1>1. v \in Nat
  BY DEF Requests
<1>2. Given(t, copies) = [NoRequest EXCEPT !.method = "returned", !.value = v]
  BY DEF Given
<1>3. NoRequest \in Requests /\ NoRequest.executed = FALSE
  BY TaskParams DEF Requests, NoRequest, None
<1> HIDE DEF v
<1>4. Given(t, copies) \in Requests
  BY <1>1, <1>2, <1>3 DEF Requests
<1>5. Given(t, copies).method = "returned" /\ Given(t, copies).value = v
  BY <1>2, <1>3 DEF Requests
<1>6. Given(t, copies).executed = FALSE
  BY <1>2, <1>3 DEF NoRequest
<1> QED BY <1>4, <1>5, <1>6 DEF v

\* A task that leaves an agent: what its late copies will write is kept.
LEMMA LeaveCallers ==
  ASSUME CallersInv, NEW t \in Tasks, task[t].pc \notin {"done", "cancelled"},
         NEW a \in Agents, NEW pc \in {"done", "cancelled"}, NEW result \in {None, "ok", "error"},
         LeaveAgent(t, a, pc, result), UNCHANGED created,
         NEW copy \in {0, 1}, late' = [late EXCEPT ![t] = @ + copy],
         copy = 1 => task[t].pc = "erp",
         req' = IF task[t].pc = "erp" THEN [req EXCEPT ![t] = Given(t, late'[t])] ELSE req
  PROVE  CallersInv'
<1> USE DEF CallersInv
<1> DEFINE l == late[t] + copy
           k == [pc |-> pc, agent |-> a, consult |-> {}, result |-> result]
           r == IF task[t].pc = "erp" THEN Given(t, l) ELSE req[t]
<1>1. /\ t \in Callers \ Posts /\ Good(t, req[t], late[t], 0) /\ Placed(task[t], req[t].method)
      /\ late[t] \in Nat /\ late'[t] = l
  BY TaskParams DEF Callers, Pages
<1>2. Good(t, r, l, 0) /\ r.method \in {None, "returned"}
  <2>1. CASE task[t].pc = "erp"
    <3>1. req[t].method \in {"query", "patch"} /\ req[t] \in Requests
      BY <1>1, <2>1 DEF Placed, Good
    <3>2. l \in 0 .. Retries /\ t \in Updates
      BY <1>1, <3>1, TaskParams DEF Good, Active, Requests, None
    <3>3. /\ r \in Requests /\ r.method = "returned" /\ r.executed = FALSE
      BY <2>1, <3>1, GivenRequest
    <3> QED BY <1>1, <3>2, <3>3 DEF Good, Active, None
  <2>2. CASE task[t].pc # "erp"
    <3>1. copy = 0 /\ req[t].method = None
      BY <1>1, <2>2 DEF Placed, Entries
    <3> QED BY <1>1, <2>2, <3>1
  <2> QED BY <2>1, <2>2
<1>3. Placed(k, r.method)
  BY <1>1, <1>2 DEF Placed, Entries
<1>4. req' = [req EXCEPT ![t] = r] /\ task' = [task EXCEPT ![t] = k]
  BY <1>1 DEF LeaveAgent
<1> HIDE DEF l, k, r
<1>5. Turn(t, k, r, l, 0)
  BY <1>1, <1>4 DEF Turn, l
<1> QED BY <1>1, <1>2, <1>3, <1>5, TurnKeeps

\* An agent takes a task.
LEMMA BeginCallers ==
  ASSUME CallersInv, NEW t \in Tasks, NEW a \in Agents, Begin(t, a),
         task[t].pc \in {"new", "classifying"}, UNCHANGED <<late, created>>
  PROVE  CallersInv'
<1> USE DEF CallersInv
<1>1. /\ t \in Callers \ Posts /\ req[t] = NoRequest /\ late[t] = 0
      /\ task[t] \in Entries /\ Good(t, req[t], late[t], 0)
  BY TaskParams DEF Callers, Placed, Good, Pages
<1>2. ASSUME NEW pc \in {"consulting", "thinking"}, NEW consult \in SUBSET SubAgents,
             Takes(t, a, pc, consult)
      PROVE  CallersInv'
  <2>1. PICK k \in Entries : task' = [task EXCEPT ![t] = k] /\ k.pc = pc /\ k.agent = a
    BY <1>1, <1>2, EntryTaken DEF Takes
  <2>2. Placed(k, None)
    BY <2>1 DEF Placed
  <2>3. Turn(t, k, req[t], late[t], 0)
    BY <1>1, <1>2, <2>1 DEF Turn, Takes
  <2> QED BY <1>1, <2>2, <2>3, TurnKeeps DEF NoRequest
<1>3. CASE /\ t \in Updates /\ EnterAgent(t, a, "erp", {})
           /\ req' = [req EXCEPT ![t] = Request("query", 0)]
  <2> DEFINE r == Request("query", 0)
  <2>1. r.method = "query" /\ Good(t, r, 0, 0)
    BY <1>1, <1>3, TaskParams DEF Request, Good, Requests, Active, None
  <2>2. PICK k \in Entries : task' = [task EXCEPT ![t] = k] /\ k.pc = "erp" /\ k.agent = a
    BY <1>1, <1>3, EntryTaken
  <2>3. Placed(k, "query")
    BY <2>2 DEF Placed
  <2> HIDE DEF r
  <2>4. Turn(t, k, r, 0, 0)
    BY <1>1, <1>3, <2>2 DEF Turn, r
  <2> QED BY <1>1, <2>1, <2>3, <2>4, TurnKeeps
<1>4. CASE LeaveAgent(t, a, "done", "ok") /\ UNCHANGED req
  <2>1. PICK copy \in {0, 1} : copy = 0
    OBVIOUS
  <2>2. late' = [late EXCEPT ![t] = @ + copy] /\ task[t].pc # "erp" /\ UNCHANGED created
    BY <1>1, <2>1
  <2>3. copy = 1 => task[t].pc = "erp"
    BY <2>1
  <2> QED BY <1>4, <2>2, <2>3, LeaveCallers
<1> QED BY <1>2, <1>3, <1>4, BeginCases

-----------------------------------------------------------------------------
(* The steps of a request *)

\* What MayCopy leaves: one late copy of a request that writes, or none.
LEMMA Copies ==
  ASSUME NEW c, MayCopy(c)
  PROVE  \E copy \in {0, 1} :
           /\ copy = 1 => req[c].method \in {"patch", "post"} /\ ~req[c].executed
           /\ late' = [late EXCEPT ![c] = @ + copy]
BY DEF MayCopy

\* The end of a call: a post keeps its request, a task leaves its agent.
LEMMA ReturnCallers ==
  ASSUME CallersInv, NEW c \in Callers, req[c].method \in Active, NEW copy \in {0, 1},
         copy = 1 => req[c].method \in {"patch", "post"} /\ ~req[c].executed,
         late' = [late EXCEPT ![c] = @ + copy], UNCHANGED created,
         NEW result \in {"answer", "error"}, result = "answer" => req[c].executed,
         Return(c, result)
  PROVE  CallersInv'
<1> USE DEF CallersInv
<1> DEFINE l == late[c] + copy
<1>1. /\ Good(c, req[c], late[c], Pages(c)) /\ req[c] \in Requests /\ Pages(c) \in Nat
      /\ late[c] \in 0 .. Retries /\ Retries \in Nat
  BY TaskParams DEF Good
<1>2. CASE c \in Posts
  <2> DEFINE r == [req[c] EXCEPT !.method = "returned", !.result = result]
  <2>1. /\ r \in Requests /\ r.method = "returned" /\ r.result = result
        /\ r.attempt = req[c].attempt /\ r.executed = req[c].executed
    BY <1>1, <1>2 DEF Requests
  <2>2. req' = [req EXCEPT ![c] = r] /\ UNCHANGED agents
    BY <1>2 DEF Return
  <2> HIDE DEF r
  <2>3. req[c].method = "post" /\ req[c].attempt \in 0 .. Retries
    BY <1>1, <1>2 DEF Good, Active, None, Requests
  <2>4. Good(c, r, l, Pages(c))
    <3>1. l = late[c] \/ (l = late[c] + 1 /\ ~req[c].executed)
      BY <1>1
    <3> HIDE DEF l
    <3>2. l \in Nat /\ Pages(c) + l <= req[c].attempt
      BY <1>1, <1>2, <2>3, <3>1 DEF Good
    <3>3. l \in 0 .. Retries
      BY <1>1, <2>3, <3>2
    <3> QED BY <1>1, <1>2, <2>1, <3>2, <3>3 DEF Good, Active, None
  <2> HIDE DEF l
  <2>5. Turn(c, task[c], r, l, Pages(c))
    BY <1>2, <2>2 DEF Turn, agents, Pages, l
  <2> QED BY <1>2, <2>4, <2>5, TaskParams, TurnKeeps DEF Callers
<1>3. CASE c \notin Posts
  <2>1. /\ c \in Tasks /\ req' = [req EXCEPT ![c] = Given(c, late'[c])]
        /\ LeaveAgent(c, task[c].agent, "done", "ok")
    BY <1>3 DEF Return, Callers
  <2>2. task[c].pc = "erp" /\ task[c].agent \in Agents
    BY <2>1 DEF Placed, Entries, Active, None
  <2> QED BY <2>1, <2>2, LeaveCallers
<1> QED BY <1>2, <1>3

\* The next attempt, or the end of the call, after copy copies were left behind.
LEMMA AgainCallers ==
  ASSUME CallersInv, NEW c \in Callers, req[c].method \in Active, NEW copy \in {0, 1},
         copy = 1 => req[c].method \in {"patch", "post"} /\ ~req[c].executed,
         late' = [late EXCEPT ![c] = @ + copy], UNCHANGED created, Again(c)
  PROVE  CallersInv'
<1> USE DEF CallersInv
<1> DEFINE l == late[c] + copy
           again == [req[c] EXCEPT !.attempt = @ + 1, !.executed = FALSE]
<1>1. /\ Good(c, req[c], late[c], Pages(c)) /\ req[c] \in Requests /\ late[c] \in 0 .. Retries
      /\ l \in 0 .. Retries /\ Retries \in Nat /\ Pages(c) \in Nat
  BY TaskParams DEF Good, Requests
<1>2. CASE req[c].attempt < Retries
  <2>0. req[c].attempt + 1 \in 0 .. Retries
    BY <1>1, <1>2 DEF Requests
  <2>1. again \in Requests /\ again.method = req[c].method /\ again.executed = FALSE
        /\ again.attempt = req[c].attempt + 1 /\ again.result = req[c].result
    BY <1>1, <2>0 DEF Requests
  <2>2. Good(c, again, l, Pages(c))
    <3>1. \/ l = late[c]
          \/ l = late[c] + 1 /\ req[c].method # "query" /\ ~req[c].executed
      BY <1>1
    <3> HIDE DEF again, l
    <3>2. req[c].attempt \in Nat
      BY <1>1 DEF Requests
    <3>3. req[c].method # None
      BY DEF Active, None
    <3>4. CASE c \in Posts
      <4>1. req[c].method = "post"
        BY <1>1, <3>4 DEF Good, Active, None
      <4> QED BY <1>1, <2>1, <3>1, <3>2, <3>4, <4>1 DEF Good, Active, None
    <3>5. CASE c \notin Posts
      <4>1. req[c].method \in {"query", "patch"} /\ late[c] \in Nat /\ late[c] + 1 <= req[c].attempt
        BY <1>1, <3>5 DEF Good, Active, None
      <4>2. l + 1 <= again.attempt /\ (again.method = "query" => l = 0)
        BY <1>1, <2>1, <3>1, <3>2, <4>1 DEF Good
      <4> QED BY <1>1, <2>1, <3>5, <4>1, <4>2 DEF Good, None
    <3> QED BY <3>4, <3>5
  <2>3. req' = [req EXCEPT ![c] = again] /\ UNCHANGED agents
    BY <1>2 DEF Again
  <2> HIDE DEF again, l
  <2>4. Turn(c, task[c], again, l, Pages(c))
    BY <2>3 DEF Turn, agents, Pages, l
  <2> QED BY <2>1, <2>2, <2>4, TurnKeeps DEF Callers, Pages
<1>3. CASE Return(c, "error")
  BY <1>3, ReturnCallers
<1> QED BY <1>2, <1>3 DEF Again

\* Notion executes the request of c, leaving r of it and l late copies.
LEMMA EffectCallers ==
  ASSUME CallersInv, NEW c \in Callers, Effect(c), UNCHANGED task, NEW r, NEW l,
         req' = [req EXCEPT ![c] = r], late' = [late EXCEPT ![c] = l],
         NEW page \in {0, 1}, c \in Posts <=> page = 1, Good(c, r, l, Pages(c) + page),
         r.method = req[c].method
  PROVE  CallersInv'
<1> USE DEF CallersInv
<1>1. CASE c \in Posts
  <2>1. Turn(c, task[c], r, l, Pages(c) + page)
    BY <1>1, TaskParams DEF Effect, Turn, Pages, Callers
  <2> QED BY <1>1, <2>1, TaskParams, TurnKeeps DEF Callers
<1>2. CASE c \notin Posts
  <2>1. Pages(c) + page = 0
    BY <1>2 DEF Pages
  <2>2. Turn(c, task[c], r, l, 0) /\ c \in Tasks
    BY <1>2 DEF Effect, Turn, Callers
  <2> QED BY <2>1, <2>2, TurnKeeps
<1> QED BY <1>1, <1>2

\* Notion executes a request or a late copy of one.
LEMMA ExecutedCallers ==
  ASSUME CallersInv, NEW c \in Callers, Executed(c) \/ ExecutedLate(c)
  PROVE  CallersInv'
<1> DEFINE page == IF c \in Posts THEN 1 ELSE 0
<1>1. /\ Good(c, req[c], late[c], Pages(c)) /\ req[c] \in Requests /\ Pages(c) \in Nat
      /\ late[c] \in Nat /\ req[c].attempt \in Nat /\ page \in {0, 1} /\ (c \in Posts <=> page = 1)
  BY TaskParams DEF Good, Requests, CallersInv
<1> HIDE DEF page
<1>2. CASE Executed(c)
  <2> DEFINE r == [req[c] EXCEPT !.executed = TRUE]
  <2>1. r \in Requests /\ r.method = req[c].method /\ r.result = req[c].result
        /\ r.attempt = req[c].attempt /\ r.executed = TRUE
    BY <1>1 DEF Requests
  <2>2. /\ req' = [req EXCEPT ![c] = r] /\ late' = [late EXCEPT ![c] = late[c]]
        /\ UNCHANGED task /\ Effect(c) /\ req[c].method \in {"patch", "post"} /\ ~req[c].executed
    BY <1>2 DEF Executed, agents, CallersInv
  <2> HIDE DEF r
  <2>3. Good(c, r, late[c], Pages(c) + page)
    <3>1. CASE c \in Posts
      <4>1. page = 1 /\ r.method = "post" /\ Pages(c) + late[c] + 1 <= req[c].attempt
        BY <1>1, <2>1, <2>2, <3>1 DEF Good, None
      <4> QED BY <1>1, <2>1, <3>1, <4>1 DEF Good, Active, None
    <3>2. CASE c \notin Posts
      BY <1>1, <2>1, <2>2, <3>2, TaskParams DEF Good, Active, None
    <3> QED BY <3>1, <3>2
  <2> QED BY <1>1, <2>1, <2>2, <2>3, EffectCallers
<1>3. CASE ExecutedLate(c)
  <2>1. /\ req' = [req EXCEPT ![c] = req[c]] /\ late' = [late EXCEPT ![c] = late[c] - 1]
        /\ UNCHANGED task /\ Effect(c) /\ late[c] > 0
    BY <1>3 DEF ExecutedLate, agents, CallersInv
  <2>2. Good(c, req[c], late[c] - 1, Pages(c) + page)
    <3>1. late[c] - 1 \in 0 .. Retries /\ req[c].method \notin {None, "query"}
      BY <1>1, <2>1, TaskParams DEF Good
    <3>2. CASE c \in Posts
      BY <1>1, <2>1, <3>1, <3>2 DEF Good, Active
    <3>3. CASE c \notin Posts
      BY <1>1, <2>1, <3>1, <3>3 DEF Good, Active
    <3> QED BY <3>2, <3>3
  <2> QED BY <1>1, <2>1, <2>2, EffectCallers
<1> QED BY <1>2, <1>3

\* Every step keeps the account of the requests.
LEMMA CallersStep ==
  ASSUME CallersInv, quantity \in Nat, [Next]_vars
  PROVE  CallersInv'
<1>0. ASSUME UNCHANGED <<req, late, created, task>>
      PROVE  CallersInv'
  BY <1>0 DEF CallersInv, Good, Placed, Pages
<1>1. ASSUME NEW t \in Tasks, NEW k, Placed(k, req[t].method), task' = [task EXCEPT ![t] = k],
             UNCHANGED <<req, late, created>>
      PROVE  CallersInv'
  <2>1. t \in Callers \ Posts /\ Good(t, req[t], late[t], 0)
    BY TaskParams DEF CallersInv, Callers, Pages
  <2>2. Turn(t, k, req[t], late[t], 0)
    BY <1>1, <2>1 DEF Turn, CallersInv
  <2> QED BY <1>1, <2>1, <2>2, TurnKeeps
<1>2. ASSUME NEW t \in Tasks, Route(t)
      PROVE  CallersInv'
  <2>1. task[t].pc = "new" /\ Placed(task[t], req[t].method) /\ UNCHANGED <<late, created>>
    BY <1>2 DEF Route, notion, CallersInv
  <2>2. CASE t \in Typed
    <3>1. Begin(t, NamedAgent(t)) /\ NamedAgent(t) \in Agents
      BY <1>2, <2>2 DEF Route, NamedAgent, Agents
    <3>2. PICK a \in Agents : a = NamedAgent(t)
      BY <3>1
    <3> QED BY <2>1, <3>1, <3>2, BeginCallers
  <2>3. CASE t \notin Typed
    <3> DEFINE k == [task[t] EXCEPT !.pc = "classifying"]
    <3>1. Placed(k, req[t].method)
      BY <2>1 DEF Placed, Entries
    <3>2. task' = [task EXCEPT ![t] = k] /\ UNCHANGED req
      BY <1>2, <2>3 DEF Route
    <3> HIDE DEF k
    <3> QED BY <1>1, <2>1, <3>1, <3>2
  <2> QED BY <2>2, <2>3
<1>3. ASSUME NEW t \in Tasks, NEW a \in Agents, Classified(t, a)
      PROVE  CallersInv'
  BY <1>3, BeginCallers DEF Classified, notion
<1>4. ASSUME NEW t \in Tasks, NEW a \in SubAgents, Consulted(t, a)
      PROVE  CallersInv'
  <2> DEFINE rest == task[t].consult \ {a}
             k == [task[t] EXCEPT !.consult = rest, !.pc = IF rest = {} THEN "thinking" ELSE @]
  <2>1. task[t].pc = "consulting" /\ Placed(task[t], req[t].method)
        /\ UNCHANGED <<req, late, created>>
    BY <1>4 DEF Consulted, notion, CallersInv
  <2>2. rest \in SUBSET SubAgents
    BY <2>1 DEF Placed, Entries
  <2>3. task' = [task EXCEPT ![t] = k]
    BY <1>4 DEF Consulted
  <2>4. Placed(k, req[t].method)
    <3> HIDE DEF rest
    <3>1. task[t] \in Entries /\ task[t].agent \in Agents /\ req[t].method = None
      BY <2>1 DEF Placed
    <3>2. k \in Entries /\ k.pc \in {"consulting", "thinking"} /\ k.agent = task[t].agent
      BY <2>1, <2>2, <3>1 DEF Entries
    <3> HIDE DEF k
    <3> QED BY <3>1, <3>2 DEF Placed
  <2> HIDE DEF k
  <2> QED BY <1>1, <2>1, <2>3, <2>4
<1>5. ASSUME NEW t \in Tasks, ThinkEnds(t)
      PROVE  CallersInv'
  <2>1. PICK result \in {"ok", "error"} : LeaveAgent(t, task[t].agent, "done", result)
    BY <1>5 DEF ThinkEnds
  <2>2. PICK copy \in {0, 1} : copy = 0
    OBVIOUS
  <2>3. task[t].pc = "thinking" /\ UNCHANGED <<req, created>> /\ task[t].agent \in Agents
        /\ late' = [late EXCEPT ![t] = @ + copy]
    BY <1>5, <2>2 DEF ThinkEnds, notion, CallersInv, Callers, Placed
  <2>4. copy = 1 => task[t].pc = "erp"
    BY <2>2
  <2> QED BY <2>1, <2>3, <2>4, LeaveCallers
<1>6. ASSUME NEW t \in Tasks, Cancel(t)
      PROVE  CallersInv'
  <2>1. CASE task[t].pc = "classifying"
    <3> DEFINE k == [task[t] EXCEPT !.pc = "cancelled"]
    <3>1. task' = [task EXCEPT ![t] = k] /\ UNCHANGED <<req, late, created>>
      BY <1>6, <2>1 DEF Cancel, notion
    <3>2. Placed(k, req[t].method)
      BY <2>1 DEF Placed, Entries, CallersInv
    <3> HIDE DEF k
    <3> QED BY <1>1, <3>1, <3>2
  <2>2. CASE task[t].pc \in {"consulting", "thinking", "erp"}
    <3>1. PICK copy \in {0, 1} :
            /\ copy = 1 => req[t].method \in {"patch", "post"} /\ ~req[t].executed
            /\ late' = [late EXCEPT ![t] = @ + copy]
      BY <1>6, <2>2, Copies DEF Cancel
    <3>2. req' = IF task[t].pc = "erp" THEN [req EXCEPT ![t] = Given(t, late'[t])] ELSE req
      BY <1>6, <2>2 DEF Cancel
    <3>3. LeaveAgent(t, task[t].agent, "cancelled", None) /\ UNCHANGED created
      BY <1>6, <2>2 DEF Cancel
    <3>4. task[t].agent \in Agents /\ (copy = 1 => task[t].pc = "erp")
      BY <2>2, <3>1 DEF CallersInv, Placed, None
    <3> QED BY <2>2, <3>1, <3>2, <3>3, <3>4, LeaveCallers
  <2> QED BY <1>6, <2>1, <2>2 DEF Cancel
<1>7. ASSUME NEW t \in Updates, QueryAnswered(t)
      PROVE  CallersInv'
  <2> DEFINE r == Request("patch", req[t].value + 1)
  <2>1. t \in Callers \ Posts /\ Good(t, req[t], late[t], 0) /\ req[t].method = "query"
        /\ Placed(task[t], req[t].method)
    BY <1>7, TaskParams DEF CallersInv, Callers, Pages, QueryAnswered
  <2>2. /\ r \in Requests /\ r.method = "patch" /\ r.attempt = 1
    BY <2>1, TaskParams DEF Good, Request, Requests, None
  <2>3. req' = [req EXCEPT ![t] = r] /\ UNCHANGED <<task, late, created>>
    BY <1>7 DEF QueryAnswered, agents, notion
  <2> HIDE DEF r
  <2>4. Good(t, r, 0, 0) /\ late[t] = 0
    BY <2>1, <2>2, TaskParams DEF Good, Active, None
  <2>5. Placed(task[t], "patch") /\ Turn(t, task[t], r, 0, 0)
    BY <2>1, <2>3, <2>4 DEF Placed, Turn, CallersInv, None
  <2> QED BY <2>1, <2>2, <2>4, <2>5, TurnKeeps
<1>8. ASSUME NEW p \in Posts, Post(p)
      PROVE  CallersInv'
  <2> DEFINE r == Request("post", 0)
  <2>1. p \in Callers \ Tasks /\ Good(p, NoRequest, late[p], Pages(p))
        /\ req' = [req EXCEPT ![p] = r] /\ UNCHANGED <<task, late, created>>
    BY <1>8, TaskParams DEF CallersInv, Callers, Post, agents, notion
  <2>2. /\ r \in Requests /\ r.method = "post" /\ r.attempt = 1 /\ r.executed = FALSE
        /\ r.result = None
    BY TaskParams DEF Request, Requests, None
  <2>3. late[p] = 0 /\ Pages(p) = 0
    BY <2>1 DEF Good, NoRequest
  <2> HIDE DEF r
  <2>4. Good(p, r, 0, 0)
    BY <2>1, <2>2, TaskParams DEF Good, Active, None
  <2>5. Turn(p, task[p], r, 0, 0)
    BY <2>1, <2>3 DEF Turn, CallersInv, Pages
  <2> QED BY <2>1, <2>4, <2>5, TurnKeeps
<1>9. ASSUME NEW c \in Callers, Answered(c) \/ Rejected(c) \/ RateLimited(c) \/ RequestError(c)
      PROVE  CallersInv'
  <2>1. req[c].method \in Active /\ UNCHANGED created
    BY <1>9 DEF Answered, Rejected, RateLimited, RequestError, notion, Active
  <2>2. CASE Answered(c)
    <3>1. PICK copy \in {0, 1} : copy = 0
      OBVIOUS
    <3>2. late' = [late EXCEPT ![c] = @ + copy] /\ Return(c, "answer") /\ req[c].executed
      BY <2>2, <3>1 DEF Answered, notion, CallersInv
    <3>3. copy = 1 => req[c].method \in {"patch", "post"} /\ ~req[c].executed
      BY <3>1
    <3> QED BY <2>1, <3>2, <3>3, ReturnCallers
  <2>3. CASE Rejected(c)
    <3>1. PICK copy \in {0, 1} :
            /\ copy = 1 => req[c].method \in {"patch", "post"} /\ ~req[c].executed
            /\ late' = [late EXCEPT ![c] = @ + copy]
      BY <2>3, Copies DEF Rejected
    <3>2. Return(c, "error")
      BY <2>3 DEF Rejected
    <3> QED BY <2>1, <3>1, <3>2, ReturnCallers
  <2>4. CASE RateLimited(c)
    <3>1. PICK copy \in {0, 1} : copy = 0
      OBVIOUS
    <3>2. late' = [late EXCEPT ![c] = @ + copy] /\ Again(c)
      BY <2>4, <3>1 DEF RateLimited, notion, CallersInv
    <3>3. copy = 1 => req[c].method \in {"patch", "post"} /\ ~req[c].executed
      BY <3>1
    <3> QED BY <2>1, <3>2, <3>3, AgainCallers
  <2>5. CASE RequestError(c)
    <3>1. PICK copy \in {0, 1} :
            /\ copy = 1 => req[c].method \in {"patch", "post"} /\ ~req[c].executed
            /\ late' = [late EXCEPT ![c] = @ + copy]
      BY <2>5, Copies DEF RequestError
    <3>2. Again(c)
      BY <2>5 DEF RequestError
    <3> QED BY <2>1, <3>1, <3>2, AgainCallers
  <2> QED BY <1>9, <2>2, <2>3, <2>4, <2>5
<1>10. ASSUME NEW t \in Updates, QueryExecuted(t)
       PROVE  CallersInv'
  <2> DEFINE r == [req[t] EXCEPT !.executed = TRUE, !.value = quantity]
  <2>1. t \in Callers \ Posts /\ Good(t, req[t], late[t], 0) /\ req[t] \in Requests
        /\ req[t].method = "query" /\ Placed(task[t], req[t].method)
    BY <1>10, TaskParams DEF CallersInv, Callers, Pages, QueryExecuted
  <2>2. r \in Requests /\ r.method = "query" /\ r.attempt = req[t].attempt
    BY <2>1 DEF Requests
  <2>3. req' = [req EXCEPT ![t] = r] /\ UNCHANGED <<task, late, created>>
    BY <1>10 DEF QueryExecuted, agents, notion
  <2> HIDE DEF r
  <2>4. Good(t, r, late[t], 0)
    BY <2>1, <2>2 DEF Good, Active, None
  <2>5. Placed(task[t], "query") /\ Turn(t, task[t], r, late[t], 0)
    BY <2>1, <2>3 DEF Turn, CallersInv
  <2> QED BY <2>1, <2>2, <2>4, <2>5, TurnKeeps
<1> QED BY <1>0, <1>2, <1>3, <1>4, <1>5, <1>6, <1>7, <1>8, <1>9, <1>10,
           ExecutedCallers
        DEF Next, vars, agents, notion

-----------------------------------------------------------------------------
(* The inventory *)

\* What update c, with request r and l late copies, will make of the inventory: it has read
\* at most what the others add up to, and it writes one more; exactly that without an overlap.
Carries(c, r, l) ==
  /\ r.method = "query" /\ r.executed =>
       /\ r.value <= Cardinality(applied \ {c})
       /\ ~overlap => r.value = Cardinality(applied \ {c})
  /\ r.method = "patch" \/ l > 0 =>
       /\ r.value > 0 /\ r.value <= Cardinality(applied \ {c}) + 1
       /\ ~overlap => r.value = Cardinality(applied \ {c}) + 1

InventoryInv ==
  /\ quantity \in Nat /\ overlap \in BOOLEAN
  /\ applied \subseteq Updates /\ IsFiniteSet(applied)
  /\ quantity <= Cardinality(applied) /\ (applied # {} => quantity > 0)
  /\ ~overlap => quantity = Cardinality(applied)
  /\ \A u \in Updates : /\ req[u].method \in {None, "query"} => u \notin applied
                        /\ Carries(u, req[u], late[u])

\* At the start nothing is applied and nobody has read.
LEMMA InventoryInit == Init => InventoryInv
<1> SUFFICES ASSUME Init
             PROVE  InventoryInv
  OBVIOUS
<1>1. quantity = 0 /\ applied = {} /\ overlap = FALSE
  BY DEF Init
<1>2. \A u \in Updates : Carries(u, req[u], late[u])
  BY TaskParams DEF Init, Carries, Callers, NoRequest, None
<1>3. IsFiniteSet(applied) /\ Cardinality(applied) = 0
  BY <1>1, FS_EmptySet
<1>4. overlap \in BOOLEAN
  BY <1>1
<1>5. quantity <= Cardinality(applied) /\ quantity = Cardinality(applied) /\ quantity \in Nat
  BY <1>1, <1>3
<1> QED BY <1>1, <1>2, <1>3, <1>4, <1>5 DEF InventoryInv

\* A step of c that leaves the inventory alone.
LEMMA NoWrite ==
  ASSUME CallersInv, InventoryInv, NEW c \in Callers, NEW r, NEW l,
         req' = [req EXCEPT ![c] = r], late' = [late EXCEPT ![c] = l],
         UNCHANGED <<quantity, applied, overlap>>,
         c \in Updates => /\ Carries(c, r, l)
                          /\ r.method \in {None, "query"} => req[c].method \in {None, "query"}
  PROVE  InventoryInv'
<1>1. req'[c] = r /\ late'[c] = l
  BY DEF CallersInv
<1>2. ASSUME NEW u \in Updates, u # c
      PROVE  req'[u] = req[u] /\ late'[u] = late[u]
  BY <1>2, TaskParams DEF CallersInv, Callers
<1>3. ASSUME NEW u \in Updates
      PROVE  /\ req'[u].method \in {None, "query"} => u \notin applied
             /\ Carries(u, req'[u], late'[u])
  <2>1. CASE u = c
    BY <1>1, <2>1 DEF InventoryInv
  <2>2. CASE u # c
    BY <1>2, <2>2 DEF InventoryInv
  <2> QED BY <2>1, <2>2
<1>4. \A u \in Updates : Carries(u, req[u], late[u])'
  BY <1>3 DEF Carries
<1> QED BY <1>3, <1>4 DEF InventoryInv

\* A step that leaves the requests and the inventory alone.
LEMMA NoRequestStep ==
  ASSUME InventoryInv, UNCHANGED <<req, late, quantity, applied, overlap>>
  PROVE  InventoryInv'
BY DEF InventoryInv, Carries

\* The PATCH of an update is executed, for the first time or again.  Of the others, those
\* that have read what they will write from make it an overlap.
LEMMA Write ==
  ASSUME CallersInv, InventoryInv, NEW c \in Updates, HasRead(c),
         req[c].method \notin {None, "query"}, Effect(c),
         \A u \in Updates : /\ req'[u].method = req[u].method /\ req'[u].value = req[u].value
                            /\ u # c => req'[u] = req[u] /\ late'[u] = late[u]
                            /\ late'[u] > 0 => late[u] > 0
  PROVE  InventoryInv'
<1>1. /\ quantity' = req[c].value /\ applied' = applied \cup {c}
      /\ overlap' = (overlap \/ \E u \in Updates \ {c} : HasRead(u))
  BY TaskParams DEF Effect
<1>2. /\ IsFiniteSet(applied) /\ IsFiniteSet(applied') /\ applied' \subseteq Updates
      /\ overlap' \in BOOLEAN
  BY <1>1, FS_AddElement DEF InventoryInv
<1>3. c \in Callers /\ quantity' \in Nat
  BY <1>1, TaskParams DEF CallersInv, Requests, Callers
<1>4. /\ IsFiniteSet(applied \ {c}) /\ c \notin applied \ {c}
      /\ applied' = (applied \ {c}) \cup {c} /\ applied' \ {c} = applied \ {c}
  BY <1>1, <1>2, FS_RemoveElement
<1>5. Cardinality(applied') = Cardinality(applied \ {c}) + 1 /\ Cardinality(applied \ {c}) \in Nat
  BY <1>4, FS_AddElement, FS_CardinalityType
<1>6. /\ quantity' > 0 /\ quantity' <= Cardinality(applied \ {c}) + 1
      /\ ~overlap => quantity' = Cardinality(applied \ {c}) + 1
  BY <1>1 DEF InventoryInv, Carries, HasRead
<1>7. /\ quantity' <= Cardinality(applied') /\ quantity' > 0
      /\ ~overlap' => quantity' = Cardinality(applied')
  BY <1>1, <1>5, <1>6
<1>8. ASSUME NEW u \in Updates
      PROVE  Carries(u, req[u], late[u])'
  <2>1. CASE u = c
    <3>1. Carries(c, req[c], late[c]) /\ (~overlap' => ~overlap)
      BY <1>1 DEF InventoryInv
    <3>2. req'[c].method # "query" /\ (late'[c] > 0 => late[c] > 0)
      OBVIOUS
    <3> QED BY <1>4, <2>1, <3>1, <3>2 DEF Carries
  <2>2. CASE u # c /\ HasRead(u)
    <3>1. overlap' /\ req'[u] = req[u] /\ late'[u] = late[u] /\ Carries(u, req[u], late[u])
      BY <1>1, <2>2 DEF InventoryInv
    <3>2. IsFiniteSet(applied' \ {u}) /\ applied \ {u} \subseteq applied' \ {u}
      BY <1>1, <1>2, FS_RemoveElement
    <3>3. /\ Cardinality(applied \ {u}) <= Cardinality(applied' \ {u})
          /\ Cardinality(applied \ {u}) \in Nat /\ Cardinality(applied' \ {u}) \in Nat
      BY <3>2, FS_Subset, FS_CardinalityType
    <3>4. req[u].value \in Nat
      BY TaskParams DEF CallersInv, Requests, Callers
    <3> QED BY <3>1, <3>3, <3>4 DEF Carries
  <2>3. CASE u # c /\ ~HasRead(u)
    BY <2>3 DEF Carries, HasRead
  <2> QED BY <2>1, <2>2, <2>3
<1>9. ASSUME NEW u \in Updates, req'[u].method \in {None, "query"}
      PROVE  u \notin applied'
  BY <1>1, <1>9 DEF InventoryInv
<1> QED BY <1>2, <1>3, <1>7, <1>8, <1>9 DEF InventoryInv

\* Notion executes the query of an update.
LEMMA ReadQuantity ==
  ASSUME CallersInv, InventoryInv, NEW t \in Updates, QueryExecuted(t)
  PROVE  InventoryInv'
<1> DEFINE r == [req[t] EXCEPT !.executed = TRUE, !.value = quantity]
<1>1. /\ t \in Callers /\ req[t].method = "query" /\ req[t] \in Requests
      /\ Good(t, req[t], late[t], Pages(t))
  BY TaskParams DEF QueryExecuted, CallersInv, Callers
<1>2. req' = [req EXCEPT ![t] = r] /\ UNCHANGED <<late, quantity, applied, overlap>>
  BY DEF QueryExecuted, notion
<1>3. r.method = "query" /\ r.value = quantity /\ late[t] = 0
  BY <1>1 DEF Requests, Good
<1>4. applied \ {t} = applied
  BY <1>1 DEF InventoryInv
<1> HIDE DEF r
<1>5. Carries(t, r, late[t])
  BY <1>3, <1>4 DEF Carries, InventoryInv
<1>6. late' = [late EXCEPT ![t] = late[t]]
  BY <1>2 DEF CallersInv
<1> QED BY <1>1, <1>2, <1>3, <1>5, <1>6, NoWrite

\* Its answer arrives: the update will write one more than it has read.
LEMMA SendSum ==
  ASSUME CallersInv, InventoryInv, NEW t \in Updates, QueryAnswered(t)
  PROVE  InventoryInv'
<1> DEFINE r == Request("patch", req[t].value + 1)
<1>1. /\ t \in Callers /\ req[t].method = "query" /\ req[t].executed /\ req[t].value \in Nat
      /\ Carries(t, req[t], late[t])
  BY TaskParams DEF QueryAnswered, CallersInv, Callers, Requests, InventoryInv
<1>2. req' = [req EXCEPT ![t] = r] /\ UNCHANGED <<late, quantity, applied, overlap>>
  BY DEF QueryAnswered, notion
<1>3. r.method = "patch" /\ r.value = req[t].value + 1
  BY DEF Request
<1>4. Cardinality(applied \ {t}) \in Nat
  BY FS_RemoveElement, FS_CardinalityType DEF InventoryInv
<1> HIDE DEF r
<1>5. Carries(t, r, late[t])
  BY <1>1, <1>3, <1>4 DEF Carries
<1>6. late' = [late EXCEPT ![t] = late[t]] /\ r.method \notin {None, "query"}
  BY <1>2, <1>3 DEF CallersInv, None
<1> QED BY <1>1, <1>2, <1>5, <1>6, NoWrite

\* The end of the call of task t, after copy copies of its PATCH were left behind.
LEMMA LeaveInventory ==
  ASSUME CallersInv, InventoryInv, NEW t \in Tasks, req[t].method \in {"query", "patch"},
         NEW copy \in {0, 1}, copy = 1 => req[t].method = "patch",
         late' = [late EXCEPT ![t] = @ + copy], req' = [req EXCEPT ![t] = Given(t, late'[t])],
         UNCHANGED <<quantity, applied, overlap>>
  PROVE  InventoryInv'
<1> DEFINE l == late[t] + copy
           r == Given(t, l)
<1>1. /\ t \in Callers /\ late[t] \in Nat /\ req[t] \in Requests
      /\ Good(t, req[t], late[t], Pages(t)) /\ l \in Nat
  BY TaskParams DEF CallersInv, Callers
<1>2. late' = [late EXCEPT ![t] = l] /\ req' = [req EXCEPT ![t] = r]
  BY <1>1 DEF CallersInv
<1>3. r.method = "returned" /\ (l > 0 => r.value = req[t].value)
  BY <1>1, GivenRequest
<1>4. l > 0 => req[t].method = "patch" \/ late[t] > 0
  BY <1>1
<1> HIDE DEF l, r
<1>5. t \in Updates => Carries(t, r, l)
  BY <1>3, <1>4 DEF InventoryInv, Carries
<1>6. r.method \notin {None, "query"}
  BY <1>3 DEF None
<1> QED BY <1>1, <1>2, <1>5, <1>6, NoWrite

\* What a post does to its request is nothing to the inventory.
LEMMA PostInventory ==
  ASSUME CallersInv, InventoryInv, NEW p \in Posts, NEW r, NEW l,
         req' = [req EXCEPT ![p] = r], late' = [late EXCEPT ![p] = l],
         UNCHANGED <<quantity, applied, overlap>>
  PROVE  InventoryInv'
<1>1. p \in Callers /\ p \notin Updates
  BY TaskParams DEF Callers
<1> QED BY <1>1, NoWrite

\* The end of a call, after copy copies were left behind.
LEMMA ReturnInventory ==
  ASSUME CallersInv, InventoryInv, NEW c \in Callers, req[c].method \in Active,
         NEW copy \in {0, 1}, copy = 1 => req[c].method \in {"patch", "post"} /\ ~req[c].executed,
         late' = [late EXCEPT ![c] = @ + copy], UNCHANGED <<quantity, applied, overlap>>,
         NEW result, Return(c, result)
  PROVE  InventoryInv'
<1>1. CASE c \in Posts
  <2> DEFINE r == [req[c] EXCEPT !.method = "returned", !.result = result]
             l == late[c] + copy
  <2>1. req' = [req EXCEPT ![c] = r] /\ late' = [late EXCEPT ![c] = l]
    BY <1>1 DEF Return
  <2> HIDE DEF r, l
  <2> QED BY <1>1, <2>1, PostInventory
<1>2. CASE c \notin Posts
  <2>1. c \in Tasks /\ req[c].method \in {"query", "patch"}
    BY <1>2 DEF CallersInv, Callers, Good, Active, None
  <2>2. req' = [req EXCEPT ![c] = Given(c, late'[c])] /\ (copy = 1 => req[c].method = "patch")
    BY <1>2, <2>1 DEF Return
  <2> QED BY <2>1, <2>2, LeaveInventory
<1> QED BY <1>1, <1>2

\* The next attempt, or the end of the call.
LEMMA AgainInventory ==
  ASSUME CallersInv, InventoryInv, NEW c \in Callers, req[c].method \in Active,
         NEW copy \in {0, 1}, copy = 1 => req[c].method \in {"patch", "post"} /\ ~req[c].executed,
         late' = [late EXCEPT ![c] = @ + copy], UNCHANGED <<quantity, applied, overlap>>,
         Again(c)
  PROVE  InventoryInv'
<1>1. CASE req[c].attempt < Retries
  <2> DEFINE r == [req[c] EXCEPT !.attempt = @ + 1, !.executed = FALSE]
             l == late[c] + copy
  <2>1. /\ late[c] \in Nat /\ req[c] \in Requests /\ Good(c, req[c], late[c], Pages(c))
        /\ l \in Nat
    BY TaskParams DEF CallersInv
  <2>2. r.method = req[c].method /\ r.value = req[c].value /\ r.executed = FALSE
    BY <2>1 DEF Requests
  <2>3. req' = [req EXCEPT ![c] = r] /\ late' = [late EXCEPT ![c] = l]
    BY <1>1 DEF Again
  <2>4. c \in Updates => (l > 0 => req[c].method = "patch" \/ late[c] > 0)
    BY <2>1, TaskParams DEF Good, None
  <2> HIDE DEF r, l
  <2>5. c \in Updates => Carries(c, r, l)
    BY <2>2, <2>4 DEF InventoryInv, Carries
  <2> QED BY <2>2, <2>3, <2>5, NoWrite
<1>2. CASE Return(c, "error")
  BY <1>2, ReturnInventory
<1> QED BY <1>1, <1>2 DEF Again

\* Notion executes a request or a late copy of one.
LEMMA ExecutedInventory ==
  ASSUME CallersInv, InventoryInv, NEW c \in Callers, Executed(c) \/ ExecutedLate(c)
  PROVE  InventoryInv'
<1>1. Good(c, req[c], late[c], Pages(c)) /\ req[c] \in Requests /\ Effect(c)
  BY DEF CallersInv, Executed, ExecutedLate
<1>2. CASE Executed(c)
  <2> DEFINE r == [req[c] EXCEPT !.executed = TRUE]
  <2>1. /\ req[c].method \in {"patch", "post"} /\ req' = [req EXCEPT ![c] = r]
        /\ late' = [late EXCEPT ![c] = late[c]] /\ UNCHANGED late
    BY <1>2 DEF Executed, CallersInv
  <2>2. r.method = req[c].method /\ r.value = req[c].value
    BY <1>1 DEF Requests
  <2> HIDE DEF r
  <2>3. CASE c \in Posts
    BY <1>1, <2>1, <2>3, PostInventory DEF Effect
  <2>4. CASE c \notin Posts
    <3>1. c \in Updates /\ HasRead(c) /\ req[c].method \notin {None, "query"}
      BY <1>1, <2>1, <2>4 DEF Good, HasRead, None
    <3>2. \A u \in Updates : /\ req'[u].method = req[u].method /\ req'[u].value = req[u].value
                             /\ u # c => req'[u] = req[u]
      BY <2>1, <2>2, TaskParams DEF CallersInv, Callers
    <3> QED BY <1>1, <2>1, <3>1, <3>2, Write
  <2> QED BY <2>3, <2>4
<1>3. CASE ExecutedLate(c)
  <2>1. /\ late[c] > 0 /\ late' = [late EXCEPT ![c] = late[c] - 1] /\ UNCHANGED req
        /\ req' = [req EXCEPT ![c] = req[c]]
    BY <1>3 DEF ExecutedLate, CallersInv
  <2>2. CASE c \in Posts
    BY <1>1, <2>1, <2>2, PostInventory DEF Effect
  <2>3. CASE c \notin Posts
    <3>1. c \in Updates /\ HasRead(c) /\ req[c].method \notin {None, "query"}
      BY <1>1, <2>1, <2>3 DEF Good, HasRead
    <3>2. \A u \in Updates : (u # c => late'[u] = late[u]) /\ (late'[u] > 0 => late[u] > 0)
      BY <2>1, TaskParams DEF CallersInv, Callers
    <3> QED BY <1>1, <2>1, <3>1, <3>2, Write
  <2> QED BY <2>2, <2>3
<1> QED BY <1>2, <1>3

\* Every step keeps the account of the inventory.
LEMMA InventoryStep ==
  ASSUME CallersInv, InventoryInv, [Next]_vars
  PROVE  InventoryInv'
<1>1. CASE UNCHANGED vars
  BY <1>1, NoRequestStep DEF vars, notion
<1>2. ASSUME NEW t \in Tasks, NEW a \in Agents, Begin(t, a),
             task[t].pc \in {"new", "classifying"}, UNCHANGED notion
      PROVE  InventoryInv'
  <2>1. CASE UNCHANGED req
    BY <1>2, <2>1, NoRequestStep DEF notion
  <2>2. CASE req' = [req EXCEPT ![t] = Request("query", 0)]
    <3> DEFINE r == Request("query", 0)
    <3>1. /\ t \in Callers /\ req[t].method = None /\ late[t] = 0
          /\ r.method = "query" /\ r.executed = FALSE
      BY <1>2 DEF CallersInv, Callers, Placed, Good, Request
    <3>2. req' = [req EXCEPT ![t] = r] /\ late' = [late EXCEPT ![t] = late[t]]
          /\ UNCHANGED <<quantity, applied, overlap>>
      BY <1>2, <2>2 DEF notion, CallersInv
    <3> HIDE DEF r
    <3>3. Carries(t, r, late[t])
      BY <3>1 DEF Carries
    <3> QED BY <3>1, <3>2, <3>3, NoWrite
  <2> QED BY <1>2, <2>1, <2>2 DEF Begin, StartUpdate
<1>3. ASSUME NEW t \in Tasks, Route(t)
      PROVE  InventoryInv'
  <2>1. CASE t \in Typed
    <3>1. PICK a \in Agents : a = NamedAgent(t)
      BY DEF NamedAgent, Agents
    <3> QED BY <1>2, <1>3, <2>1, <3>1 DEF Route
  <2>2. CASE t \notin Typed
    BY <1>3, <2>2, NoRequestStep DEF Route, notion
  <2> QED BY <2>1, <2>2
<1>4. ASSUME NEW t \in Tasks, NEW a \in Agents, Classified(t, a)
      PROVE  InventoryInv'
  BY <1>2, <1>4 DEF Classified
<1>5. ASSUME NEW t \in Tasks, (\E a \in SubAgents : Consulted(t, a)) \/ ThinkEnds(t)
      PROVE  InventoryInv'
  BY <1>5, NoRequestStep DEF Consulted, ThinkEnds, notion
<1>6. ASSUME NEW t \in Tasks, Cancel(t)
      PROVE  InventoryInv'
  <2>1. CASE task[t].pc = "classifying"
    BY <1>6, <2>1, NoRequestStep DEF Cancel, notion
  <2>2. CASE task[t].pc \in {"consulting", "thinking", "erp"}
    <3>1. PICK copy \in {0, 1} :
            /\ copy = 1 => req[t].method \in {"patch", "post"} /\ ~req[t].executed
            /\ late' = [late EXCEPT ![t] = @ + copy]
      BY <1>6, <2>2, Copies DEF Cancel
    <3>2. req' = IF task[t].pc = "erp" THEN [req EXCEPT ![t] = Given(t, late'[t])] ELSE req
      BY <1>6, <2>2 DEF Cancel
    <3>3. UNCHANGED <<quantity, applied, overlap>>
      BY <1>6, <2>2 DEF Cancel
    <3>4. IF task[t].pc = "erp" THEN req[t].method \in {"query", "patch"} ELSE req[t].method = None
      BY <2>2 DEF CallersInv, Placed
    <3>5. CASE task[t].pc = "erp"
      <4>1. copy = 1 => req[t].method = "patch"
        BY <3>1, <3>4, <3>5
      <4> QED BY <3>1, <3>2, <3>3, <3>4, <3>5, <4>1, LeaveInventory
    <3>6. CASE task[t].pc # "erp"
      <4>1. copy = 0
        BY <3>1, <3>4, <3>6 DEF None
      <4>2. UNCHANGED <<req, late>>
        BY <3>1, <3>2, <3>6, <4>1 DEF CallersInv
      <4> QED BY <3>3, <4>2, NoRequestStep
    <3> QED BY <3>5, <3>6
  <2> QED BY <1>6, <2>1, <2>2 DEF Cancel
<1>7. ASSUME NEW p \in Posts, Post(p)
      PROVE  InventoryInv'
  <2> DEFINE r == Request("post", 0)
  <2>1. req' = [req EXCEPT ![p] = r]
        /\ late' = [late EXCEPT ![p] = late[p]] /\ UNCHANGED <<quantity, applied, overlap>>
    BY <1>7 DEF Post, notion, CallersInv
  <2> HIDE DEF r
  <2> QED BY <2>1, PostInventory
<1>8. ASSUME NEW c \in Callers, Answered(c) \/ RateLimited(c)
      PROVE  InventoryInv'
  <2>1. req[c].method \in Active /\ UNCHANGED notion
    BY <1>8 DEF Answered, RateLimited, Active
  <2>2. PICK copy \in {0, 1} : copy = 0
    OBVIOUS
  <2>3. late' = [late EXCEPT ![c] = @ + copy] /\ UNCHANGED <<quantity, applied, overlap>>
    BY <2>1, <2>2 DEF notion, CallersInv
  <2>4. copy = 1 => req[c].method \in {"patch", "post"} /\ ~req[c].executed
    BY <2>2
  <2>5. CASE Answered(c)
    <3>1. Return(c, "answer")
      BY <2>5 DEF Answered
    <3> QED BY <2>1, <2>3, <2>4, <3>1, ReturnInventory
  <2>6. CASE RateLimited(c)
    <3>1. Again(c)
      BY <2>6 DEF RateLimited
    <3> QED BY <2>1, <2>3, <2>4, <3>1, AgainInventory
  <2> QED BY <1>8, <2>5, <2>6
<1>9. ASSUME NEW c \in Callers, Rejected(c) \/ RequestError(c)
      PROVE  InventoryInv'
  <2>1. req[c].method \in Active /\ UNCHANGED <<quantity, applied, overlap>> /\ MayCopy(c)
    BY <1>9 DEF Rejected, RequestError, Active
  <2>2. PICK copy \in {0, 1} :
          /\ copy = 1 => req[c].method \in {"patch", "post"} /\ ~req[c].executed
          /\ late' = [late EXCEPT ![c] = @ + copy]
    BY <2>1, Copies
  <2>3. CASE Rejected(c)
    <3>1. Return(c, "error")
      BY <2>3 DEF Rejected
    <3> QED BY <2>1, <2>2, <3>1, ReturnInventory
  <2>4. CASE RequestError(c)
    <3>1. Again(c)
      BY <2>4 DEF RequestError
    <3> QED BY <2>1, <2>2, <3>1, AgainInventory
  <2> QED BY <1>9, <2>3, <2>4
<1> QED BY <1>1, <1>3, <1>4, <1>5, <1>6, <1>7, <1>8, <1>9, ReadQuantity, SendSum,
           ExecutedInventory DEF Next

-----------------------------------------------------------------------------
(* The agents and the history *)

Distinct(h) == \A i, j \in 1 .. Len(h) : h[i] = h[j] => i = j

\* A history without repetitions has none either when its first task is dropped.
LEMMA FirstDropped ==
  ASSUME NEW n \in Nat, NEW a, NEW g, Distinct(a), Len(a) = n + 1, Len(g) = n,
         \A i \in 1 .. n : g[i] = a[i + 1]
  PROVE  Distinct(g)
<1> SUFFICES ASSUME NEW i \in 1 .. n, NEW j \in 1 .. n, g[i] = g[j]
             PROVE  i = j
  BY DEF Distinct
<1>1. i + 1 \in 1 .. n + 1 /\ j + 1 \in 1 .. n + 1 /\ a[i + 1] = a[j + 1]
  OBVIOUS
<1>2. i + 1 = j + 1
  BY <1>1 DEF Distinct
<1> QED BY <1>2

\* The history with its bound: the oldest entry makes room.
Kept(a) ==
  IF Len(a) > MaxHistory THEN SubSeq(a, Len(a) - MaxHistory + 1, Len(a)) ELSE a

\* What the history becomes when a task leaves an agent.
LEMMA Remembered ==
  ASSUME NEW h \in Seq(Tasks), Distinct(h), Len(h) <= MaxHistory, NEW t \in Tasks,
         \A i \in 1 .. Len(h) : h[i] # t, NEW g, g = Kept(Append(h, t))
  PROVE  /\ g \in Seq(Tasks) /\ Distinct(g)
         /\ Len(g) = IF Len(h) < MaxHistory THEN Len(h) + 1 ELSE MaxHistory
         /\ \A i \in 1 .. Len(g) : g[i] = t \/ \E j \in 1 .. Len(h) : g[i] = h[j]
<1> DEFINE a == Append(h, t)
<1>1. /\ a \in Seq(Tasks) /\ Len(a) = Len(h) + 1 /\ a[Len(h) + 1] = t
      /\ \A i \in 1 .. Len(h) : a[i] = h[i]
  BY AppendProperties
<1>2. Len(h) \in Nat /\ MaxHistory \in Nat /\ MaxHistory > 0
  BY LenProperties, TaskParams
<1> HIDE DEF a
<1>3. Distinct(a)
  BY <1>1, <1>2 DEF Distinct
<1>4. \A i \in 1 .. Len(a) : a[i] = t \/ \E j \in 1 .. Len(h) : a[i] = h[j]
  <2>1. \A i \in 1 .. Len(a) : i = Len(h) + 1 \/ i \in 1 .. Len(h)
    BY <1>1, <1>2
  <2> QED BY <1>1, <2>1
<1>5. CASE Len(h) < MaxHistory
  <2>1. g = a
    BY <1>1, <1>2, <1>5 DEF Kept, a
  <2> QED BY <1>1, <1>3, <1>4, <1>5, <2>1
<1>6. CASE Len(h) >= MaxHistory
  <2>1. Len(h) = MaxHistory /\ Len(a) = MaxHistory + 1 /\ g = SubSeq(a, 2, MaxHistory + 1)
    <3>1. Len(h) = MaxHistory
      BY <1>2, <1>6
    <3>2. Len(a) = MaxHistory + 1
      BY <1>1, <3>1
    <3>3. Len(a) > MaxHistory /\ Len(a) - MaxHistory + 1 = 2
      BY <1>2, <3>2
    <3> QED BY <3>1, <3>2, <3>3 DEF Kept, a
  <2>2. \A i \in 2 .. MaxHistory + 1 : a[i] \in Tasks
    BY <1>1, <1>2, <2>1, ElementOfSeq
  <2>3. /\ g \in Seq(Tasks) /\ Len(g) = MaxHistory
        /\ \A i \in 1 .. MaxHistory : g[i] = a[i + 1]
    <3>1. /\ g \in Seq(Tasks)
          /\ Len(g) = IF 2 <= MaxHistory + 1 THEN MaxHistory + 1 - 2 + 1 ELSE 0
          /\ \A i \in 1 .. MaxHistory + 1 - 2 + 1 : g[i] = a[2 + i - 1]
      BY <1>2, <2>1, <2>2, SubSeqProperties
    <3>2. 2 <= MaxHistory + 1 /\ MaxHistory + 1 - 2 + 1 = MaxHistory
      BY <1>2
    <3>3. \A i \in 1 .. MaxHistory : 2 + i - 1 = i + 1
      OBVIOUS
    <3> QED BY <3>1, <3>2, <3>3
  <2>4. \A i \in 1 .. MaxHistory : i + 1 \in 1 .. Len(a)
    BY <1>2, <2>1
  <2>5. Distinct(g)
    BY <1>1, <1>2, <1>3, <2>1, <2>3, FirstDropped
  <2>6. \A i \in 1 .. Len(g) : g[i] = t \/ \E j \in 1 .. Len(h) : g[i] = h[j]
    BY <1>4, <2>3, <2>4
  <2> QED BY <1>2, <2>1, <2>3, <2>5, <2>6
<1>7. Len(h) < MaxHistory \/ Len(h) >= MaxHistory
  BY <1>2
<1> QED BY <1>5, <1>6, <1>7

\* A history without repetition has as many tasks as it is long.
LEMMA DistinctCount ==
  ASSUME NEW h \in Seq(Tasks), Distinct(h)
  PROVE  Cardinality({h[i] : i \in DOMAIN h}) = Len(h)
<1> DEFINE R == {h[i] : i \in 1 .. Len(h)}
<1>1. Len(h) \in Nat /\ DOMAIN h = 1 .. Len(h) /\ h \in [1 .. Len(h) -> R]
  BY LenProperties
<1>2. h \in Bijection(1 .. Len(h), R)
  <2>1. \A i, j \in 1 .. Len(h) : h[i] = h[j] => i = j
    BY DEF Distinct
  <2>2. \A x \in R : \E i \in 1 .. Len(h) : h[i] = x
    OBVIOUS
  <2> HIDE DEF R
  <2>3. h \in Injection(1 .. Len(h), R)
    BY <1>1, <2>1 DEF Injection, IsInjective
  <2>4. h \in Surjection(1 .. Len(h), R)
    BY <1>1, <2>2, ZenonT(30) DEF Surjection
  <2> QED BY <2>3, <2>4 DEF Bijection
<1>3. ExistsBijection(1 .. Len(h), R)
  BY <1>2 DEF ExistsBijection
<1> QED BY <1>1, <1>3, FS_CountingElements

AgentsInv ==
  /\ status \in [Agents -> {"idle", "working"}]
  /\ \A a \in Agents : status[a] = "working" => \E t \in Tasks : InAgent(t) /\ task[t].agent = a
  /\ \A t \in Tasks : InAgent(t) /\ status[task[t].agent] = "idle"
       => \E u \in Left : task[u].agent = task[t].agent
  /\ history \in Seq(Tasks) /\ Distinct(history) /\ ended \in Nat
  /\ Len(history) = IF ended < MaxHistory THEN ended ELSE MaxHistory
  /\ \A i \in 1 .. Len(history) : history[i] \in Left
  /\ IsFiniteSet(Left) /\ Cardinality(Left) = ended

\* At the start all agents are idle and the history is empty.
LEMMA AgentsInit == Init => AgentsInv
<1> SUFFICES ASSUME Init
             PROVE  AgentsInv
  OBVIOUS
<1>1. /\ Left = {} /\ history = <<>> /\ ended = 0 /\ status = [a \in Agents |-> "idle"]
      /\ \A t \in Tasks : ~InAgent(t)
  BY DEF Init, Left, InAgent
<1>2. IsFiniteSet({}) /\ Cardinality({}) = 0 /\ <<>> \in Seq(Tasks) /\ Len(<<>>) = 0
  BY FS_EmptySet, EmptySeq
<1> QED BY <1>1, <1>2, TaskParams DEF AgentsInv, Distinct

\* A step that moves task t, at most into an agent, which then is shown as working.
LEMMA NoneLeft ==
  ASSUME CallersInv, AgentsInv, NEW t \in Tasks, NEW k, task' = [task EXCEPT ![t] = k],
         UNCHANGED <<history, ended>>, status' \in [Agents -> {"idle", "working"}],
         t \notin Left, k.agent = None \/ k.pc \in {"consulting", "thinking", "erp"},
         k.pc \in {"consulting", "thinking", "erp"} => k.agent \in Agents,
         InAgent(t) => k.pc \in {"consulting", "thinking", "erp"} /\ k.agent = task[t].agent,
         \A a \in Agents : status'[a] = "working" =>
            \/ status[a] = "working"
            \/ k.pc \in {"consulting", "thinking", "erp"} /\ k.agent = a,
         \A a \in Agents : status'[a] = "idle" =>
            /\ status[a] = "idle"
            /\ k.pc \in {"consulting", "thinking", "erp"} /\ k.agent = a => InAgent(t)
  PROVE  AgentsInv'
<1>1. task'[t] = k /\ \A u \in Tasks \ {t} : task'[u] = task[u]
  BY DEF CallersInv
<1>2. Left' = Left
  BY <1>1 DEF Left, InAgent
<1>3. ASSUME NEW a \in Agents, status'[a] = "working"
      PROVE  \E u \in Tasks : InAgent(u)' /\ task'[u].agent = a
  <2>1. CASE status[a] = "working"
    <3>1. PICK u \in Tasks : InAgent(u) /\ task[u].agent = a
      BY <2>1 DEF AgentsInv
    <3>2. InAgent(u)' /\ task'[u].agent = a
      BY <1>1, <3>1 DEF InAgent
    <3> QED BY <3>2
  <2>2. CASE k.pc \in {"consulting", "thinking", "erp"} /\ k.agent = a
    BY <1>1, <2>2 DEF InAgent
  <2> QED BY <1>3, <2>1, <2>2
<1>4. ASSUME NEW u \in Tasks, InAgent(u)', status'[task'[u].agent] = "idle"
      PROVE  \E w \in Left : task'[w].agent = task'[u].agent
  <2>1. InAgent(u) /\ task'[u].agent = task[u].agent /\ task[u].agent \in Agents
    <3>1. CASE u = t
      BY <1>1, <1>4, <3>1 DEF InAgent
    <3>2. CASE u # t
      BY <1>1, <1>4, <3>2 DEF InAgent, CallersInv, Placed
    <3> QED BY <3>1, <3>2
  <2>2. PICK w \in Left : task[w].agent = task[u].agent
    BY <1>4, <2>1 DEF AgentsInv
  <2>3. task'[w] = task[w]
    BY <1>1 DEF Left
  <2> QED BY <2>1, <2>2, <2>3
<1> QED BY <1>2, <1>3, <1>4 DEF AgentsInv

\* A task leaves its agent, which is shown as idle even if it has another one.
LEMMA OneLeaves ==
  ASSUME CallersInv, AgentsInv, NEW t \in Tasks, NEW a \in Agents,
         IF InAgent(t) THEN a = task[t].agent ELSE task[t].agent = None,
         NEW pc \in {"done", "cancelled"}, NEW result, LeaveAgent(t, a, pc, result)
  PROVE  AgentsInv'
<1>1. task'[t].pc = pc /\ task'[t].agent = a /\ \A u \in Tasks \ {t} : task'[u] = task[u]
  BY DEF LeaveAgent, CallersInv
<1>2. ~InAgent(t)'
  BY <1>1 DEF InAgent
<1>3. Left' = Left \cup {t} /\ t \notin Left
  <2>1. a # None /\ t \notin Left
    BY DEF Left, None, Agents
  <2> QED BY <1>1, <1>2, <2>1 DEF Left, InAgent
<1>4. IsFiniteSet(Left') /\ Cardinality(Left') = ended' /\ ended' = ended + 1
  BY <1>3, FS_AddElement DEF AgentsInv, LeaveAgent
<1>5. \A i \in 1 .. Len(history) : history[i] # t
  BY <1>3 DEF AgentsInv
<1>6. /\ history' \in Seq(Tasks) /\ Distinct(history')
      /\ Len(history') = IF Len(history) < MaxHistory THEN Len(history) + 1 ELSE MaxHistory
      /\ \A i \in 1 .. Len(history') : \/ history'[i] = t
                                       \/ \E j \in 1 .. Len(history) : history'[i] = history[j]
  <2>1. Len(history) <= MaxHistory
    BY TaskParams DEF AgentsInv
  <2>2. history' = Kept(Append(history, t))
    BY DEF LeaveAgent, Kept
  <2>3. history \in Seq(Tasks) /\ Distinct(history)
    BY DEF AgentsInv
  <2> QED BY <1>5, <2>1, <2>2, <2>3, Remembered
<1>7. Len(history') = IF ended' < MaxHistory THEN ended' ELSE MaxHistory
  BY <1>4, <1>6, TaskParams DEF AgentsInv
<1>8. \A i \in 1 .. Len(history') : history'[i] \in Left'
  BY <1>3, <1>6 DEF AgentsInv
<1>9. status' = [status EXCEPT ![a] = "idle"] /\ status' \in [Agents -> {"idle", "working"}]
  BY DEF LeaveAgent, AgentsInv
<1>10. ASSUME NEW b \in Agents, status'[b] = "working"
       PROVE  \E u \in Tasks : InAgent(u)' /\ task'[u].agent = b
  <2>1. b # a /\ status[b] = "working"
    BY <1>9, <1>10 DEF AgentsInv
  <2>2. PICK u \in Tasks : InAgent(u) /\ task[u].agent = b
    BY <2>1 DEF AgentsInv
  <2>3. u # t
    BY <2>1, <2>2
  <2>4. InAgent(u)' /\ task'[u].agent = b
    BY <1>1, <2>2, <2>3 DEF InAgent
  <2> QED BY <2>4
<1>11. ASSUME NEW u \in Tasks, InAgent(u)', status'[task'[u].agent] = "idle"
       PROVE  \E w \in Left' : task'[w].agent = task'[u].agent
  <2>1. u # t /\ InAgent(u) /\ task'[u] = task[u]
    BY <1>1, <1>2, <1>11 DEF InAgent
  <2>2. task[u].agent \in Agents
    BY <2>1 DEF CallersInv, Placed, InAgent
  <2>3. CASE task[u].agent = a
    BY <1>1, <1>3, <2>1, <2>3
  <2>4. CASE task[u].agent # a
    <3>1. PICK w \in Left : task[w].agent = task[u].agent
      BY <1>9, <1>11, <2>1, <2>2, <2>4 DEF AgentsInv
    <3>2. w \in Left' /\ task'[w] = task[w]
      BY <1>1, <1>3 DEF Left
    <3> QED BY <2>1, <3>1, <3>2
  <2> QED BY <2>3, <2>4
<1>12. Distinct(history)'
  BY <1>6 DEF Distinct
<1> QED BY <1>4, <1>6, <1>7, <1>8, <1>9, <1>10, <1>11, <1>12 DEF AgentsInv

\* Every step keeps the account of the agents and of the history.
LEMMA AgentsStep ==
  ASSUME CallersInv, AgentsInv, [Next]_vars
  PROVE  AgentsInv'
<1>1. ASSUME UNCHANGED agents
      PROVE  AgentsInv'
  BY <1>1 DEF AgentsInv, agents, Left, InAgent, Distinct
<1>2. ASSUME NEW t \in Tasks, NEW a \in Agents, Begin(t, a),
             task[t].pc \in {"new", "classifying"}
      PROVE  AgentsInv'
  <2>1. task[t] \in Entries /\ task[t].agent = None /\ t \notin Left /\ ~InAgent(t)
    BY <1>2 DEF CallersInv, Placed, Left, InAgent
  <2>2. ASSUME NEW pc \in {"consulting", "thinking", "erp"}, NEW consult \in SUBSET SubAgents,
               EnterAgent(t, a, pc, consult)
        PROVE  AgentsInv'
    <3>1. PICK k \in Entries : task' = [task EXCEPT ![t] = k] /\ k.pc = pc /\ k.agent = a
      BY <2>1, <2>2, EntryTaken
    <3>2. /\ status' = [status EXCEPT ![a] = "working"] /\ UNCHANGED <<history, ended>>
          /\ status' \in [Agents -> {"idle", "working"}]
      BY <2>2 DEF EnterAgent, AgentsInv
    <3>3. \A b \in Agents : status'[b] = "working" => status[b] = "working" \/ b = a
      BY <3>2 DEF AgentsInv
    <3>4. \A b \in Agents : status'[b] = "idle" => status[b] = "idle" /\ b # a
      BY <3>2 DEF AgentsInv
    <3> QED BY <2>1, <3>1, <3>2, <3>3, <3>4, NoneLeft
  <2>3. CASE LeaveAgent(t, a, "done", "ok")
    BY <2>1, <2>3, OneLeaves
  <2> QED BY <1>2, <2>2, <2>3, BeginCases DEF Takes
<1>3. ASSUME NEW t \in Tasks, task[t].pc \in {"new", "classifying"},
             NEW pc \in {"classifying", "cancelled"}, task' = [task EXCEPT ![t].pc = pc],
             UNCHANGED <<status, history, ended>>
      PROVE  AgentsInv'
  <2> DEFINE k == [task[t] EXCEPT !.pc = pc]
  <2>1. /\ task[t] \in Entries /\ task[t].agent = None /\ t \notin Left /\ ~InAgent(t)
    BY <1>3 DEF CallersInv, Placed, Left, InAgent
  <2>2. /\ task' = [task EXCEPT ![t] = k] /\ k.agent = None
        /\ k.pc \notin {"consulting", "thinking", "erp"}
    BY <1>3, <2>1 DEF Entries
  <2> HIDE DEF k
  <2>3. status' \in [Agents -> {"idle", "working"}] /\ \A a \in Agents : status'[a] = status[a]
    BY <1>3 DEF AgentsInv
  <2> QED BY <1>3, <2>1, <2>2, <2>3, NoneLeft
<1>4. ASSUME NEW t \in Tasks, Route(t)
      PROVE  AgentsInv'
  <2>1. CASE t \in Typed
    <3>1. PICK a \in Agents : a = NamedAgent(t)
      BY DEF NamedAgent, Agents
    <3> QED BY <1>2, <1>4, <2>1, <3>1 DEF Route
  <2>2. CASE t \notin Typed
    BY <1>3, <1>4, <2>2 DEF Route
  <2> QED BY <2>1, <2>2
<1>5. ASSUME NEW t \in Tasks, NEW a \in Agents, Classified(t, a)
      PROVE  AgentsInv'
  BY <1>2, <1>5 DEF Classified
<1>6. ASSUME NEW t \in Tasks, NEW a \in SubAgents, Consulted(t, a)
      PROVE  AgentsInv'
  <2> DEFINE rest == task[t].consult \ {a}
             k == [task[t] EXCEPT !.consult = rest, !.pc = IF rest = {} THEN "thinking" ELSE @]
  <2>1. /\ task[t].pc = "consulting" /\ task[t] \in Entries /\ InAgent(t) /\ t \notin Left
        /\ task[t].agent \in Agents /\ UNCHANGED <<status, history, ended>>
    BY <1>6 DEF Consulted, CallersInv, Placed, InAgent, Left
  <2>2. /\ task' = [task EXCEPT ![t] = k] /\ k.agent = task[t].agent
        /\ k.pc \in {"consulting", "thinking", "erp"}
    BY <1>6, <2>1 DEF Consulted, Entries
  <2> HIDE DEF k
  <2>3. status' \in [Agents -> {"idle", "working"}] /\ \A b \in Agents : status'[b] = status[b]
    BY <2>1 DEF AgentsInv
  <2> QED BY <2>1, <2>2, <2>3, NoneLeft
<1>7. ASSUME NEW t \in Tasks, ThinkEnds(t)
      PROVE  AgentsInv'
  <2>1. PICK result \in {"ok", "error"} : LeaveAgent(t, task[t].agent, "done", result)
    BY <1>7 DEF ThinkEnds
  <2>2. InAgent(t) /\ task[t].agent \in Agents
    BY <1>7 DEF ThinkEnds, InAgent, CallersInv, Placed
  <2> QED BY <2>1, <2>2, OneLeaves
<1>8. ASSUME NEW t \in Tasks, Cancel(t)
      PROVE  AgentsInv'
  <2>1. CASE task[t].pc = "classifying"
    BY <1>3, <1>8, <2>1 DEF Cancel
  <2>2. CASE task[t].pc \in {"consulting", "thinking", "erp"}
    <3>1. LeaveAgent(t, task[t].agent, "cancelled", None)
      BY <1>8, <2>2 DEF Cancel
    <3>2. InAgent(t) /\ task[t].agent \in Agents
      BY <2>2 DEF InAgent, CallersInv, Placed
    <3> QED BY <3>1, <3>2, OneLeaves
  <2> QED BY <1>8, <2>1, <2>2 DEF Cancel
<1>9. ASSUME NEW c \in Callers, req[c].method \in Active, NEW result, Return(c, result)
      PROVE  AgentsInv'
  <2>1. CASE c \in Posts
    BY <1>1, <1>9, <2>1 DEF Return
  <2>2. CASE c \notin Posts
    <3>1. c \in Tasks /\ LeaveAgent(c, task[c].agent, "done", "ok")
      BY <1>9, <2>2 DEF Return, Callers
    <3>2. task[c].pc = "erp" /\ task[c].agent \in Agents
      BY <1>9, <3>1 DEF CallersInv, Placed, Entries, Active, None
    <3> QED BY <3>1, <3>2, OneLeaves DEF InAgent
  <2> QED BY <2>1, <2>2
<1>10. ASSUME NEW c \in Callers, Answered(c) \/ Rejected(c) \/ RateLimited(c) \/ RequestError(c)
       PROVE  AgentsInv'
  BY <1>1, <1>9, <1>10 DEF Answered, Rejected, RateLimited, RequestError, Again, Active
<1>11. CASE UNCHANGED vars
  BY <1>1, <1>11 DEF vars
<1> QED BY <1>1, <1>4, <1>5, <1>6, <1>7, <1>8, <1>10, <1>11
        DEF Next, QueryExecuted, QueryAnswered, Post, Executed, ExecutedLate

-----------------------------------------------------------------------------
(* The theorems *)

IInv == CallersInv /\ InventoryInv /\ AgentsInv

\* The invariant holds throughout.
LEMMA Invariance == Spec => []IInv
<1>1. Init => IInv
  BY CallersInit, InventoryInit, AgentsInit DEF IInv
<1>2. IInv /\ [Next]_vars => IInv'
  BY CallersStep, InventoryStep, AgentsStep DEF IInv, InventoryInv
<1> QED BY <1>1, <1>2, PTL DEF Spec

\* Every variable keeps its type: no request is tried more often than _notion_request
\* allows, and the history stays within its bound.
THEOREM TypeCorrect == Spec => []TypeOK
<1>1. IInv => TypeOK
  <2> SUFFICES ASSUME IInv
               PROVE  TypeOK
    OBVIOUS
  <2>1. Len(history) <= MaxHistory
    BY TaskParams DEF IInv, AgentsInv
  <2> QED BY <2>1 DEF IInv, CallersInv, InventoryInv, AgentsInv, TypeOK, Requests, Entries
<1> QED BY <1>1, Invariance, PTL

\* Whatever is repeated, lost, answered or executed late, no update is counted twice; and
\* unless one is written between the read and a write of another, none that was executed is
\* lost (manage_inventory, _notion_request).
THEOREM QuantityAddsUp == Spec => []InventoryAddsUp
<1>1. IInv => InventoryAddsUp
  BY DEF IInv, InventoryInv, InventoryAddsUp
<1> QED BY <1>1, Invariance, PTL

\* A POST creates up to one page per attempt, and one at least if it was answered.
THEOREM PagesAddUp == Spec => []PostsAddUp
<1>1. IInv => PostsAddUp
  <2> SUFFICES ASSUME IInv, NEW p \in Posts
               PROVE  /\ created[p] + late[p] <= req[p].attempt
                      /\ req[p].result = "answer" => created[p] >= 1
    BY DEF PostsAddUp
  <2>1. Good(p, req[p], late[p], Pages(p))
    BY DEF IInv, CallersInv, Callers
  <2> QED BY <2>1 DEF Good, Pages
<1> QED BY <1>1, Invariance, PTL

\* An agent shown as working has a task, one that has a task is shown as idle only after
\* another of its tasks has left, and the history holds the tasks that left an agent,
\* each once and up to its bound.
THEOREM AgentsAndHistory == Spec => []StatusAndHistory
<1>1. IInv => StatusAndHistory
  <2> SUFFICES ASSUME IInv
               PROVE  StatusAndHistory
    OBVIOUS
  <2>1. history \in Seq(Tasks) /\ Distinct(history) /\ DOMAIN history = 1 .. Len(history)
    BY LenProperties DEF IInv, AgentsInv
  <2>2. Cardinality({history[i] : i \in DOMAIN history}) = Len(history)
    BY <2>1, DistinctCount
  <2> QED BY <2>1, <2>2 DEF IInv, AgentsInv, StatusAndHistory
<1> QED BY <1>1, Invariance, PTL

-----------------------------------------------------------------------------
(* Whether tasks end: what each of them waits for.                         *)

\* A task that consults has somebody left to answer, a task with the connector has its
\* request under way, and a task whose type names an agent does not wait for the model
\* that classifies the others.
WaitsForSomebody == \A t \in Tasks :
  /\ task[t].pc = "consulting" => task[t].consult # {}
  /\ task[t].pc = "erp" <=> req[t].method \in {"query", "patch"}
  /\ t \in Typed => task[t].pc # "classifying"

\* The entry k of task t says whom it waits for.
Attended(t, k) ==
  /\ k.pc = "consulting" => k.consult # {}
  /\ t \in Typed => k.pc # "classifying"

AllAttended == \A t \in Tasks : Attended(t, task[t])

\* One task moves on.
LEMMA MovesAttended ==
  ASSUME CallersInv, AllAttended, NEW t \in Tasks, NEW k, Attended(t, k),
         task' = [task EXCEPT ![t] = k]
  PROVE  AllAttended'
<1>1. \A d \in Tasks : Attended(d, task'[d])
  BY DEF CallersInv, AllAttended
<1> QED BY <1>1 DEF AllAttended, Attended

\* A task leaves its agent.
LEMMA LeaveAttended ==
  ASSUME CallersInv, AllAttended, NEW t \in Tasks, NEW a, NEW pc \in {"done", "cancelled"},
         NEW result, LeaveAgent(t, a, pc, result)
  PROVE  AllAttended'
<1> DEFINE k == [pc |-> pc, agent |-> a, consult |-> {}, result |-> result]
<1>1. Attended(t, k)
  BY DEF Attended
<1>2. task' = [task EXCEPT ![t] = k]
  BY DEF LeaveAgent
<1> HIDE DEF k
<1> QED BY <1>1, <1>2, MovesAttended

\* An agent begins with a task.
LEMMA BeginAttended ==
  ASSUME CallersInv, AllAttended, NEW t \in Tasks, NEW a \in Agents, Begin(t, a)
  PROVE  AllAttended'
<1>1. task[t] \in Entries
  BY DEF CallersInv
<1>2. ASSUME NEW pc \in {"consulting", "thinking", "erp"}, NEW consult \in SUBSET SubAgents,
             EnterAgent(t, a, pc, consult), pc = "consulting" => consult = SubAgents
      PROVE  AllAttended'
  <2>1. PICK k \in Entries : /\ task' = [task EXCEPT ![t] = k]
                             /\ k.pc = pc /\ k.agent = a /\ k.consult = consult
    BY <1>1, <1>2, EntryTaken
  <2>2. "operations" \in SubAgents
    BY DEF SubAgents, Agents
  <2>3. Attended(t, k)
    BY <1>2, <2>1, <2>2 DEF Attended
  <2> QED BY <2>1, <2>3, MovesAttended
<1>3. CASE LeaveAgent(t, a, "done", "ok")
  BY <1>3, LeaveAttended
<1> QED BY <1>2, <1>3, BeginCases DEF Takes

\* The end of a request is the end of its task.
LEMMA ReturnAttended ==
  ASSUME CallersInv, AllAttended, NEW c \in Callers, NEW result, Return(c, result)
  PROVE  AllAttended'
<1>1. CASE c \in Posts
  BY <1>1 DEF Return, agents, AllAttended, Attended
<1>2. CASE c \notin Posts
  <2>1. c \in Tasks /\ LeaveAgent(c, task[c].agent, "done", "ok")
    BY <1>2 DEF Return, Callers
  <2> QED BY <2>1, LeaveAttended
<1> QED BY <1>1, <1>2

\* A step leaves every task somebody to wait for.
LEMMA StepAttended ==
  ASSUME CallersInv, AllAttended, [Next]_vars
  PROVE  AllAttended'
<1>1. CASE UNCHANGED task
  BY <1>1 DEF AllAttended, Attended
<1>2. ASSUME NEW t \in Tasks, Route(t)
      PROVE  AllAttended'
  <2>1. CASE t \in Typed
    BY <1>2, <2>1, BeginAttended DEF Route, NamedAgent, Agents
  <2>2. CASE t \notin Typed
    <3> DEFINE k == [task[t] EXCEPT !.pc = "classifying"]
    <3>1. Attended(t, k)
      BY <2>2 DEF Attended, CallersInv, Entries
    <3>2. task' = [task EXCEPT ![t] = k]
      BY <1>2, <2>2 DEF Route
    <3> HIDE DEF k
    <3> QED BY <3>1, <3>2, MovesAttended
  <2> QED BY <2>1, <2>2
<1>3. ASSUME NEW t \in Tasks, NEW a \in Agents, Classified(t, a)
      PROVE  AllAttended'
  BY <1>3, BeginAttended DEF Classified
<1>4. ASSUME NEW t \in Tasks, NEW a \in SubAgents, Consulted(t, a)
      PROVE  AllAttended'
  <2> DEFINE rest == task[t].consult \ {a}
             k == [task[t] EXCEPT !.consult = rest, !.pc = IF rest = {} THEN "thinking" ELSE @]
  <2>1. task[t] \in Entries /\ task[t].pc = "consulting"
    BY <1>4 DEF Consulted, CallersInv
  <2>2. Attended(t, k)
    <3> HIDE DEF rest
    <3> QED BY <2>1 DEF Attended, Entries
  <2>3. task' = [task EXCEPT ![t] = k]
    BY <1>4 DEF Consulted
  <2> HIDE DEF k
  <2> QED BY <2>2, <2>3, MovesAttended
<1>5. ASSUME NEW t \in Tasks, ThinkEnds(t)
      PROVE  AllAttended'
  <2>1. PICK result \in {"ok", "error"} : LeaveAgent(t, task[t].agent, "done", result)
    BY <1>5 DEF ThinkEnds
  <2> QED BY <2>1, LeaveAttended
<1>6. ASSUME NEW t \in Tasks, Cancel(t)
      PROVE  AllAttended'
  <2>1. CASE LeaveAgent(t, task[t].agent, "cancelled", None)
    BY <2>1, LeaveAttended
  <2>2. CASE task' = [task EXCEPT ![t].pc = "cancelled"]
    <3> DEFINE k == [task[t] EXCEPT !.pc = "cancelled"]
    <3>1. Attended(t, k)
      BY DEF Attended, CallersInv, Entries
    <3>2. task' = [task EXCEPT ![t] = k]
      BY <2>2
    <3> HIDE DEF k
    <3> QED BY <3>1, <3>2, MovesAttended
  <2> QED BY <1>6, <2>1, <2>2 DEF Cancel
<1>7. ASSUME NEW c \in Callers,
             Answered(c) \/ Rejected(c) \/ RateLimited(c) \/ RequestError(c)
      PROVE  AllAttended'
  <2>1. ASSUME NEW result, Return(c, result) PROVE AllAttended'
    BY <2>1, ReturnAttended
  <2>2. UNCHANGED task \/ \E result : Return(c, result)
    BY <1>7 DEF Answered, Rejected, RateLimited, RequestError, Again, agents
  <2> QED BY <1>1, <2>1, <2>2
<1> QED BY <1>1, <1>2, <1>3, <1>4, <1>5, <1>6, <1>7
        DEF Next, QueryExecuted, QueryAnswered, Post, Executed, ExecutedLate, agents, vars

\* This is what OnlyClassificationWaits needs beside fairness: a task waits for an agent that
\* has not answered or for a request that has attempts left or is at its last (route_task).
THEOREM EveryTaskAttended == Spec => []WaitsForSomebody
<1>1. Init => AllAttended
  BY DEF Init, AllAttended, Attended
<1>2. IInv /\ AllAttended /\ [Next]_vars => AllAttended'
  BY StepAttended DEF IInv
<1>3. IInv /\ AllAttended => WaitsForSomebody
  BY DEF IInv, CallersInv, Placed, Entries, AllAttended, Attended, WaitsForSomebody, None
<1> QED BY <1>1, <1>2, <1>3, Invariance, PTL DEF Spec
=============================================================================
