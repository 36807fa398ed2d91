---------------------------- MODULE WorkflowStore ----------------------------
(***************************************************************************)
(* WorkflowDatabase (database/workflow_db.py) on PostgreSQL.  Requests of  *)
(* the web API save, delete and read workflows and update tasks, each in a *)
(* session of its own; all executions of the worker share one session      *)
(* (main.py): they load their definition, query, and save their record.    *)
(*                                                                         *)
(* A statement takes effect in one step.  A commit takes time, and during  *)
(* that SQLAlchemy refuses any other commit or rollback of the session.    *)
(* What a transaction has written is invisible to others until it commits  *)
(* (READ COMMITTED); a failed statement aborts it until a rollback.        *)
(***************************************************************************)
EXTENDS Naturals, FiniteSets

CONSTANTS
  Ids,       \* workflow ids
  Defs,      \* definitions: a row of workflows and its rows of workflow_nodes
  Orgs,      \* organizations
  Requests,  \* sessions of the web API
  Execs,     \* executions of the worker
  Emailed,   \* those whose workflow WorkflowManager built from an e-mail; they only read
  Rowless,   \* those whose query returns no rows: INSERT, UPDATE or DELETE
  None,
  MaxOps,    \* bound: operations of the requests
  MaxTries   \* bound: retry_count + 1 of the query node

ASSUME StoreParams ==
  /\ Emailed \subseteq Execs /\ Rowless \subseteq Execs \ Emailed
  /\ MaxOps \in Nat /\ MaxTries \in Nat \ {0}
  /\ None \notin Ids \cup Defs \cup Orgs \cup Requests \cup Execs
  /\ "deleted" \notin Defs \cup {None}

VARIABLES
  row,      \* table workflows
  nodes,    \* table workflow_nodes: the definition the nodes of an id belong to
  lock,     \* holder of the row lock taken by SELECT ... FOR UPDATE
  req,      \* the operation of each request
  ops,      \* operations begun
  records,  \* table workflow_executions
  durable,  \* how often the change of an execution's query is committed
  session,  \* the session of the worker
  ex        \* the executions

tables == <<row, nodes, lock>>
vars == <<tables, req, ops, records, durable, session, ex>>

NoRow == [def |-> None, org |-> None, deleted |-> FALSE]
NoOp == [pc |-> "idle", org |-> None, id |-> None, def |-> None, found |-> FALSE]
NoWork == [e \in Execs |-> 0]

Init ==
  /\ row = [i \in Ids |-> NoRow]
  /\ nodes = [i \in Ids |-> None]
  /\ lock = [i \in Ids |-> None]
  /\ req = [r \in Requests |-> NoOp] /\ ops = 0
  /\ records = [e \in Execs |-> "none"]
  /\ durable = NoWork
  /\ session = [pending |-> {},       \* session.new
                late |-> {},          \* of these, added while a commit was under way
                work |-> NoWork,      \* changes executed and not committed
                aborted |-> FALSE,    \* the transaction needs a rollback
                busy |-> None]        \* the execution that is committing
  /\ ex = [e \in Execs |->
             [pc |-> IF e \in Emailed THEN "running" ELSE "absent",
              id |-> None, row |-> None, nodes |-> None, raced |-> FALSE,
              tries |-> 0, answered |-> FALSE, undone |-> FALSE, saved |-> "no"]]

Visible(i, org) ==
  /\ row[i].def # None /\ ~row[i].deleted
  /\ org \in {None, row[i].org}

-----------------------------------------------------------------------------
(* Requests: each is a transaction of its own *)

\* The SELECT of save_workflow and soft_delete_workflow waits for the row lock.
\* Without a row a delete is over and a save will insert one.
\* mutant: no organization filter
SelectAnyForUpdate(r, org, i, d) ==
  /\ req[r].pc = "idle" /\ ops < MaxOps
  /\ ops' = ops + 1
  /\ LET found == Visible(i, None) IN
     /\ found => lock[i] = None
     /\ lock' = IF found THEN [lock EXCEPT ![i] = r] ELSE lock
     /\ req' = IF d = None /\ ~found THEN req ELSE
               [req EXCEPT ![r] = [pc |-> "writing", org |-> org, id |-> i, def |-> d,
                                   found |-> found]]
  /\ UNCHANGED <<row, nodes, records, durable, session, ex>>

SelectForUpdate(r, org, i, d) ==
  /\ req[r].pc = "idle" /\ ops < MaxOps
  /\ ops' = ops + 1
  /\ LET found == Visible(i, org) IN
     /\ found => lock[i] = None
     /\ lock' = IF found THEN [lock EXCEPT ![i] = r] ELSE lock
     /\ req' = IF d = None /\ ~found THEN req ELSE
               [req EXCEPT ![r] = [pc |-> "writing", org |-> org, id |-> i, def |-> d,
                                   found |-> found]]
  /\ UNCHANGED <<row, nodes, records, durable, session, ex>>

Unlock(r) == lock' = [i \in Ids |-> IF lock[i] = r THEN None ELSE lock[i]]

\* Readers between their two statements see that a workflow has changed.
Races(i) == ex' = [e \in Execs |-> IF ex[e].pc = "loading" /\ ex[e].id = i
                                   THEN [ex[e] EXCEPT !.raced = TRUE] ELSE ex[e]]

\* mutant: the row is committed before the nodes
CommitSaveRowOnly(r) ==
  LET q == req[r] i == q.id IN
  /\ q.pc = "writing" /\ q.def # None
  /\ q.found \/ row[i] = NoRow
  /\ row' = [row EXCEPT ![i] = [def |-> q.def, deleted |-> FALSE,
                                org |-> IF q.found THEN @.org ELSE q.org]]
  /\ Unlock(r) /\ Races(i)
  /\ req' = [req EXCEPT ![r] = NoOp]
  /\ UNCHANGED <<nodes, ops, records, durable, session>>

\* save_workflow updates the row and replaces its nodes, or inserts both; an id that is
\* in the table but was not selected (deleted, or another organization's) violates
\* the primary key.  Whether the request learns of its commit makes no difference here.
CommitSave(r) ==
  LET q == req[r] i == q.id IN
  /\ q.pc = "writing" /\ q.def # None
  /\ q.found \/ row[i] = NoRow
  /\ row' = [row EXCEPT ![i] = [def |-> q.def, deleted |-> FALSE,
                                org |-> IF q.found THEN @.org ELSE q.org]]
  /\ nodes' = [nodes EXCEPT ![i] = q.def]
  /\ Unlock(r) /\ Races(i)
  /\ req' = [req EXCEPT ![r] = NoOp]
  /\ UNCHANGED <<ops, records, durable, session>>

CommitDelete(r) ==
  LET q == req[r] IN
  /\ q.pc = "writing" /\ q.def = None
  /\ row' = [row EXCEPT ![q.id].deleted = TRUE]
  /\ Unlock(r)
  /\ req' = [req EXCEPT ![r] = NoOp]
  /\ UNCHANGED <<nodes, ops, records, durable, session, ex>>

\* A constraint, the connection or the command_timeout: rollback, and the error is raised;
\* a request that is cancelled is rolled back when its session is closed.
RequestFails(r) ==
  /\ req[r].pc = "writing"
  /\ Unlock(r)
  /\ req' = [req EXCEPT ![r] = NoOp]
  /\ UNCHANGED <<row, nodes, ops, records, durable, session, ex>>

\* update_task_status: one UPDATE of a record whose workflow is the organization's.
UpdateTask(org, e) ==
  /\ ops < MaxOps /\ e \notin Emailed
  /\ ops' = ops + 1
  /\ records' = IF records[e] # "none" /\ row[ex[e].id].org = org
                THEN [records EXCEPT ![e] = "updated"] ELSE records
  /\ UNCHANGED <<tables, req, durable, session, ex>>

-----------------------------------------------------------------------------
(* The session of the worker *)

\* The first statement of get_workflow; the worker has no organization.  While another
\* load holds the object of that row, the session answers with this object.
LoadRow(e, i) ==
  /\ ex[e].pc = "absent" /\ ~session.aborted /\ session.busy = None
  /\ LET holders == {d \in Execs : ex[d].pc = "loading" /\ ex[d].id = i}
         got == IF holders = {} THEN [row |-> row[i].def, raced |-> FALSE]
                ELSE LET d == CHOOSE d \in holders : TRUE
                     IN [row |-> ex[d].row, raced |-> ex[d].raced]
     IN ex' = [ex EXCEPT ![e].pc = IF Visible(i, None) THEN "loading" ELSE "ended",
                         ![e].id = i, ![e].row = got.row, ![e].raced = got.raced]
  /\ UNCHANGED <<tables, req, ops, records, durable, session>>

\* The second one: the nodes are those of now.
LoadNodes(e) ==
  /\ ex[e].pc = "loading" /\ ~session.aborted /\ session.busy = None
  /\ ex' = [ex EXCEPT ![e].pc = "running", ![e].nodes = nodes[ex[e].id]]
  /\ UNCHANGED <<tables, req, ops, records, durable, session>>

\* A statement fails; unless it was refused because the session is in use, the
\* transaction is aborted.  Nobody rolls it back.
StatementFails ==
  \E refused \in BOOLEAN :
    /\ session' = [session EXCEPT !.aborted = @ \/ ~refused]
    /\ UNCHANGED <<tables, req, ops, records, durable>>

LoadFails(e) ==
  /\ ex[e].pc \in {"absent", "loading"}
  /\ ex' = [ex EXCEPT ![e].pc = "ended"]
  /\ StatementFails

\* mutant: a node that answered is executed again
QueryAgain(e) ==
  /\ ex[e].pc = "running" /\ ex[e].tries < MaxTries
  /\ ~session.aborted /\ session.busy = None
  /\ session' = IF e \in Emailed THEN session ELSE [session EXCEPT !.work[e] = @ + 1]
  /\ ex' = [ex EXCEPT ![e].tries = @ + 1, ![e].answered = e \notin Rowless]
  /\ UNCHANGED <<tables, req, ops, records, durable>>

\* mutant: attempts are not counted
QueryUncounted(e) ==
  /\ ex[e].pc = "running" /\ ex[e].tries < MaxTries
  /\ ~session.aborted /\ session.busy = None
  /\ session' = IF e \in Emailed THEN session ELSE [session EXCEPT !.work[e] = @ + 1]
  /\ ex' = [ex EXCEPT ![e].answered = e \notin Rowless]
  /\ UNCHANGED <<tables, req, ops, records, durable>>

\* database_query: fetchall of a statement without rows raises after it has taken
\* effect, and the executor retries the node.
Query(e) ==
  /\ ex[e].pc = "running" /\ ex[e].tries < MaxTries
  /\ ~session.aborted /\ session.busy = None
  /\ session' = IF e \in Emailed THEN session ELSE [session EXCEPT !.work[e] = @ + 1]
  /\ ex' = [ex EXCEPT ![e].tries = IF e \in Rowless THEN @ + 1 ELSE MaxTries,
                      ![e].answered = e \notin Rowless]
  /\ UNCHANGED <<tables, req, ops, records, durable>>

QueryFails(e) ==
  /\ ex[e].pc = "running" /\ ex[e].tries < MaxTries
  /\ ex' = [ex EXCEPT ![e].tries = @ + 1]
  /\ StatementFails

\* save_execution adds the record and commits; beside another commit both the commit
\* and the rollback raise, and the record stays in the session.
SaveBegins(e) ==
  /\ ex[e].pc = "running" /\ ex[e].tries = MaxTries
  /\ IF session.busy = None
     THEN /\ session' = [session EXCEPT !.pending = @ \cup {e}, !.busy = e]
          /\ ex' = [ex EXCEPT ![e].pc = "saving"]
     ELSE /\ session' = [session EXCEPT !.pending = @ \cup {e}, !.late = @ \cup {e}]
          /\ ex' = [ex EXCEPT ![e].pc = "ended", ![e].saved = "failed"]
  /\ UNCHANGED <<tables, req, ops, records, durable>>

\* mutant: the foreign key to workflows is not there
StorableAnyway(e) == TRUE

\* The foreign key to workflows: nobody has saved the workflow of an e-mail.
Storable(e) == e \notin Emailed

\* A COMMIT takes effect: it writes the records of the session but those in left, which
\* came too late for it, and makes the changes of all executions durable.
Stores(e, left) ==
  /\ session.busy = e /\ ~session.aborted
  /\ LET written == session.pending \ left IN
     /\ \A d \in written : Storable(d)
     /\ records' = [d \in Execs |-> IF d \in written THEN "saved" ELSE records[d]]
  /\ durable' = [d \in Execs |-> durable[d] + session.work[d]]
  /\ UNCHANGED <<tables, req, ops>>

SaveSucceeds(e) ==
  \E left \in SUBSET session.late :
    /\ Stores(e, left)
    /\ session' = [session EXCEPT !.pending = left, !.late = {}, !.work = NoWork,
                                  !.busy = None]
    /\ ex' = [ex EXCEPT ![e].pc = "ended", ![e].saved = "ok"]

\* It takes effect and save_execution does not learn of it: the connection is lost, and
\* the rollback has nothing left to undo, or the execution is cancelled (SaveCancelled).
SaveUnanswered(e) ==
  \E left \in SUBSET session.late, cancelled \in BOOLEAN :
    /\ Stores(e, left)
    /\ session' = [session EXCEPT !.pending = {}, !.late = {}, !.work = NoWork,
                                  !.aborted = cancelled, !.busy = None]
    /\ ex' = [ex EXCEPT ![e].pc = "ended",
                        ![e].saved = IF cancelled THEN "cancelled" ELSE "failed"]

\* The server drops the transaction, with the records and the changes of everybody.
Undoes(e, outcome) ==
  /\ session.busy = e
  /\ ex' = [d \in Execs |->
              [ex[d] EXCEPT !.pc = IF d = e THEN "ended" ELSE @,
                            !.saved = IF d = e THEN outcome ELSE @,
                            !.undone = @ \/ session.work[d] > 0]]
  /\ UNCHANGED <<tables, req, ops, records, durable>>

\* mutant: no rollback
SaveFailsOnly(e) ==
  /\ session.busy = e
  /\ session' = [session EXCEPT !.busy = None]
  /\ ex' = [ex EXCEPT ![e].pc = "ended", ![e].saved = "failed"]
  /\ UNCHANGED <<tables, req, ops, records, durable>>

\* A constraint, the connection, or a statement that failed before: save_execution rolls
\* back.  (So does a cancel that comes as late as the rollback.)
SaveFails(e) ==
  /\ Undoes(e, "failed")
  /\ session' = [session EXCEPT !.pending = {}, !.late = {}, !.work = NoWork,
                                !.aborted = FALSE, !.busy = None]

\* The execution is cancelled in its commit.  `except Exception` does not catch that: the
\* connection is closed, and nobody calls the rollback that SQLAlchemy then asks for.
\* (Records that are left in the session are never written, for that rollback drops them.)
SaveCancelled(e) ==
  /\ Undoes(e, "cancelled")
  /\ session' = [session EXCEPT !.pending = {}, !.late = {}, !.work = NoWork,
                                !.aborted = TRUE, !.busy = None]

-----------------------------------------------------------------------------
Next ==
  \/ \E r \in Requests, org \in Orgs, i \in Ids, d \in Defs \cup {None} :
       SelectForUpdate(r, org, i, d)
  \/ \E r \in Requests : CommitSave(r)
  \/ \E r \in Requests : CommitDelete(r)
  \/ \E r \in Requests : RequestFails(r)
  \/ \E org \in Orgs, e \in Execs : UpdateTask(org, e)
  \/ \E e \in Execs, i \in Ids : LoadRow(e, i)
  \/ \E e \in Execs : LoadNodes(e)
  \/ \E e \in Execs : LoadFails(e)
  \/ \E e \in Execs : Query(e)
  \/ \E e \in Execs : QueryFails(e)
  \/ \E e \in Execs : SaveBegins(e)
  \/ \E e \in Execs : SaveSucceeds(e)
  \/ \E e \in Execs : SaveUnanswered(e)
  \/ \E e \in Execs : SaveFails(e)
  \/ \E e \in Execs : SaveCancelled(e)

Spec == Init /\ [][Next]_vars

\* A running execution goes on, and a commit is answered, times out or is cancelled.
\* Requests need no fairness: nobody waits for them.
Fairness == \A e \in Execs :
  /\ WF_vars(Query(e) \/ QueryFails(e))
  /\ WF_vars(SaveBegins(e))
  /\ WF_vars(SaveSucceeds(e) \/ SaveUnanswered(e) \/ SaveFails(e) \/ SaveCancelled(e))

FairSpec == Spec /\ Fairness

-----------------------------------------------------------------------------
(* Properties *)

TypeOK ==
  /\ row \in [Ids -> [def : Defs \cup {None}, org : Orgs \cup {None}, deleted : BOOLEAN]]
  /\ nodes \in [Ids -> Defs \cup {None}]
  /\ lock \in [Ids -> Requests \cup {None}]
  /\ req \in [Requests -> [pc : {"idle", "writing"}, org : Orgs \cup {None},
                           id : Ids \cup {None}, def : Defs \cup {None}, found : BOOLEAN]]
  /\ ops \in 0 .. MaxOps
  /\ records \in [Execs -> {"none", "saved", "updated"}]
  /\ durable \in [Execs -> 0 .. MaxTries]
  /\ session \in [pending : SUBSET Execs, late : SUBSET Execs, work : [Execs -> 0 .. MaxTries],
                  aborted : BOOLEAN, busy : Execs \cup {None}]
  /\ ex \in [Execs -> [pc : {"absent", "loading", "running", "saving", "ended"},
                       id : Ids \cup {None}, row : Defs \cup {None}, nodes : Defs \cup {None},
                       raced : BOOLEAN, tries : 0 .. MaxTries,
                       answered : BOOLEAN, undone : BOOLEAN, saved : {"no", "ok", "failed", "cancelled"}]]

\* save_execution that returned has its record stored, although executions roll each
\* other back; and every record has its workflow, so an execution started by an
\* e-mail, whose workflow nobody saves, leaves none.
RecordsAgree == \A e \in Execs :
  /\ ex[e].saved = "ok" => records[e] # "none"
  /\ records[e] # "none" => e \notin Emailed /\ ex[e].id \in Ids /\ row[ex[e].id] # NoRow
  /\ records[e] = "none" \/ e \notin session.pending

\* The change of a query that answered is applied once, by whichever execution
\* commits it, unless the end of the transaction took it away.  A change whose node
\* fails and is retried is applied at most once for each attempt.
ChangesAddUp == \A e \in Execs \ Emailed :
  LET made == durable[e] + session.work[e] IN
  /\ ex[e].answered => made = IF ex[e].undone THEN 0 ELSE 1
  /\ made <= ex[e].tries

\* get_workflow returns a row and nodes that were never saved together only when a save
\* was committed while it, or the load whose row it shares, was between the two.
TornOnlyByRace == \A e \in Execs \ Emailed :
  ex[e].pc \in {"running", "saving"} /\ ex[e].row # ex[e].nodes => ex[e].raced

\* A request changes no workflow of another organization.
OrgIsolation ==
  [][\A i \in Ids : row'[i] # row[i] =>
       \E r \in Requests : /\ req[r].id = i /\ req'[r].pc = "idle"
                           /\ row[i].org \in {None, req[r].org}
                           /\ row'[i].org = req[r].org]_vars

\* Row and nodes together are one definition, replaced as a whole and final once
\* deleted.
Abstract == INSTANCE DefinitionStore WITH
  Absent <- None, Deleted <- "deleted",
  def <- [i \in Ids |-> IF row[i].deleted THEN "deleted"
                        ELSE IF row[i].def = nodes[i] THEN row[i].def ELSE "torn"]
ImplementsDefinitionStore == Abstract!Spec

AnyRuns == \E e \in Execs : ex[e].pc \in {"running", "saving"}
AnyCancelled == \E e \in Execs : ex[e].saved = "cancelled"

\* A failed statement, or a save cancelled in its commit, leaves the session unusable for
\* all executions, and only the rollback of a record that cannot be saved repairs it.  As
\* long as an execution runs this comes: every save on such a session repairs it, unless
\* it is cancelled too, and so it stays unusable only when the last of them are.
Heals ==
  /\ (session.aborted /\ AnyRuns) ~> (~session.aborted \/ (~AnyRuns /\ AnyCancelled))
  /\ [][\A e \in Execs : session.aborted /\ ex[e].pc = "saving" /\ ex'[e].pc = "ended"
           => ~session'.aborted \/ ex'[e].saved = "cancelled"]_vars
=============================================================================
