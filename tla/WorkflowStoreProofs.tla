------------------------- MODULE WorkflowStoreProofs -------------------------
(***************************************************************************)
(* Safety of WorkflowStore for any number of workflows, organizations,     *)
(* requests and executions.  The invariant has a part for each question:   *)
(* the row lock keeps what a request has selected until it commits, the    *)
(* records that await a commit belong to executions that have not stored   *)
(* theirs, and an execution that loads shares the row or knows of a race.  *)
(***************************************************************************)
EXTENDS WorkflowStore, TLAPS

-----------------------------------------------------------------------------
(* The requests *)

Rows == [def : Defs \cup {None}, org : Orgs \cup {None}, deleted : BOOLEAN]
Operations == [pc : {"idle", "writing"}, org : Orgs \cup {None},
               id : Ids \cup {None}, def : Defs \cup {None}, found : BOOLEAN]

RequestTypes ==
  /\ row \in [Ids -> Rows]
  /\ nodes \in [Ids -> Defs \cup {None}]
  /\ lock \in [Ids -> Requests \cup {None}]
  /\ req \in [Requests -> Operations]
  /\ ops \in 0 .. MaxOps

\* Row and nodes of an id are those of one definition.
Whole == \A i \in Ids :
  /\ row[i].def = nodes[i]
  /\ row[i].def = None => row[i] = NoRow

\* A request that has found its row holds the lock on it, and the row is as selected.
HeldBy(r) == req[r].pc = "writing" =>
  /\ req[r].id \in Ids /\ req[r].org \in Orgs
  /\ req[r].found =>
       /\ lock[req[r].id] = r
       /\ row[req[r].id].def \in Defs /\ ~row[req[r].id].deleted
       /\ row[req[r].id].org = req[r].org
  /\ req[r].def = None => req[r].found

Held == \A r \in Requests : HeldBy(r)

RequestInv == RequestTypes /\ Whole /\ Held

NoneApart == /\ None \notin Ids /\ None \notin Defs /\ None \notin Orgs
             /\ None \notin Requests /\ None \notin Execs

\* None is nothing else.
LEMMA Apart == NoneApart
BY StoreParams DEF NoneApart

\* How a save that has begun its commit ends.
SaveEnds(e) == SaveSucceeds(e) \/ SaveUnanswered(e) \/ SaveFails(e) \/ SaveCancelled(e)

\* The steps of the worker leave the tables of the workflows alone.
WorkerStep ==
  \/ \E org \in Orgs, e \in Execs : UpdateTask(org, e)
  \/ \E e \in Execs, i \in Ids : LoadRow(e, i)
  \/ \E e \in Execs : \/ LoadNodes(e) \/ LoadFails(e) \/ Query(e) \/ QueryFails(e)
                      \/ SaveBegins(e) \/ SaveEnds(e)

\* The worker changes no definition, no lock and no request.
LEMMA WorkerKeeps ==
  ASSUME WorkerStep
  PROVE  UNCHANGED <<row, nodes, lock, req>>
BY DEF WorkerStep, UpdateTask, LoadRow, LoadNodes, LoadFails, Query, QueryFails, StatementFails,
       SaveBegins, SaveEnds, SaveSucceeds, SaveUnanswered, SaveFails, SaveCancelled, Stores,
       Undoes, tables

\* At the start there is no row and no request.
LEMMA RequestInit == Init => RequestInv
<1> SUFFICES ASSUME Init PROVE RequestInv
  OBVIOUS
<1>1. RequestTypes
  BY StoreParams DEF Init, RequestTypes, Rows, Operations, NoRow, NoOp
<1>2. Whole /\ Held
  BY DEF Init, Whole, Held, HeldBy, NoRow, NoOp
<1> QED BY <1>1, <1>2 DEF RequestInv

\* Before a request selects its row, the row is nobody's.
LEMMA SelectKeeps ==
  ASSUME RequestInv, NEW r \in Requests, NEW org \in Orgs, NEW i \in Ids,
         NEW d \in Defs \cup {None}, SelectForUpdate(r, org, i, d)
  PROVE  RequestInv'
<1> USE Apart DEF NoneApart
<1> DEFINE found == Visible(i, org)
           q == [pc |-> "writing", org |-> org, id |-> i, def |-> d, found |-> found]
<1>0. RequestTypes /\ Whole /\ Held
  BY DEF RequestInv
<1>1. /\ UNCHANGED <<row, nodes>> /\ ops' \in 0 .. MaxOps
      /\ found => lock[i] = None
      /\ lock' = IF found THEN [lock EXCEPT ![i] = r] ELSE lock
      /\ req' = IF d = None /\ ~found THEN req ELSE [req EXCEPT ![r] = q]
  BY <1>0, StoreParams DEF SelectForUpdate, RequestTypes
<1>2. found \in BOOLEAN /\ q \in Operations
  BY DEF Visible, Operations
<1>3. found => row[i].def \in Defs /\ ~row[i].deleted /\ row[i].org = org
  BY <1>0 DEF Visible, RequestTypes, Rows
<1> HIDE DEF found
<1>4. RequestTypes'
  BY <1>0, <1>1, <1>2 DEF RequestTypes
<1>5. Whole'
  BY <1>0, <1>1 DEF Whole
<1>6. Held'
  <2> SUFFICES ASSUME NEW s \in Requests, req'[s].pc = "writing"
               PROVE  HeldBy(s)'
    BY DEF Held, HeldBy
  <2>1. CASE s = r /\ req'[r] = q
    BY <1>0, <1>1, <1>2, <1>3, <2>1 DEF Held, HeldBy, RequestTypes
  <2>2. CASE req'[s] = req[s] /\ ~(s = r /\ req'[r] = q)
    <3>1. req[s].id \in Ids /\ req[s].org \in Orgs /\ (req[s].def = None => req[s].found)
      BY <1>0, <2>2 DEF Held, HeldBy
    <3>2. req[s].found => lock[req[s].id] = s /\ lock'[req[s].id] = s
      BY <1>0, <1>1, <2>2, <3>1 DEF Held, HeldBy, RequestTypes
    <3> QED BY <1>0, <1>1, <2>2, <3>1, <3>2 DEF Held, HeldBy
  <2> QED BY <1>0, <1>1, <2>1, <2>2 DEF RequestTypes
<1> QED BY <1>4, <1>5, <1>6 DEF RequestInv

\* What a request may find when it writes row i: its own lock, or no row at all.
LEMMA WriterAlone ==
  ASSUME RequestInv, NEW r \in Requests, req[r].pc = "writing",
         req[r].found \/ row[req[r].id] = NoRow,
         NEW s \in Requests, s # r, req[s].pc = "writing", req[s].found
  PROVE  req[s].id # req[r].id
BY Apart DEF NoneApart, RequestInv, Held, HeldBy, NoRow

\* A request that ends gives back its lock.
LEMMA UnlockKeeps ==
  ASSUME RequestTypes, NEW r \in Requests, Unlock(r)
  PROVE  /\ lock' \in [Ids -> Requests \cup {None}]
         /\ \A i \in Ids, s \in Requests : s # r /\ lock[i] = s => lock'[i] = s
BY Apart DEF NoneApart, RequestTypes, Unlock

\* The writes of a request to its own row disturb nobody.
LEMMA WriteKeeps ==
  ASSUME RequestInv, NEW r \in Requests, req[r].pc = "writing", Unlock(r),
         req' = [req EXCEPT ![r] = NoOp], UNCHANGED ops,
         NEW i \in Ids, i = req[r].id,
         NEW new \in Rows, new.def \in Defs,
         \/ UNCHANGED <<row, nodes>>
         \/ /\ req[r].found \/ row[i] = NoRow
            /\ row' = [row EXCEPT ![i] = new] /\ nodes' = [nodes EXCEPT ![i] = new.def]
  PROVE  RequestInv'
<1> USE Apart DEF NoneApart
<1>0. RequestTypes /\ Whole /\ Held
  BY DEF RequestInv
<1>1. RequestTypes'
  BY <1>0, UnlockKeeps DEF RequestTypes, NoOp, Operations
<1>2. Whole'
  BY <1>0 DEF Whole, RequestTypes
<1>3. Held'
  <2> SUFFICES ASSUME NEW s \in Requests, req'[s].pc = "writing"
               PROVE  HeldBy(s)'
    BY DEF Held, HeldBy
  <2>1. s # r /\ req'[s] = req[s]
    BY <1>0 DEF RequestTypes, NoOp
  <2>2. HeldBy(s)
    BY <1>0 DEF Held
  <2>3. req[s].found => row'[req[s].id] = row[req[s].id]
    BY <1>0, <2>1, <2>2, WriterAlone DEF RequestTypes, HeldBy
  <2>4. req[s].found => lock'[req[s].id] = s
    BY <1>0, <2>1, <2>2, UnlockKeeps DEF HeldBy
  <2> QED BY <2>1, <2>2, <2>3, <2>4 DEF HeldBy
<1> QED BY <1>1, <1>2, <1>3 DEF RequestInv

\* A save commits.
LEMMA CommitSaveKeeps ==
  ASSUME RequestInv, NEW r \in Requests, CommitSave(r)
  PROVE  RequestInv'
<1> DEFINE i == req[r].id
           new == [def |-> req[r].def, deleted |-> FALSE,
                   org |-> IF req[r].found THEN row[i].org ELSE req[r].org]
<1>1. /\ req[r].pc = "writing" /\ req[r].def # None
      /\ req[r].found \/ row[i] = NoRow
      /\ row' = [row EXCEPT ![i] = new] /\ nodes' = [nodes EXCEPT ![i] = new.def]
      /\ Unlock(r) /\ req' = [req EXCEPT ![r] = NoOp] /\ UNCHANGED ops
  BY DEF CommitSave
<1>2. i \in Ids /\ req[r].org \in Orgs /\ req[r].def \in Defs
  BY <1>1 DEF RequestInv, RequestTypes, Operations, Held, HeldBy
<1>3. new \in Rows /\ new.def \in Defs
  BY <1>2 DEF RequestInv, RequestTypes, Rows
<1> HIDE DEF new
<1> QED BY <1>1, <1>2, <1>3, WriteKeeps

\* A delete commits.
LEMMA CommitDeleteKeeps ==
  ASSUME RequestInv, NEW r \in Requests, CommitDelete(r)
  PROVE  RequestInv'
<1> DEFINE i == req[r].id
           new == [row[i] EXCEPT !.deleted = TRUE]
<1>1. /\ req[r].pc = "writing" /\ req[r].def = None
      /\ row' = [row EXCEPT ![i] = new] /\ UNCHANGED nodes
      /\ Unlock(r) /\ req' = [req EXCEPT ![r] = NoOp] /\ UNCHANGED ops
  BY DEF CommitDelete
<1>2. i \in Ids /\ req[r].found /\ row[i].def \in Defs /\ row[i].def = nodes[i]
  BY <1>1 DEF RequestInv, Held, HeldBy, Whole
<1>3. new \in Rows /\ new.def \in Defs /\ new.def = nodes[i]
  BY <1>2 DEF RequestInv, RequestTypes, Rows
<1>4. nodes' = [nodes EXCEPT ![i] = new.def]
  BY <1>1, <1>2, <1>3 DEF RequestInv, RequestTypes
<1> HIDE DEF new
<1> QED BY <1>1, <1>2, <1>3, <1>4, WriteKeeps

\* A request is rolled back.
LEMMA RequestFailsKeeps ==
  ASSUME RequestInv, NEW r \in Requests, RequestFails(r)
  PROVE  RequestInv'
<1>1. /\ req[r].pc = "writing" /\ UNCHANGED <<row, nodes>>
      /\ Unlock(r) /\ req' = [req EXCEPT ![r] = NoOp] /\ UNCHANGED ops
  BY DEF RequestFails
<1>2. RequestTypes'
  BY <1>1, UnlockKeeps, StoreParams DEF RequestInv, RequestTypes, NoOp, Operations
<1>3. Whole'
  BY <1>1 DEF RequestInv, Whole
<1>4. Held'
  <2> SUFFICES ASSUME NEW s \in Requests, req'[s].pc = "writing"
               PROVE  HeldBy(s)'
    BY DEF Held, HeldBy
  <2>1. s # r /\ req'[s] = req[s] /\ HeldBy(s)
    BY <1>1 DEF RequestInv, RequestTypes, NoOp, Held
  <2>2. req[s].found => lock'[req[s].id] = s
    BY <1>1, <2>1, UnlockKeeps DEF RequestInv, HeldBy
  <2> QED BY <1>1, <2>1, <2>2 DEF HeldBy
<1> QED BY <1>2, <1>3, <1>4 DEF RequestInv

\* The requests keep their invariant, whatever the worker does.
LEMMA RequestStep ==
  ASSUME RequestInv, [Next]_vars
  PROVE  RequestInv'
<1>1. CASE WorkerStep
  <2>1. UNCHANGED ops \/ (ops < MaxOps /\ ops' = ops + 1)
    BY <1>1 DEF WorkerStep, UpdateTask, LoadRow, LoadNodes, LoadFails, Query, QueryFails,
                StatementFails, SaveBegins, SaveEnds, SaveSucceeds, SaveUnanswered, SaveFails,
                SaveCancelled, Stores, Undoes
  <2>2. ops' \in 0 .. MaxOps
    BY <2>1, StoreParams DEF RequestInv, RequestTypes
  <2> QED BY <1>1, <2>2, WorkerKeeps DEF RequestInv, RequestTypes, Whole, Held, HeldBy
<1>2. CASE UNCHANGED vars
  BY <1>2 DEF vars, tables, RequestInv, RequestTypes, Whole, Held, HeldBy
<1>3. ASSUME NEW r \in Requests, NEW org \in Orgs, NEW i \in Ids, NEW d \in Defs \cup {None},
             SelectForUpdate(r, org, i, d)
      PROVE  RequestInv'
  BY <1>3, SelectKeeps
<1>4. ASSUME NEW r \in Requests, CommitSave(r) \/ CommitDelete(r) \/ RequestFails(r)
      PROVE  RequestInv'
  BY <1>4, CommitSaveKeeps, CommitDeleteKeeps, RequestFailsKeeps
<1> QED BY <1>1, <1>2, <1>3, <1>4 DEF Next, WorkerStep, SaveEnds

\* What the requests rely on holds throughout.
LEMMA RequestsStay == Spec => []RequestInv
BY RequestInit, RequestStep, PTL DEF Spec

-----------------------------------------------------------------------------
\* A request changes no workflow of another organization: the row that _apply_org_filter
\* has let through is locked until save_workflow or soft_delete_workflow commits.
THEOREM OrganizationsApart == Spec => OrgIsolation
<1> USE Apart DEF NoneApart
<1> DEFINE Apartness ==
      \A i \in Ids : row'[i] # row[i] =>
        \E r \in Requests : /\ req[r].id = i /\ req'[r].pc = "idle"
                            /\ row[i].org \in {None, req[r].org}
                            /\ row'[i].org = req[r].org
<1>1. ASSUME RequestInv, [Next]_vars
      PROVE  Apartness
  <2>1. CASE UNCHANGED row
    BY <2>1
  <2>2. ASSUME NEW r \in Requests, CommitSave(r) \/ CommitDelete(r)
        PROVE  Apartness
    <3>1. /\ HeldBy(r) /\ req[r].pc = "writing" /\ req[r].id \in Ids
          /\ req'[r].pc = "idle"
          /\ \A i \in Ids \ {req[r].id} : row'[i] = row[i]
      BY <1>1, <2>2 DEF RequestInv, RequestTypes, Held, HeldBy, CommitSave, CommitDelete, NoOp
    <3>2. row[req[r].id].org \in {None, req[r].org}
      BY <1>1, <2>2, <3>1 DEF HeldBy, CommitSave, CommitDelete, NoRow
    <3>3. row'[req[r].id].org = req[r].org
      BY <1>1, <2>2, <3>1 DEF RequestInv, RequestTypes, Rows, HeldBy, CommitSave, CommitDelete
    <3> QED BY <3>1, <3>2, <3>3
  <2>3. UNCHANGED row \/ \E r \in Requests : CommitSave(r) \/ CommitDelete(r)
    BY <1>1, WorkerKeeps DEF Next, WorkerStep, SaveEnds, vars, tables, SelectForUpdate,
                         RequestFails
  <2> QED BY <2>1, <2>2, <2>3
<1>2. RequestInv /\ [Next]_vars => [Apartness]_vars
  BY <1>1
<1> QED BY <1>2, RequestsStay, PTL DEF Spec, OrgIsolation

\* Row and nodes of a workflow are replaced together and by whole definitions, and what
\* is soft-deleted stays so (save_workflow, soft_delete_workflow).
THEOREM StoreImplementsDefinitions == Spec => ImplementsDefinitionStore
<1> USE Apart DEF NoneApart
<1> DEFINE Def == [i \in Ids |-> IF row[i].deleted THEN "deleted"
                                ELSE IF row[i].def = nodes[i] THEN row[i].def ELSE "torn"]
<1>1. Init => Abstract!Init
  BY DEF Init, Abstract!Init, NoRow
<1>2. ASSUME RequestInv, RequestInv', [Next]_vars
      PROVE  [Abstract!Next]_Def
  <2> USE DEF RequestInv
  <2>1. CASE UNCHANGED <<row, nodes>>
    BY <2>1
  <2>2. ASSUME NEW r \in Requests, CommitSave(r)
        PROVE  Abstract!Next
    <3>1. PICK i \in Ids, d \in Defs : i = req[r].id /\ d = req[r].def
      BY <1>2, <2>2 DEF RequestTypes, Operations, Held, HeldBy, CommitSave
    <3>2. Abstract!Save(i, d)
      <4>1. ~row[i].deleted /\ Def[i] \in Defs \cup {None}
        BY <1>2, <2>2, <3>1 DEF RequestTypes, Rows, Whole, Held, HeldBy, CommitSave, NoRow
      <4>2. /\ row'[i].def = d /\ ~row'[i].deleted /\ nodes'[i] = d
            /\ \A j \in Ids \ {i} : row'[j] = row[j] /\ nodes'[j] = nodes[j]
        BY <1>2, <2>2, <3>1 DEF RequestTypes, CommitSave
      <4>3. Def[i] # "deleted"
        BY <4>1, StoreParams
      <4>4. Def' = [Def EXCEPT ![i] = d]
        BY <4>2
      <4> QED BY <4>3, <4>4 DEF Abstract!Save
    <3> QED BY <3>1, <3>2 DEF Abstract!Next
  <2>3. ASSUME NEW r \in Requests, CommitDelete(r)
        PROVE  Abstract!Next
    <3>1. PICK i \in Ids : i = req[r].id /\ row[i].def \in Defs /\ ~row[i].deleted
      BY <1>2, <2>3 DEF Held, HeldBy, CommitDelete
    <3>2. Abstract!Delete(i)
      BY <1>2, <2>3, <3>1 DEF Abstract!Delete, RequestTypes, Rows, Whole, CommitDelete
    <3> QED BY <3>1, <3>2 DEF Abstract!Next
  <2>4. UNCHANGED <<row, nodes>> \/ \E r \in Requests : CommitSave(r) \/ CommitDelete(r)
    BY <1>2, WorkerKeeps DEF Next, WorkerStep, SaveEnds, vars, tables, SelectForUpdate,
                         RequestFails
  <2> QED BY <2>1, <2>2, <2>3, <2>4
<1> QED BY <1>1, <1>2, RequestsStay, PTL DEF Spec, ImplementsDefinitionStore, Abstract!Spec
-----------------------------------------------------------------------------
(* The worker *)

Executions ==
  [pc : {"absent", "loading", "running", "saving", "ended"},
   id : Ids \cup {None}, row : Defs \cup {None}, nodes : Defs \cup {None},
   raced : BOOLEAN, tries : 0 .. MaxTries,
   answered : BOOLEAN, undone : BOOLEAN, saved : {"no", "ok", "failed", "cancelled"}]

Sessions == [pending : SUBSET Execs, late : SUBSET Execs, work : [Execs -> 0 .. MaxTries],
             aborted : BOOLEAN, busy : Execs \cup {None}]

\* No query has taken effect more often than its node was tried.
SessionTypes ==
  /\ records \in [Execs -> {"none", "saved", "updated"}]
  /\ durable \in [Execs -> 0 .. MaxTries]
  /\ session \in Sessions
  /\ ex \in [Execs -> Executions]
  /\ \A e \in Execs : durable[e] + session.work[e] <= ex[e].tries
  /\ \A e \in Execs : ex[e].pc = "loading" => ex[e].id \in Ids

\* The requests leave the session alone; a save may tell who loads of a race.
RequestStepped ==
  \/ \E r \in Requests, org \in Orgs, i \in Ids, d \in Defs \cup {None} :
       SelectForUpdate(r, org, i, d)
  \/ \E r \in Requests : CommitSave(r) \/ CommitDelete(r) \/ RequestFails(r)

\* A request touches neither the records nor the session of the worker.
LEMMA RequestsLeave ==
  ASSUME SessionTypes, RequestStepped
  PROVE  /\ UNCHANGED <<records, durable, session>>
         /\ ex' \in [Execs -> Executions]
         /\ \A e \in Execs : ex'[e] = ex[e] \/ ex'[e] = [ex[e] EXCEPT !.raced = TRUE]
<1>1. CASE UNCHANGED <<records, durable, session, ex>>
  BY <1>1 DEF SessionTypes
<1>2. CASE \E r \in Requests : CommitSave(r)
  <2>1. UNCHANGED <<records, durable, session>> /\ \E i : Races(i)
    BY <1>2 DEF CommitSave
  <2>2. \A e \in Execs : ex'[e] = ex[e] \/ ex'[e] = [ex[e] EXCEPT !.raced = TRUE]
    BY <2>1 DEF Races
  <2>3. \A e \in Execs : [ex[e] EXCEPT !.raced = TRUE] \in Executions
    BY DEF SessionTypes, Executions
  <2>4. ex' \in [Execs -> Executions]
    <3>1. \A e \in Execs : ex'[e] \in Executions
      BY <2>2, <2>3 DEF SessionTypes
    <3>2. ex' = [e \in Execs |-> ex'[e]]
      BY <2>1 DEF Races
    <3> QED BY <3>1, <3>2
  <2> QED BY <2>1, <2>2, <2>4
<1> QED BY <1>1, <1>2 DEF RequestStepped, SelectForUpdate, CommitDelete, RequestFails

\* All it does to an execution is to race with its load.
LEMMA OnlyRaced ==
  ASSUME SessionTypes, RequestStepped, NEW e \in Execs
  PROVE  /\ ex'[e].pc = ex[e].pc /\ ex'[e].id = ex[e].id /\ ex'[e].row = ex[e].row
         /\ ex'[e].nodes = ex[e].nodes /\ ex'[e].tries = ex[e].tries
         /\ ex'[e].answered = ex[e].answered /\ ex'[e].undone = ex[e].undone
         /\ ex'[e].saved = ex[e].saved /\ (ex[e].raced => ex'[e].raced)
<1>1. ex'[e] = ex[e] \/ ex'[e] = [ex[e] EXCEPT !.raced = TRUE]
  BY RequestsLeave
<1>2. ex[e] \in Executions
  BY DEF SessionTypes
<1> QED BY <1>1, <1>2 DEF Executions

\* A load answers with the row, or with the object another load of it holds.
Loads(e, i, pc, seen, raced) ==
  /\ ex' = [ex EXCEPT ![e] = [ex[e] EXCEPT !.pc = pc, !.id = i, !.row = seen, !.raced = raced]]
  /\ ex[e].pc = "absent" /\ (pc = "loading" => row[i].def # None)
  /\ \/ seen = row[i].def /\ raced = FALSE
     \/ \E d \in Execs : /\ ex[d].pc = "loading" /\ ex[d].id = i
                         /\ seen = ex[d].row /\ raced = ex[d].raced

\* What the first statement of get_workflow brings: the row of now, or the one another load holds.
LEMMA LoadRowEffect ==
  ASSUME NEW e \in Execs, NEW i \in Ids, LoadRow(e, i)
  PROVE  \E pc \in {"loading", "ended"} : \E seen, raced : Loads(e, i, pc, seen, raced)
<1> DEFINE holders == {d \in Execs : ex[d].pc = "loading" /\ ex[d].id = i}
           holder == CHOOSE d \in holders : TRUE
           got == IF holders = {} THEN [row |-> row[i].def, raced |-> FALSE]
                  ELSE [row |-> ex[holder].row, raced |-> ex[holder].raced]
<1>1. /\ ex[e].pc = "absent"
      /\ ex' = [ex EXCEPT ![e].pc = IF Visible(i, None) THEN "loading" ELSE "ended",
                          ![e].id = i, ![e].row = got.row, ![e].raced = got.raced]
  BY DEF LoadRow
<1>2. holders # {} => holder \in holders
  OBVIOUS
<1>3. PICK seen, raced : seen = got.row /\ raced = got.raced
  OBVIOUS
<1>4. \/ seen = row[i].def /\ raced = FALSE
      \/ \E d \in Execs : /\ ex[d].pc = "loading" /\ ex[d].id = i
                          /\ seen = ex[d].row /\ raced = ex[d].raced
  BY <1>2, <1>3
<1> HIDE DEF got
<1>5. CASE Visible(i, None)
  <2>1. ex' = [ex EXCEPT ![e] = [ex[e] EXCEPT !.pc = "loading", !.id = i, !.row = seen,
                                              !.raced = raced]]
    BY <1>1, <1>3, <1>5
  <2>2. row[i].def # None
    BY <1>5 DEF Visible
  <2>3. Loads(e, i, "loading", seen, raced)
    BY <1>1, <1>4, <2>1, <2>2 DEF Loads
  <2> QED BY <2>3
<1>6. CASE ~Visible(i, None)
  <2>1. ex' = [ex EXCEPT ![e] = [ex[e] EXCEPT !.pc = "ended", !.id = i, !.row = seen,
                                              !.raced = raced]]
    BY <1>1, <1>3, <1>6
  <2>2. Loads(e, i, "ended", seen, raced)
    BY <1>1, <1>4, <2>1 DEF Loads
  <2> QED BY <2>2
<1> QED BY <1>5, <1>6

\* A save leaves the session to the next one, with no change that is not committed.
SessionAfter(left, aborted) ==
  session' = [session EXCEPT !.pending = left, !.late = {}, !.work = NoWork,
                             !.aborted = aborted, !.busy = None]

\* The end of a save that commits: all it can tell is how it ended.
LEMMA Committing ==
  ASSUME SessionTypes, NEW e \in Execs, SaveSucceeds(e) \/ SaveUnanswered(e)
  PROVE  \E left, kept \in SUBSET session.late, aborted \in BOOLEAN,
            saved \in {"ok", "failed", "cancelled"} :
           /\ Stores(e, left) /\ kept \in {{}, left} /\ SessionAfter(kept, aborted)
           /\ ex' = [ex EXCEPT ![e] = [ex[e] EXCEPT !.pc = "ended", !.saved = saved]]
<1>0. session \in Sessions
  BY DEF SessionTypes
<1>1. CASE SaveSucceeds(e)
  <2>1. PICK left \in SUBSET session.late :
          /\ Stores(e, left)
          /\ session' = [session EXCEPT !.pending = left, !.late = {}, !.work = NoWork,
                                        !.busy = None]
          /\ ex' = [ex EXCEPT ![e].pc = "ended", ![e].saved = "ok"]
    BY <1>1 DEF SaveSucceeds
  <2>2. ~session.aborted /\ session.aborted = FALSE
    BY <1>0, <2>1 DEF Stores, Sessions
  <2>3. SessionAfter(left, FALSE)
    BY <1>0, <2>1, <2>2 DEF SessionAfter, Sessions
  <2>4. ex' = [ex EXCEPT ![e] = [ex[e] EXCEPT !.pc = "ended", !.saved = "ok"]]
    BY <2>1
  <2> QED BY <2>1, <2>3, <2>4
<1>2. CASE SaveUnanswered(e)
  <2>1. PICK left \in SUBSET session.late, cancelled \in BOOLEAN :
          /\ Stores(e, left)
          /\ session' = [session EXCEPT !.pending = {}, !.late = {}, !.work = NoWork,
                                        !.aborted = cancelled, !.busy = None]
          /\ ex' = [ex EXCEPT ![e].pc = "ended",
                              ![e].saved = IF cancelled THEN "cancelled" ELSE "failed"]
    BY <1>2 DEF SaveUnanswered
  <2>2. PICK saved \in {"failed", "cancelled"} :
          saved = IF cancelled THEN "cancelled" ELSE "failed"
    OBVIOUS
  <2>3. ex' = [ex EXCEPT ![e] = [ex[e] EXCEPT !.pc = "ended", !.saved = saved]]
    BY <2>1, <2>2
  <2>4. PICK kept \in SUBSET session.late : kept = {}
    OBVIOUS
  <2>5. SessionAfter(kept, cancelled) /\ kept \in {{}, left}
    BY <2>1, <2>4 DEF SessionAfter
  <2>6. saved \in {"ok", "failed", "cancelled"}
    OBVIOUS
  <2> WITNESS left \in SUBSET session.late, kept \in SUBSET session.late,
              cancelled \in BOOLEAN, saved \in {"ok", "failed", "cancelled"}
  <2> QED BY <2>1, <2>3, <2>5
<1> QED BY <1>1, <1>2

\* The end of a save that does not: everybody's changes that await the commit are gone.
LEMMA Undoing ==
  ASSUME NEW e \in Execs, SaveFails(e) \/ SaveCancelled(e)
  PROVE  \E aborted \in BOOLEAN, outcome \in {"failed", "cancelled"} :
           Undoes(e, outcome) /\ SessionAfter({}, aborted)
BY DEF SaveFails, SaveCancelled, SessionAfter

\* The types hold at the start.
LEMMA SessionInit == Init => SessionTypes
<1> SUFFICES ASSUME Init PROVE SessionTypes
  OBVIOUS
<1>1. 0 \in 0 .. MaxTries
  BY StoreParams
<1>2. ex \in [Execs -> Executions]
  BY <1>1 DEF Init, Executions
<1>3. session \in Sessions
  BY <1>1 DEF Init, Sessions, NoWork
<1> QED BY <1>1, <1>2, <1>3 DEF Init, SessionTypes, NoWork

\* A load keeps the types of the session.
LEMMA LoadTypes ==
  ASSUME SessionTypes, RequestTypes, NEW e \in Execs,
         (\E i \in Ids : LoadRow(e, i)) \/ LoadNodes(e) \/ LoadFails(e)
  PROVE  SessionTypes'
<1> USE DEF SessionTypes
<1>1. ASSUME NEW i \in Ids, LoadRow(e, i)
      PROVE  SessionTypes'
  <2>1. PICK pc \in {"loading", "ended"} : \E seen, raced : Loads(e, i, pc, seen, raced)
    BY <1>1, LoadRowEffect
  <2>3. PICK seen, raced : Loads(e, i, pc, seen, raced)
    BY <2>1
  <2> DEFINE new == [ex[e] EXCEPT !.pc = pc, !.id = i, !.row = seen, !.raced = raced]
  <2>2. seen \in Defs \cup {None} /\ raced \in BOOLEAN
    <3>1. row[i].def \in Defs \cup {None}
      BY DEF RequestTypes, Rows
    <3>2. \A d \in Execs : ex[d].row \in Defs \cup {None} /\ ex[d].raced \in BOOLEAN
      BY DEF Executions
    <3> QED BY <2>3, <3>1, <3>2 DEF Loads
  <2>4. UNCHANGED <<records, durable, session>>
    BY <1>1 DEF LoadRow
  <2>5. new \in Executions /\ new.tries = ex[e].tries /\ new.id = i
    BY <2>2 DEF Executions
  <2>6. ex' = [ex EXCEPT ![e] = new]
    BY <2>3 DEF Loads
  <2> HIDE DEF new
  <2>7. ex' \in [Execs -> Executions] /\ ex'[e] = new /\ \A d \in Execs \ {e} : ex'[d] = ex[d]
    BY <2>5, <2>6
  <2> QED BY <2>4, <2>5, <2>7
<1>2. CASE LoadNodes(e)
  <2> DEFINE new == [ex[e] EXCEPT !.pc = "running", !.nodes = nodes[ex[e].id]]
  <2>1. nodes[ex[e].id] \in Defs \cup {None}
    <3>1. ex[e].pc = "loading"
      BY <1>2 DEF LoadNodes
    <3>2. ex[e].id \in Ids
      BY <3>1
    <3> QED BY <3>2 DEF RequestTypes
  <2>2. new \in Executions /\ new.tries = ex[e].tries /\ new.pc = "running"
    BY <2>1 DEF Executions
  <2>3. ex' = [ex EXCEPT ![e] = new] /\ UNCHANGED <<records, durable, session>>
    BY <1>2 DEF LoadNodes
  <2> HIDE DEF new
  <2>4. ex' \in [Execs -> Executions] /\ ex'[e] = new /\ \A d \in Execs \ {e} : ex'[d] = ex[d]
    BY <2>2, <2>3
  <2> QED BY <2>2, <2>3, <2>4
<1>3. CASE LoadFails(e)
  <2>1. ex' = [ex EXCEPT ![e] = [ex[e] EXCEPT !.pc = "ended"]]
    BY <1>3 DEF LoadFails
  <2>2. [ex[e] EXCEPT !.pc = "ended"] \in Executions
    BY DEF Executions
  <2>3. ex' \in [Execs -> Executions]
    BY <2>1, <2>2
  <2>4. \A d \in Execs : ex'[d].tries = ex[d].tries /\ (ex'[d].pc = "loading" => ex'[d] = ex[d])
    BY <2>1 DEF Executions
  <2>5. session' \in Sessions /\ UNCHANGED <<records, durable>> /\ session'.work = session.work
    BY <1>3 DEF LoadFails, StatementFails, Sessions
  <2> QED BY <2>3, <2>4, <2>5
<1> QED BY <1>1, <1>2, <1>3

\* So does a query,
LEMMA QueryTypes ==
  ASSUME SessionTypes, NEW e \in Execs, Query(e) \/ QueryFails(e)
  PROVE  SessionTypes'
<1> USE DEF SessionTypes
<1>1. /\ ex[e] \in Executions /\ ex[e].tries < MaxTries /\ MaxTries \in Nat
      /\ ex[e].tries \in 0 .. MaxTries /\ ex[e].pc = "running"
  BY StoreParams DEF Query, QueryFails, Executions
<1>2. CASE Query(e)
  <2> DEFINE tries == IF e \in Rowless THEN ex[e].tries + 1 ELSE MaxTries
             new == [ex[e] EXCEPT !.tries = tries, !.answered = e \notin Rowless]
  <2>1. tries \in 0 .. MaxTries /\ tries > ex[e].tries
    BY <1>1
  <2>2. ex' = [ex EXCEPT ![e] = new] /\ UNCHANGED <<records, durable>>
    BY <1>2 DEF Query
  <2>3. (e \notin Rowless) \in BOOLEAN
    OBVIOUS
  <2> HIDE DEF tries
  <2>4. new \in Executions /\ new.tries = tries /\ new.pc = "running"
    BY <1>1, <2>1, <2>3 DEF Executions
  <2> HIDE DEF new
  <2>5. ex' \in [Execs -> Executions] /\ ex'[e] = new /\ \A d \in Execs \ {e} : ex'[d] = ex[d]
    BY <2>2, <2>4
  <2>6. /\ session.work \in [Execs -> 0 .. MaxTries]
        /\ session.work[e] + 1 \in 0 .. MaxTries /\ durable[e] + session.work[e] + 1 <= tries
    <3>1. session.work \in [Execs -> 0 .. MaxTries]
      BY DEF Sessions
    <3>2. durable[e] \in Nat /\ session.work[e] \in Nat
      BY <3>1
    <3>3. durable[e] + session.work[e] <= ex[e].tries
      OBVIOUS
    <3> QED BY <1>1, <2>1, <3>1, <3>2, <3>3
  <2>7. session' = session \/ session' = [session EXCEPT !.work[e] = @ + 1]
    BY <1>2 DEF Query
  <2>8. /\ session' \in Sessions
        /\ session'.work[e] \in {session.work[e], session.work[e] + 1}
        /\ \A d \in Execs \ {e} : session'.work[d] = session.work[d]
    BY <2>6, <2>7 DEF Sessions
  <2>9. \A d \in Execs : durable'[d] + session'.work[d] <= ex'[d].tries
    <3>1. durable[e] \in Nat /\ session.work[e] \in Nat
      BY <2>6
    <3>2. durable'[e] + session'.work[e] <= ex'[e].tries
      BY <2>1, <2>2, <2>4, <2>5, <2>6, <2>8, <3>1
    <3>3. \A d \in Execs : durable[d] + session.work[d] <= ex[d].tries
      OBVIOUS
    <3>4. \A d \in Execs \ {e} : durable'[d] + session'.work[d] = durable[d] + session.work[d]
      BY <2>2, <2>8
    <3> QED BY <2>5, <3>2, <3>3, <3>4
  <2> QED BY <2>2, <2>4, <2>5, <2>8, <2>9
<1>3. CASE QueryFails(e)
  <2> DEFINE new == [ex[e] EXCEPT !.tries = @ + 1]
  <2>1. new \in Executions /\ new.tries = ex[e].tries + 1 /\ new.pc = "running"
    BY <1>1 DEF Executions
  <2>2. ex' = [ex EXCEPT ![e] = new]
    BY <1>3 DEF QueryFails
  <2> HIDE DEF new
  <2>3. ex' \in [Execs -> Executions] /\ ex'[e] = new /\ \A d \in Execs \ {e} : ex'[d] = ex[d]
    BY <2>1, <2>2
  <2>4. session' \in Sessions /\ UNCHANGED <<records, durable>> /\ session'.work = session.work
    BY <1>3 DEF QueryFails, StatementFails, Sessions
  <2>5. durable[e] \in Nat /\ session.work[e] \in Nat
    BY DEF Sessions
  <2> QED BY <1>1, <2>1, <2>3, <2>4, <2>5
<1> QED BY <1>2, <1>3

\* and so does a save.
LEMMA SaveTypes ==
  ASSUME SessionTypes, NEW e \in Execs, SaveBegins(e) \/ SaveEnds(e)
  PROVE  SessionTypes'
<1> USE DEF SessionTypes
<1>0. /\ ex[e] \in Executions /\ session.work \in [Execs -> 0 .. MaxTries]
      /\ MaxTries \in Nat /\ NoWork \in [Execs -> 0 .. MaxTries]
  BY StoreParams DEF Sessions, NoWork
<1>1. CASE SaveBegins(e)
  <2>1. PICK pc \in {"saving", "ended"}, saved \in {ex[e].saved, "failed"} :
          ex' = [ex EXCEPT ![e] = [ex[e] EXCEPT !.pc = pc, !.saved = saved]]
    BY <1>1 DEF SaveBegins, Executions
  <2> DEFINE new == [ex[e] EXCEPT !.pc = pc, !.saved = saved]
  <2>2. new \in Executions /\ new.tries = ex[e].tries /\ new.pc # "loading"
    BY <1>0 DEF Executions
  <2> HIDE DEF new
  <2>3. ex' \in [Execs -> Executions] /\ ex'[e] = new /\ \A d \in Execs \ {e} : ex'[d] = ex[d]
    BY <2>1, <2>2 DEF new
  <2>4. session' \in Sessions /\ UNCHANGED <<records, durable>> /\ session'.work = session.work
    <3>1. session' \in Sessions /\ session'.work = session.work
      <4>1. CASE session.busy = None
        <5>1. session' = [session EXCEPT !.pending = @ \cup {e}, !.busy = e]
          BY <1>1, <4>1 DEF SaveBegins
        <5> QED BY <5>1 DEF Sessions
      <4>2. CASE session.busy # None
        <5>1. session' = [session EXCEPT !.pending = @ \cup {e}, !.late = @ \cup {e}]
          BY <1>1, <4>2 DEF SaveBegins
        <5> QED BY <5>1 DEF Sessions
      <4> QED BY <4>1, <4>2
    <3>2. UNCHANGED <<records, durable>>
      BY <1>1 DEF SaveBegins
    <3> QED BY <3>1, <3>2
  <2> QED BY <2>2, <2>3, <2>4
<1>2. CASE SaveSucceeds(e) \/ SaveUnanswered(e)
  <2>0. PICK left, kept \in SUBSET session.late, aborted \in BOOLEAN,
             saved \in {"ok", "failed", "cancelled"} :
          /\ Stores(e, left) /\ kept \in {{}, left} /\ SessionAfter(kept, aborted)
          /\ ex' = [ex EXCEPT ![e] = [ex[e] EXCEPT !.pc = "ended", !.saved = saved]]
    BY <1>2, Committing
  <2> DEFINE new == [ex[e] EXCEPT !.pc = "ended", !.saved = saved]
  <2>1. new \in Executions /\ new.tries = ex[e].tries /\ new.pc = "ended"
    BY <1>0 DEF Executions
  <2>2. ex' = [ex EXCEPT ![e] = new]
    BY <2>0
  <2> HIDE DEF new
  <2>3. ex' \in [Execs -> Executions] /\ ex'[e] = new /\ \A d \in Execs \ {e} : ex'[d] = ex[d]
    BY <2>1, <2>2
  <2>4. records' = [d \in Execs |-> IF d \in session.pending \ left
                                    THEN "saved" ELSE records[d]]
    BY <2>0 DEF Stores
  <2>5. session' \in Sessions /\ session'.work = NoWork
    BY <1>0, <2>0 DEF SessionAfter, Sessions
  <2>6. records' \in [Execs -> {"none", "saved", "updated"}]
    BY <2>4
  <2>7. durable' = [d \in Execs |-> durable[d] + session.work[d]]
    BY <2>0 DEF Stores
  <2>8. \A d \in Execs : /\ durable[d] + session.work[d] \in 0 .. MaxTries
                         /\ ex[d].tries \in 0 .. MaxTries
                         /\ durable[d] + session.work[d] <= ex[d].tries
    <3> TAKE d \in Execs
    <3>1. ex[d].tries \in 0 .. MaxTries
      BY DEF Executions
    <3>2. durable[d] \in Nat /\ session.work[d] \in Nat
      BY <1>0
    <3>3. durable[d] + session.work[d] <= ex[d].tries
      OBVIOUS
    <3> QED BY <1>0, <3>1, <3>2, <3>3
  <2>9. durable' \in [Execs -> 0 .. MaxTries]
    BY <2>7, <2>8
  <2>10. \A d \in Execs : durable'[d] + session'.work[d] <= ex'[d].tries
    <3> TAKE d \in Execs
    <3>1. durable'[d] = durable[d] + session.work[d] /\ session'.work[d] = 0
      BY <2>5, <2>7 DEF NoWork
    <3>2. ex'[d].tries = ex[d].tries
      BY <2>1, <2>3
    <3> QED BY <2>8, <3>1, <3>2
  <2>11. \A d \in Execs : ex'[d].pc = "loading" => ex'[d].id \in Ids
    BY <2>1, <2>3
  <2> QED BY <2>3, <2>5, <2>6, <2>9, <2>10, <2>11
<1>3. CASE SaveFails(e) \/ SaveCancelled(e)
  <2>0. PICK aborted \in BOOLEAN, outcome \in {"failed", "cancelled"} :
          Undoes(e, outcome) /\ SessionAfter({}, aborted)
    BY <1>3, Undoing
  <2>1. UNCHANGED <<records, durable>> /\ session' \in Sessions /\ session'.work = NoWork
    BY <1>0, <2>0 DEF Undoes, SessionAfter, Sessions
  <2>2. \A d \in Execs : /\ ex'[d] \in Executions /\ ex'[d].tries = ex[d].tries
                         /\ ex'[d].id = ex[d].id
                         /\ ex'[d].pc = "loading" => ex[d].pc = "loading"
    <3> TAKE d \in Execs
    <3>1. PICK pc \in {"ended", ex[d].pc}, saved \in {outcome, ex[d].saved}, undone \in BOOLEAN :
            ex'[d] = [ex[d] EXCEPT !.pc = pc, !.saved = saved, !.undone = undone]
      BY <2>0 DEF Undoes, Executions
    <3>2. ex[d] \in Executions
      OBVIOUS
    <3> QED BY <3>1, <3>2 DEF Executions
  <2>3. ex' = [d \in Execs |-> ex'[d]]
    BY <2>0 DEF Undoes
  <2>4. ex' \in [Execs -> Executions]
    BY <2>2, <2>3
  <2>5. \A d \in Execs : durable[d] + NoWork[d] <= ex[d].tries
    <3> TAKE d \in Execs
    <3>1. durable[d] \in Nat /\ session.work[d] \in Nat /\ NoWork[d] = 0
      BY <1>0 DEF NoWork
    <3>2. ex[d].tries \in Nat
      BY <1>0 DEF Executions
    <3>3. durable[d] + session.work[d] <= ex[d].tries
      OBVIOUS
    <3> QED BY <3>1, <3>2, <3>3
  <2>6. \A d \in Execs : ex'[d].pc = "loading" => ex'[d].id \in Ids
    BY <2>2
  <2>7. \A d \in Execs : durable'[d] + session'.work[d] <= ex'[d].tries
    BY <2>1, <2>2, <2>5
  <2> QED BY <2>1, <2>4, <2>6, <2>7
<1> QED BY <1>1, <1>2, <1>3 DEF SaveEnds

\* Every step keeps them.
LEMMA SessionStep ==
  ASSUME RequestInv, SessionTypes, [Next]_vars
  PROVE  SessionTypes'
<1>1. CASE UNCHANGED vars
  BY <1>1 DEF vars, SessionTypes
<1>2. CASE RequestStepped
  <2>1. \A e \in Execs : ex'[e].tries = ex[e].tries /\ ex'[e].pc = ex[e].pc /\ ex'[e].id = ex[e].id
    BY <1>2, OnlyRaced
  <2> QED BY <1>2, <2>1, RequestsLeave DEF SessionTypes
<1>3. ASSUME NEW org \in Orgs, NEW e \in Execs, UpdateTask(org, e)
      PROVE  SessionTypes'
  <2>1. records' \in [Execs -> {"none", "saved", "updated"}] /\ UNCHANGED <<durable, session, ex>>
    BY <1>3 DEF UpdateTask, SessionTypes
  <2> QED BY <2>1 DEF SessionTypes
<1>4. ASSUME NEW e \in Execs, NEW i \in Ids, LoadRow(e, i)
      PROVE  SessionTypes'
  BY <1>4, LoadTypes DEF RequestInv
<1>5. ASSUME NEW e \in Execs, LoadNodes(e) \/ LoadFails(e)
      PROVE  SessionTypes'
  BY <1>5, LoadTypes DEF RequestInv
<1>6. ASSUME NEW e \in Execs, Query(e) \/ QueryFails(e)
      PROVE  SessionTypes'
  BY <1>6, QueryTypes
<1>7. ASSUME NEW e \in Execs, SaveBegins(e) \/ SaveEnds(e)
      PROVE  SessionTypes'
  BY <1>7, SaveTypes
<1> QED BY <1>1, <1>2, <1>3, <1>4, <1>5, <1>6, <1>7 DEF Next, RequestStepped,
                                                                    SaveEnds

\* The requests and the types of the session hold throughout.
LEMMA SessionStays == Spec => [](RequestInv /\ SessionTypes)
BY RequestInit, RequestStep, SessionInit, SessionStep, PTL DEF Spec

\* Types; in particular the change of a query is executed and committed at most
\* retry_count + 1 times (_execute_database_query, execute_workflow).
THEOREM TypeCorrect == Spec => []TypeOK
<1>1. RequestInv /\ SessionTypes => TypeOK
  BY DEF RequestInv, RequestTypes, SessionTypes, TypeOK, Rows, Operations, Sessions, Executions
<1> QED BY <1>1, SessionStays, PTL

-----------------------------------------------------------------------------
(* The changes of queries *)

\* What an execution knows of its query, and what became of the change.
Answer(e) ==
  LET made == durable[e] + session.work[e] IN
  /\ e \in Rowless => ~ex[e].answered
  /\ e \notin Rowless \cup Emailed =>
       IF ex[e].answered
       THEN ex[e].tries = MaxTries /\ made = IF ex[e].undone THEN 0 ELSE 1
       ELSE made = 0 /\ ~ex[e].undone

Answers == \A e \in Execs : Answer(e)

\* A step that makes no change and takes none back.
Quiet(e) ==
  /\ durable'[e] = durable[e] /\ session'.work[e] = session.work[e]
  /\ ex'[e].answered = ex[e].answered /\ ex'[e].undone = ex[e].undone
  /\ ex[e].tries = MaxTries => ex'[e].tries = MaxTries

\* A step that is quiet for an execution leaves what became of its change.
LEMMA QuietStays ==
  ASSUME NEW e \in Execs, Answer(e), Quiet(e)
  PROVE  Answer(e)'
BY DEF Answer, Quiet

\* All steps but queries that take effect and ends of saves are quiet.
LEMMA QuietSteps ==
  ASSUME SessionTypes, NEW e \in Execs,
         \/ LoadNodes(e) \/ LoadFails(e) \/ QueryFails(e) \/ SaveBegins(e)
         \/ \E i \in Ids : LoadRow(e, i)
         \/ \E org \in Orgs : UpdateTask(org, e)
         \/ RequestStepped \/ UNCHANGED vars
  PROVE  \A d \in Execs : Quiet(d)
<1> USE DEF SessionTypes
<1>1. CASE UNCHANGED <<durable, session, ex>>
  BY <1>1 DEF Quiet
<1>2. CASE RequestStepped
  <2> QED BY <1>2, OnlyRaced, RequestsLeave DEF Quiet
<1>3. ASSUME NEW new, ex' = [ex EXCEPT ![e] = new], UNCHANGED durable, session'.work = session.work,
             new.answered = ex[e].answered, new.undone = ex[e].undone,
             ex[e].tries = MaxTries => new.tries = MaxTries
      PROVE  \A d \in Execs : Quiet(d)
  <2>1. ex'[e] = new /\ \A d \in Execs \ {e} : ex'[d] = ex[d]
    BY <1>3
  <2> QED BY <1>3, <2>1 DEF Quiet
<1>4. ex[e] \in Executions
  OBVIOUS
<1>5. CASE LoadNodes(e)
  <2>1. ex' = [ex EXCEPT ![e] = [ex[e] EXCEPT !.pc = "running", !.nodes = nodes[ex[e].id]]]
    BY <1>5 DEF LoadNodes
  <2> QED BY <1>3, <1>4, <1>5, <2>1 DEF LoadNodes, Executions
<1>6. CASE LoadFails(e)
  <2>1. ex' = [ex EXCEPT ![e] = [ex[e] EXCEPT !.pc = "ended"]]
    BY <1>6 DEF LoadFails
  <2>2. UNCHANGED durable /\ session'.work = session.work
    BY <1>6 DEF LoadFails, StatementFails, Sessions
  <2> QED BY <1>3, <1>4, <2>1, <2>2 DEF Executions
<1>7. CASE QueryFails(e)
  <2>1. ex' = [ex EXCEPT ![e] = [ex[e] EXCEPT !.tries = @ + 1]] /\ ex[e].tries < MaxTries
    BY <1>7 DEF QueryFails
  <2>2. UNCHANGED durable /\ session'.work = session.work
    BY <1>7 DEF QueryFails, StatementFails, Sessions
  <2>3. ex[e].tries # MaxTries
    BY <1>4, <2>1, StoreParams DEF Executions
  <2> QED BY <1>3, <1>4, <2>1, <2>2, <2>3 DEF Executions
<1>8. CASE SaveBegins(e)
  <2>1. PICK pc \in {"saving", "ended"}, saved \in {ex[e].saved, "failed"} :
          ex' = [ex EXCEPT ![e] = [ex[e] EXCEPT !.pc = pc, !.saved = saved]]
    BY <1>8 DEF SaveBegins, Executions
  <2>2. UNCHANGED durable
    BY <1>8 DEF SaveBegins
  <2>3. session'.work = session.work
    <3>1. CASE session.busy = None
      BY <1>8, <3>1 DEF SaveBegins, Sessions
    <3>2. CASE session.busy # None
      BY <1>8, <3>2 DEF SaveBegins, Sessions
    <3> QED BY <3>1, <3>2
  <2> QED BY <1>3, <1>4, <2>1, <2>2, <2>3 DEF Executions
<1>9. ASSUME NEW i \in Ids, LoadRow(e, i)
      PROVE  \A d \in Execs : Quiet(d)
  <2>3. PICK pc, seen, raced : Loads(e, i, pc, seen, raced)
    BY <1>9, LoadRowEffect
  <2>1. ex' = [ex EXCEPT ![e] = [ex[e] EXCEPT !.pc = pc, !.id = i, !.row = seen, !.raced = raced]]
    BY <2>3 DEF Loads
  <2>2. UNCHANGED <<durable, session>>
    BY <1>9 DEF LoadRow
  <2> QED BY <1>3, <1>4, <2>1, <2>2 DEF Executions
<1> QED BY <1>1, <1>2, <1>5, <1>6, <1>7, <1>8, <1>9 DEF UpdateTask, vars

\* At the start nothing has been changed.
LEMMA AnswerInit == Init => Answers
<1> SUFFICES ASSUME Init, NEW e \in Execs PROVE Answer(e)
  BY DEF Answers
<1>1. /\ durable[e] = 0 /\ session.work[e] = 0
      /\ ex[e].answered = FALSE /\ ex[e].undone = FALSE
  BY DEF Init, NoWork
<1> QED BY <1>1 DEF Answer

\* A query that answers makes its change once; it is not tried again.
LEMMA QueryAnswers ==
  ASSUME SessionTypes, Answers, NEW e \in Execs, Query(e)
  PROVE  Answers'
<1> USE DEF SessionTypes
<1> DEFINE tries == IF e \in Rowless THEN ex[e].tries + 1 ELSE MaxTries
           new == [ex[e] EXCEPT !.tries = tries, !.answered = e \notin Rowless]
<1>1. /\ ex' = [ex EXCEPT ![e] = new] /\ UNCHANGED durable /\ ex[e].tries < MaxTries
      /\ e \notin Emailed => session' = [session EXCEPT !.work[e] = @ + 1]
      /\ e \in Emailed => session' = session
  BY DEF Query
<1>2. /\ new.tries = tries /\ new.answered = (e \notin Rowless) /\ new.undone = ex[e].undone
      /\ ex[e].tries \in Nat /\ MaxTries \in Nat
  BY StoreParams DEF Executions
<1> HIDE DEF new
<1>3. ex'[e] = new /\ \A d \in Execs \ {e} : ex'[d] = ex[d]
  BY <1>1
<1>4. /\ \A d \in Execs \ {e} : session'.work[d] = session.work[d]
      /\ e \notin Emailed => session'.work[e] = session.work[e] + 1
  BY <1>1 DEF Sessions
<1>5. Answer(e)'
  <2>1. CASE e \in Rowless \cup Emailed
    BY <1>2, <1>3, <2>1 DEF Answer
  <2>2. CASE e \notin Rowless \cup Emailed
    <3>1. ~ex[e].answered
      BY <1>1, <1>2, <2>2 DEF Answers, Answer
    <3>2. durable[e] + session.work[e] = 0 /\ ~ex[e].undone
      BY <2>2, <3>1 DEF Answers, Answer
    <3>3. durable[e] \in Nat /\ session.work[e] \in Nat
      BY DEF Sessions
    <3>4. durable'[e] + session'.work[e] = 1
      BY <1>1, <1>4, <2>2, <3>2, <3>3
    <3>5. ex'[e].answered /\ ex'[e].tries = MaxTries /\ ~ex'[e].undone
      BY <1>2, <1>3, <2>2, <3>2
    <3> QED BY <2>2, <3>4, <3>5 DEF Answer
  <2> QED BY <2>1, <2>2
<1>6. ASSUME NEW d \in Execs \ {e}
      PROVE  Answer(d)'
  BY <1>1, <1>3, <1>4 DEF Answers, Answer
<1> QED BY <1>5, <1>6 DEF Answers

\* A commit makes the changes of all executions durable, a rollback takes them back.
LEMMA SaveAnswers ==
  ASSUME SessionTypes, Answers, NEW e \in Execs, SaveEnds(e)
  PROVE  Answers'
<1> SUFFICES ASSUME NEW d \in Execs
             PROVE  Answer(d)'
  BY DEF Answers
<1>0. /\ durable[d] \in Nat /\ session.work[d] \in Nat /\ NoWork[d] = 0
      /\ ex[d] \in Executions /\ session \in Sessions /\ Answer(d)
  BY StoreParams DEF SessionTypes, Sessions, NoWork, Answers
<1>1. CASE SaveSucceeds(e) \/ SaveUnanswered(e)
  <2>2. PICK left, kept \in SUBSET session.late, aborted \in BOOLEAN,
             saved \in {"ok", "failed", "cancelled"} :
          /\ Stores(e, left) /\ kept \in {{}, left} /\ SessionAfter(kept, aborted)
          /\ ex' = [ex EXCEPT ![e] = [ex[e] EXCEPT !.pc = "ended", !.saved = saved]]
    BY <1>1, Committing
  <2>1. durable'[d] = durable[d] + session.work[d] /\ session'.work = NoWork
    BY <1>0, <2>2 DEF Stores, SessionAfter, Sessions
  <2>3. /\ ex'[d].answered = ex[d].answered /\ ex'[d].undone = ex[d].undone
        /\ ex'[d].tries = ex[d].tries
    <3>1. CASE d = e
      <4>1. ex'[d] = [ex[d] EXCEPT !.pc = "ended", !.saved = saved]
        BY <2>2, <3>1 DEF SessionTypes
      <4> QED BY <1>0, <4>1 DEF Executions
    <3>2. CASE d # e
      BY <2>2, <3>2 DEF SessionTypes
    <3> QED BY <3>1, <3>2
  <2> QED BY <1>0, <2>1, <2>3 DEF Answer
<1>2. CASE SaveFails(e) \/ SaveCancelled(e)
  <2>0. PICK aborted \in BOOLEAN, outcome \in {"failed", "cancelled"} :
          Undoes(e, outcome) /\ SessionAfter({}, aborted)
    BY <1>2, Undoing
  <2>1. UNCHANGED durable /\ session'.work = NoWork
    BY <1>0, <2>0 DEF Undoes, SessionAfter, Sessions
  <2>2. PICK pc, saved : ex'[d] = [ex[d] EXCEPT !.pc = pc, !.saved = saved,
                                               !.undone = @ \/ session.work[d] > 0]
    BY <2>0 DEF Undoes
  <2>3. /\ ex'[d].answered = ex[d].answered /\ ex'[d].tries = ex[d].tries
        /\ ex'[d].undone <=> (ex[d].undone \/ session.work[d] > 0)
    BY <1>0, <2>2 DEF Executions
  <2>4. CASE session.work[d] = 0
    BY <1>0, <2>1, <2>3, <2>4 DEF Answer
  <2>5. CASE session.work[d] > 0
    <3>1. d \notin Rowless \cup Emailed =>
            /\ ex[d].answered /\ ~ex[d].undone /\ ex[d].tries = MaxTries
            /\ durable[d] = 0 /\ session.work[d] = 1
      BY <1>0, <2>5 DEF Answer
    <3> QED BY <1>0, <2>1, <2>3, <2>5, <3>1 DEF Answer
  <2> QED BY <1>0, <2>4, <2>5
<1> QED BY <1>1, <1>2 DEF SaveEnds

\* Every step keeps the account of the changes.
LEMMA AnswerStep ==
  ASSUME SessionTypes, Answers, [Next]_vars
  PROVE  Answers'
<1>1. (\A e \in Execs : Quiet(e)) => Answers'
  BY QuietStays DEF Answers
<1>2. CASE RequestStepped \/ UNCHANGED vars
  <2>1. Execs # {} => \A e \in Execs : Quiet(e)
    BY <1>2, QuietSteps
  <2> QED BY <1>1, <2>1
<1>3. ASSUME NEW e \in Execs,
             \/ LoadNodes(e) \/ LoadFails(e) \/ QueryFails(e) \/ SaveBegins(e)
             \/ \E i \in Ids : LoadRow(e, i)
             \/ \E org \in Orgs : UpdateTask(org, e)
      PROVE  Answers'
  BY <1>1, <1>3, QuietSteps
<1>4. ASSUME NEW e \in Execs, Query(e)
      PROVE  Answers'
  BY <1>4, QueryAnswers
<1>5. ASSUME NEW e \in Execs, SaveEnds(e)
      PROVE  Answers'
  BY <1>5, SaveAnswers
<1> QED BY <1>2, <1>3, <1>4, <1>5 DEF Next, RequestStepped, SaveEnds

\* The change of a query that answered is made once and committed by whoever commits
\* first, unless the end of the transaction without a commit has taken it away; one that
\* is retried is made at most once for each attempt (_execute_database_query,
\* save_execution, on the session of main).
THEOREM ChangesKept == Spec => []ChangesAddUp
<1>1. SessionTypes /\ Answers => ChangesAddUp
  <2> SUFFICES ASSUME Answers, NEW e \in Execs \ Emailed, ex[e].answered
               PROVE  durable[e] + session.work[e] = IF ex[e].undone THEN 0 ELSE 1
    BY DEF ChangesAddUp, SessionTypes
  <2>1. Answer(e)
    BY DEF Answers
  <2>2. e \notin Rowless \cup Emailed
    BY <2>1 DEF Answer
  <2> QED BY <2>1, <2>2 DEF Answer
<1>2. SessionTypes /\ Answers /\ [Next]_vars => Answers'
  BY AnswerStep
<1>3. Init => Answers
  BY AnswerInit
<1> QED BY <1>1, <1>2, <1>3, SessionStays, PTL DEF Spec
-----------------------------------------------------------------------------
(* The records *)

\* The execution has been loaded, and its workflow is in the table for good.
Founded(e) == ex[e].id \in Ids /\ row[ex[e].id].def # None

\* Who commits has its record in the session from the start of the commit, and the
\* records of the session are not stored yet.
Commit(e) ==
  /\ session.busy = e => ex[e].pc = "saving" /\ e \in session.pending /\ e \notin session.late
  /\ ex[e].pc = "saving" => session.busy = e
  /\ e \in session.late => e \in session.pending
  /\ e \in session.pending => ex[e].pc \in {"saving", "ended"}
  /\ e \in session.pending \/ ex[e].pc \in {"absent", "loading", "running"} => records[e] = "none"
  /\ ex[e].pc = "loading" => Founded(e)
  /\ e \notin Emailed /\ (e \in session.pending \/ ex[e].pc \in {"running", "saving"})
       => Founded(e)
  /\ ex[e].saved = "ok" => records[e] # "none"
  /\ records[e] # "none" => e \notin Emailed /\ Founded(e)

Commits == \A e \in Execs : Commit(e)

\* A row once inserted stays, if only as a deleted one.
LEMMA RowsStay ==
  ASSUME RequestInv, [Next]_vars, NEW i \in Ids, row[i].def # None
  PROVE  row'[i].def # None
<1>1. CASE UNCHANGED row
  BY <1>1
<1>2. ASSUME NEW r \in Requests, CommitSave(r)
      PROVE  row'[i].def # None
  <2>1. i # req[r].id => row'[i] = row[i]
    BY <1>2 DEF RequestInv, RequestTypes, CommitSave
  <2>2. i = req[r].id => row'[i].def = req[r].def /\ req[r].def # None
    BY <1>2 DEF RequestInv, RequestTypes, CommitSave
  <2> QED BY <2>1, <2>2
<1>3. ASSUME NEW r \in Requests, CommitDelete(r)
      PROVE  row'[i].def # None
  BY <1>3 DEF RequestInv, RequestTypes, Rows, CommitDelete
<1> QED BY <1>1, <1>2, <1>3, WorkerKeeps DEF Next, WorkerStep, SaveEnds, vars, tables, SelectForUpdate,
                                          RequestFails

\* A step that touches no record: the execution stays where it is, loads, or gives up
\* loading.
Moves(e) ==
  /\ records'[e] = records[e] /\ session'.pending = session.pending
  /\ session'.late = session.late /\ session'.busy = session.busy
  /\ ex'[e].saved = ex[e].saved
  /\ \/ ex'[e].pc = ex[e].pc /\ ex'[e].id = ex[e].id
     \/ /\ ex[e].pc \in {"absent", "loading"} /\ ex'[e].pc \in {"loading", "running", "ended"}
        /\ ex'[e].pc # "ended" => ex'[e].id \in Ids /\ row[ex'[e].id].def # None

\* A step that touches no record keeps the account of the records.
LEMMA MovesKeep ==
  ASSUME RequestInv, [Next]_vars, NEW e \in Execs, Commit(e), Moves(e)
  PROVE  Commit(e)'
<1>1. Founded(e) /\ ex'[e].id = ex[e].id => Founded(e)'
  BY RowsStay DEF Founded
<1>2. CASE ex'[e].pc = ex[e].pc /\ ex'[e].id = ex[e].id
  BY <1>1, <1>2 DEF Commit, Moves
<1>3. CASE /\ ex[e].pc \in {"absent", "loading"} /\ ex'[e].pc \in {"loading", "running", "ended"}
           /\ ex'[e].pc # "ended" => ex'[e].id \in Ids /\ row[ex'[e].id].def # None
  <2>1. ex'[e].pc # "ended" => Founded(e)'
    BY <1>3, RowsStay DEF Founded
  <2>2. /\ e \notin session'.pending /\ e \notin session'.late /\ session'.busy # e
        /\ records'[e] = "none" /\ ex'[e].saved # "ok"
    BY <1>3 DEF Commit, Moves
  <2> QED BY <1>3, <2>1, <2>2 DEF Commit
<1> QED BY <1>2, <1>3 DEF Moves

\* Requests, loads and queries are such steps.
LEMMA MovingSteps ==
  ASSUME RequestInv, SessionTypes, Commits, NEW e \in Execs,
         \/ LoadNodes(e) \/ LoadFails(e) \/ Query(e) \/ QueryFails(e)
         \/ \E i \in Ids : LoadRow(e, i)
         \/ RequestStepped \/ UNCHANGED vars
  PROVE  \A d \in Execs : Moves(d)
<1> USE DEF SessionTypes
<1>0. ex[e] \in Executions /\ Commit(e)
  BY DEF Commits
<1>1. CASE UNCHANGED vars
  BY <1>1 DEF vars, Moves
<1>2. CASE RequestStepped
  BY <1>2, OnlyRaced, RequestsLeave DEF Moves
<1>3. ASSUME NEW new, ex' = [ex EXCEPT ![e] = new], UNCHANGED records,
             session'.pending = session.pending, session'.late = session.late,
             session'.busy = session.busy, new.saved = ex[e].saved,
             \/ new.pc = ex[e].pc /\ new.id = ex[e].id
             \/ /\ ex[e].pc \in {"absent", "loading"} /\ new.pc \in {"loading", "running", "ended"}
                /\ new.pc # "ended" => new.id \in Ids /\ row[new.id].def # None
      PROVE  \A d \in Execs : Moves(d)
  <2>1. ex'[e] = new /\ \A d \in Execs \ {e} : ex'[d] = ex[d]
    BY <1>3
  <2> QED BY <1>3, <2>1 DEF Moves
<1>4. StatementFails => /\ UNCHANGED records /\ session'.pending = session.pending
                        /\ session'.late = session.late /\ session'.busy = session.busy
  BY DEF StatementFails, Sessions
<1>5. CASE LoadNodes(e)
  <2>1. ex' = [ex EXCEPT ![e] = [ex[e] EXCEPT !.pc = "running", !.nodes = nodes[ex[e].id]]]
    BY <1>5 DEF LoadNodes
  <2>2. ex[e].pc = "loading" /\ UNCHANGED <<records, session>>
    BY <1>5 DEF LoadNodes
  <2>3. Founded(e)
    BY <1>0, <2>2 DEF Commit
  <2> QED BY <1>0, <1>3, <2>1, <2>2, <2>3 DEF Executions, Founded
<1>6. CASE LoadFails(e)
  <2>1. ex' = [ex EXCEPT ![e] = [ex[e] EXCEPT !.pc = "ended"]] /\ ex[e].pc \in {"absent", "loading"}
    BY <1>6 DEF LoadFails
  <2> QED BY <1>0, <1>3, <1>4, <1>6, <2>1 DEF LoadFails, Executions
<1>7. CASE QueryFails(e)
  <2>1. ex' = [ex EXCEPT ![e] = [ex[e] EXCEPT !.tries = @ + 1]]
    BY <1>7 DEF QueryFails
  <2> QED BY <1>0, <1>3, <1>4, <1>7, <2>1 DEF QueryFails, Executions
<1>8. CASE Query(e)
  <2>1. PICK tries, answered :
          ex' = [ex EXCEPT ![e] = [ex[e] EXCEPT !.tries = tries, !.answered = answered]]
    BY <1>8 DEF Query
  <2>2. /\ UNCHANGED records /\ session'.pending = session.pending
        /\ session'.late = session.late /\ session'.busy = session.busy
    BY <1>8 DEF Query, Sessions
  <2> QED BY <1>0, <1>3, <2>1, <2>2 DEF Executions
<1>9. ASSUME NEW i \in Ids, LoadRow(e, i)
      PROVE  \A d \in Execs : Moves(d)
  <2>1. PICK pc \in {"loading", "ended"} : \E seen, raced : Loads(e, i, pc, seen, raced)
    BY <1>9, LoadRowEffect
  <2>2. PICK seen, raced : Loads(e, i, pc, seen, raced)
    BY <2>1
  <2>3. /\ ex' = [ex EXCEPT ![e] = [ex[e] EXCEPT !.pc = pc, !.id = i, !.row = seen, !.raced = raced]]
        /\ ex[e].pc = "absent" /\ (pc = "loading" => row[i].def # None)
    BY <2>2 DEF Loads
  <2>4. UNCHANGED <<records, session>>
    BY <1>9 DEF LoadRow
  <2> QED BY <1>0, <1>3, <2>3, <2>4 DEF Executions
<1> QED BY <1>1, <1>2, <1>5, <1>6, <1>7, <1>8, <1>9

\* At the start there are no records.
LEMMA CommitInit == Init => Commits
BY StoreParams DEF Init, Commits, Commit, NoRow

\* A save begins, succeeds or fails.
LEMMA SaveCommits ==
  ASSUME RequestInv, SessionTypes, Commits, [Next]_vars, NEW e \in Execs,
         SaveBegins(e) \/ SaveEnds(e)
  PROVE  Commits'
<1> USE DEF SessionTypes
<1> SUFFICES ASSUME NEW d \in Execs
             PROVE  Commit(d)'
  BY DEF Commits
<1>0. /\ ex[d] \in Executions /\ ex[e] \in Executions /\ session \in Sessions
      /\ Commit(d) /\ Commit(e) /\ None \notin Execs
  BY Apart DEF Commits, NoneApart
<1>1. UNCHANGED row
  BY WorkerKeeps DEF WorkerStep
<1>2. Founded(d) /\ ex'[d].id = ex[d].id => Founded(d)'
  BY <1>1 DEF Founded
<1>3. CASE SaveBegins(e)
  <2>1. ex[e].pc = "running" /\ UNCHANGED records
    BY <1>3 DEF SaveBegins
  <2>2. CASE session.busy = None
    <3>1. /\ session' = [session EXCEPT !.pending = @ \cup {e}, !.busy = e]
          /\ ex' = [ex EXCEPT ![e] = [ex[e] EXCEPT !.pc = "saving"]]
      BY <1>3, <2>2 DEF SaveBegins
    <3>2. /\ session'.pending = session.pending \cup {e} /\ session'.busy = e
          /\ session'.late = session.late
      BY <1>0, <3>1 DEF Sessions
    <3>3. CASE d = e
      <4>1. ex'[e] = [ex[e] EXCEPT !.pc = "saving"]
        BY <3>1
      <4>2. ex'[e].pc = "saving" /\ ex'[e].id = ex[e].id /\ ex'[e].saved = ex[e].saved
        BY <1>0, <4>1 DEF Executions
      <4> QED BY <1>0, <1>2, <2>1, <3>2, <3>3, <4>2 DEF Commit
    <3>4. CASE d # e
      <4>1. ex'[d] = ex[d]
        BY <3>1, <3>4
      <4> QED BY <1>0, <1>2, <2>1, <2>2, <3>2, <3>4, <4>1 DEF Commit
    <3> QED BY <3>3, <3>4
  <2>3. CASE session.busy # None
    <3>1. /\ session' = [session EXCEPT !.pending = @ \cup {e}, !.late = @ \cup {e}]
          /\ ex' = [ex EXCEPT ![e] = [ex[e] EXCEPT !.pc = "ended", !.saved = "failed"]]
      BY <1>3, <2>3 DEF SaveBegins
    <3>2. /\ session'.pending = session.pending \cup {e} /\ session'.busy = session.busy
          /\ session'.late = session.late \cup {e}
      BY <1>0, <3>1 DEF Sessions
    <3>3. CASE d = e
      <4>1. ex'[e] = [ex[e] EXCEPT !.pc = "ended", !.saved = "failed"]
        BY <3>1
      <4>2. ex'[e].pc = "ended" /\ ex'[e].id = ex[e].id /\ ex'[e].saved = "failed"
        BY <1>0, <4>1 DEF Executions
      <4> QED BY <1>0, <1>2, <2>1, <3>2, <3>3, <4>2 DEF Commit
    <3>4. CASE d # e
      <4>1. ex'[d] = ex[d]
        BY <3>1, <3>4
      <4> QED BY <1>0, <1>2, <2>1, <3>2, <3>4, <4>1 DEF Commit
    <3> QED BY <3>3, <3>4
  <2> QED BY <2>2, <2>3
<1>4. CASE SaveSucceeds(e) \/ SaveUnanswered(e)
  <2>0. PICK left, kept \in SUBSET session.late, aborted \in BOOLEAN,
             saved \in {"ok", "failed", "cancelled"} :
          /\ Stores(e, left) /\ kept \in {{}, left} /\ SessionAfter(kept, aborted)
          /\ ex' = [ex EXCEPT ![e] = [ex[e] EXCEPT !.pc = "ended", !.saved = saved]]
    BY <1>4, Committing
  <2>1. /\ \A x \in session.pending \ left : Storable(x)
        /\ records' = [x \in Execs |-> IF x \in session.pending \ left
                                       THEN "saved" ELSE records[x]]
    BY <2>0 DEF Stores
  <2>2. session'.pending = kept /\ session'.late = {} /\ session'.busy = None
    BY <1>0, <2>0 DEF SessionAfter, Sessions
  <2>3. session.busy = e
    BY <2>0 DEF Stores
  <2>4. e \in session.pending \ left /\ ex[e].pc = "saving"
    BY <1>0, <2>0, <2>3 DEF Commit
  <2>5. d \in session.pending \ left =>
          d \notin Emailed /\ Founded(d) /\ records'[d] = "saved"
    BY <1>0, <2>1 DEF Commit, Storable
  <2>6. d \notin session.pending \ left => records'[d] = records[d]
    BY <2>1
  <2>7. CASE d = e
    <3>1. ex'[e] = [ex[e] EXCEPT !.pc = "ended", !.saved = saved]
      BY <2>0
    <3>2. ex'[e].pc = "ended" /\ ex'[e].id = ex[e].id
      BY <1>0, <3>1 DEF Executions
    <3>3. e \notin kept
      BY <2>0, <2>4
    <3> QED BY <1>0, <1>2, <2>2, <2>4, <2>5, <2>7, <3>2, <3>3 DEF Commit
  <2>8. CASE d # e
    <3>1. ex'[d] = ex[d] /\ ex[d].pc # "saving"
      BY <1>0, <2>0, <2>3, <2>8 DEF Commit
    <3>2. d \in kept => d \in left /\ d \in session.pending
      BY <1>0, <2>0 DEF Commit
    <3>3. CASE d \in session.pending \ left
      BY <1>0, <1>2, <2>2, <2>5, <3>1, <3>2, <3>3 DEF Commit
    <3>4. CASE d \notin session.pending \ left
      BY <1>0, <1>2, <2>2, <2>6, <3>1, <3>2, <3>4 DEF Commit
    <3> QED BY <3>3, <3>4
  <2> QED BY <2>7, <2>8
<1>5. CASE SaveFails(e) \/ SaveCancelled(e)
  <2>0. PICK aborted \in BOOLEAN, outcome \in {"failed", "cancelled"} :
          Undoes(e, outcome) /\ SessionAfter({}, aborted)
    BY <1>5, Undoing
  <2>1. session.busy = e /\ UNCHANGED records
    BY <2>0 DEF Undoes
  <2>2. session'.pending = {} /\ session'.late = {} /\ session'.busy = None
    BY <1>0, <2>0 DEF SessionAfter, Sessions
  <2>3. PICK undone : ex'[d] = [ex[d] EXCEPT !.pc = IF d = e THEN "ended" ELSE @,
                                            !.saved = IF d = e THEN outcome ELSE @,
                                            !.undone = undone]
    BY <2>0 DEF Undoes
  <2>4. /\ ex'[d].pc = (IF d = e THEN "ended" ELSE ex[d].pc) /\ ex'[d].id = ex[d].id
        /\ ex'[d].saved = IF d = e THEN outcome ELSE ex[d].saved
    BY <1>0, <2>3 DEF Executions
  <2> QED BY <1>0, <1>2, <2>1, <2>2, <2>4 DEF Commit
<1> QED BY <1>3, <1>4, <1>5 DEF SaveEnds

\* Every step keeps the account of the records.
LEMMA CommitStep ==
  ASSUME RequestInv, SessionTypes, Commits, [Next]_vars
  PROVE  Commits'
<1>1. (\A e \in Execs : Moves(e)) => Commits'
  BY MovesKeep DEF Commits
<1>2. CASE RequestStepped \/ UNCHANGED vars
  <2>1. Execs # {} => \A e \in Execs : Moves(e)
    BY <1>2, MovingSteps
  <2> QED BY <1>1, <2>1
<1>3. ASSUME NEW e \in Execs,
             \/ LoadNodes(e) \/ LoadFails(e) \/ Query(e) \/ QueryFails(e)
             \/ \E i \in Ids : LoadRow(e, i)
      PROVE  Commits'
  BY <1>1, <1>3, MovingSteps
<1>4. ASSUME NEW org \in Orgs, NEW e \in Execs, UpdateTask(org, e)
      PROVE  Commits'
  <2>1. /\ UNCHANGED <<row, session, ex>>
        /\ \A d \in Execs : /\ records'[d] = "none" <=> records[d] = "none"
    BY <1>4 DEF UpdateTask, tables, SessionTypes
  <2> QED BY <2>1 DEF Commits, Commit, Founded
<1>5. ASSUME NEW e \in Execs, SaveBegins(e) \/ SaveEnds(e)
      PROVE  Commits'
  BY <1>5, SaveCommits
<1> QED BY <1>2, <1>3, <1>4, <1>5 DEF Next, RequestStepped, SaveEnds

\* It holds throughout.
LEMMA CommitsStay == Spec => []Commits
<1>1. RequestInv /\ SessionTypes /\ Commits /\ [Next]_vars => Commits'
  BY CommitStep
<1>2. Init => Commits
  BY CommitInit
<1> QED BY <1>1, <1>2, SessionStays, PTL DEF Spec

\* A save_execution that returned has its record in the table although the executions
\* share a session and its rollbacks, and no record is without its workflow.
THEOREM RecordsHold == Spec => []RecordsAgree
<1>1. Commits => RecordsAgree
  <2> SUFFICES ASSUME Commits, NEW e \in Execs
               PROVE  /\ ex[e].saved = "ok" => records[e] # "none"
                      /\ records[e] # "none" =>
                           e \notin Emailed /\ ex[e].id \in Ids /\ row[ex[e].id] # NoRow
                      /\ records[e] = "none" \/ e \notin session.pending
    BY DEF RecordsAgree
  <2>1. Commit(e)
    BY DEF Commits
  <2>2. Founded(e) => ex[e].id \in Ids /\ row[ex[e].id] # NoRow
    BY DEF Founded, NoRow
  <2> QED BY <2>1, <2>2 DEF Commit
<1> QED BY <1>1, CommitsStay, PTL
-----------------------------------------------------------------------------
(* The two statements of get_workflow *)

\* Between the two the nodes in the table are still those of the row that was read, or a
\* save has come in between.
Read(e) ==
  /\ ex[e].pc = "loading" => ex[e].row = nodes[ex[e].id] \/ ex[e].raced
  /\ ex[e].pc \in {"running", "saving"} => ex[e].row = ex[e].nodes \/ ex[e].raced

Reads == \A e \in Execs : Read(e)

\* A step that reads nothing.
Rests(e) ==
  /\ \/ ex'[e].pc = ex[e].pc
     \/ ex[e].pc = "running" /\ ex'[e].pc = "saving"
     \/ ex'[e].pc = "ended"
  /\ ex'[e].id = ex[e].id /\ ex'[e].row = ex[e].row /\ ex'[e].nodes = ex[e].nodes
  /\ ex'[e].raced = ex[e].raced

\* Most steps leave what an execution has loaded.
LEMMA RestingSteps ==
  ASSUME SessionTypes, NEW e \in Execs,
         \/ LoadFails(e) \/ Query(e) \/ QueryFails(e) \/ SaveBegins(e)
         \/ SaveEnds(e)
         \/ \E org \in Orgs : UpdateTask(org, e)
  PROVE  \A d \in Execs : Rests(d)
<1> USE DEF SessionTypes
<1>0. ex[e] \in Executions
  OBVIOUS
<1>1. ASSUME NEW new, ex' = [ex EXCEPT ![e] = new],
             \/ new.pc = ex[e].pc \/ new.pc = "ended"
             \/ ex[e].pc = "running" /\ new.pc = "saving",
             new.id = ex[e].id, new.row = ex[e].row, new.nodes = ex[e].nodes,
             new.raced = ex[e].raced
      PROVE  \A d \in Execs : Rests(d)
  <2>1. ex'[e] = new /\ \A d \in Execs \ {e} : ex'[d] = ex[d]
    BY <1>1
  <2> QED BY <1>1, <2>1 DEF Rests
<1>2. CASE LoadFails(e)
  <2>1. ex' = [ex EXCEPT ![e] = [ex[e] EXCEPT !.pc = "ended"]]
    BY <1>2 DEF LoadFails
  <2> QED BY <1>0, <1>1, <2>1 DEF Executions
<1>3. CASE Query(e) \/ QueryFails(e)
  <2>1. PICK tries, answered :
          ex' = [ex EXCEPT ![e] = [ex[e] EXCEPT !.tries = tries, !.answered = answered]]
    <3>1. CASE Query(e)
      BY <3>1 DEF Query
    <3>2. CASE QueryFails(e)
      <4>1. ex' = [ex EXCEPT ![e] = [ex[e] EXCEPT !.tries = @ + 1, !.answered = ex[e].answered]]
        BY <1>0, <3>2 DEF QueryFails, Executions
      <4> QED BY <4>1
    <3> QED BY <1>3, <3>1, <3>2
  <2> QED BY <1>0, <1>1, <2>1 DEF Executions
<1>4. CASE SaveBegins(e)
  <2>1. PICK pc \in {"saving", "ended"}, saved \in {ex[e].saved, "failed"} :
          ex' = [ex EXCEPT ![e] = [ex[e] EXCEPT !.pc = pc, !.saved = saved]]
    BY <1>4 DEF SaveBegins, Executions
  <2>2. ex[e].pc = "running"
    BY <1>4 DEF SaveBegins
  <2> QED BY <1>0, <1>1, <2>1, <2>2 DEF Executions
<1>5. CASE SaveSucceeds(e) \/ SaveUnanswered(e)
  <2>1. PICK saved : ex' = [ex EXCEPT ![e] = [ex[e] EXCEPT !.pc = "ended", !.saved = saved]]
    BY <1>5, Committing
  <2> QED BY <1>0, <1>1, <2>1 DEF Executions
<1>6. CASE SaveFails(e) \/ SaveCancelled(e)
  <2>0. PICK outcome : Undoes(e, outcome)
    BY <1>6, Undoing
  <2> TAKE d \in Execs
  <2>1. PICK undone : ex'[d] = [ex[d] EXCEPT !.pc = IF d = e THEN "ended" ELSE @,
                                            !.saved = IF d = e THEN outcome ELSE @,
                                            !.undone = undone]
    BY <2>0 DEF Undoes
  <2>2. ex[d] \in Executions
    OBVIOUS
  <2> QED BY <2>1, <2>2 DEF Rests, Executions
<1>7. ASSUME NEW org \in Orgs, UpdateTask(org, e)
      PROVE  \A d \in Execs : Rests(d)
  BY <1>7 DEF UpdateTask, Rests
<1> QED BY <1>2, <1>3, <1>4, <1>5, <1>6, <1>7 DEF SaveEnds

\* Every step keeps the account of the loads.
LEMMA ReadStep ==
  ASSUME RequestInv, SessionTypes, Reads, [Next]_vars
  PROVE  Reads'
<1> USE DEF SessionTypes
<1>1. CASE UNCHANGED vars
  BY <1>1 DEF vars, tables, Reads, Read
<1>2. ASSUME RequestStepped, UNCHANGED nodes
      PROVE  Reads'
  BY <1>2, OnlyRaced DEF Reads, Read
<1>3. ASSUME NEW r \in Requests, CommitSave(r)
      PROVE  Reads'
  <2>1. RequestStepped
    BY <1>3 DEF RequestStepped
  <2> SUFFICES ASSUME NEW e \in Execs
               PROVE  Read(e)'
    BY DEF Reads
  <2>2. CASE ex[e].pc = "loading"
    <3>1. CASE ex[e].id = req[r].id
      <4>1. ex'[e] = [ex[e] EXCEPT !.raced = TRUE] /\ ex[e] \in Executions
        BY <1>3, <2>2, <3>1 DEF CommitSave, Races
      <4>2. ex'[e].pc = "loading" /\ ex'[e].raced
        BY <2>2, <4>1 DEF Executions
      <4> QED BY <4>2 DEF Read
    <3>2. CASE ex[e].id # req[r].id
      <4>1. nodes'[ex[e].id] = nodes[ex[e].id]
        BY <1>3, <2>2, <3>2 DEF CommitSave, RequestInv, RequestTypes
      <4> QED BY <2>1, <2>2, <4>1, OnlyRaced DEF Reads, Read
    <3> QED BY <3>1, <3>2
  <2>3. CASE ex[e].pc # "loading"
    BY <2>1, <2>3, OnlyRaced DEF Reads, Read
  <2> QED BY <2>2, <2>3
<1>4. ASSUME NEW e \in Execs, NEW i \in Ids, LoadRow(e, i)
      PROVE  Reads'
  <2>1. PICK pc \in {"loading", "ended"} : \E seen, raced : Loads(e, i, pc, seen, raced)
    BY <1>4, LoadRowEffect
  <2>2. PICK seen, raced : Loads(e, i, pc, seen, raced)
    BY <2>1
  <2>3. seen = nodes[i] \/ raced
    BY <2>2 DEF Loads, RequestInv, Whole, Reads, Read
  <2>4. /\ ex' = [ex EXCEPT ![e] = [ex[e] EXCEPT !.pc = pc, !.id = i, !.row = seen, !.raced = raced]]
        /\ UNCHANGED nodes
    BY <1>4, <2>2 DEF Loads, LoadRow, tables
  <2> DEFINE new == [ex[e] EXCEPT !.pc = pc, !.id = i, !.row = seen, !.raced = raced]
  <2>5. new.pc = pc /\ new.id = i /\ new.row = seen /\ new.raced = raced
    <3>1. ex[e] \in Executions
      OBVIOUS
    <3> QED BY <3>1 DEF Executions
  <2> HIDE DEF new
  <2>6. ex'[e] = new /\ \A d \in Execs \ {e} : ex'[d] = ex[d]
    BY <2>4 DEF new
  <2> QED BY <2>3, <2>4, <2>5, <2>6 DEF Reads, Read
<1>5. ASSUME NEW e \in Execs, LoadNodes(e)
      PROVE  Reads'
  <2> DEFINE new == [ex[e] EXCEPT !.pc = "running", !.nodes = nodes[ex[e].id]]
  <2>1. ex' = [ex EXCEPT ![e] = new] /\ ex[e].pc = "loading" /\ UNCHANGED nodes
    BY <1>5 DEF LoadNodes, tables
  <2>2. /\ new.pc = "running" /\ new.nodes = nodes[ex[e].id] /\ new.row = ex[e].row
        /\ new.raced = ex[e].raced
    <3>1. ex[e] \in Executions
      OBVIOUS
    <3> QED BY <3>1 DEF Executions
  <2> HIDE DEF new
  <2>3. ex'[e] = new /\ \A d \in Execs \ {e} : ex'[d] = ex[d]
    BY <2>1
  <2> QED BY <2>1, <2>2, <2>3 DEF Reads, Read
<1>6. ASSUME NEW e \in Execs,
             \/ LoadFails(e) \/ Query(e) \/ QueryFails(e) \/ SaveBegins(e)
             \/ SaveEnds(e)
             \/ \E org \in Orgs : UpdateTask(org, e)
      PROVE  Reads'
  <2>1. UNCHANGED nodes
    BY <1>6, WorkerKeeps DEF WorkerStep
  <2>2. \A d \in Execs : Rests(d)
    BY <1>6, RestingSteps
  <2> QED BY <2>1, <2>2 DEF Rests, Reads, Read
<1>7. RequestStepped => UNCHANGED nodes \/ \E r \in Requests : CommitSave(r)
  BY DEF RequestStepped, SelectForUpdate, CommitDelete, RequestFails
<1> QED BY <1>1, <1>2, <1>3, <1>4, <1>5, <1>6, <1>7 DEF Next, RequestStepped,
                                                                    SaveEnds

\* get_workflow returns a row and nodes of different saves only if a save was committed
\* between its two statements, or those of the load whose row it shares.
THEOREM TornLoads == Spec => []TornOnlyByRace
<1>1. Init => Reads
  BY DEF Init, Reads, Read
<1>2. RequestInv /\ SessionTypes /\ Reads /\ [Next]_vars => Reads'
  BY ReadStep
<1>3. Reads => TornOnlyByRace
  BY DEF Reads, Read, TornOnlyByRace
<1> QED BY <1>1, <1>2, <1>3, SessionStays, PTL DEF Spec

-----------------------------------------------------------------------------
(* The session, which no execution rolls back but by a save that fails     *)

\* The session commits for the one execution that is saving, whose record was in it from
\* the start; what was added meanwhile is among its records too.
SessionInHand == \A e \in Execs :
  /\ session.busy = e <=> ex[e].pc = "saving"
  /\ session.busy = e => e \in session.pending \ session.late
  /\ e \in session.late => e \in session.pending

\* Nothing of an aborted transaction is ever stored, and it ends only with a save that
\* fails: then all records and changes that were not committed are gone.
HealsByRollback ==
  [][session.aborted =>
       /\ durable' = durable
       /\ \A e \in Execs : records'[e] # records[e] => records[e] # "none"
       /\ ~session'.aborted =>
            /\ session'.pending = {} /\ session'.work = NoWork
            /\ \E e \in Execs : ex[e].pc = "saving" /\ ex'[e].saved = "failed"]_vars

\* save_execution of one execution at a time works on the session of main; so whoever
\* is saving can go on, and nobody else holds the session.
THEOREM SessionHeld == Spec => []SessionInHand
<1>1. Commits => SessionInHand
  BY DEF Commits, Commit, SessionInHand
<1> QED BY <1>1, CommitsStay, PTL

\* The rollback of a failed save_execution is the only one on the session of main: until
\* it comes nothing is stored, and when it comes everybody's open changes are lost.
THEOREM RollbackHeals == Spec => HealsByRollback
<1> DEFINE Lost ==
      /\ durable' = durable
      /\ \A e \in Execs : records'[e] # records[e] => records[e] # "none"
      /\ ~session'.aborted =>
           /\ session'.pending = {} /\ session'.work = NoWork
           /\ \E e \in Execs : ex[e].pc = "saving" /\ ex'[e].saved = "failed"
<1>1. ASSUME RequestInv, SessionTypes, Commits, [Next]_vars, session.aborted
      PROVE  Lost
  <2>1. CASE UNCHANGED <<durable, records, session>>
    BY <1>1, <2>1
  <2>2. CASE StatementFails /\ UNCHANGED <<durable, records>>
    <3>1. session'.aborted
      BY <1>1, <2>2 DEF StatementFails, SessionTypes, Sessions
    <3> QED BY <2>2, <3>1
  <2>3. ASSUME NEW org \in Orgs, NEW e \in Execs, UpdateTask(org, e)
        PROVE  Lost
    <3>1. /\ UNCHANGED <<durable, session>>
          /\ \A d \in Execs : records'[d] = records[d] \/ records[d] # "none"
      BY <2>3 DEF UpdateTask, SessionTypes
    <3> QED BY <1>1, <3>1
  <2>4. ASSUME NEW e \in Execs, SaveBegins(e)
        PROVE  Lost
    <3>1. session'.aborted
      BY <1>1, <2>4 DEF SaveBegins, SessionTypes, Sessions
    <3> QED BY <2>4, <3>1 DEF SaveBegins
  <2>5. ASSUME NEW e \in Execs, SaveFails(e)
        PROVE  Lost
    <3>1. ex[e].pc = "saving"
      BY <1>1, <2>5 DEF SaveFails, Undoes, Commits, Commit
    <3>2. ex'[e].saved = "failed"
      <4>1. e \in Execs /\ ex[e] \in Executions
        BY <1>1 DEF SessionTypes
      <4>2. PICK undone : ex'[e] = [ex[e] EXCEPT !.pc = "ended", !.saved = "failed",
                                                !.undone = undone]
        BY <2>5 DEF SaveFails, Undoes
      <4> QED BY <4>1, <4>2 DEF Executions
    <3>3. session'.pending = {} /\ session'.work = NoWork
      BY <1>1, <2>5 DEF SaveFails, SessionTypes, Sessions
    <3> QED BY <2>5, <3>1, <3>2, <3>3 DEF SaveFails, Undoes
  <2>9. ASSUME NEW e \in Execs, SaveCancelled(e)
        PROVE  Lost
    <3>1. session'.aborted
      BY <1>1, <2>9 DEF SaveCancelled, SessionTypes, Sessions
    <3> QED BY <2>9, <3>1 DEF SaveCancelled, Undoes
  <2>6. CASE RequestStepped \/ UNCHANGED vars
    <3>1. UNCHANGED <<durable, records, session>>
      BY <1>1, <2>6, RequestsLeave DEF vars
    <3> QED BY <2>1, <3>1
  <2>7. ASSUME NEW e \in Execs, LoadFails(e) \/ QueryFails(e)
        PROVE  Lost
    <3>1. StatementFails
      BY <2>7 DEF LoadFails, QueryFails
    <3>2. UNCHANGED <<durable, records>>
      BY <3>1 DEF StatementFails
    <3> QED BY <2>2, <3>1, <3>2
  <2>8. ASSUME NEW e \in Execs,
               \/ LoadNodes(e) \/ Query(e) \/ SaveSucceeds(e) \/ SaveUnanswered(e)
               \/ \E i \in Ids : LoadRow(e, i)
        PROVE  Lost
    BY <1>1, <2>8 DEF LoadNodes, Query, SaveSucceeds, SaveUnanswered, Stores, LoadRow
  <2> HIDE DEF Lost
  <2> QED BY <1>1, <2>3, <2>4, <2>5, <2>6, <2>7, <2>8, <2>9 DEF Next, RequestStepped
<1>2. RequestInv /\ SessionTypes /\ Commits /\ [Next]_vars => [session.aborted => Lost]_vars
  BY <1>1
<1> QED BY <1>2, CommitsStay, SessionStays, PTL DEF Spec, HealsByRollback
=============================================================================
