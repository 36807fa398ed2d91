---------------------------- MODULE WorkerProofs ----------------------------
(***************************************************************************)
(* Safety of Worker for any number of mails and workflows: the polling     *)
(* loop handles a mail before it is read and again only after a failed     *)
(* mark, the queue and the tasks keep each workflow in one place, and the  *)
(* session is closed over no task unless the shutdown was cut short.       *)
(***************************************************************************)
EXTENDS Worker, TLAPS

(* The mailbox *)

MailTypes ==
  /\ poll \in [pc : {"absent", "listing", "next", "parsing", "marking", "sleeping", "ended"},
               batch : SUBSET Mails, cur : Mails \cup {"none"}]
  /\ mail \in [Mails -> {"absent", "unread", "read"}]
  /\ handled \in [Mails -> 0..MaxHandles]
  /\ refused \in [Mails -> Nat]

\* The polling loop works on unread mails, and a mail that is not read and not just being
\* marked has been handled as often as its mark failed.
Unread == \A m \in Mails :
  /\ poll.pc \in {"next", "parsing", "marking"} /\ m \in poll.batch => mail[m] = "unread"
  /\ poll.pc \in {"parsing", "marking"} /\ m = poll.cur => m \in poll.batch
  /\ poll.pc = "marking" /\ m = poll.cur => handled[m] > 0
  /\ mail[m] = "read" => handled[m] > 0
  /\ mail[m] # "read" /\ poll.pc # "ended" /\ ~(poll.pc = "marking" /\ m = poll.cur) =>
       handled[m] <= refused[m]
  /\ handled[m] <= refused[m] + 1

MailInv ==
  /\ MailTypes /\ Unread
  /\ poll.pc \in {"parsing", "marking"} => poll.cur \in Mails

\* At the start no mail has arrived.
LEMMA MailInit == Init => MailInv
BY WorkerParams DEF Init, MailInv, MailTypes, Unread, At

\* What the rest of the worker does to the mailbox: nothing, or the loop begins or ends.
LEMMA OthersMail ==
  ASSUME MailInv, UNCHANGED <<mail, handled, refused>>,
         \/ UNCHANGED poll
         \/ poll' = At("ended", {})
         \/ \E pc \in {"listing", "sleeping", "ended"} : poll' = [poll EXCEPT !.pc = pc]
              /\ poll.pc \in {"absent", "sleeping", "listing"}
  PROVE  MailInv'
<1> USE DEF MailInv
<1>1. CASE UNCHANGED poll
  BY <1>1 DEF MailTypes, Unread
<1>2. CASE poll' = At("ended", {})
  BY <1>2 DEF MailTypes, Unread, At
<1>3. ASSUME NEW pc \in {"listing", "sleeping", "ended"}, poll' = [poll EXCEPT !.pc = pc],
             poll.pc \in {"absent", "sleeping", "listing"}
      PROVE  MailInv'
  BY <1>3 DEF MailTypes, Unread
<1> QED BY <1>1, <1>2, <1>3

\* A step of the polling loop.
LEMMA PollMail ==
  ASSUME MailInv, PollSteps
  PROVE  MailInv'
<1> USE DEF MailInv
<1>1. CASE PollWakes
  <2>1. /\ poll.pc = "sleeping" /\ UNCHANGED <<mail, handled, refused>>
        /\ \E pc \in {"listing", "sleeping", "ended"} : poll' = [poll EXCEPT !.pc = pc]
    BY <1>1 DEF PollWakes, mailVars
  <2> QED BY <2>1, OthersMail
<1>2. CASE Listed
  <2>1. PICK batch \in SUBSET {m \in Mails : mail[m] = "unread"} :
          poll' = At(IF batch = {} THEN "sleeping" ELSE "next", batch)
    BY <1>2 DEF Listed
  <2>2. poll.pc = "listing" /\ UNCHANGED <<mail, handled, refused>>
    BY <1>2 DEF Listed, mailVars
  <2>3. PICK pc \in {"sleeping", "next"} : poll' = At(pc, batch)
    BY <2>1
  <2> QED BY <2>1, <2>2, <2>3 DEF MailTypes, Unread, At
<1>3. CASE ListFailed
  BY <1>3 DEF ListFailed, mailVars, MailTypes, Unread, At
<1>4. ASSUME NEW m \in Mails, Parse(m)
      PROVE  MailInv'
  BY <1>4 DEF Parse, mailVars, MailTypes, Unread
<1>5. ASSUME NEW answer \in Answers, HandleEvent(answer)
      PROVE  MailInv'
  <2>1. /\ poll.pc = "parsing" /\ poll.cur \in Mails /\ handled[poll.cur] < MaxHandles
        /\ UNCHANGED <<mail, refused>>
    BY <1>5 DEF HandleEvent
  <2>2. CASE Raises(answer)
    BY <2>1, <2>2 DEF Raises, MailTypes, Unread, At
  <2>3. CASE Replies(poll.cur, answer) \/ Dismisses(poll.cur, answer)
    <3>1. /\ handled' = [handled EXCEPT ![poll.cur] = @ + 1]
          /\ poll' = [poll EXCEPT !.pc = "marking"]
      BY <2>3 DEF Replies, Dismisses
    <3>2. handled[poll.cur] <= refused[poll.cur] /\ handled[poll.cur] + 1 \in 0..MaxHandles
      BY <2>1, WorkerParams DEF MailTypes, Unread
    <3> QED BY <2>1, <3>1, <3>2 DEF MailTypes, Unread
  <2> QED BY <1>5, <2>2, <2>3 DEF HandleEvent
<1>6. ASSUME poll.pc = "marking", UNCHANGED handled,
             \/ mail' = [mail EXCEPT ![poll.cur] = "read"] /\ UNCHANGED refused
             \/ refused' = [refused EXCEPT ![poll.cur] = @ + 1] /\ UNCHANGED mail,
             NEW batch \in SUBSET (poll.batch \ {poll.cur}), NEW pc \in {"sleeping", "next"},
             poll' = At(pc, batch)
      PROVE  MailInv'
  BY <1>6 DEF MailTypes, Unread, At
<1>7. CASE Marked \/ MarkRefused
  <2>1. PICK pc \in {"sleeping", "next"} : poll' = At(pc, poll.batch \ {poll.cur})
    BY <1>7 DEF Marked, MarkRefused, NextMail
  <2> QED BY <1>6, <1>7, <2>1 DEF Marked, MarkRefused
<1>8. CASE MarkRaised
  BY <1>6, <1>8 DEF MarkRaised
<1> QED BY <1>1, <1>2, <1>3, <1>4, <1>5, <1>7, <1>8 DEF PollSteps

\* The loop begins after the connection.
Unbegun == main = "connecting" => poll.pc = "absent"

\* No step but the end of the connection starts the loop.
LEMMA UnbegunStep ==
  ASSUME Unbegun, [Next]_vars
  PROVE  Unbegun'
<1>1. CASE UNCHANGED <<main, poll>> \/ main' # "connecting"
  BY <1>1 DEF Unbegun
<1>2. CASE PollSteps
  BY <1>2 DEF PollSteps, PollWakes, Listed, ListFailed, Parse, HandleEvent, Marked, MarkRefused,
              MarkRaised, procVars, Unbegun
<1> QED BY <1>1, <1>2 DEF Next, TaskSteps, MainSteps, Connected, ConnectFails, MailArrives,
      GetTakes, Dispatch, GetTimesOut, TaskBegins, TaskEnds, ServerStops, Interrupted, Joined,
      Close, Drained, DrainTimesOut, Finish, CancelRest, Exit, procVars, vars

\* Every step keeps the account of the mails.
LEMMA MailStep ==
  ASSUME MailInv, Unbegun, [Next]_vars
  PROVE  MailInv'
<1>1. CASE PollSteps
  BY <1>1, PollMail
<1>2. CASE Connected
  <2>1. /\ \E pc \in {"listing", "sleeping", "ended"} : poll' = [poll EXCEPT !.pc = pc]
        /\ poll.pc = "absent" /\ UNCHANGED <<mail, handled, refused>>
    BY <1>2 DEF Connected, mailVars, Unbegun
  <2> QED BY <2>1, OthersMail
<1>3. ASSUME NEW m \in Mails, MailArrives(m)
      PROVE  MailInv'
  BY <1>3 DEF MailArrives, MailInv, MailTypes, Unread
<1>4. CASE CancelRest
  BY <1>4, OthersMail DEF CancelRest, mailVars
<1>5. CASE UNCHANGED <<poll, mail, handled, refused>>
  BY <1>5, OthersMail
<1> QED BY <1>1, <1>2, <1>3, <1>4, <1>5 DEF Next, TaskSteps, MainSteps, ConnectFails, GetTakes,
      Dispatch, GetTimesOut, TaskBegins, TaskEnds, ServerStops, Interrupted, Joined, Close,
      Drained, DrainTimesOut, Finish, Exit, mailVars, vars

\* No mail is read of which handle_event made nothing, and one is handled again only after
\* its mark as read has failed (_email_polling_loop).
THEOREM MailsHandled == Spec => []EachMailHandled
<1>1. MailInv => EachMailHandled
  BY DEF MailInv, Unread, EachMailHandled
<1>2. Init => Unbegun
  BY DEF Init, Unbegun, At
<1> QED BY <1>1, <1>2, MailInit, MailStep, UnbegunStep, PTL DEF Spec

-----------------------------------------------------------------------------
(* The queue and the tasks *)

States == {"none", "created", "running", "cancelled", "ended"}

WorkTypes ==
  /\ start \in {"absent", "getting", "ended"}
  /\ held \in Workflows \cup {NoWorkflow}
  /\ queue \in Seq(Workflows)
  /\ tasks \in [Workflows -> States]
  /\ made \in 0..MaxWorkflows

\* A task whose cancel came before its first step stays ended.
Places ==
  /\ OnePlace
  /\ ActiveExact
  /\ fate.unstarted \subseteq Workflows
  /\ \A w \in fate.unstarted : tasks[w] = "ended"

WorkInv == WorkTypes /\ Places

\* No workflow is the one that stands for none.
LEMMA WorkflowsAre == NoWorkflow \notin Workflows /\ Workflows \subseteq Nat
BY WorkerParams DEF NoWorkflow, Workflows

\* At the start there are no workflows.
LEMMA WorkInit == Init => WorkInv
<1> SUFFICES ASSUME Init PROVE WorkInv
  OBVIOUS
<1>1. WorkTypes
  BY WorkerParams DEF Init, WorkTypes, States
<1>2. Queued = {}
  BY DEF Init, Queued
<1>3. Live = {} /\ fate.unstarted = {} /\ active = {} /\ held = NoWorkflow
  BY DEF Init, Live
<1>4. OnePlace
  <2>1. \A w \in Workflows : ~(w \in Queued \/ w = held \/ tasks[w] # "none") /\ ~(w <= made)
    BY <1>2, WorkflowsAre, WorkerParams DEF Init, Workflows
  <2> QED BY <1>2, <2>1 DEF Init, OnePlace
<1> QED BY <1>1, <1>2, <1>3, <1>4 DEF WorkInv, Places, ActiveExact

\* The queue after a put and after a get.
LEMMA PutGet ==
  ASSUME queue \in Seq(Workflows), \A i, j \in 1..Len(queue) : i # j => queue[i] # queue[j]
  PROVE  /\ \A w \in Workflows :
              queue' = Append(queue, w) /\ w \notin Queued =>
                /\ queue' \in Seq(Workflows) /\ Queued' = Queued \cup {w}
                /\ \A i, j \in 1..Len(queue') : i # j => queue'[i] # queue'[j]
         /\ queue # <<>> /\ queue' = Tail(queue) =>
                /\ queue' \in Seq(Workflows) /\ Queued' = Queued \ {Head(queue)}
                /\ Head(queue) \in Queued /\ Head(queue) \in Workflows
                /\ \A i, j \in 1..Len(queue') : i # j => queue'[i] # queue'[j]
<1>1. ASSUME NEW w \in Workflows, queue' = Append(queue, w), w \notin Queued
      PROVE  /\ queue' \in Seq(Workflows) /\ Queued' = Queued \cup {w}
             /\ \A i, j \in 1..Len(queue') : i # j => queue'[i] # queue'[j]
  <2>1. /\ queue' \in Seq(Workflows) /\ Len(queue') = Len(queue) + 1
        /\ Len(queue) \in Nat
        /\ \A i \in 1..Len(queue) : queue'[i] = queue[i]
        /\ queue'[Len(queue) + 1] = w
    BY <1>1
  <2>2. Queued' = Queued \cup {w}
    BY <2>1 DEF Queued
  <2>3. \A i \in 1..Len(queue) : queue[i] # w
    BY <1>1 DEF Queued
  <2> QED BY <2>1, <2>2, <2>3
<1>2. ASSUME queue # <<>>, queue' = Tail(queue)
      PROVE  /\ queue' \in Seq(Workflows) /\ Queued' = Queued \ {Head(queue)}
             /\ Head(queue) \in Queued /\ Head(queue) \in Workflows
             /\ \A i, j \in 1..Len(queue') : i # j => queue'[i] # queue'[j]
  <2>1. /\ queue' \in Seq(Workflows) /\ Len(queue') = Len(queue) - 1
        /\ Len(queue) \in Nat /\ Len(queue) > 0
        /\ \A i \in 1..Len(queue') : queue'[i] = queue[i + 1]
        /\ Head(queue) = queue[1]
    BY <1>2
  <2>2. Head(queue) \in Queued /\ Head(queue) \in Workflows
    BY <2>1 DEF Queued
  <2>3. \A i \in 1..Len(queue') : i + 1 \in 1..Len(queue) /\ i + 1 # 1
    BY <2>1
  <2>4. \A i \in 1..Len(queue) : i # 1 => i - 1 \in 1..Len(queue') /\ queue[i] = queue'[i - 1]
    BY <2>1
  <2>5. Queued' \subseteq Queued \ {Head(queue)}
    BY <2>1, <2>3 DEF Queued
  <2>6. Queued \ {Head(queue)} \subseteq Queued'
    <3> SUFFICES ASSUME NEW x \in Queued, x # Head(queue)
                 PROVE  x \in Queued'
      OBVIOUS
    <3>1. PICK i \in 1..Len(queue) : x = queue[i] /\ i # 1
      BY <2>1 DEF Queued
    <3> QED BY <2>4, <3>1 DEF Queued
  <2>7. \A i, j \in 1..Len(queue') : i # j => queue'[i] # queue'[j]
    <3> SUFFICES ASSUME NEW i \in 1..Len(queue'), NEW j \in 1..Len(queue'), i # j
                 PROVE  queue'[i] # queue'[j]
      OBVIOUS
    <3>1. i + 1 # j + 1 /\ i + 1 \in 1..Len(queue) /\ j + 1 \in 1..Len(queue)
      BY <2>1, <2>3
    <3> QED BY <2>1, <3>1
  <2> QED BY <2>1, <2>2, <2>5, <2>6, <2>7
<1> QED BY <1>1, <1>2

\* A reply is put at the end of the queue.
LEMMA RepliesPlace ==
  ASSUME WorkInv, NEW m, NEW answer, Replies(m, answer), UNCHANGED <<start, held, tasks, fate>>
  PROVE  WorkInv'
<1> DEFINE w == made + 1
<1>1. w \in Workflows /\ w \in 0..MaxWorkflows /\ w = made'
  BY WorkerParams DEF Replies, WorkInv, WorkTypes, Workflows
<1>2. w \notin Queued /\ w # held /\ tasks[w] = "none"
  <2>1. ~(w <= made)
    BY WorkerParams DEF WorkInv, WorkTypes
  <2> QED BY <1>1, <2>1 DEF WorkInv, Places, OnePlace
<1>3. queue' = Append(queue, w) /\ active' = active \cup {w}
  BY <1>1 DEF Replies
<1> HIDE DEF w
<1>4. /\ queue' \in Seq(Workflows) /\ Queued' = Queued \cup {w}
      /\ \A i, j \in 1..Len(queue') : i # j => queue'[i] # queue'[j]
  BY <1>1, <1>2, <1>3, PutGet DEF WorkInv, WorkTypes, Places, OnePlace
<1>5. WorkTypes'
  BY <1>1, <1>4 DEF WorkInv, WorkTypes
<1>6. \A v \in Workflows : v <= made' <=> v <= made \/ v = w
  BY <1>1, WorkerParams DEF Workflows, WorkInv, WorkTypes, w
<1>7. OnePlace'
  BY <1>1, <1>2, <1>4, <1>6 DEF WorkInv, Places, OnePlace
<1>8. ActiveExact'
  BY <1>3, <1>4 DEF WorkInv, Places, ActiveExact, Live
<1> QED BY <1>5, <1>7, <1>8 DEF WorkInv, Places

\* The get of start() takes the first of the queue.
LEMMA GetPlaces ==
  ASSUME WorkInv, GetTakes
  PROVE  WorkInv'
<1>1. /\ queue' \in Seq(Workflows) /\ Queued' = Queued \ {held'}
      /\ held' \in Queued /\ held' \in Workflows /\ held = NoWorkflow
      /\ \A i, j \in 1..Len(queue') : i # j => queue'[i] # queue'[j]
  BY PutGet DEF GetTakes, WorkInv, WorkTypes, Places, OnePlace
<1>2. UNCHANGED <<start, tasks, active, made, fate>>
  BY DEF GetTakes, mailVars, procVars
<1>3. WorkTypes'
  BY <1>1, <1>2 DEF WorkInv, WorkTypes
<1>4. OnePlace'
  BY <1>1, <1>2, WorkflowsAre DEF WorkInv, Places, OnePlace
<1>5. ActiveExact'
  BY <1>1, <1>2, WorkflowsAre DEF WorkInv, Places, ActiveExact, Live
<1> QED BY <1>2, <1>3, <1>4, <1>5 DEF WorkInv, Places

\* start() makes a task of what its get has taken.
LEMMA DispatchPlaces ==
  ASSUME WorkInv, Dispatch
  PROVE  WorkInv'
<1>1. /\ held \in Workflows /\ held' = NoWorkflow /\ tasks' = [tasks EXCEPT ![held] = "created"]
      /\ UNCHANGED <<queue, active, made, fate>> /\ start' \in {"getting", "ended"}
  BY DEF Dispatch, mailVars, procVars, WorkInv, WorkTypes
<1>2. Queued' = Queued /\ tasks[held] = "none"
  BY <1>1 DEF Queued, WorkInv, Places, OnePlace
<1>3. WorkTypes'
  BY <1>1 DEF WorkInv, WorkTypes, States
<1>4. \A w \in Workflows : tasks'[w] = IF w = held THEN "created" ELSE tasks[w]
  BY <1>1 DEF WorkInv, WorkTypes
<1>5. OnePlace'
  <2>1. held \notin Queued /\ NoWorkflow \notin Queued
    BY WorkflowsAre DEF WorkInv, WorkTypes, Places, OnePlace, Queued
  <2>2. \A w \in Workflows :
          /\ w \in Queued' \/ w = held' \/ tasks'[w] # "none" <=>
               w \in Queued \/ w = held \/ tasks[w] # "none"
          /\ w \in Queued' \/ w = held' => tasks'[w] = "none"
    BY <1>1, <1>2, <1>4, <2>1, WorkflowsAre DEF WorkInv, Places, OnePlace
  <2> QED BY <1>1, <1>2, <2>1, <2>2 DEF WorkInv, Places, OnePlace
<1>6. Live' = Live \cup {held}
  BY <1>1, <1>4 DEF Live
<1>7. ActiveExact'
  BY <1>1, <1>2, <1>6, WorkflowsAre DEF WorkInv, Places, ActiveExact
<1>8. \A w \in fate.unstarted : tasks'[w] = "ended"
  BY <1>2, <1>4 DEF WorkInv, Places
<1> QED BY <1>1, <1>3, <1>5, <1>7, <1>8 DEF WorkInv, Places

\* A task begins or ends.
LEMMA TaskPlaces ==
  ASSUME WorkInv, NEW w \in Workflows, TaskBegins(w) \/ TaskEnds(w)
  PROVE  WorkInv'
<1>1. /\ UNCHANGED <<start, held, queue, made, fate>> /\ Queued' = Queued
      /\ tasks[w] \in {"created", "running", "cancelled"}
  BY DEF TaskBegins, TaskEnds, mailVars, procVars, Queued
<1>2. PICK state \in {"running", "ended"} : tasks' = [tasks EXCEPT ![w] = state]
  BY DEF TaskBegins, TaskEnds
<1>3. WorkTypes'
  BY <1>1, <1>2 DEF WorkInv, WorkTypes, States
<1>4. \A v \in Workflows : tasks'[v] = IF v = w THEN state ELSE tasks[v]
  BY <1>2 DEF WorkInv, WorkTypes
<1>5. OnePlace'
  BY <1>1, <1>4 DEF WorkInv, Places, OnePlace
<1>6. w \notin Queued /\ w # held /\ w \notin fate.unstarted /\ w \in Live
  BY <1>1 DEF WorkInv, Places, OnePlace, Live
<1>7. ActiveExact'
  <2>1. CASE TaskBegins(w)
    <3>1. state = "running"
      BY <1>2, <2>1 DEF TaskBegins, WorkInv, WorkTypes
    <3>2. Live' = Live
      BY <1>4, <1>6, <3>1 DEF Live
    <3> QED BY <1>1, <2>1, <3>2 DEF TaskBegins, WorkInv, Places, ActiveExact
  <2>2. CASE TaskEnds(w)
    <3>1. state = "ended"
      BY <1>2, <2>2 DEF TaskEnds, WorkInv, WorkTypes
    <3>2. Live' = Live \ {w}
      BY <1>4, <3>1 DEF Live
    <3>3. active' = active \ {w}
      BY <2>2 DEF TaskEnds
    <3> QED BY <1>1, <1>6, <3>2, <3>3 DEF WorkInv, Places, ActiveExact
  <2> QED BY <2>1, <2>2
<1>8. \A v \in fate.unstarted : tasks'[v] = "ended"
  BY <1>4, <1>6 DEF WorkInv, Places
<1> QED BY <1>1, <1>3, <1>5, <1>7, <1>8 DEF WorkInv, Places

\* A cancel ends the tasks that have not begun and leaves the others to end.
LEMMA CancelEffect ==
  ASSUME WorkInv, CancelTasks
  PROVE  /\ tasks' \in [Workflows -> States] /\ Live' = Live \ Unstarted
         /\ Unstarted \subseteq Live
         /\ \A w \in Workflows :
              /\ tasks'[w] = "none" <=> tasks[w] = "none"
              /\ w \in Unstarted \/ tasks[w] = "ended" => tasks'[w] = "ended"
<1>1. \A w \in Workflows : tasks'[w] = CASE tasks[w] = "created" -> "ended"
                                          [] tasks[w] = "running" -> "cancelled"
                                          [] OTHER -> tasks[w]
  BY DEF CancelTasks
<1>2. \A w \in Workflows : tasks[w] \in States
  BY DEF WorkInv, WorkTypes
<1>3. tasks' \in [Workflows -> States]
  <2>1. \A w \in Workflows : tasks'[w] \in States
    BY <1>1, <1>2 DEF States
  <2>2. tasks' = [w \in Workflows |-> tasks'[w]]
    BY DEF CancelTasks
  <2> QED BY <2>1, <2>2
<1>4. Live' = Live \ Unstarted
  BY <1>1, <1>2 DEF Live, Unstarted, States
<1> QED BY <1>1, <1>2, <1>3, <1>4 DEF Live, Unstarted, States

\* All tasks are cancelled; those that had not begun stay listed for ever.
LEMMA CancelPlaces ==
  ASSUME WorkInv, CancelTasks, UNCHANGED <<held, queue, active, made>>,
         start' \in {start, "ended"},
         fate' = [fate EXCEPT !.unstarted = @ \cup Unstarted],
         fate \in [swallowed : BOOLEAN, interrupted : BOOLEAN, overran : BOOLEAN,
                   unstarted : SUBSET Workflows]
  PROVE  WorkInv'
<1>1. Queued' = Queued /\ fate'.unstarted = fate.unstarted \cup Unstarted
  BY DEF Queued
<1>2. WorkTypes'
  BY CancelEffect DEF WorkInv, WorkTypes
<1>3. OnePlace'
  BY <1>1, CancelEffect DEF WorkInv, Places, OnePlace
<1>4. ActiveExact'
  BY <1>1, CancelEffect DEF WorkInv, Places, ActiveExact
<1>5. fate'.unstarted \subseteq Workflows /\ \A w \in fate'.unstarted : tasks'[w] = "ended"
  BY <1>1, CancelEffect DEF WorkInv, Places, Unstarted
<1> QED BY <1>2, <1>3, <1>4, <1>5 DEF WorkInv, Places

\* Every step keeps each workflow in one place.
LEMMA WorkStep ==
  ASSUME WorkInv, [Next]_vars,
         fate \in [swallowed : BOOLEAN, interrupted : BOOLEAN, overran : BOOLEAN,
                   unstarted : SUBSET Workflows]
  PROVE  WorkInv'
<1>1. ASSUME UNCHANGED <<held, queue, tasks, active, made>>, start' \in {start, "getting", "ended"},
             fate'.unstarted = fate.unstarted
      PROVE  WorkInv'
  BY <1>1 DEF WorkInv, WorkTypes, Places, OnePlace, ActiveExact, Queued, Live
<1>2. CASE UNCHANGED vars
  BY <1>1, <1>2 DEF vars, workVars, mailVars, procVars
<1>3. CASE Connected
  BY <1>1, <1>3 DEF Connected, mailVars
<1>4. ASSUME NEW retried \in BOOLEAN, ConnectFails(retried)
      PROVE  WorkInv'
  BY <1>1, <1>4 DEF ConnectFails, mailVars, workVars
<1>5. ASSUME NEW m \in Mails, MailArrives(m)
      PROVE  WorkInv'
  BY <1>1, <1>5 DEF MailArrives, procVars, workVars
<1>6. CASE PollSteps
  <2>1. ASSUME NEW answer \in Answers, HandleEvent(answer)
        PROVE  WorkInv'
    <3>1. UNCHANGED <<start, held, tasks, fate>>
      BY <2>1 DEF HandleEvent, procVars
    <3>2. CASE Replies(poll.cur, answer)
      BY <3>1, <3>2, RepliesPlace
    <3>3. CASE Dismisses(poll.cur, answer) \/ Raises(answer)
      BY <1>1, <3>1, <3>3 DEF Dismisses, Raises
    <3> QED BY <2>1, <3>2, <3>3 DEF HandleEvent
  <2>2. CASE UNCHANGED <<procVars, made, workVars>>
    BY <1>1, <2>2 DEF procVars, workVars
  <2> QED BY <1>6, <2>1, <2>2 DEF PollSteps, PollWakes, Listed, ListFailed, Parse, Marked,
                                  MarkRefused, MarkRaised, mailVars
<1>7. CASE TaskSteps
  <2>1. CASE GetTimesOut
    BY <1>1, <2>1 DEF GetTimesOut, procVars, mailVars
  <2> QED BY <1>7, <2>1, GetPlaces, DispatchPlaces, TaskPlaces DEF TaskSteps
<1>8. CASE ServerStops \/ Interrupted
  <2>1. fate'.unstarted = fate.unstarted
    BY <1>8 DEF ServerStops, Interrupted
  <2> QED BY <1>1, <1>8, <2>1 DEF ServerStops, Interrupted, mailVars, workVars
<1>9. CASE Joined \/ Drained \/ Finish \/ Exit
  BY <1>1, <1>9 DEF Joined, Drained, Finish, Exit, mailVars, workVars
<1>10. CASE DrainTimesOut
  <2>1. fate'.unstarted = fate.unstarted
    BY <1>10 DEF DrainTimesOut
  <2> QED BY <1>1, <1>10, <2>1 DEF DrainTimesOut, mailVars, workVars
<1>11. CASE Close \/ CancelRest
  <2>1. /\ CancelTasks /\ UNCHANGED <<held, queue, active, made>> /\ start' \in {start, "ended"}
        /\ fate' = [fate EXCEPT !.unstarted = @ \cup Unstarted]
    BY <1>11 DEF Close, CancelRest, mailVars
  <2> QED BY <2>1, CancelPlaces
<1> QED BY <1>2, <1>3, <1>4, <1>5, <1>6, <1>7, <1>8, <1>9, <1>10, <1>11 DEF Next, MainSteps

-----------------------------------------------------------------------------
(* The process *)

ProcTypes ==
  /\ main \in {"connecting", "serving", "joining", "closing", "draining", "finishing",
               "ended", "exiting", "exited"}
  /\ attempt \in 1..MaxRetries
  /\ provider \in {"none", "google", "microsoft"}
  /\ running \in BOOLEAN
  /\ active \subseteq Workflows /\ draining \subseteq Workflows
  /\ fate \in [swallowed : BOOLEAN, interrupted : BOOLEAN, overran : BOOLEAN,
               unstarted : SUBSET Workflows]

\* The types of what main keeps.
LEMMA ProcStep ==
  ASSUME ProcTypes, WorkInv, WorkInv', [Next]_vars
  PROVE  ProcTypes'
<1>1. active' \subseteq Workflows
  <2>1. Queued' \subseteq Workflows
    BY DEF WorkInv, WorkTypes, Queued
  <2>2. Live' \subseteq Workflows /\ fate'.unstarted \subseteq Workflows
        /\ {held'} \ {NoWorkflow} \subseteq Workflows
    BY DEF WorkInv, WorkTypes, Places, Live
  <2> QED BY <2>1, <2>2 DEF WorkInv, Places, ActiveExact
<1>2. attempt' \in 1..MaxRetries
  <2>1. UNCHANGED attempt \/ (attempt < MaxRetries /\ attempt' = attempt + 1)
    BY DEF Next, PollSteps, TaskSteps, MainSteps, Connected, ConnectFails, MailArrives, PollWakes,
       Listed, ListFailed, Parse, HandleEvent, Marked, MarkRefused, MarkRaised, GetTakes, Dispatch,
       GetTimesOut, TaskBegins, TaskEnds, ServerStops, Interrupted, Joined, Close, Drained,
       DrainTimesOut, Finish, CancelRest, Exit, procVars, vars
  <2> QED BY <2>1, WorkerParams DEF ProcTypes
<1>3. /\ main' \in {"connecting", "serving", "joining", "closing", "draining", "finishing",
                    "ended", "exiting", "exited"}
      /\ UNCHANGED provider /\ running' \in BOOLEAN
      /\ draining' \subseteq Workflows
  BY DEF ProcTypes, Next, PollSteps, TaskSteps, MainSteps, Connected, ConnectFails, MailArrives,
     PollWakes, Listed, ListFailed, Parse, HandleEvent, Marked, MarkRefused, MarkRaised, GetTakes,
     Dispatch, GetTimesOut, TaskBegins, TaskEnds, ServerStops, Interrupted, Joined, Close, Drained,
     DrainTimesOut, Finish, CancelRest, Exit, procVars, vars, Live
<1>4. fate' \in [swallowed : BOOLEAN, interrupted : BOOLEAN, overran : BOOLEAN,
                 unstarted : SUBSET Workflows]
  <2>1. \/ UNCHANGED fate
        \/ fate' = [fate EXCEPT !.swallowed = TRUE]
        \/ fate' = [fate EXCEPT !.interrupted = TRUE]
        \/ fate' = [fate EXCEPT !.overran = TRUE]
        \/ fate' = [fate EXCEPT !.unstarted = @ \cup Unstarted]
    BY DEF Next, PollSteps, TaskSteps, MainSteps, Connected, ConnectFails, MailArrives, PollWakes,
       Listed, ListFailed, Parse, HandleEvent, Marked, MarkRefused, MarkRaised, GetTakes, Dispatch,
       GetTimesOut, TaskBegins, TaskEnds, ServerStops, Interrupted, Joined, Close, Drained,
       DrainTimesOut, Finish, CancelRest, Exit, procVars, vars
  <2>2. Unstarted \subseteq Workflows
    BY DEF Unstarted
  <2> QED BY <2>1, <2>2 DEF ProcTypes
<1> QED BY <1>1, <1>2, <1>3, <1>4 DEF ProcTypes

\* They hold at the start.
LEMMA ProcInit == Init => ProcTypes
BY WorkerParams DEF Init, ProcTypes

\* The invariants of the mailbox, the queue and the process hold throughout.
LEMMA TypesStay == Spec => [](MailInv /\ WorkInv /\ ProcTypes)
<1>1. Init => Unbegun
  BY DEF Init, Unbegun, At
<1>2. WorkInv /\ ProcTypes /\ [Next]_vars => WorkInv'
  BY WorkStep DEF ProcTypes
<1> QED BY <1>1, <1>2, MailInit, MailStep, UnbegunStep, WorkInit, ProcInit, ProcStep, PTL DEF Spec

\* Types; in particular init_db_with_retry makes at most max_retries attempts.
THEOREM TypeCorrect == Spec => []TypeOK
<1>1. MailInv /\ WorkInv /\ ProcTypes => TypeOK
  BY DEF MailInv, MailTypes, WorkInv, WorkTypes, ProcTypes, TypeOK, States
<1> QED BY <1>1, TypesStay, PTL

\* start(), its wait_for, the queue and the tasks together hold each workflow that was
\* built, in one place and once.
THEOREM NoneLostNorDoubled == Spec => []OnePlace
<1>1. WorkInv => OnePlace
  BY DEF WorkInv, Places
<1> QED BY <1>1, TypesStay, PTL

\* active_workflows lists what is queued or executes, and for ever the workflows whose
\* task was cancelled before its first step (_execute_workflow, close).
THEOREM ActiveListed == Spec => []ActiveExact
<1>1. WorkInv => ActiveExact
  BY DEF WorkInv, Places
<1> QED BY <1>1, TypesStay, PTL

-----------------------------------------------------------------------------
(* The shutdown *)

\* In a shutdown that nobody cuts short start() has ended before close(), which leaves
\* no task behind.
Orderly == ~fate.overran /\ ~fate.interrupted =>
  /\ main \in {"closing", "draining", "finishing", "ended", "exiting"} => start = "ended"
  /\ main = "draining" => Live \subseteq draining
  /\ main \in {"finishing", "ended", "exiting"} => Live = {}

\* Every step keeps the shutdown in order.
LEMMA OrderlyStep ==
  ASSUME Orderly, WorkInv, ProcTypes, [Next]_vars
  PROVE  Orderly'
<1>1. ASSUME UNCHANGED <<main, start, fate, draining>>, Live' \subseteq Live
      PROVE  Orderly'
  BY <1>1 DEF Orderly
<1>2. CASE PollSteps \/ UNCHANGED vars \/ GetTakes \/ \E m \in Mails : MailArrives(m)
  <2>1. UNCHANGED <<main, start, fate, draining, tasks>>
    BY <1>2 DEF PollSteps, PollWakes, Listed, ListFailed, Parse, HandleEvent, Marked, MarkRefused,
                MarkRaised, MailArrives, GetTakes, procVars, workVars, vars
  <2> QED BY <1>1, <2>1 DEF Live
<1>3. CASE Connected \/ ServerStops \/ \E retried \in BOOLEAN : ConnectFails(retried)
  <2>1. main' \in {"connecting", "serving", "joining", "exited"}
    BY <1>3 DEF Connected, ServerStops, ConnectFails, ProcTypes
  <2> QED BY <2>1 DEF Orderly
<1>4. CASE Dispatch \/ GetTimesOut
  <2>1. start = "getting" /\ UNCHANGED <<main, fate>>
    BY <1>4 DEF Dispatch, GetTimesOut, procVars
  <2> QED BY <2>1 DEF Orderly
<1>5. ASSUME NEW w \in Workflows, TaskBegins(w) \/ TaskEnds(w)
      PROVE  Orderly'
  <2>1. UNCHANGED <<main, start, fate, draining>>
    BY <1>5 DEF TaskBegins, TaskEnds, procVars
  <2>2. Live' \subseteq Live
    BY <1>5 DEF TaskBegins, TaskEnds, Live, WorkInv, WorkTypes
  <2> QED BY <1>1, <2>1, <2>2
<1>6. CASE Interrupted \/ DrainTimesOut
  <2>1. fate'.interrupted \/ fate'.overran
    BY <1>6 DEF Interrupted, DrainTimesOut, ProcTypes
  <2> QED BY <2>1 DEF Orderly
<1>7. CASE Joined
  BY <1>7 DEF Joined, Orderly, workVars
<1>8. CASE Close \/ CancelRest
  <2>1. CancelTasks /\ fate'.overran = fate.overran /\ fate'.interrupted = fate.interrupted
    BY <1>8 DEF Close, CancelRest, ProcTypes
  <2>2. Live' = Live \ Unstarted
    BY <2>1, CancelEffect
  <2>3. CASE Close
    BY <2>1, <2>2, <2>3 DEF Close, Orderly
  <2>4. CASE CancelRest
    BY <2>1, <2>2, <2>4 DEF CancelRest, Orderly
  <2> QED BY <1>8, <2>3, <2>4
<1>9. CASE Drained \/ Finish \/ Exit
  <2>1. UNCHANGED <<start, fate, tasks>> /\ Live' = Live
    BY <1>9 DEF Drained, Finish, Exit, workVars, Live
  <2> QED BY <1>9, <2>1 DEF Drained, Finish, Exit, Orderly
<1> QED BY <1>2, <1>3, <1>4, <1>5, <1>6, <1>7, <1>8, <1>9 DEF Next, TaskSteps, MainSteps

\* A task works on a closed database session only if it needed more than the 5 seconds of
\* close(), or if main was interrupted and start() went on (main, close).
THEOREM SessionOutlives == Spec => []NothingOutlivesSession
<1>1. Orderly => NothingOutlivesSession
  BY DEF Orderly, NothingOutlivesSession, SessionClosed
<1>2. Init => Orderly
  BY DEF Init, Orderly
<1>3. Orderly /\ WorkInv /\ ProcTypes /\ [Next]_vars => Orderly'
  BY OrderlyStep
<1> QED BY <1>1, <1>2, <1>3, TypesStay, PTL DEF Spec

-----------------------------------------------------------------------------
(* Whether the shutdown ends: what it waits for, and what it waits for in  *)
(* vain.                                                                   *)

\* What the shutdown waits for has ended or goes on by itself: gather returns at once,
\* the tasks of asyncio.wait were cancelled after they began, and a start() that is still
\* there at the end leaves its loop after this get.
WaitsForMoving ==
  /\ main = "joining" /\ ~fate.swallowed => start = "ended"
  /\ main = "exiting" /\ start # "ended" => start = "getting" /\ ~running
  /\ \A w \in draining \cap Live : tasks[w] = "cancelled"

\* A shutdown whose cancel was swallowed waits for a start() that goes on as before.
WaitsInVain == main = "joining" /\ fate.swallowed => start = "getting" /\ running

\* What keeps both true.
ShutdownInv ==
  /\ WaitsForMoving /\ WaitsInVain
  /\ main \in {"connecting", "serving", "joining", "closing"} => running
  /\ main \in {"draining", "finishing", "ended", "exiting"} => ~running
  /\ main \in {"connecting", "serving"} => ~fate.swallowed
  /\ main = "connecting" => start = "absent"
  /\ main = "serving" => start = "getting"
  /\ main \in {"closing", "draining", "finishing", "ended", "exiting"} => start # "absent"
  /\ \A w \in draining : tasks[w] \in {"cancelled", "ended"}

\* The invariant speaks of these variables only.
LEMMA ShutdownReads ==
  ASSUME ShutdownInv, UNCHANGED <<main, running, start, fate, draining>>,
         \A w \in draining : tasks'[w] \in {"cancelled", "ended"}
  PROVE  ShutdownInv'
BY DEF ShutdownInv, WaitsForMoving, WaitsInVain, Live

\* Cancelling all tasks leaves no begun task running.
LEMMA CancelledWait ==
  ASSUME WorkInv, CancelTasks, draining' = Live \ Unstarted
  PROVE  \A w \in draining' : tasks'[w] \in {"cancelled", "ended"}
<1> SUFFICES ASSUME NEW w \in Live, w \notin Unstarted PROVE tasks'[w] = "cancelled"
  OBVIOUS
<1>1. w \in Workflows /\ tasks[w] \in {"running", "cancelled"}
  BY DEF Live, Unstarted
<1> QED BY <1>1 DEF CancelTasks

\* A step keeps it.
LEMMA ShutdownStep ==
  ASSUME ShutdownInv, WorkInv, ProcTypes, [Next]_vars
  PROVE  ShutdownInv'
<1>1. CASE PollSteps \/ UNCHANGED vars \/ GetTakes \/ \E m \in Mails : MailArrives(m)
  <2>1. UNCHANGED <<main, running, start, fate, draining, tasks>>
    BY <1>1 DEF PollSteps, PollWakes, Listed, ListFailed, Parse, HandleEvent, Marked, MarkRefused,
                MarkRaised, MailArrives, GetTakes, procVars, workVars, vars
  <2> QED BY <2>1, ShutdownReads DEF ShutdownInv
<1>2. CASE Connected \/ \E retried \in BOOLEAN : ConnectFails(retried)
  BY <1>2 DEF Connected, ConnectFails, workVars, ShutdownInv, WaitsForMoving, WaitsInVain, Live
<1>3. CASE Dispatch
  <2>1. /\ start = "getting" /\ held \in Workflows /\ tasks[held] = "none"
        /\ tasks' = [tasks EXCEPT ![held] = "created"]
        /\ start' = IF running THEN "getting" ELSE "ended"
        /\ UNCHANGED <<main, running, fate, draining>>
    BY <1>3 DEF Dispatch, procVars, WorkInv, WorkTypes, Places, OnePlace
  <2>2. \A w \in draining : w # held /\ tasks'[w] = tasks[w]
    BY <2>1 DEF ShutdownInv, ProcTypes, WorkInv, WorkTypes
  <2> QED BY <2>1, <2>2 DEF ShutdownInv, WaitsForMoving, WaitsInVain, Live
<1>4. CASE GetTimesOut
  BY <1>4 DEF GetTimesOut, procVars, ShutdownInv, WaitsForMoving, WaitsInVain, Live
<1>5. ASSUME NEW w \in Workflows, TaskBegins(w) \/ TaskEnds(w)
      PROVE  ShutdownInv'
  <2>1. UNCHANGED <<main, running, start, fate, draining>>
    BY <1>5 DEF TaskBegins, TaskEnds, procVars
  <2>2. ASSUME NEW v \in draining PROVE tasks'[v] \in {"cancelled", "ended"}
    <3>1. v \in Workflows /\ tasks[v] \in {"cancelled", "ended"}
      BY <2>2 DEF ShutdownInv, ProcTypes
    <3> QED BY <1>5, <3>1 DEF TaskBegins, TaskEnds, WorkInv, WorkTypes
  <2> QED BY <2>1, <2>2, ShutdownReads
<1>6. CASE ServerStops
  <2>1. fate'.swallowed = IF held = NoWorkflow THEN fate.swallowed ELSE TRUE
    BY <1>6 DEF ServerStops, ProcTypes
  <2> QED BY <1>6, <2>1 DEF ServerStops, workVars, ShutdownInv, WaitsForMoving, WaitsInVain, Live
<1>7. CASE Interrupted \/ Joined
  <2>1. main' = "closing" /\ start # "absent" /\ UNCHANGED <<running, start, draining, tasks>> /\ running
    BY <1>7 DEF Interrupted, Joined, workVars, ShutdownInv
  <2> QED BY <2>1 DEF ShutdownInv, WaitsForMoving, WaitsInVain, Live
<1>8. CASE Close \/ CancelRest
  <2>1. \A w \in draining' : tasks'[w] \in {"cancelled", "ended"}
    BY <1>8, CancelledWait DEF Close, CancelRest
  <2>2. /\ main' \in {"draining", "finishing", "exiting"} /\ ~running'
        /\ start # "absent" /\ start' \in {start, "ended"}
    BY <1>8 DEF Close, CancelRest, ShutdownInv
  <2> QED BY <2>1, <2>2 DEF ShutdownInv, WaitsForMoving, WaitsInVain, Live, WorkInv, WorkTypes
<1>9. CASE Drained \/ DrainTimesOut \/ Finish \/ Exit
  <2>1. /\ main' \in {"finishing", "ended", "exited"} /\ draining' \subseteq draining
        /\ main \in {"draining", "finishing", "exiting"}
        /\ UNCHANGED <<running, start, tasks>>
    BY <1>9 DEF Drained, DrainTimesOut, Finish, Exit, workVars
  <2> QED BY <2>1 DEF ShutdownInv, WaitsForMoving, WaitsInVain, Live
<1> QED BY <1>1, <1>2, <1>3, <1>4, <1>5, <1>6, <1>7, <1>8, <1>9 DEF Next, TaskSteps, MainSteps

\* It holds throughout.
LEMMA ShutdownStays == Spec => []ShutdownInv
<1>1. Init => ShutdownInv
  BY DEF Init, ShutdownInv, WaitsForMoving, WaitsInVain
<1>2. ShutdownInv /\ MailInv /\ WorkInv /\ ProcTypes /\ [Next]_vars => ShutdownInv'
  BY ShutdownStep
<1> QED BY <1>1, <1>2, TypesStay, PTL DEF Spec

\* Unless its cancel was swallowed, the shutdown waits only for what ends by itself: this
\* is what ShutdownEnds needs beside the fairness of the event loop (main, close).
THEOREM ShutdownWaitsForMoving == Spec => []WaitsForMoving
<1>1. ShutdownInv => WaitsForMoving
  BY DEF ShutdownInv
<1> QED BY <1>1, ShutdownStays, PTL

\* And if start() swallowed it, no step of the worker ends the shutdown: start() goes on
\* getting workflows, and gather(*pending) never returns (main, start).
THEOREM SwallowedCancelHangs ==
  Spec => [][main = "joining" /\ fate.swallowed => main' = "joining"]_vars
<1>1. ASSUME ShutdownInv, ProcTypes, [Next]_vars, main = "joining", fate.swallowed
      PROVE  main' = "joining"
  <2>1. start # "ended"
    BY <1>1 DEF ShutdownInv, WaitsInVain
  <2> QED BY <1>1, <2>1 DEF Next, PollSteps, TaskSteps, MainSteps, Connected, ConnectFails,
       MailArrives, PollWakes, Listed, ListFailed, Parse, HandleEvent, Marked, MarkRefused,
       MarkRaised, GetTakes, Dispatch, GetTimesOut, TaskBegins, TaskEnds, ServerStops, Interrupted,
       Joined, Close, Drained, DrainTimesOut, Finish, CancelRest, Exit, procVars, vars
<1>2. MailInv /\ WorkInv /\ ProcTypes /\ ShutdownInv /\ [Next]_vars =>
        [main = "joining" /\ fate.swallowed => main' = "joining"]_vars
  BY <1>1
<1> QED BY <1>2, TypesStay, ShutdownStays, PTL DEF Spec
=============================================================================
