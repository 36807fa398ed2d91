----------------------- MODULE WorkflowEngineProofs -----------------------
(***************************************************************************)
(* Proofs about WorkflowEngine for every set of workflows, any number of   *)
(* permits and any number of executions and cancels.                       *)
(***************************************************************************)
EXTENDS WorkflowEngine, TLAPS

---------------------------------------------------------------------------
(* The semaphore.                                                          *)

\* Waking a waiter keeps the queue and the woken ones waiters of the semaphore.
LEMMA WakeNextType ==
  ASSUME NEW Task, NEW s \in Semaphore(Task), s.value > 0
  PROVE  WakeNext(s) \in Semaphore(Task)
  BY DEF WakeNext, Semaphore

\* Releasing a permit, which wakes the next waiter, keeps the semaphore typed.
LEMMA ReleaseType ==
  ASSUME NEW Task, NEW s \in Semaphore(Task)
  PROVE  Release(s) \in Semaphore(Task)
<1> DEFINE r == [s EXCEPT !.value = @ + 1]
<1>1. r \in Semaphore(Task) /\ r.value > 0
  BY DEF Semaphore
<1>2. WakeNext(r) \in Semaphore(Task)
  BY <1>1, WakeNextType
<1> QED BY <1>2 DEF Release

\* So does a woken waiter that takes its turn and passes a spare permit on.
LEMMA ResumeType ==
  ASSUME NEW Task, NEW s \in Semaphore(Task), NEW t
  PROVE  Resume(s, t) \in Semaphore(Task)
<1> DEFINE r == [s EXCEPT !.granted = @ \ {t}]
<1>1. r \in Semaphore(Task)
  BY DEF Semaphore
<1>2. r.value > 0 => WakeNext(r) \in Semaphore(Task)
  BY <1>1, WakeNextType
<1> QED BY <1>1, <1>2 DEF Resume

\* So does a woken waiter that is cancelled and gives its permit back.
LEMMA AbandonType ==
  ASSUME NEW Task, NEW s \in Semaphore(Task), NEW t
  PROVE  Abandon(s, t) \in Semaphore(Task)
<1> DEFINE r == [s EXCEPT !.granted = @ \ {t}]
<1>1. r \in Semaphore(Task)
  BY DEF Semaphore
<1>2. Release(r) \in Semaphore(Task)
  BY <1>1, ReleaseType
<1> QED BY <1>2 DEF Abandon

\* So does queueing,
LEMMA EnqueueType ==
  ASSUME NEW Task, NEW s \in Semaphore(Task), NEW t \in Task
  PROVE  Enqueue(s, t) \in Semaphore(Task)
<1>1. s.queue \in Seq(Task)
  BY DEF Semaphore
<1>2. Append(s.queue, t) \in Seq(Task)
  BY <1>1
<1> QED BY <1>2 DEF Enqueue, Semaphore

\* taking a permit that is free,
LEMMA TakeType ==
  ASSUME NEW Task, NEW s \in Semaphore(Task), ~Locked(s)
  PROVE  Take(s) \in Semaphore(Task)
  BY DEF Take, Locked, Semaphore

\* and a waiter that is cancelled and leaves the queue.
LEMMA WithdrawType ==
  ASSUME NEW Task, NEW s \in Semaphore(Task), NEW t
  PROVE  Withdraw(s, t) \in Semaphore(Task)
<1> DEFINE q == s.queue
<1>0. q \in Seq(Task) /\ Len(q) \in Nat
  BY DEF Semaphore
<1>1. CASE \A i \in 1..Len(q) : q[i] # t
  BY <1>1 DEF Withdraw
<1>2. CASE \E i \in 1..Len(q) : q[i] = t
  <2> DEFINE at == CHOOSE i \in 1..Len(q) : q[i] = t
             r == [i \in 1..(Len(q) - 1) |-> q[IF i < at THEN i ELSE i + 1]]
  <2>1. at \in 1..Len(q)
    BY <1>2
  <2>2. \A i \in 1..(Len(q) - 1) : q[IF i < at THEN i ELSE i + 1] \in Task
    BY <1>0, <2>1
  <2>3. r \in Seq(Task)
    BY <1>0, <1>2, <2>2
  <2>4. [s EXCEPT !.queue = r] \in Semaphore(Task)
    BY <2>3 DEF Semaphore
  <2> QED BY <1>2, <2>4 DEF Withdraw
<1> QED BY <1>1, <1>2

---------------------------------------------------------------------------
(* The frame of one execution.                                             *)

\* What holds of the frame of an execution between any two segments.
Sound(f) ==
  /\ f \in Frames
  /\ f.call # "none" \/ f.pc = "backoff" => f.node \in DOMAIN Flows[f.wf].nodes
  /\ f.pc \in {"free", "waiting", "backoff"} => f.call = "none"
  /\ f.call \in {"running", "stopping"} =>
       f.pc \in {"acting", "cancelling", "timingout"} \/ f.status = "cancelled"
  /\ f.status = "none" <=> f.pc \in InFlight \cup {"free"}

\* The node an attempt is about is a node of the workflow.
LEMMA NodeIsTyped ==
  ASSUME NEW f, Sound(f), f.call # "none" \/ f.pc = "backoff"
  PROVE  NodeOf(f) \in NodeDefs
  BY FlowsTyped DEF FlowsAssumption, Sound, NodeOf, Frames

\* A frame the walk may go on from: its call is over and it has not ended.
Walking(f) == /\ f \in Frames
              /\ f.call = "none"
              /\ f.status = "none"

\* The end of the `async with` body leaves a sound frame with a status.
LEMMA LeaveSound ==
  ASSUME NEW f, Walking(f)
  PROVE  /\ Sound(Leave(f))
         /\ Leave(f).pc = "saving"
         /\ Leave(f).status \in {"completed", "failed"}
         /\ Leave(f).parent = f.parent
         /\ Leave(f).call = "none"
<1> DEFINE errs == f.errors \cup
                     (IF f.iter >= f.maxIter THEN {"max_iterations"} ELSE {})
<1>1. errs \in SUBSET Reasons
  BY DEF Walking, Frames, Reasons
<1>2. Leave(f) = [f EXCEPT !.pc = "saving", !.errors = errs,
                           !.status = IF errs = {} THEN "completed" ELSE "failed"]
  BY DEF Leave
<1> HIDE DEF errs
<1> QED BY <1>1, <1>2 DEF Walking, Sound, Frames, Pcs, Final, InFlight

\* An attempt at an existing node leaves a sound frame that waits for its call.
LEMMA AttemptSound ==
  ASSUME NEW f, Walking(f), f.node \in DOMAIN Flows[f.wf].nodes
  PROVE  /\ Sound(Attempt(f))
         /\ Attempt(f).pc = "acting"
         /\ Attempt(f).parent = f.parent
         /\ Attempt(f).child = NoExec
  BY DEF Walking, Attempt, Sound, Frames, Pcs, Final, InFlight, CallStates, Ended, NoExec

\* What a segment of the walk ends in.
Settled(f, g) ==
  /\ Sound(g)
  /\ g.pc \in {"acting", "saving"}
  /\ g.pc = "saving" => g.status \in {"completed", "failed"} /\ g.call = "none"
  /\ g.parent = f.parent

\* The head of the while loop, at any node id, ends in an attempt or in the save.
LEMMA VisitSettles ==
  ASSUME NEW f, Walking(f), NEW n \in NodeIds
  PROVE  Settled(f, Visit(f, n))
<1> DEFINE g == [f EXCEPT !.node = n]
           h == [g EXCEPT !.iter = @ + 1, !.errors = @ \cup {"not_found"}]
           k == [g EXCEPT !.iter = @ + 1, !.att = 0]
<1>1. Walking(g) /\ g.parent = f.parent /\ g.wf = f.wf
  BY DEF Walking, Frames
<1>0. g \in Frames /\ g.node = n
  BY DEF Walking, Frames
<1> HIDE DEF g
<1>2. Walking(h) /\ h.parent = f.parent
  <2>1. h \in Frames
    <3>1. g.iter + 1 \in Nat /\ g.errors \cup {"not_found"} \in SUBSET Reasons
      BY <1>0 DEF Frames, Reasons
    <3> QED BY <1>0, <3>1 DEF Frames
  <2>2. h.call = g.call /\ h.status = g.status /\ h.parent = g.parent
    BY <1>0 DEF Frames
  <2> QED BY <1>1, <2>1, <2>2 DEF Walking
<1>3. Walking(k) /\ k.parent = f.parent /\ k.node = n /\ k.wf = f.wf
  <2>1. k \in Frames
    <3>1. g.iter + 1 \in Nat
      BY <1>0 DEF Frames
    <3> QED BY <1>0, <3>1 DEF Frames
  <2>2. /\ k.call = g.call /\ k.status = g.status /\ k.parent = g.parent
        /\ k.node = g.node /\ k.wf = g.wf
    BY <1>0 DEF Frames
  <2> QED BY <1>0, <1>1, <2>1, <2>2 DEF Walking
<1> USE DEF g
<1>4. CASE n = NoNode \/ f.iter >= f.maxIter
  BY <1>1, <1>4, LeaveSound DEF Visit, Settled
<1>5. CASE ~(n = NoNode \/ f.iter >= f.maxIter) /\ n \notin DOMAIN Flows[f.wf].nodes
  <2>1. Visit(f, n) = Leave(h)
    BY <1>5 DEF Visit
  <2> QED BY <1>2, <2>1, LeaveSound DEF Settled
<1>6. CASE ~(n = NoNode \/ f.iter >= f.maxIter) /\ n \in DOMAIN Flows[f.wf].nodes
  <2>1. Visit(f, n) = Attempt(k)
    BY <1>6 DEF Visit
  <2> HIDE DEF k
  <2> QED BY <1>3, <1>6, <2>1, AttemptSound DEF Settled
<1> QED BY <1>4, <1>5, <1>6

\* So does the entry into the `async with` body.
LEMMA EnterFlowSettles ==
  ASSUME NEW f, Walking(f)
  PROVE  Settled(f, EnterFlow(f))
<1> DEFINE start == Flows[f.wf].start
<1>1. start \in NodeIds
  BY FlowsTyped DEF FlowsAssumption, Walking, Frames
<1>2. CASE start = NoNode
  <2> DEFINE g == [f EXCEPT !.pc = "saving", !.status = "failed",
                            !.errors = {"no_start_node"}]
  <2>1. EnterFlow(f) = g
    BY <1>2 DEF EnterFlow
  <2>2. g \in Frames
    BY DEF Walking, Frames, Pcs, Final, Reasons
  <2>3. /\ g.pc = "saving" /\ g.status = "failed" /\ g.parent = f.parent
        /\ g.call = "none"
    BY DEF Walking, Frames
  <2> HIDE DEF g
  <2> QED BY <2>1, <2>2, <2>3 DEF Settled, Sound, InFlight
<1>3. CASE start # NoNode
  BY <1>1, <1>3, VisitSettles DEF EnterFlow
<1> QED BY <1>2, <1>3

\* A new execution, and what it is after its first segment.
Starts(f, p) ==
  /\ Walking(f) /\ Sound(f)
  /\ f.pc = "waiting" /\ f.parent = p
  /\ Settled(f, EnterFlow(f))

\* A new execution is sound, queued or after its first segment.
LEMMA NewFrameStarts ==
  \A w \in DOMAIN Flows, p \in Exec \cup {NoExec}, d \in Nat, max \in Nat :
    Starts(NewFrame(w, p, d, max), p)
<1> SUFFICES ASSUME NEW w \in DOMAIN Flows, NEW p \in Exec \cup {NoExec},
                    NEW d \in Nat, NEW max \in Nat
             PROVE  Starts(NewFrame(w, p, d, max), p)
  OBVIOUS
<1> DEFINE f == NewFrame(w, p, d, max)
<1>1. Walking(f) /\ Sound(f) /\ f.pc = "waiting" /\ f.parent = p
  BY FlowsTyped DEF FlowsAssumption, NewFrame, Walking, Sound, Frames, Pcs,
       InFlight, CallStates, NoExec
<1> HIDE DEF f
<1>2. Settled(f, EnterFlow(f))
  BY <1>1, EnterFlowSettles
<1> QED BY <1>1, <1>2 DEF Starts, f

\* A cancel may end any sound frame.
LEMMA CancelledSound ==
  ASSUME NEW f, Sound(f)
  PROVE  /\ Sound(Cancelled(f))
         /\ Cancelled(f).pc = "saving"
         /\ Cancelled(f).status = "cancelled"
         /\ Cancelled(f).parent = f.parent
         /\ Cancelled(f).call = f.call
         /\ Cancelled(f).child = f.child
  BY DEF Cancelled, Sound, Frames, Pcs, Final, InFlight, Reasons

---------------------------------------------------------------------------
(* The inductive invariant.                                                *)

AllSound(x) == x \in [Exec -> Frames] /\ \A e \in Exec : Sound(x[e])

\* An iteration that has not ended is the one its loop call waits for.
Linked(x) ==
  \A c \in Exec : x[c].pc \notin {"free", "done"} /\ x[c].parent # NoExec =>
    /\ x[c].parent # c
    /\ x[x[c].parent].child = c
    /\ x[x[c].parent].call = "running"

\* A record is written last, with the status the execution ended with.
StoreFinal ==
  \A e \in Exec : store[e] # "none" => ex[e].pc = "done" /\ store[e] = ex[e].status

IInv ==
  /\ TypeOK
  /\ AllSound(ex)
  /\ Linked(ex)
  /\ RegistryExact
  /\ StoreFinal

\* _inc_metric keeps the metrics natural numbers.
LEMMA CountedType ==
  ASSUME NEW m \in [executed : Nat, succeeded : Nat, failed : Nat, cancelled : Nat],
         NEW status \in Final
  PROVE  Counted(m, status) \in
           [executed : Nat, succeeded : Nat, failed : Nat, cancelled : Nat]
<1>1. CASE status = "completed"
  BY <1>1 DEF Counted
<1>2. CASE status = "failed"
  BY <1>2 DEF Counted
<1>3. CASE status = "cancelled"
  BY <1>3 DEF Counted
<1> QED BY <1>1, <1>2, <1>3 DEF Final

\* The executor starts in the invariant.
LEMMA InitInv == Init => IInv
<1> SUFFICES ASSUME Init PROVE IInv
  OBVIOUS
<1> DEFINE w == CHOOSE v \in DOMAIN Flows : TRUE
           f == [NewFrame(w, NoExec, 0, 1) EXCEPT !.pc = "free"]
<1>1. w \in DOMAIN Flows
  BY FlowsTyped DEF FlowsAssumption
<1>2. ex = [e \in Exec |-> f]
  BY DEF Init
<1> HIDE DEF w
<1>3. f \in Frames /\ f.pc = "free" /\ f.call = "none" /\ f.status = "none"
  <2>1. Starts(NewFrame(w, NoExec, 0, 1), NoExec)
    BY <1>1, NewFrameStarts
  <2> QED BY <2>1 DEF Starts, Walking, Frames, Pcs
<1> HIDE DEF f
<1>4. Sound(f)
  BY <1>3 DEF Sound, InFlight
<1>5. AllSound(ex) /\ Linked(ex)
  BY <1>2, <1>3, <1>4 DEF AllSound, Linked
<1>6. sem \in Semaphore(Exec)
  BY BoundsTyped DEF Init, NewSemaphore, Semaphore
<1>7. RegistryExact /\ StoreFinal
  BY <1>2, <1>3 DEF Init, RegistryExact, StoreFinal, InFlight
<1> QED BY <1>5, <1>6, <1>7 DEF Init, IInv, TypeOK, AllSound, Final

\* A segment that ends in a sound frame keeps the invariant.
LEMMA SettleInv ==
  ASSUME IInv, NEW e \in Exec, NEW f, NEW s, Settle(e, f, s),
         s \in Semaphore(Exec), ex[e].pc \in InFlight,
         Sound(f), f.pc \in InFlight \cup {"saving"}, f.parent = ex[e].parent,
         \/ ex[e].call # "running"
         \/ f.call = ex[e].call /\ f.child = ex[e].child
  PROVE  IInv'
<1>1. ex' = [ex EXCEPT ![e] = f] /\ ex \in [Exec -> Frames] /\ f \in Frames
  BY DEF Settle, IInv, TypeOK, Sound
<1>2. AllSound(ex')
  BY <1>1 DEF AllSound, IInv
<1>3. Linked(ex')
  BY <1>1 DEF Linked, IInv, InFlight
<1>4. sem' \in Semaphore(Exec)
  BY ReleaseType DEF Settle
<1>5. f.pc = "saving" => f.status \in Final
  BY DEF Sound, InFlight, Frames
<1>6. metrics' \in [executed : Nat, succeeded : Nat, failed : Nat, cancelled : Nat]
  BY <1>5, CountedType DEF Settle, IInv, TypeOK
<1>7. active' \subseteq Exec /\ RegistryExact'
  BY <1>1 DEF Settle, IInv, TypeOK, RegistryExact, InFlight
<1>8. StoreFinal'
  BY <1>1 DEF Settle, IInv, StoreFinal, InFlight
<1> QED BY <1>1, <1>2, <1>3, <1>4, <1>6, <1>7, <1>8
        DEF IInv, TypeOK, AllSound, Settle

\* Beginning an execution keeps the invariant, whether a caller starts it or
\* a loop: x are the frames as the beginner leaves them.
LEMMA BeginInv ==
  ASSUME IInv, NEW x, NEW d \in Exec, NEW w \in DOMAIN Flows,
         NEW p \in Exec \cup {NoExec}, NEW depth, depth \in Nat, NEW max, max \in Nat,
         Begin(x, d, w, p, depth, max), UNCHANGED cancels,
         AllSound(x), Linked(x), x[d].pc = "free",
         \A e \in Exec : x[e].pc \in InFlight <=> ex[e].pc \in InFlight,
         p # NoExec => /\ p # d /\ x[p].child = d /\ x[p].call = "running"
                       /\ \A c \in Exec : x[c].pc \notin {"free", "done"}
                                            => x[c].parent # p,
         store' \in [Exec -> Final \cup {"none"}],
         \A e \in Exec : store'[e] # "none" =>
                           x[e].pc = "done" /\ store'[e] = x[e].status
  PROVE  IInv'
<1> DEFINE f == NewFrame(w, p, depth, max)
           g == EnterFlow(f)
           m == [metrics EXCEPT !.executed = @ + 1]
<1>1. Sound(f) /\ f.pc = "waiting" /\ f.parent = p /\ Settled(f, g)
  <2>1. Starts(f, p)
    BY NewFrameStarts, Zenon
  <2> HIDE DEF f
  <2> QED BY <2>1 DEF Starts
<1>2. m \in [executed : Nat, succeeded : Nat, failed : Nat, cancelled : Nat]
  BY DEF IInv, TypeOK
<1>3. ASSUME NEW h, Sound(h), h.parent = p, h.pc \notin {"free", "done"},
             ex' = [x EXCEPT ![d] = h]
      PROVE  AllSound(ex') /\ Linked(ex') /\ StoreFinal'
  <2>1. h \in Frames /\ x \in [Exec -> Frames]
    BY <1>3 DEF Sound, AllSound
  <2>2. AllSound(ex')
    BY <1>3, <2>1 DEF AllSound
  <2>3. x[d].call = "none"
    BY DEF AllSound, Sound
  <2>4. Linked(ex')
    BY <1>3, <2>1, <2>3 DEF Linked
  <2>5. StoreFinal'
    BY <1>3, <2>1 DEF StoreFinal
  <2> QED BY <2>2, <2>4, <2>5
<1>4. ASSUME NEW h, Sound(h), ex' = [x EXCEPT ![d] = h],
             active' = IF h.pc \in InFlight THEN active \cup {d} ELSE active
      PROVE  active' \subseteq Exec /\ RegistryExact'
  BY <1>4 DEF IInv, TypeOK, RegistryExact, AllSound, InFlight
<1> HIDE DEF f, g, m
<1>5. CASE Locked(sem) /\ ex' = [x EXCEPT ![d] = f] /\ sem' = Enqueue(sem, d)
           /\ active' = active \cup {d} /\ metrics' = m
  <2>1. sem' \in Semaphore(Exec)
    BY <1>5, EnqueueType DEF IInv, TypeOK
  <2>2. AllSound(ex') /\ Linked(ex') /\ StoreFinal'
    BY <1>1, <1>3, <1>5
  <2>3. active' \subseteq Exec /\ RegistryExact'
    BY <1>1, <1>4, <1>5 DEF InFlight
  <2> QED BY <1>2, <1>5, <2>1, <2>2, <2>3 DEF IInv, TypeOK, AllSound
<1>6. CASE ~Locked(sem) /\ g.pc = "acting" /\ ex' = [x EXCEPT ![d] = g]
           /\ sem' = Take(sem) /\ active' = active \cup {d} /\ metrics' = m
  <2>1. sem' \in Semaphore(Exec)
    BY <1>6, TakeType DEF IInv, TypeOK
  <2>2. AllSound(ex') /\ Linked(ex') /\ StoreFinal'
    BY <1>1, <1>3, <1>6 DEF Settled
  <2>3. active' \subseteq Exec /\ RegistryExact'
    BY <1>1, <1>4, <1>6 DEF Settled, InFlight
  <2> QED BY <1>2, <1>6, <2>1, <2>2, <2>3 DEF IInv, TypeOK, AllSound
<1>7. CASE ~Locked(sem) /\ g.pc = "saving" /\ ex' = [x EXCEPT ![d] = g]
           /\ sem' = sem /\ active' = active /\ metrics' = Counted(m, g.status)
  <2>1. metrics' \in [executed : Nat, succeeded : Nat, failed : Nat, cancelled : Nat]
    BY <1>1, <1>2, <1>7, CountedType DEF Settled, Final
  <2>2. AllSound(ex') /\ Linked(ex') /\ StoreFinal'
    BY <1>1, <1>3, <1>7 DEF Settled
  <2>3. active' \subseteq Exec /\ RegistryExact'
    BY <1>1, <1>4, <1>7 DEF Settled, InFlight
  <2> QED BY <1>7, <2>1, <2>2, <2>3 DEF IInv, TypeOK, AllSound
<1> QED BY <1>5, <1>6, <1>7 DEF Begin, f, g, m

---------------------------------------------------------------------------
(* Every action keeps the invariant.                                       *)

\* An execution from outside keeps the invariant.
LEMMA StartTopInv ==
  ASSUME IInv, NEW w \in DOMAIN Flows, NEW d \in Exec, StartTop(w, d)
  PROVE  IInv'
<1>1. Flows[w].maxIter \in Nat
  BY FlowsTyped DEF FlowsAssumption
<1>2. /\ Begin(ex, d, w, NoExec, 0, Flows[w].maxIter)
      /\ UNCHANGED <<store, cancels>>
      /\ ex[d].pc = "free"
  BY DEF StartTop, IsFresh
<1>3. AllSound(ex) /\ Linked(ex)
  BY DEF IInv
<1>4. \A e \in Exec : store'[e] # "none" =>
                        ex[e].pc = "done" /\ store'[e] = ex[e].status
  BY <1>2 DEF IInv, StoreFinal
<1>5. store' \in [Exec -> Final \cup {"none"}]
  BY <1>2 DEF IInv, TypeOK
<1> QED BY <1>1, <1>2, <1>3, <1>4, <1>5, BeginInv

\* So does one whose permit has come,
LEMMA AcquiredInv ==
  ASSUME IInv, NEW e \in Exec, Acquired(e)
  PROVE  IInv'
<1>1. Sound(ex[e]) /\ ex[e].pc = "waiting"
  BY DEF IInv, AllSound, Acquired
<1>2. Walking(ex[e]) /\ ex[e].call = "none"
  BY <1>1 DEF Walking, Sound, InFlight
<1>3. Settled(ex[e], EnterFlow(ex[e]))
  BY <1>2, EnterFlowSettles
<1>4. Resume(sem, e) \in Semaphore(Exec)
  BY ResumeType DEF IInv, TypeOK
<1>5. Settle(e, EnterFlow(ex[e]), Resume(sem, e))
  BY DEF Acquired
<1> QED BY <1>1, <1>2, <1>3, <1>4, <1>5, SettleInv DEF Settled, InFlight

\* one that is cancelled before it could run,
LEMMA AcquireCancelledInv ==
  ASSUME IInv, NEW e \in Exec, AcquireCancelled(e)
  PROVE  IInv'
<1> DEFINE f == Cancelled(ex[e])
<1>1. Sound(ex[e]) /\ ex[e].pc = "waiting" /\ ex \in [Exec -> Frames]
  BY DEF IInv, AllSound, AcquireCancelled
<1>2. /\ Sound(f) /\ f.pc = "saving" /\ f.status = "cancelled"
      /\ f.parent = ex[e].parent /\ f.call = ex[e].call /\ f.child = ex[e].child
  BY <1>1, CancelledSound
<1>3. ex' = [ex EXCEPT ![e] = f]
  BY DEF AcquireCancelled
<1> HIDE DEF f
<1>4. AllSound(ex') /\ Linked(ex') /\ StoreFinal'
  BY <1>1, <1>2, <1>3 DEF AcquireCancelled, IInv, AllSound, Sound, Linked, StoreFinal
<1>5. sem' \in Semaphore(Exec)
  BY AbandonType DEF AcquireCancelled, IInv, TypeOK
<1>6. metrics' \in [executed : Nat, succeeded : Nat, failed : Nat, cancelled : Nat]
  BY CountedType DEF AcquireCancelled, IInv, TypeOK, Final
<1>7. active' \subseteq Exec /\ RegistryExact'
  BY <1>1, <1>2, <1>3 DEF AcquireCancelled, IInv, TypeOK, RegistryExact, InFlight
<1> QED BY <1>4, <1>5, <1>6, <1>7 DEF IInv, TypeOK, AllSound, AcquireCancelled

\* The steps that change nothing but frames, calls and pending cancels.
LEMMA FrameStepInv ==
  ASSUME IInv, AllSound(ex'), Linked(ex'), sem' \in Semaphore(Exec),
         UNCHANGED <<active, metrics, store>>, cancels' \in Nat,
         \A e \in Exec : /\ ex'[e].pc \in InFlight <=> ex[e].pc \in InFlight
                         /\ ex[e].pc = "done" => ex'[e].pc = "done"
                         /\ ex'[e].status = ex[e].status
  PROVE  IInv'
  BY DEF IInv, TypeOK, AllSound, RegistryExact, StoreFinal

\* The end of a call leaves its frame sound.
LEMMA CallEndsSound ==
  ASSUME NEW f, Sound(f), f.call # "none", NEW answer \in Ended
  PROVE  LET g == [f EXCEPT !.call = answer] IN
         /\ Sound(g) /\ g.pc = f.pc /\ g.status = f.status
         /\ g.parent = f.parent /\ g.child = f.child /\ g.call = answer
<1> DEFINE g == [f EXCEPT !.call = answer]
<1>1. g \in Frames
  BY DEF Sound, Frames, CallStates
<1>2. /\ g.pc = f.pc /\ g.status = f.status /\ g.parent = f.parent
      /\ g.child = f.child /\ g.call = answer /\ g.node = f.node /\ g.wf = f.wf
  BY DEF Sound, Frames
<1>3. answer \notin {"running", "stopping", "none"}
  BY DEF Ended, Succeeding
<1> HIDE DEF g
<1> QED BY <1>1, <1>2, <1>3 DEF Sound, g

\* A handler that ends, cancelled or not, keeps the invariant.
LEMMA HandlerEndsInv ==
  ASSUME IInv, NEW e \in Exec, NEW answer \in Ended,
         HandlerEnds(e, answer) \/ HandlerStopped(e, answer)
  PROVE  IInv'
<1> DEFINE g == [ex[e] EXCEPT !.call = answer]
<1>1. /\ ex' = [ex EXCEPT ![e] = g] /\ ex[e].call # "none" /\ ex[e].child = NoExec
      /\ UNCHANGED <<sem, active, metrics, store, cancels>>
  BY DEF HandlerEnds, HandlerStopped, CallOpen
<1>2. Sound(ex[e]) /\ ex \in [Exec -> Frames]
  BY DEF IInv, AllSound
<1>3. /\ Sound(g) /\ g.pc = ex[e].pc /\ g.status = ex[e].status
      /\ g.parent = ex[e].parent
  BY <1>1, <1>2, CallEndsSound
<1> HIDE DEF g
<1>4. AllSound(ex')
  BY <1>1, <1>2, <1>3 DEF IInv, AllSound, Sound
<1>5. Linked(ex')
  BY <1>1, <1>2, <1>3 DEF IInv, Linked, Exec, NoExec
<1> QED BY <1>1, <1>2, <1>3, <1>4, <1>5, FrameStepInv DEF IInv, TypeOK

\* A loop that starts its first iteration makes it its child: no older one is
\* left, as the parent of one that is busy has it as its child.
LEMMA LoopLoadedInv ==
  ASSUME IInv, NEW e \in Exec, NEW d \in Exec, LoopLoaded(e, d)
  PROVE  IInv'
<1> DEFINE n == NodeOf(ex[e])
           g == [ex[e] EXCEPT !.child = d, !.item = 1]
           x == [ex EXCEPT ![e].child = d, ![e].item = 1]
<1>1. /\ Sound(ex[e]) /\ ex \in [Exec -> Frames]
      /\ ex[e].call = "running" /\ ex[e].child = NoExec
  BY DEF IInv, AllSound, LoopLoaded, CallOpen
<1>2. n \in NodeDefs
  BY <1>1, NodeIsTyped
<1>3. CASE n.items = 0
  <2>1. ex' = [ex EXCEPT ![e] = [ex[e] EXCEPT !.call = "ok"]]
        /\ UNCHANGED <<sem, active, metrics, store, cancels>>
    BY <1>3 DEF LoopLoaded
  <2> DEFINE h == [ex[e] EXCEPT !.call = "ok"]
  <2>2. Sound(h) /\ h.pc = ex[e].pc /\ h.status = ex[e].status
        /\ h.parent = ex[e].parent
    BY <1>1, CallEndsSound DEF Ended, Succeeding
  <2> HIDE DEF h
  <2>3. AllSound(ex') /\ Linked(ex')
    BY <1>1, <2>1, <2>2 DEF IInv, AllSound, Sound, Linked, Exec, NoExec, h
  <2> QED BY <1>1, <2>1, <2>2, <2>3, FrameStepInv DEF IInv, TypeOK, h
<1>4. CASE n.items > 0
  <2>1. /\ Begin(x, d, n.sub, e, ex[e].depth + 1, n.subMax)
        /\ ex[d].pc = "free" /\ n.sub \in DOMAIN Flows
        /\ UNCHANGED <<store, cancels>>
    BY <1>2, <1>4 DEF LoopLoaded, IsFresh, NodeDefs
  <2>2. /\ g \in Frames /\ g.pc = ex[e].pc /\ g.status = ex[e].status
        /\ g.parent = ex[e].parent /\ g.call = "running" /\ g.child = d
        /\ g.node = ex[e].node /\ g.wf = ex[e].wf
    <3>1. ex[e] \in Frames
      BY <1>1
    <3>2. g \in Frames
      BY <3>1 DEF Frames
    <3> QED BY <1>1, <3>1, <3>2 DEF Frames
  <2>3. x = [ex EXCEPT ![e] = g]
    BY <1>1 DEF Frames
  <2>4. d # e
    BY <1>1, <2>1 DEF Sound
  <2> HIDE DEF g, x
  <2>5. AllSound(x)
    BY <1>1, <2>2, <2>3 DEF IInv, AllSound, Sound
  <2>6. \A c \in Exec : ex[c].pc \notin {"free", "done"} => ex[c].parent # e
    BY <1>1 DEF IInv, Linked, Exec, NoExec
  <2>7. /\ Linked(x)
        /\ \A c \in Exec : x[c].pc = ex[c].pc /\ x[c].parent = ex[c].parent
                           /\ x[c].status = ex[c].status
    BY <1>1, <2>2, <2>3, <2>6 DEF IInv, Linked
  <2>8. /\ x[e].child = d /\ x[e].call = "running" /\ x[d].pc = "free"
    BY <1>1, <2>1, <2>2, <2>3, <2>4
  <2>9. ex[e].depth + 1 \in Nat /\ n.subMax \in Nat
    BY <1>1, <1>2 DEF Sound, Frames, NodeDefs
  <2>10. /\ \A c \in Exec : store'[c] # "none" => x[c].pc = "done"
                                                  /\ store'[c] = x[c].status
         /\ store' \in [Exec -> Final \cup {"none"}]
    BY <2>1, <2>7 DEF IInv, TypeOK, StoreFinal
  <2> HIDE DEF n
  <2> QED BY <2>1, <2>4, <2>5, <2>6, <2>7, <2>8, <2>9, <2>10, BeginInv
<1> QED BY <1>2, <1>3, <1>4 DEF NodeDefs

\* Frames that differ in their program counter, cancel or counters only.
Alike(f, g) ==
  /\ g \in Frames
  /\ g.call = f.call /\ g.status = f.status /\ g.parent = f.parent
  /\ g.child = f.child /\ g.node = f.node /\ g.wf = f.wf

\* A timeout or a cancel of wait_for keeps the invariant.
LEMMA InterruptInv ==
  ASSUME IInv, NEW e \in Exec, NEW pc \in {"cancelling", "timingout"},
         Interrupt(e, pc)
  PROVE  IInv'
<1> DEFINE c == ex[e].child
           g == [ex[e] EXCEPT !.pc = pc, !.creq = FALSE]
           h == [ex[e] EXCEPT !.pc = pc, !.creq = FALSE, !.call = "stopping"]
           k == [ex[c] EXCEPT !.creq = TRUE]
<1>1. /\ Sound(ex[e]) /\ ex \in [Exec -> Frames] /\ ex[e] \in Frames
      /\ ex[e].pc = "acting" /\ ex[e].call = "running"
      /\ UNCHANGED <<active, metrics, store, cancels>>
  BY DEF IInv, AllSound, Interrupt, Interruptible
<1>2. CASE c = NoExec
  <2>1. ex' = [ex EXCEPT ![e] = h] /\ sem' = sem
    BY <1>1, <1>2 DEF Interrupt, Interruptible
  <2>2. /\ h \in Frames /\ h.pc = pc /\ h.call = "stopping"
        /\ h.status = ex[e].status /\ h.parent = ex[e].parent
        /\ h.node = ex[e].node /\ h.wf = ex[e].wf
    BY <1>1 DEF Frames, Pcs, CallStates
  <2> HIDE DEF h
  <2>3. Sound(h)
    BY <1>1, <2>2 DEF Sound, InFlight
  <2>4. AllSound(ex')
    BY <1>1, <2>1, <2>2, <2>3 DEF IInv, AllSound
  <2>5. Linked(ex')
    BY <1>1, <1>2, <2>1, <2>2 DEF IInv, Linked, Exec, NoExec
  <2> QED BY <1>1, <2>1, <2>2, <2>4, <2>5, FrameStepInv DEF IInv, TypeOK, InFlight
<1>3. CASE c # NoExec
  <2>1. c \in Exec
    BY <1>1, <1>3 DEF Frames
  <2>2. /\ ex' = [ex EXCEPT ![e].pc = pc, ![e].creq = FALSE, ![c].creq = TRUE]
        /\ sem' = WithdrawIfWaiting(sem, c)
    BY <1>1, <1>3 DEF Interrupt, Interruptible
  <2>3. sem' \in Semaphore(Exec)
    BY <2>2, WithdrawType DEF WithdrawIfWaiting, IInv, TypeOK
  <2>4. \A f \in Exec : /\ Alike(ex[f], ex'[f])
                        /\ ex'[f].pc = IF f = e THEN pc ELSE ex[f].pc
    <3> DEFINE y == [ex EXCEPT ![e] = g]
               z == [y[c] EXCEPT !.creq = TRUE]
    <3>1. Alike(ex[e], g) /\ g.pc = pc /\ g \in Frames
      BY <1>1 DEF Alike, Frames, Pcs
    <3>2. ex' = [y EXCEPT ![c] = z]
      BY <1>1, <2>1, <2>2
    <3> HIDE DEF g
    <3>3. y \in [Exec -> Frames] /\ y[c] \in Frames
      BY <1>1, <2>1, <3>1
    <3>4. \A f \in Exec : Alike(ex[f], y[f]) /\ y[f].pc = IF f = e THEN pc ELSE ex[f].pc
      BY <1>1, <3>1 DEF Alike
    <3> HIDE DEF y
    <3>5. Alike(y[c], z) /\ z.pc = y[c].pc
      BY <3>3 DEF Alike, Frames
    <3> HIDE DEF z
    <3> QED BY <2>1, <3>2, <3>3, <3>4, <3>5 DEF Alike
  <2>5. ex' \in [Exec -> Frames]
    BY <1>1, <2>2, <2>4 DEF Alike
  <2>6. AllSound(ex')
    <3>1. \A f \in Exec : Sound(ex'[f])
      <4> SUFFICES ASSUME NEW f \in Exec PROVE Sound(ex'[f])
        OBVIOUS
      <4>1. Sound(ex[f]) /\ Alike(ex[f], ex'[f])
        BY <2>4 DEF IInv, AllSound
      <4>2. CASE f = e
        BY <1>1, <2>4, <4>1, <4>2 DEF Alike, Sound, InFlight
      <4>3. CASE f # e
        BY <2>4, <4>1, <4>3 DEF Alike, Sound
      <4> QED BY <4>2, <4>3
    <3> QED BY <2>5, <3>1 DEF AllSound
  <2>7. Linked(ex')
    <3> SUFFICES ASSUME NEW b \in Exec, ex'[b].pc \notin {"free", "done"},
                        ex'[b].parent # NoExec
                 PROVE  /\ ex'[b].parent # b
                        /\ ex'[ex'[b].parent].child = b
                        /\ ex'[ex'[b].parent].call = "running"
      BY DEF Linked
    <3>1. ex[b].pc \notin {"free", "done"} /\ ex'[b].parent = ex[b].parent
      BY <1>1, <2>4 DEF Alike
    <3>2. ex[b].parent \in Exec
      BY <1>1, <3>1 DEF Frames
    <3>3. Alike(ex[ex[b].parent], ex'[ex[b].parent])
      BY <2>4, <3>2
    <3> QED BY <3>1, <3>2, <3>3 DEF IInv, Linked, Alike
  <2> QED BY <1>1, <2>3, <2>4, <2>6, <2>7, FrameStepInv DEF IInv, TypeOK, InFlight, Alike
<1> QED BY <1>2, <1>3

\* task.cancel() from outside keeps the invariant.
LEMMA RequestCancelInv ==
  ASSUME IInv, NEW e \in Exec, RequestCancel(e)
  PROVE  IInv'
<1> DEFINE g == [ex[e] EXCEPT !.creq = TRUE]
<1>1. /\ ex \in [Exec -> Frames] /\ ex[e] \in Frames /\ Sound(ex[e])
      /\ ex' = [ex EXCEPT ![e] = g] /\ sem' = WithdrawIfWaiting(sem, e)
      /\ UNCHANGED <<active, metrics, store>> /\ cancels' = cancels + 1
  BY DEF IInv, AllSound, RequestCancel
<1>2. /\ g \in Frames /\ g.pc = ex[e].pc /\ g.call = ex[e].call
      /\ g.status = ex[e].status /\ g.parent = ex[e].parent
      /\ g.child = ex[e].child /\ g.node = ex[e].node /\ g.wf = ex[e].wf
  BY <1>1 DEF Frames
<1> HIDE DEF g
<1>3. AllSound(ex') /\ Linked(ex')
  BY <1>1, <1>2 DEF IInv, AllSound, Sound, Linked
<1>4. sem' \in Semaphore(Exec)
  BY <1>1, WithdrawType DEF WithdrawIfWaiting, IInv, TypeOK
<1> QED BY <1>1, <1>2, <1>3, <1>4, FrameStepInv DEF IInv, TypeOK

\* A pending result, consumed, with what the walk does to the frame before it
\* goes on: all that matters is that the walk may go on from there.
LEMMA AnsweredWalks ==
  ASSUME NEW f, Sound(f), f.pc \in InFlight
  PROVE  LET a == Answered(f) IN
         /\ Walking(a) /\ a.parent = f.parent /\ a.wf = f.wf /\ a.node = f.node
         /\ a.outs = f.outs /\ a.errors = f.errors /\ a.pc = f.pc
  BY DEF Answered, Walking, Sound, Frames, CallStates, InFlight

\* What every step of AttemptOver starts from.
LEMMA AttemptOverFacts ==
  ASSUME IInv, NEW e \in Exec, AttemptOver(e)
  PROVE  /\ Sound(ex[e]) /\ ex[e].pc \in InFlight
         /\ ex[e].call # "running" /\ ex[e].call # "none"
         /\ NodeOf(ex[e]) \in NodeDefs
         /\ ex[e].node \in DOMAIN Flows[ex[e].wf].nodes
         /\ sem \in Semaphore(Exec)
<1>1. Sound(ex[e]) /\ sem \in Semaphore(Exec)
  BY DEF IInv, AllSound, TypeOK
<1>2. ex[e].call \in Ended /\ ex[e].pc \in {"acting", "timingout"}
  BY DEF AttemptOver
<1>3. ex[e].call # "running" /\ ex[e].call # "none"
  BY <1>2 DEF Ended, Succeeding
<1>4. NodeOf(ex[e]) \in NodeDefs
  BY <1>1, <1>3, NodeIsTyped
<1> QED BY <1>1, <1>2, <1>3, <1>4 DEF Sound, InFlight

\* A result, then the walk goes on from frame f to node n, or leaves.
LEMMA WalkOnInv ==
  ASSUME IInv, NEW e \in Exec, AttemptOver(e), NEW f, NEW g, Settle(e, g, sem),
         f.parent = ex[e].parent, Settled(f, g)
  PROVE  IInv'
<1>1. /\ Sound(ex[e]) /\ ex[e].pc \in InFlight
      /\ ex[e].call # "running" /\ sem \in Semaphore(Exec)
  BY AttemptOverFacts
<1>2. Sound(g) /\ g.pc \in InFlight \cup {"saving"} /\ g.parent = ex[e].parent
  BY DEF Settled, InFlight
<1> QED BY <1>1, <1>2, SettleInv

\* The branches of a node are node ids.
LEMMA SuccessorTyped ==
  ASSUME NEW n \in NodeDefs, NEW outcome
  PROVE  Successor(n, outcome) \in NodeIds
<1>1. n.yes \in NodeIds /\ n.no \in NodeIds /\ n.next \in NodeIds
  BY DEF NodeDefs
<1>2. CASE n.kind = "condition" /\ outcome = "met"
  BY <1>1, <1>2 DEF Successor
<1>3. CASE n.kind = "condition" /\ outcome = "unmet"
  BY <1>1, <1>3 DEF Successor
<1>4. CASE ~(n.kind = "condition" /\ outcome = "met")
           /\ ~(n.kind = "condition" /\ outcome = "unmet")
  BY <1>1, <1>4 DEF Successor
<1> QED BY <1>2, <1>3, <1>4

\* The step to the next node keeps the invariant,
LEMMA NodeSucceededInv ==
  ASSUME IInv, NEW e \in Exec, NodeSucceeded(e)
  PROVE  IInv'
<1> DEFINE a == Answered(ex[e])
           f == [a EXCEPT !.outs = @ \cup {ex[e].node}]
           n == Successor(NodeOf(ex[e]), Outcome(ex[e]))
<1>1. AttemptOver(e) /\ Settle(e, Visit(f, n), sem)
  BY DEF NodeSucceeded
<1>2. Walking(a) /\ a.parent = ex[e].parent /\ ex[e].node \in NodeIds
  BY <1>1, AttemptOverFacts, AnsweredWalks DEF Sound, Frames
<1>3. n \in NodeIds
  BY <1>1, AttemptOverFacts, SuccessorTyped
<1> HIDE DEF a, n
<1>4. Walking(f) /\ f.parent = ex[e].parent
  <2>1. a \in Frames /\ a.outs \cup {ex[e].node} \in SUBSET NodeIds
    BY <1>2 DEF Walking, Frames
  <2> QED BY <1>2, <2>1 DEF Walking, Frames
<1> HIDE DEF f
<1>5. Settled(f, Visit(f, n))
  BY <1>3, <1>4, VisitSettles
<1> QED BY <1>1, <1>4, <1>5, WalkOnInv

\* and so does a stop node,
LEMMA StopReachedInv ==
  ASSUME IInv, NEW e \in Exec, StopReached(e)
  PROVE  IInv'
<1> DEFINE a == Answered(ex[e])
           f == [a EXCEPT !.outs = @ \cup {ex[e].node}, !.node = NoNode]
<1>1. AttemptOver(e) /\ Settle(e, Leave(f), sem)
  BY DEF StopReached
<1>2. Walking(a) /\ a.parent = ex[e].parent /\ ex[e].node \in NodeIds
  BY <1>1, AttemptOverFacts, AnsweredWalks DEF Sound, Frames
<1> HIDE DEF a
<1>3. Walking(f) /\ f.parent = ex[e].parent
  <2>1. /\ a \in Frames /\ a.outs \cup {ex[e].node} \in SUBSET NodeIds
        /\ NoNode \in NodeIds
    BY <1>2, FlowsTyped DEF Walking, Frames, FlowsAssumption
  <2> QED BY <1>2, <2>1 DEF Walking, Frames
<1> HIDE DEF f
<1>4. Settled(f, Leave(f))
  BY <1>3, LeaveSound DEF Settled
<1> QED BY <1>1, <1>3, <1>4, WalkOnInv

\* a throw_error node,
LEMMA ErrorThrownInv ==
  ASSUME IInv, NEW e \in Exec, ErrorThrown(e)
  PROVE  IInv'
<1> DEFINE a == Answered(ex[e])
           f == [a EXCEPT !.errors = @ \cup {"node_failed"}]
<1>1. AttemptOver(e) /\ Settle(e, Leave(f), sem)
  BY DEF ErrorThrown
<1>2. Walking(a) /\ a.parent = ex[e].parent
  BY <1>1, AttemptOverFacts, AnsweredWalks
<1> HIDE DEF a
<1>3. Walking(f) /\ f.parent = ex[e].parent
  <2>1. a \in Frames /\ a.errors \cup {"node_failed"} \in SUBSET Reasons
    BY <1>2 DEF Walking, Frames, Reasons
  <2> QED BY <1>2, <2>1 DEF Walking, Frames
<1> HIDE DEF f
<1>4. Settled(f, Leave(f))
  BY <1>3, LeaveSound DEF Settled
<1> QED BY <1>1, <1>3, <1>4, WalkOnInv

\* a node whose last attempt failed,
LEMMA NodeGaveUpInv ==
  ASSUME IInv, NEW e \in Exec, NodeGaveUp(e)
  PROVE  IInv'
<1> DEFINE a == Answered(ex[e])
           errs == ErrorsAfter(ex[e])
           f == [a EXCEPT !.errors = errs]
           n == NodeOf(ex[e]).onError
<1>1. AttemptOver(e) /\ Settle(e, Visit(f, n), sem)
  BY DEF NodeGaveUp
<1>2. Walking(a) /\ a.parent = ex[e].parent /\ ex[e].errors \in SUBSET Reasons
  BY <1>1, AttemptOverFacts, AnsweredWalks DEF Sound, Frames
<1>3. n \in NodeIds
  BY <1>1, AttemptOverFacts DEF NodeDefs
<1>4. errs \in SUBSET Reasons
  BY <1>2 DEF ErrorsAfter, Reasons
<1> HIDE DEF a, errs, n
<1>5. Walking(f) /\ f.parent = ex[e].parent
  BY <1>2, <1>4 DEF Walking, Frames
<1> HIDE DEF f
<1>6. Settled(f, Visit(f, n))
  BY <1>3, <1>5, VisitSettles
<1> QED BY <1>1, <1>5, <1>6, WalkOnInv

\* one that is going to be retried,
LEMMA AttemptFailedInv ==
  ASSUME IInv, NEW e \in Exec, AttemptFailed(e)
  PROVE  IInv'
<1> DEFINE a == Answered(ex[e])
           f == [a EXCEPT !.pc = "backoff"]
<1>1. AttemptOver(e) /\ Settle(e, f, sem)
  BY DEF AttemptFailed
<1>2. /\ Walking(a) /\ a.parent = ex[e].parent
      /\ a.node \in DOMAIN Flows[a.wf].nodes
  BY <1>1, AttemptOverFacts, AnsweredWalks
<1> HIDE DEF a
<1>3. /\ f \in Frames /\ f.pc = "backoff" /\ f.call = "none" /\ f.status = "none"
      /\ f.parent = ex[e].parent /\ f.node = a.node /\ f.wf = a.wf
  BY <1>2 DEF Walking, Frames, Pcs
<1> HIDE DEF f
<1>4. Sound(f)
  BY <1>2, <1>3 DEF Sound, InFlight
<1> QED BY <1>1, <1>3, <1>4, AttemptOverFacts, SettleInv DEF InFlight

\* the retry,
LEMMA BackoffOverInv ==
  ASSUME IInv, NEW e \in Exec, BackoffOver(e)
  PROVE  IInv'
<1> DEFINE f == [ex[e] EXCEPT !.att = @ + 1]
<1>1. /\ Sound(ex[e]) /\ ex[e].pc = "backoff" /\ ex[e].call = "none"
      /\ ex[e] \in Frames /\ sem \in Semaphore(Exec)
      /\ Settle(e, Attempt(f), sem)
  BY DEF IInv, AllSound, TypeOK, BackoffOver, Sound
<1>2. /\ ex[e].node \in DOMAIN Flows[ex[e].wf].nodes /\ ex[e].status = "none"
      /\ ex[e].att + 1 \in Nat
  BY <1>1 DEF Sound, InFlight, Frames
<1>3. /\ Walking(f) /\ f.parent = ex[e].parent
      /\ f.node = ex[e].node /\ f.wf = ex[e].wf
  BY <1>1, <1>2 DEF Walking, Frames
<1> HIDE DEF f
<1>4. Sound(Attempt(f)) /\ Attempt(f).pc = "acting" /\ Attempt(f).parent = f.parent
  BY <1>2, <1>3, AttemptSound
<1> QED BY <1>1, <1>3, <1>4, SettleInv DEF InFlight

\* and a CancelledError that reaches execute_workflow.
LEMMA CancelRaisedInv ==
  ASSUME IInv, NEW e \in Exec, CancelRaised(e)
  PROVE  IInv'
<1>1. /\ Sound(ex[e]) /\ ex[e].pc \in InFlight /\ sem \in Semaphore(Exec)
      /\ Settle(e, Cancelled(ex[e]), sem)
  BY DEF IInv, AllSound, TypeOK, CancelRaised, CancelDue, InFlight
<1> QED BY <1>1, CancelledSound, SettleInv

\* The save writes the final status of an execution that is saving.
LEMMA SavedType ==
  ASSUME IInv, NEW e \in Exec, NEW written \in BOOLEAN, Saved(e, written),
         ex[e].pc = "saving"
  PROVE  /\ store' \in [Exec -> Final \cup {"none"}]
         /\ \A b \in Exec : store'[b] # "none" =>
              /\ b = e \/ ex[b].pc = "done"
              /\ store'[b] = ex[b].status
<1>1. ex[e].status \in Final
  BY DEF IInv, AllSound, Sound, InFlight, Frames
<1> QED BY <1>1 DEF Saved, IInv, TypeOK, StoreFinal

\* An execution that returns to the manager or the API keeps the invariant.
LEMMA TopReturnsInv ==
  ASSUME IInv, NEW e \in Exec, NEW written \in BOOLEAN, TopReturns(e, written)
  PROVE  IInv'
<1> DEFINE g == [ex[e] EXCEPT !.pc = "done"]
<1>1. /\ Sound(ex[e]) /\ ex \in [Exec -> Frames] /\ ex[e] \in Frames
      /\ ex[e].pc = "saving" /\ ex[e].parent = NoExec /\ Saved(e, written)
      /\ ex' = [ex EXCEPT ![e] = g]
      /\ UNCHANGED <<sem, active, metrics, cancels>>
  BY DEF IInv, AllSound, TopReturns
<1>2. g.pc = "done" /\ Alike(ex[e], g)
  BY <1>1 DEF Alike, Frames, Pcs
<1> HIDE DEF g
<1>3. Sound(g)
  BY <1>1, <1>2 DEF Alike, Sound, InFlight
<1>4. AllSound(ex') /\ Linked(ex')
  BY <1>1, <1>2, <1>3 DEF IInv, AllSound, Linked, Alike
<1>5. RegistryExact'
  BY <1>1, <1>2 DEF IInv, RegistryExact, InFlight
<1>6. StoreFinal' /\ store' \in [Exec -> Final \cup {"none"}]
  BY <1>1, <1>2, SavedType DEF StoreFinal, Alike
<1> QED BY <1>1, <1>4, <1>5, <1>6 DEF IInv, TypeOK, AllSound

\* The end of an iteration that ends the loop's call with it.
LEMMA CallEndsInv ==
  ASSUME IInv, NEW e \in Exec, NEW written \in BOOLEAN, NEW g, NEW answer \in Ended,
         ex[e].pc = "saving", ex[e].parent # NoExec,
         Alike(ex[e], g), g.pc = "done", Saved(e, written),
         ex' = CallEnds([ex EXCEPT ![e] = g], ex[e].parent, answer),
         UNCHANGED <<sem, active, metrics, cancels>>
  PROVE  IInv'
<1> DEFINE p == ex[e].parent
           h == [ex[p] EXCEPT !.call = answer, !.child = NoExec]
<1>1. /\ Sound(ex[e]) /\ ex \in [Exec -> Frames] /\ ex[e] \in Frames
      /\ p \in Exec /\ p # e /\ ex[p].child = e /\ ex[p].call = "running"
  BY DEF IInv, AllSound, Linked, Frames
<1>2. Sound(ex[p]) /\ ex[p] \in Frames
  BY <1>1 DEF IInv, AllSound
<1>3. /\ h \in Frames /\ h.call = answer /\ h.child = NoExec
      /\ h.pc = ex[p].pc /\ h.status = ex[p].status
      /\ h.parent = ex[p].parent /\ h.node = ex[p].node /\ h.wf = ex[p].wf
  BY <1>2 DEF Frames, CallStates
<1>4. ex' = [[ex EXCEPT ![e] = g] EXCEPT ![p] = h]
  BY <1>1 DEF CallEnds
<1> HIDE DEF h
<1>5. Sound(g)
  BY <1>1 DEF Alike, Sound, InFlight
<1>6. answer \notin {"none", "running", "stopping"}
  BY DEF Ended, Succeeding
<1>7. Sound(h)
  BY <1>1, <1>2, <1>3, <1>6 DEF Sound
<1>8. AllSound(ex')
  BY <1>1, <1>3, <1>4, <1>5, <1>7 DEF IInv, AllSound, Alike
<1>9. Linked(ex')
  <2>1. \A b \in Exec :
          /\ ex'[b].pc = IF b = e THEN "done" ELSE ex[b].pc
          /\ ex'[b].parent = ex[b].parent /\ ex[b].parent \in Exec \cup {NoExec}
          /\ b # p => ex'[b].call = ex[b].call /\ ex'[b].child = ex[b].child
    <3>1. \A b \in Exec : ex[b].parent \in Exec \cup {NoExec}
      BY <1>1 DEF Frames
    <3> QED BY <1>1, <1>3, <1>4, <3>1 DEF Alike
  <2> SUFFICES ASSUME NEW b \in Exec, ex'[b].pc \notin {"free", "done"},
                      ex'[b].parent # NoExec
               PROVE  LET q == ex'[b].parent IN
                      q # b /\ ex'[q].child = b /\ ex'[q].call = "running"
    BY DEF Linked
  <2>2. /\ b # e /\ ex[b].pc \notin {"free", "done"} /\ ex[b].parent # NoExec
        /\ ex[b].parent \in Exec /\ ex'[b].parent = ex[b].parent
    BY <2>1
  <2>3. LET q == ex[b].parent IN q # b /\ ex[q].child = b /\ ex[q].call = "running"
    BY <2>2 DEF IInv, Linked
  <2>4. ex[b].parent # p
    BY <1>1, <2>2, <2>3
  <2> QED BY <2>1, <2>2, <2>3, <2>4
<1>10. RegistryExact'
  BY <1>1, <1>3, <1>4 DEF IInv, RegistryExact, InFlight
<1>11. StoreFinal' /\ store' \in [Exec -> Final \cup {"none"}]
  <2>1. \A b \in Exec : /\ ex[b].pc = "done" \/ b = e => ex'[b].pc = "done"
                        /\ ex'[b].status = ex[b].status
    BY <1>1, <1>3, <1>4 DEF Alike
  <2> QED BY <2>1, SavedType DEF StoreFinal
<1> QED BY <1>8, <1>9, <1>10, <1>11 DEF IInv, TypeOK, AllSound

\* An iteration that returns ends its loop or makes room for the next one.
LEMMA IterationReturnsInv ==
  ASSUME IInv, NEW e \in Exec, NEW d \in Exec, NEW written \in BOOLEAN,
         IterationReturns(e, d, written)
  PROVE  IInv'
<1> DEFINE p == ex[e].parent
           g == [ex[e] EXCEPT !.pc = "done"]
           h == [ex[p] EXCEPT !.child = d, !.item = @ + 1]
           frames == [ex EXCEPT ![e].pc = "done"]
           x == [frames EXCEPT ![p].child = d, ![p].item = @ + 1]
<1>1. /\ Sound(ex[e]) /\ ex \in [Exec -> Frames] /\ ex[e] \in Frames
      /\ ex[e].pc = "saving" /\ Saved(e, written) /\ p # NoExec
      /\ p \in Exec /\ p # e /\ ex[p].child = e /\ ex[p].call = "running"
  BY DEF IInv, AllSound, Linked, Frames, IterationReturns
<1>2. Sound(ex[p]) /\ ex[p] \in Frames
  BY <1>1 DEF IInv, AllSound
<1>3. g.pc = "done" /\ Alike(ex[e], g) /\ frames = [ex EXCEPT ![e] = g]
  BY <1>1 DEF Alike, Frames, Pcs
<1>4. ASSUME NEW answer \in Ended, ex' = CallEnds(frames, p, answer),
             UNCHANGED <<sem, active, metrics, cancels>>
      PROVE  IInv'
  <2> HIDE DEF g, frames
  <2> QED BY <1>1, <1>3, <1>4, CallEndsInv
<1>5. CASE /\ Begin(x, d, ex[e].wf, p, ex[e].depth, ex[e].maxIter)
           /\ IsFresh(d) /\ UNCHANGED cancels
  <2>1. ex[d].pc = "free" /\ d # e /\ d # p
    BY <1>1, <1>2, <1>5 DEF IsFresh, Sound
  <2>2. h \in Frames /\ h.child = d /\ h.call = "running"
        /\ h.pc = ex[p].pc /\ h.status = ex[p].status
        /\ h.parent = ex[p].parent /\ h.node = ex[p].node /\ h.wf = ex[p].wf
    <3>1. ex[p].item + 1 \in Nat
      BY <1>2 DEF Frames
    <3>2. h \in Frames
      BY <1>2, <3>1 DEF Frames
    <3> QED BY <1>1, <1>2, <3>2 DEF Frames
  <2>3. x = [[ex EXCEPT ![e] = g] EXCEPT ![p] = h]
    <3>1. x = [frames EXCEPT ![p] = [frames[p] EXCEPT !.child = d, !.item = @ + 1]]
      BY <1>1
    <3> QED BY <1>1, <1>3, <3>1
  <2> HIDE DEF g, h, frames, x
  <2>4. Sound(g) /\ Sound(h)
    BY <1>1, <1>2, <1>3, <2>2 DEF Alike, Sound, InFlight
  <2>5. AllSound(x)
    BY <1>1, <1>3, <2>2, <2>3, <2>4 DEF IInv, AllSound, Alike
  <2>6. \A b \in Exec :
          /\ x[b].pc = IF b = e THEN "done" ELSE ex[b].pc
          /\ x[b].status = ex[b].status /\ x[b].parent = ex[b].parent
          /\ x[b].call = ex[b].call
          /\ x[b].child = IF b = p THEN d ELSE ex[b].child
    BY <1>1, <1>3, <2>2, <2>3 DEF Alike
  <2>7. /\ Linked(x)
        /\ \A b \in Exec : x[b].pc \notin {"free", "done"} => x[b].parent # p
    <3>0. \A b \in Exec : x[b].parent \in Exec \cup {NoExec}
      BY <1>1, <2>6 DEF Frames
    <3>1. \A b \in Exec : x[b].pc \notin {"free", "done"} => x[b].parent # p
      BY <1>1, <2>6 DEF IInv, Linked
    <3> QED BY <1>1, <2>6, <3>0, <3>1 DEF IInv, Linked
  <2>8. /\ \A b \in Exec : x[b].pc \in InFlight <=> ex[b].pc \in InFlight
        /\ x[d].pc = "free" /\ x[p].child = d /\ x[p].call = "running"
    BY <1>1, <2>1, <2>6 DEF InFlight
  <2>9. /\ store' \in [Exec -> Final \cup {"none"}]
        /\ \A b \in Exec : store'[b] # "none" =>
                              x[b].pc = "done" /\ store'[b] = x[b].status
    BY <1>1, <2>6, SavedType
  <2>10. /\ ex[e].wf \in DOMAIN Flows /\ ex[e].depth \in Nat /\ ex[e].maxIter \in Nat
    BY <1>1 DEF Frames
  <2> QED BY <1>1, <1>5, <2>1, <2>5, <2>7, <2>8, <2>9, <2>10, BeginInv
<1>6. \/ ex' = CallEnds(frames, p, "cancelled") /\ UNCHANGED <<sem, active, metrics, cancels>>
      \/ ex' = CallEnds(frames, p, "ok") /\ UNCHANGED <<sem, active, metrics, cancels>>
      \/ /\ Begin(x, d, ex[e].wf, p, ex[e].depth, ex[e].maxIter)
         /\ IsFresh(d) /\ UNCHANGED cancels
  BY DEF IterationReturns
<1> HIDE DEF frames, x
<1> QED BY <1>4, <1>5, <1>6 DEF Ended, Succeeding

\* A cancel inside the save keeps the invariant.
LEMMA SaveCancelledInv ==
  ASSUME IInv, NEW e \in Exec, NEW written \in BOOLEAN, SaveCancelled(e, written)
  PROVE  IInv'
<1> DEFINE g == [ex[e] EXCEPT !.pc = "done", !.creq = FALSE]
           frames == [ex EXCEPT ![e].pc = "done", ![e].creq = FALSE]
<1>1. /\ Sound(ex[e]) /\ ex \in [Exec -> Frames] /\ ex[e] \in Frames
      /\ ex[e].pc = "saving" /\ Saved(e, written)
      /\ UNCHANGED <<sem, active, metrics, cancels>>
  BY DEF IInv, AllSound, SaveCancelled
<1>2. g.pc = "done" /\ Alike(ex[e], g) /\ frames = [ex EXCEPT ![e] = g]
  BY <1>1 DEF Alike, Frames, Pcs
<1>3. ex' = IF ex[e].parent = NoExec THEN frames
            ELSE CallEnds(frames, ex[e].parent, "cancelled")
  BY DEF SaveCancelled
<1> HIDE DEF g, frames
<1>4. CASE ex[e].parent = NoExec
  <2>1. ex' = [ex EXCEPT ![e] = g]
    BY <1>2, <1>3, <1>4
  <2>2. Sound(g)
    BY <1>1, <1>2 DEF Alike, Sound, InFlight
  <2>3. AllSound(ex') /\ Linked(ex')
    BY <1>1, <1>2, <2>1, <2>2 DEF IInv, AllSound, Linked, Alike
  <2>4. RegistryExact'
    BY <1>1, <1>2, <2>1 DEF IInv, RegistryExact, InFlight
  <2>5. StoreFinal' /\ store' \in [Exec -> Final \cup {"none"}]
    BY <1>1, <1>2, <2>1, SavedType DEF StoreFinal, Alike
  <2> QED BY <1>1, <2>3, <2>4, <2>5 DEF IInv, TypeOK, AllSound
<1>5. CASE ex[e].parent # NoExec
  BY <1>1, <1>2, <1>3, <1>5, CallEndsInv DEF Ended
<1> QED BY <1>4, <1>5

\* Every step keeps the invariant.
LEMMA NextInv == IInv /\ [Next]_vars => IInv'
<1> SUFFICES ASSUME IInv, [Next]_vars PROVE IInv'
  OBVIOUS
<1>1. ASSUME NEW e \in Exec, Scheduled(e)
      PROVE  IInv'
  <2>1. CASE Acquired(e)
    BY <2>1, AcquiredInv
  <2>2. CASE AcquireCancelled(e)
    BY <2>2, AcquireCancelledInv
  <2>3. ASSUME NEW a \in Ended, HandlerStopped(e, a) \/ HandlerEnds(e, a) PROVE IInv'
    BY <2>3, HandlerEndsInv
  <2>4. CASE TimeoutFires(e)
    BY <2>4, InterruptInv DEF TimeoutFires
  <2>5. CASE CancelDelivered(e)
    BY <2>5, InterruptInv DEF CancelDelivered
  <2>6. CASE NodeSucceeded(e)
    BY <2>6, NodeSucceededInv
  <2>7. CASE StopReached(e)
    BY <2>7, StopReachedInv
  <2>8. CASE ErrorThrown(e)
    BY <2>8, ErrorThrownInv
  <2>9. CASE AttemptFailed(e)
    BY <2>9, AttemptFailedInv
  <2>10. CASE NodeGaveUp(e)
    BY <2>10, NodeGaveUpInv
  <2>11. CASE BackoffOver(e)
    BY <2>11, BackoffOverInv
  <2>12. CASE CancelRaised(e)
    BY <2>12, CancelRaisedInv
  <2>13. ASSUME NEW written \in BOOLEAN, TopReturns(e, written) PROVE IInv'
    BY <2>13, TopReturnsInv
  <2>14. ASSUME NEW written \in BOOLEAN, NEW d \in Exec, IterationReturns(e, d, written)
         PROVE  IInv'
    BY <2>14, IterationReturnsInv
  <2>15. ASSUME NEW written \in BOOLEAN, SaveCancelled(e, written) PROVE IInv'
    BY <2>15, SaveCancelledInv
  <2> QED BY <1>1, <2>1, <2>2, <2>3, <2>4, <2>5, <2>6, <2>7, <2>8, <2>9, <2>10,
             <2>11, <2>12, <2>13, <2>14, <2>15 DEF Scheduled
<1>2. ASSUME NEW e \in Exec, Unscheduled(e)
      PROVE  IInv'
  <2>1. ASSUME NEW w \in DOMAIN Flows, StartTop(w, e) PROVE IInv'
    BY <2>1, StartTopInv
  <2>2. ASSUME NEW a \in Ended, HandlerEnds(e, a) PROVE IInv'
    BY <2>2, HandlerEndsInv
  <2>3. ASSUME NEW d \in Exec, LoopLoaded(e, d) PROVE IInv'
    BY <2>3, LoopLoadedInv
  <2>4. CASE CancelWorkflow(e) \/ CancelTop(e)
    BY <2>4, RequestCancelInv DEF CancelWorkflow, CancelTop
  <2> QED BY <1>2, <2>1, <2>2, <2>3, <2>4 DEF Unscheduled
<1>3. CASE UNCHANGED vars
  BY <1>3 DEF vars, IInv, TypeOK, AllSound, Linked, RegistryExact, StoreFinal
<1> QED BY <1>1, <1>2, <1>3 DEF Next

\* The inductive invariant holds throughout.
THEOREM Inductive == Spec => []IInv
  BY InitInv, NextInv, PTL DEF Spec

\* Type correctness.
THEOREM TypeCorrect == Spec => []TypeOK
<1>1. IInv => TypeOK
  BY DEF IInv
<1> QED BY <1>1, Inductive, PTL

\* The iterations of a loop never overlap, whatever times out, is retried or
\* is cancelled: an iteration that has not ended is the child of its parent.
THEOREM IterationsNeverOverlap == Spec => []IterationsDoNotOverlap
<1>1. IInv => IterationsDoNotOverlap
  BY DEF IInv, Linked, IterationsDoNotOverlap, Busy
<1> QED BY <1>1, Inductive, PTL

\* Only a cancel leaves an iteration behind whose execution is over.
THEOREM OrphansOnlyByCancel == Spec => []OrphansComeFromCancels
<1>1. ASSUME IInv PROVE OrphansComeFromCancels
  <2> SUFFICES ASSUME NEW c \in Exec, Busy(c), ex[c].parent # NoExec
               PROVE  LET p == ex[ex[c].parent] IN
                      \/ p.pc \in {"acting", "cancelling", "timingout"}
                      \/ p.status = "cancelled"
    BY DEF OrphansComeFromCancels
  <2>1. ex[ex[c].parent].call = "running"
    BY <1>1 DEF IInv, Linked, Busy
  <2>2. ex[c].parent \in Exec
    BY <1>1 DEF IInv, TypeOK, Frames
  <2>3. Sound(ex[ex[c].parent])
    BY <1>1, <2>2 DEF IInv, AllSound
  <2> QED BY <2>1, <2>3 DEF Sound
<1> QED BY <1>1, Inductive, PTL

\* The table of active executions has exactly those that are under way.
THEOREM RegistryStaysExact == Spec => []RegistryExact
<1>1. IInv => RegistryExact
  BY DEF IInv
<1> QED BY <1>1, Inductive, PTL

\* What is stored for an execution is the status it ended with, also if the
\* save was cut short, and nothing is stored before the end.
StoreAgrees == \A e \in Exec : store[e] \in {"none", ex[e].status}

\* The store never disagrees with the status an execution ended with.
THEOREM StoreNeverDisagrees == Spec => []StoreAgrees
<1>1. ASSUME IInv PROVE StoreAgrees
  BY <1>1 DEF IInv, StoreFinal, StoreAgrees
<1> QED BY <1>1, Inductive, PTL
===========================================================================
