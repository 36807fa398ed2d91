-------------------------- MODULE AsyncSemaphore --------------------------
(***************************************************************************)
(* asyncio.Semaphore as WorkflowExecutor uses it (`async with              *)
(* self.semaphore`), for CPython 3.11.  It is library code, so it is       *)
(* modelled from its use and marked external.                              *)
(*                                                                         *)
(* A semaphore is a record                                                 *)
(*   value    permits nobody has been given                                *)
(*   queue    tasks suspended in acquire(), first come first served; a     *)
(*            waiter whose future was cancelled is no longer in it         *)
(*   granted  tasks whose future was resolved but which have not run yet:  *)
(*            their permit is already taken out of value                   *)
(***************************************************************************)
EXTENDS Integers, Sequences

Semaphore(Task) ==
  [value : Nat, queue : Seq(Task), granted : SUBSET Task]

NewSemaphore(permits) ==
  [value |-> permits, queue |-> <<>>, granted |-> {}]

\* mutant: only waiters count, not the permits.
LockedByWaiters(s) == s.queue # <<>> \/ s.granted # {}

\* locked(): no permit, or somebody is ahead of the caller.
Locked(s) == s.value = 0 \/ s.queue # <<>> \/ s.granted # {}

\* acquire() of a semaphore that is not locked.
Take(s) == [s EXCEPT !.value = @ - 1]

\* acquire() of a locked semaphore: the caller queues up and suspends.
Enqueue(s, t) == [s EXCEPT !.queue = Append(@, t)]

\* _wake_up_next(): the first waiter is given a permit.
WakeNext(s) ==
  IF s.queue = <<>> THEN s
  ELSE [value   |-> s.value - 1,
        queue   |-> Tail(s.queue),
        granted |-> s.granted \cup {Head(s.queue)}]

\* release(), and what acquire() does for a woken waiter that was cancelled.
Release(s) == WakeNext([s EXCEPT !.value = @ + 1])

\* mutant: it keeps what permits are left to itself.
ResumeAlone(s, t) == [s EXCEPT !.granted = @ \ {t}]

\* A woken waiter runs again: it passes on what permits are left.
Resume(s, t) ==
  LET r == [s EXCEPT !.granted = @ \ {t}]
  IN  IF r.value > 0 THEN WakeNext(r) ELSE r

\* mutant: the permit of a woken and cancelled waiter is lost.
AbandonWithPermit(s, t) == [s EXCEPT !.granted = @ \ {t}]

\* A woken waiter runs again with CancelledError: its permit goes back.
Abandon(s, t) == Release([s EXCEPT !.granted = @ \ {t}])

\* cancel() of a waiter that was not woken: its future leaves the queue.
Withdraw(s, t) ==
  LET q == s.queue IN
  IF \A i \in 1..Len(q) : q[i] # t THEN s
  ELSE LET at == CHOOSE i \in 1..Len(q) : q[i] = t
       IN  [s EXCEPT !.queue = [i \in 1..(Len(q) - 1) |->
                                  q[IF i < at THEN i ELSE i + 1]]]
===========================================================================
