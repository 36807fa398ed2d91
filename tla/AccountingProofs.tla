------------------------- MODULE AccountingProofs -------------------------
(***************************************************************************)
(* What the executor keeps count of, for every set of workflows, any       *)
(* number of permits, executions and cancels: the permits of the semaphore *)
(* and its queue, the metrics, and the path an execution has run.  From    *)
(* that follows that it implements the life cycle of ExecutionLifecycle,   *)
(* and that its executions never all wait for each other.  What it does is *)
(* bounded, and nothing of it is done again.                               *)
(***************************************************************************)
EXTENDS WorkflowEngineProofs, FiniteSetTheorems, WellFoundedInduction

---------------------------------------------------------------------------
(* Counting executions.                                                    *)

\* There are finitely many executions, so sets of them can be counted.
LEMMA Countable ==
  \A S \in SUBSET Exec : IsFiniteSet(S) /\ Cardinality(S) \in Nat
<1>1. IsFiniteSet(Exec)
  BY BoundsTyped, FS_Interval DEF Exec
<1> QED BY <1>1, FS_Subset, FS_CardinalityType

\* One execution more,
LEMMA OneMore ==
  \A S \in SUBSET Exec : \A e \in Exec :
    e \notin S => Cardinality(S \cup {e}) = Cardinality(S) + 1
  BY Countable, FS_AddElement

\* and one less.
LEMMA OneLess ==
  \A S \in SUBSET Exec : \A e \in Exec :
    e \in S => Cardinality(S \ {e}) = Cardinality(S) - 1
  BY Countable, FS_RemoveElement

---------------------------------------------------------------------------
(* The semaphore, its queue as the set of tasks in it.                     *)

Line(s) == {s.queue[i] : i \in 1..Len(s.queue)}

\* Nobody queues twice, and nobody queues who was woken.
Tidy(s) ==
  /\ s \in Semaphore(Exec)
  /\ \A i, j \in 1..Len(s.queue) : s.queue[i] = s.queue[j] => i = j
  /\ Line(s) \cap s.granted = {}

\* The permits that nobody holds yet.
Total(s) == s.value + Cardinality(s.granted)

\* Nobody queues for a permit that is free, or a woken waiter will pass it on.
NoneIdle(s) == s.value > 0 /\ s.queue # <<>> => s.granted # {}

\* r is s with the waiters of G woken, and then perhaps the head of the queue.
Handed(s, G, r) ==
  /\ Tidy(r) /\ NoneIdle(r)
  /\ Line(r) = Line(s) \ r.granted
  /\ G \subseteq r.granted
  /\ r.granted \subseteq G \cup Line(s)

\* Waking a waiter moves it, with its permit, from the queue to the woken ones.
LEMMA WakeNextHands ==
  ASSUME NEW s, Tidy(s), s.value > 0
  PROVE  /\ Handed(s, s.granted, WakeNext(s))
         /\ Total(WakeNext(s)) = Total(s)
<1> DEFINE q == s.queue
           r == WakeNext(s)
<1>1. /\ s \in Semaphore(Exec) /\ q \in Seq(Exec) /\ Len(q) \in Nat
      /\ s.value \in Nat /\ s.granted \in SUBSET Exec
  BY DEF Tidy, Semaphore
<1>2. CASE q = <<>>
  BY <1>2 DEF WakeNext, Handed, Tidy, NoneIdle
<1>3. CASE q # <<>>
  <2>1. /\ Len(q) > 0 /\ Head(q) = q[1] /\ Tail(q) \in Seq(Exec)
        /\ Len(Tail(q)) = Len(q) - 1
        /\ \A i \in 1..(Len(q) - 1) : Tail(q)[i] = q[i + 1]
    BY <1>1, <1>3
  <2>2. /\ r.value = s.value - 1 /\ r.queue = Tail(q)
        /\ r.granted = s.granted \cup {q[1]}
    BY <1>3, <2>1 DEF WakeNext
  <2>3. r \in Semaphore(Exec)
    BY <1>1, WakeNextType
  <2>4. q[1] \in Line(s) /\ q[1] \in Exec
    BY <1>1, <2>1 DEF Line
  <2>5. q[1] \notin s.granted
    BY <2>4 DEF Tidy
  <2>6. Total(r) = Total(s)
    <3>1. Cardinality(s.granted \cup {q[1]}) = Cardinality(s.granted) + 1
      BY <1>1, <2>4, <2>5, OneMore
    <3>2. Cardinality(s.granted) \in Nat
      BY <1>1, Countable
    <3> QED BY <1>1, <2>2, <3>1, <3>2 DEF Total
  <2> HIDE DEF r
  <2>7. \A i, j \in 1..Len(r.queue) : r.queue[i] = r.queue[j] => i = j
    <3> SUFFICES ASSUME NEW i \in 1..(Len(q) - 1), NEW j \in 1..(Len(q) - 1),
                        q[i + 1] = q[j + 1]
                 PROVE  i = j
      BY <2>1, <2>2
    <3>1. i + 1 \in 1..Len(q) /\ j + 1 \in 1..Len(q)
      BY <1>1
    <3>2. i + 1 = j + 1
      BY <3>1 DEF Tidy
    <3> QED BY <3>2
  <2>8. Line(r) = Line(s) \ {q[1]}
    <3>1. ASSUME NEW t \in Line(r) PROVE t \in Line(s) \ {q[1]}
      <4>1. PICK i \in 1..(Len(q) - 1) : t = q[i + 1]
        BY <2>1, <2>2 DEF Line
      <4>2. i + 1 \in 1..Len(q) /\ 1 \in 1..Len(q) /\ i + 1 # 1
        BY <1>1, <2>1
      <4>3. q[i + 1] # q[1]
        BY <4>2 DEF Tidy
      <4> QED BY <4>1, <4>2, <4>3 DEF Line
    <3>2. ASSUME NEW t \in Line(s), t # q[1] PROVE t \in Line(r)
      <4>1. PICK i \in 1..Len(q) : t = q[i]
        BY DEF Line
      <4>2. i - 1 \in 1..(Len(q) - 1) /\ (i - 1) + 1 = i
        BY <1>1, <3>2, <4>1
      <4>3. r.queue[i - 1] = t
        BY <2>1, <2>2, <4>1, <4>2
      <4> QED BY <2>1, <2>2, <4>2, <4>3 DEF Line
    <3>3. q[1] \notin Line(r)
      BY <3>1
    <3> QED BY <3>1, <3>2, <3>3
  <2>9. Line(r) \cap r.granted = {} /\ Line(r) = Line(s) \ r.granted
    BY <2>2, <2>8 DEF Tidy
  <2> QED BY <2>2, <2>3, <2>4, <2>6, <2>7, <2>9 DEF Handed, Tidy, NoneIdle, r
<1> QED BY <1>2, <1>3

\* A permit that is given back wakes the next waiter, if there is one.
LEMMA ReleaseHands ==
  ASSUME NEW s, Tidy(s)
  PROVE  /\ Handed(s, s.granted, Release(s))
         /\ Total(Release(s)) = Total(s) + 1
<1> DEFINE r == [s EXCEPT !.value = @ + 1]
<1>1. /\ s \in Semaphore(Exec) /\ s.value \in Nat /\ s.granted \in SUBSET Exec
  BY DEF Tidy, Semaphore
<1>2. /\ r \in Semaphore(Exec) /\ r.value = s.value + 1 /\ r.queue = s.queue
      /\ r.granted = s.granted
  BY <1>1 DEF Semaphore
<1>3. Release(s) = WakeNext(r)
  BY DEF Release
<1> HIDE DEF r
<1>4. Tidy(r) /\ r.value > 0 /\ Line(r) = Line(s)
  BY <1>1, <1>2 DEF Tidy, Line
<1>5. Handed(r, r.granted, WakeNext(r)) /\ Total(WakeNext(r)) = Total(r)
  BY <1>4, WakeNextHands
<1>6. Cardinality(s.granted) \in Nat
  BY <1>1, Countable
<1>7. Total(r) = Total(s) + 1
  BY <1>1, <1>2, <1>6 DEF Total
<1> QED BY <1>2, <1>3, <1>4, <1>5, <1>7 DEF Handed

\* A semaphore whose woken waiter t has run.
LEMMA Woken ==
  ASSUME NEW s, Tidy(s), NEW t \in s.granted
  PROVE  LET r == [s EXCEPT !.granted = @ \ {t}] IN
         /\ Tidy(r) /\ Line(r) = Line(s) /\ r.granted = s.granted \ {t}
         /\ r.value = s.value /\ r.queue = s.queue /\ Total(r) = Total(s) - 1
<1> DEFINE r == [s EXCEPT !.granted = @ \ {t}]
<1>1. s \in Semaphore(Exec) /\ s.value \in Nat /\ s.granted \in SUBSET Exec
  BY DEF Tidy, Semaphore
<1>2. /\ r \in Semaphore(Exec) /\ r.value = s.value /\ r.queue = s.queue
      /\ r.granted = s.granted \ {t}
  BY <1>1 DEF Semaphore
<1> HIDE DEF r
<1>3. Line(r) = Line(s)
  BY <1>2 DEF Line
<1>4. Tidy(r)
  BY <1>2, <1>3 DEF Tidy
<1>5. /\ Cardinality(s.granted \ {t}) = Cardinality(s.granted) - 1
      /\ Cardinality(s.granted) \in Nat
  BY <1>1, OneLess, Countable
<1>6. Total(r) = Total(s) - 1
  BY <1>1, <1>2, <1>5 DEF Total
<1> QED BY <1>2, <1>3, <1>4, <1>6 DEF r

\* A woken waiter that runs takes its permit and passes on what else is free,
LEMMA ResumeHands ==
  ASSUME NEW s, Tidy(s), NEW t \in s.granted
  PROVE  /\ Handed(s, s.granted \ {t}, Resume(s, t))
         /\ Total(Resume(s, t)) = Total(s) - 1
<1> DEFINE r == [s EXCEPT !.granted = @ \ {t}]
<1>1. /\ Tidy(r) /\ Line(r) = Line(s) /\ r.granted = s.granted \ {t}
      /\ r.value = s.value /\ r.queue = s.queue /\ Total(r) = Total(s) - 1
  BY Woken
<1>2. Resume(s, t) = IF r.value > 0 THEN WakeNext(r) ELSE r
  BY DEF Resume
<1> HIDE DEF r
<1>3. CASE r.value > 0
  BY <1>1, <1>2, <1>3, WakeNextHands DEF Handed
<1>4. CASE ~(r.value > 0)
  BY <1>1, <1>2, <1>4 DEF Handed, NoneIdle, Tidy
<1> QED BY <1>3, <1>4

\* and one that was cancelled gives its permit to the next waiter.
LEMMA AbandonHands ==
  ASSUME NEW s, Tidy(s), NEW t \in s.granted
  PROVE  /\ Handed(s, s.granted \ {t}, Abandon(s, t))
         /\ Total(Abandon(s, t)) = Total(s)
<1> DEFINE r == [s EXCEPT !.granted = @ \ {t}]
<1>1. /\ Tidy(r) /\ Line(r) = Line(s) /\ r.granted = s.granted \ {t}
      /\ Total(r) = Total(s) - 1
  BY Woken
<1>2. Abandon(s, t) = Release(r)
  BY DEF Abandon
<1>3. s.value \in Nat /\ s.granted \in SUBSET Exec
  BY DEF Tidy, Semaphore
<1>4. Total(s) \in Nat
  BY <1>3, Countable DEF Total
<1> HIDE DEF r
<1> QED BY <1>1, <1>2, <1>4, ReleaseHands DEF Handed

\* A waiter that is cancelled leaves the queue, and only it does.
LEMMA WithdrawLeaves ==
  ASSUME NEW s, Tidy(s), NEW t
  PROVE  LET r == Withdraw(s, t) IN
         /\ Tidy(r) /\ Line(r) = Line(s) \ {t} /\ r.granted = s.granted
         /\ r.value = s.value /\ Total(r) = Total(s)
         /\ NoneIdle(s) => NoneIdle(r)
<1> DEFINE q == s.queue
           r == Withdraw(s, t)
<1>1. s \in Semaphore(Exec) /\ q \in Seq(Exec) /\ Len(q) \in Nat
  BY DEF Tidy, Semaphore
<1>2. CASE \A i \in 1..Len(q) : q[i] # t
  BY <1>2 DEF Withdraw, Line
<1>3. CASE \E i \in 1..Len(q) : q[i] = t
  <2> DEFINE at == CHOOSE i \in 1..Len(q) : q[i] = t
             from(i) == IF i < at THEN i ELSE i + 1
             p == [i \in 1..(Len(q) - 1) |-> q[IF i < at THEN i ELSE i + 1]]
  <2>1. at \in 1..Len(q) /\ q[at] = t
    BY <1>3
  <2>2. r = [s EXCEPT !.queue = p]
    BY <1>3 DEF Withdraw
  <2> HIDE DEF at
  <2>3. \A i \in 1..(Len(q) - 1) : from(i) \in 1..Len(q) /\ from(i) # at
    BY <1>1, <2>1
  <2>4. \A i \in 1..(Len(q) - 1) : p[i] = q[from(i)]
    OBVIOUS
  <2>5. p \in Seq(Exec) /\ Len(p) = Len(q) - 1
    BY <1>1, <2>1, <2>3
  <2>6. \A i, j \in 1..(Len(q) - 1) : from(i) = from(j) => i = j
    BY <1>1, <2>1
  <2>7. \A k \in 1..Len(q) : k # at => \E i \in 1..(Len(q) - 1) : from(i) = k
    <3> SUFFICES ASSUME NEW k \in 1..Len(q), k # at
                 PROVE  \E i \in 1..(Len(q) - 1) : from(i) = k
      OBVIOUS
    <3>1. CASE k < at
      BY <1>1, <2>1, <3>1
    <3>2. CASE k > at
      <4>1. k - 1 \in 1..(Len(q) - 1) /\ from(k - 1) = k
        BY <1>1, <2>1, <3>2
      <4> QED BY <4>1
    <3> QED BY <1>1, <2>1, <3>1, <3>2
  <2> HIDE DEF p, from
  <2>8. /\ r \in Semaphore(Exec) /\ r.queue = p /\ r.value = s.value
        /\ r.granted = s.granted
    BY <1>1, <2>2, <2>5 DEF Semaphore
  <2> HIDE DEF r
  <2>9. Line(r) = Line(s) \ {t}
    <3>1. ASSUME NEW u \in Line(r) PROVE u \in Line(s) \ {t}
      <4>1. PICK i \in 1..(Len(q) - 1) : u = p[i]
        BY <2>5, <2>8 DEF Line
      <4>2. u = q[from(i)] /\ from(i) \in 1..Len(q) /\ from(i) # at
        BY <2>3, <2>4, <4>1
      <4>3. q[from(i)] # q[at]
        BY <2>1, <4>2 DEF Tidy
      <4> QED BY <2>1, <4>2, <4>3 DEF Line
    <3>2. ASSUME NEW u \in Line(s), u # t PROVE u \in Line(r)
      <4>1. PICK k \in 1..Len(q) : u = q[k]
        BY DEF Line
      <4>2. PICK i \in 1..(Len(q) - 1) : from(i) = k
        BY <2>1, <2>7, <3>2, <4>1
      <4>3. p[i] = u
        BY <2>4, <4>1, <4>2
      <4> QED BY <2>5, <2>8, <4>3 DEF Line
    <3> QED BY <3>1, <3>2
  <2>10. \A i, j \in 1..Len(r.queue) : r.queue[i] = r.queue[j] => i = j
    <3> SUFFICES ASSUME NEW i \in 1..(Len(q) - 1), NEW j \in 1..(Len(q) - 1),
                        p[i] = p[j]
                 PROVE  i = j
      BY <2>5, <2>8
    <3>1. q[from(i)] = q[from(j)]
      BY <2>4
    <3>2. from(i) = from(j)
      BY <2>3, <3>1 DEF Tidy
    <3> QED BY <2>6, <3>2
  <2>11. Line(r) \cap r.granted = {}
    BY <2>8, <2>9 DEF Tidy
  <2>12. Total(r) = Total(s)
    BY <2>8 DEF Total
  <2>13. q # <<>>
    BY <1>3
  <2>14. NoneIdle(s) => NoneIdle(r)
    BY <2>8, <2>13 DEF NoneIdle
  <2> QED BY <2>8, <2>9, <2>10, <2>11, <2>12, <2>14 DEF Tidy, r
<1> QED BY <1>2, <1>3

\* Who queues up is the last in the queue.
LEMMA EnqueueJoins ==
  ASSUME NEW s, Tidy(s), NEW t \in Exec, t \notin Line(s), t \notin s.granted
  PROVE  LET r == Enqueue(s, t) IN
         /\ Tidy(r) /\ Line(r) = Line(s) \cup {t} /\ r.granted = s.granted
         /\ r.value = s.value /\ Total(r) = Total(s)
<1> DEFINE q == s.queue
           r == Enqueue(s, t)
<1>1. s \in Semaphore(Exec) /\ q \in Seq(Exec) /\ Len(q) \in Nat
  BY DEF Tidy, Semaphore
<1>2. /\ r \in Semaphore(Exec) /\ r.queue = Append(q, t) /\ r.value = s.value
      /\ r.granted = s.granted
  BY <1>1, EnqueueType DEF Enqueue, Semaphore
<1> HIDE DEF r
<1>3. /\ Len(r.queue) = Len(q) + 1 /\ r.queue[Len(q) + 1] = t
      /\ \A i \in 1..Len(q) : r.queue[i] = q[i]
  BY <1>1, <1>2
<1>4. \A i \in 1..Len(q) : q[i] # t
  BY DEF Line
<1>5. \A i, j \in 1..Len(r.queue) : r.queue[i] = r.queue[j] => i = j
  <2> SUFFICES ASSUME NEW i \in 1..(Len(q) + 1), NEW j \in 1..(Len(q) + 1),
                      r.queue[i] = r.queue[j]
               PROVE  i = j
    BY <1>3
  <2>1. CASE i \in 1..Len(q) /\ j \in 1..Len(q)
    BY <1>3, <2>1 DEF Tidy
  <2>2. CASE i = Len(q) + 1 \/ j = Len(q) + 1
    BY <1>1, <1>3, <1>4, <2>2
  <2> QED BY <1>1, <2>1, <2>2
<1>6. Line(r) = Line(s) \cup {t}
  <2>1. ASSUME NEW u \in Line(r) PROVE u \in Line(s) \cup {t}
    <3>1. PICK i \in 1..(Len(q) + 1) : u = r.queue[i]
      BY <1>3 DEF Line
    <3> QED BY <1>1, <1>3, <3>1 DEF Line
  <2>2. ASSUME NEW u \in Line(s) PROVE u \in Line(r)
    <3>1. PICK i \in 1..Len(q) : u = q[i]
      BY DEF Line
    <3>2. i \in 1..Len(r.queue) /\ r.queue[i] = u
      BY <1>1, <1>3, <3>1
    <3> QED BY <3>2 DEF Line
  <2>3. t \in Line(r)
    <3>1. Len(q) + 1 \in 1..Len(r.queue)
      BY <1>1, <1>3
    <3> QED BY <1>3, <3>1 DEF Line
  <2> QED BY <2>1, <2>2, <2>3
<1>7. Line(r) \cap r.granted = {} /\ Total(r) = Total(s)
  BY <1>2, <1>6 DEF Tidy, Total
<1> QED BY <1>2, <1>5, <1>6, <1>7 DEF Tidy, r

---------------------------------------------------------------------------
(* The permits: W executions wait, U of them are not cancelled, H hold one.*)

Accounted(s, W, U, H) ==
  /\ Tidy(s) /\ NoneIdle(s)
  /\ W \in SUBSET Exec /\ U \subseteq W /\ H \in SUBSET Exec
  /\ Line(s) = U \ s.granted
  /\ s.granted \subseteq W
  /\ Total(s) + Cardinality(H) = MaxConcurrent

\* The numbers of it are integers.
LEMMA AccountedNumbers ==
  ASSUME NEW s, NEW H \in SUBSET Exec, Tidy(s)
  PROVE  Total(s) \in Int /\ Cardinality(H) \in Int
<1>1. s.value \in Nat /\ s.granted \in SUBSET Exec
  BY DEF Tidy, Semaphore
<1> QED BY <1>1, Countable DEF Total

\* A holder gives its permit back,
LEMMA AccountRelease ==
  ASSUME NEW s, NEW W, NEW U, NEW H, Accounted(s, W, U, H), NEW e \in H
  PROVE  Accounted(Release(s), W, U, H \ {e})
<1>1. Tidy(s) /\ H \in SUBSET Exec
  BY DEF Accounted
<1>2. Handed(s, s.granted, Release(s)) /\ Total(Release(s)) = Total(s) + 1
  BY <1>1, ReleaseHands
<1>3. Cardinality(H \ {e}) = Cardinality(H) - 1
  BY <1>1, OneLess
<1>4. Total(Release(s)) + Cardinality(H \ {e}) = MaxConcurrent
  BY <1>1, <1>2, <1>3, AccountedNumbers DEF Accounted
<1> QED BY <1>1, <1>2, <1>4 DEF Accounted, Handed

\* a woken waiter becomes a holder,
LEMMA AccountResume ==
  ASSUME NEW s, NEW W, NEW U, NEW H, Accounted(s, W, U, H),
         NEW e \in s.granted, e \notin H
  PROVE  Accounted(Resume(s, e), W \ {e}, U \ {e}, H \cup {e})
<1>1. Tidy(s) /\ H \in SUBSET Exec /\ e \in Exec
  BY DEF Accounted
<1>2. Handed(s, s.granted \ {e}, Resume(s, e)) /\ Total(Resume(s, e)) = Total(s) - 1
  BY <1>1, ResumeHands
<1>3. Cardinality(H \cup {e}) = Cardinality(H) + 1
  BY <1>1, OneMore
<1>4. Total(Resume(s, e)) + Cardinality(H \cup {e}) = MaxConcurrent
  BY <1>1, <1>2, <1>3, AccountedNumbers DEF Accounted
<1>5. e \notin Line(s)
  BY DEF Accounted
<1> QED BY <1>1, <1>2, <1>4, <1>5 DEF Accounted, Handed

\* a woken waiter is cancelled,
LEMMA AccountAbandon ==
  ASSUME NEW s, NEW W, NEW U, NEW H, Accounted(s, W, U, H), NEW e \in s.granted
  PROVE  Accounted(Abandon(s, e), W \ {e}, U \ {e}, H)
<1>1. Tidy(s) /\ H \in SUBSET Exec /\ e \in Exec
  BY DEF Accounted
<1>2. Handed(s, s.granted \ {e}, Abandon(s, e)) /\ Total(Abandon(s, e)) = Total(s)
  BY <1>1, AbandonHands
<1>3. e \notin Line(s)
  BY DEF Accounted
<1> QED BY <1>1, <1>2, <1>3 DEF Accounted, Handed

\* one that left the queue ends,
LEMMA AccountLeave ==
  ASSUME NEW s, NEW W, NEW U, NEW H, Accounted(s, W, U, H),
         NEW e, e \notin U, e \notin s.granted
  PROVE  Accounted(s, W \ {e}, U, H)
  BY DEF Accounted

\* a waiter is cancelled,
LEMMA AccountWithdraw ==
  ASSUME NEW s, NEW W, NEW U, NEW H, Accounted(s, W, U, H), NEW e
  PROVE  Accounted(Withdraw(s, e), W, U \ {e}, H)
<1> DEFINE r == Withdraw(s, e)
<1>1. /\ Tidy(r) /\ Line(r) = Line(s) \ {e} /\ r.granted = s.granted
      /\ Total(r) = Total(s) /\ NoneIdle(r)
  BY WithdrawLeaves DEF Accounted
<1> HIDE DEF r
<1>2. Accounted(r, W, U \ {e}, H)
  BY <1>1 DEF Accounted
<1> QED BY <1>2 DEF r

\* a new execution queues up,
LEMMA AccountEnqueue ==
  ASSUME NEW s, NEW W, NEW U, NEW H, Accounted(s, W, U, H), Locked(s),
         NEW e \in Exec, e \notin W
  PROVE  Accounted(Enqueue(s, e), W \cup {e}, U \cup {e}, H)
<1> DEFINE r == Enqueue(s, e)
<1>1. e \notin Line(s) /\ e \notin s.granted
  BY DEF Accounted
<1>2. /\ Tidy(r) /\ Line(r) = Line(s) \cup {e} /\ r.granted = s.granted
      /\ r.value = s.value /\ Total(r) = Total(s)
  BY <1>1, EnqueueJoins DEF Accounted
<1> HIDE DEF r
<1>3. s.value \in Nat
  BY DEF Accounted, Tidy, Semaphore
<1>4. NoneIdle(r)
  BY <1>2, <1>3 DEF NoneIdle, Locked, Accounted
<1>5. Accounted(r, W \cup {e}, U \cup {e}, H)
  BY <1>1, <1>2, <1>4 DEF Accounted
<1> QED BY <1>5 DEF r

\* and one finds a permit free.
LEMMA AccountTake ==
  ASSUME NEW s, NEW W, NEW U, NEW H, Accounted(s, W, U, H), ~Locked(s),
         NEW e \in Exec, e \notin H
  PROVE  Accounted(Take(s), W, U, H \cup {e})
<1> DEFINE r == Take(s)
<1>1. /\ s \in Semaphore(Exec) /\ Tidy(s) /\ H \in SUBSET Exec
      /\ s.value \in Nat /\ s.granted \in SUBSET Exec
  BY DEF Accounted, Tidy, Semaphore
<1>2. /\ r \in Semaphore(Exec) /\ r.value = s.value - 1 /\ r.queue = s.queue
      /\ r.granted = s.granted /\ s.queue = <<>>
  BY <1>1, TakeType DEF Take, Locked, Semaphore
<1> HIDE DEF r
<1>3. Tidy(r) /\ NoneIdle(r) /\ Line(r) = Line(s)
  BY <1>1, <1>2 DEF Tidy, NoneIdle, Line
<1>4. Cardinality(H \cup {e}) = Cardinality(H) + 1
  BY <1>1, OneMore
<1>5. Total(r) = Total(s) - 1
  BY <1>1, <1>2, Countable DEF Total
<1>6. Total(r) + Cardinality(H \cup {e}) = MaxConcurrent
  BY <1>1, <1>4, <1>5, AccountedNumbers DEF Accounted
<1>7. Accounted(r, W, U, H \cup {e})
  BY <1>1, <1>2, <1>3, <1>6 DEF Accounted
<1> QED BY <1>7 DEF r

---------------------------------------------------------------------------
(* The kinds of steps, as far as the counts can tell them apart.           *)

\* Two frames with the same walk behind them.
SameWalk(f, g) ==
  /\ g.wf = f.wf /\ g.node = f.node /\ g.outs = f.outs /\ g.errors = f.errors
  /\ g.status = f.status

\* A frame that neither gets nor gives back a permit nor ends.
Quiet(f, g) ==
  /\ SameWalk(f, g)
  /\ \/ g.pc = f.pc
     \/ f.pc \in Holding /\ g.pc \in Holding
     \/ f.pc = "saving" /\ g.pc = "done"
  /\ f.creq /\ ~g.creq => g.pc \in {"cancelling", "done"}

\* Frames that all do, the executions of C being cancelled and those of D being
\* what loops run next.
QuietStep(x, y, C, D) ==
  \A e \in Exec :
    /\ Quiet(x[e], y[e])
    /\ x[e].pc \in {"free", "waiting"} => (y[e].creq <=> x[e].creq \/ e \in C)
    /\ y[e].child \in {x[e].child, NoExec} \cup D

\* The store is left alone or gets the record of an execution that has ended.
RecordStep ==
  \/ UNCHANGED store
  \/ \E e \in Exec : /\ ex[e].pc = "saving"
                     /\ store' = [store EXCEPT ![e] = ex[e].status]

QuietKind == QuietStep(ex, ex', {}, {}) /\ UNCHANGED <<sem, metrics>> /\ RecordStep

CancelKind ==
  \E c \in Exec : /\ QuietStep(ex, ex', {c}, {})
                  /\ ex[c].pc # "free"
                  /\ sem' = WithdrawIfWaiting(sem, c)
                  /\ UNCHANGED <<metrics, store>>

BeginKind ==
  \E x \in [Exec -> Frames], d \in Exec, w \in DOMAIN Flows,
     p \in Exec \cup {NoExec}, depth \in Nat, max \in Nat :
    /\ QuietStep(ex, x, {}, {d})
    /\ ex[d].pc = "free"
    /\ Begin(x, d, w, p, depth, max)
    /\ RecordStep

\* The nodes with an output lead from the start node to n.
Ran(f, n) ==
  LET nodes == Flows[f.wf].nodes IN
  /\ Flows[f.wf].start # NoNode
  /\ Flows[f.wf].start \in f.outs \cup {n}
  /\ \A m \in f.outs :
       \/ nodes[m].kind = "stop"
       \/ \E a \in Succeeding :
            Successor(nodes[m], a) \in f.outs \cup {NoNode, n}

\* The walk of an execution without errors leads to the node it is at, and
\* that of a completed one to an end.
Path(f) ==
  /\ f.pc = "waiting" => f.outs = {}
  /\ f.pc \in Holding => f.errors # {} \/ Ran(f, f.node)
  /\ f.status = "completed" => Ran(f, NoNode)

Interrupted == {"cancelling", "timingout"}

\* What a call waits for.
Calls(f) ==
  /\ f.pc = "acting" => f.call \in {"running"} \cup Ended
  /\ f.pc \in Interrupted => /\ f.call \in {"running", "stopping"} \cup Ended
                             /\ f.call = "running" => f.child # NoExec
  /\ f.child # NoExec => f.call = "running" /\ NodeOf(f).kind = "loop"

\* A segment of an execution that holds a permit.
SegmentKind ==
  \E e \in Exec, f \in Frames :
    /\ ex[e].pc \in Holding
    /\ Settle(e, f, sem)
    /\ Sound(f) /\ f.pc \in {"acting", "backoff", "saving"}
    /\ Path(ex[e]) => Path(f)
    /\ Calls(ex[e]) => Calls(f)
    /\ f.parent = ex[e].parent /\ f.child \in {ex[e].child, NoExec}
    /\ ex[e].creq /\ ~f.creq => \/ f.status = "cancelled"
                                \/ ex[e].pc = "acting" /\ ex[e].call \in Ended

StepKind ==
  \/ QuietKind
  \/ CancelKind
  \/ BeginKind
  \/ SegmentKind
  \/ \E e \in Exec : Acquired(e) \/ AcquireCancelled(e)

\* No execution is cancelled or run by a loop before it begins.
Fresh(x) ==
  \A e \in Exec :
    /\ x[e].pc = "free" => ~x[e].creq
    /\ x[e].child # NoExec => x[x[e].child].pc # "free"

\* One quiet frame among others that do not change.
LEMMA OneQuiet ==
  ASSUME NEW x \in [Exec -> Frames], NEW e \in Exec, NEW g, Quiet(x[e], g), NEW D,
         x[e].pc \in {"free", "waiting"} => (g.creq <=> x[e].creq),
         g.child \in {x[e].child, NoExec} \cup D
  PROVE  QuietStep(x, [x EXCEPT ![e] = g], {}, D)
<1> DEFINE y == [x EXCEPT ![e] = g]
<1>1. y[e] = g /\ \A b \in Exec : b # e => y[b] = x[b]
  OBVIOUS
<1> HIDE DEF y
<1>2. QuietStep(x, y, {}, D)
  BY <1>1 DEF QuietStep, Quiet, SameWalk
<1> QED BY <1>2 DEF y

\* The save records the final status of one execution, or nothing.
LEMMA SavedRecords ==
  ASSUME NEW e \in Exec, NEW written \in BOOLEAN, IInv, Saved(e, written),
         ex[e].pc = "saving"
  PROVE  RecordStep
<1>1. store \in [Exec -> Final \cup {"none"}]
  BY DEF IInv, TypeOK
<1>2. CASE written
  BY <1>2 DEF Saved, RecordStep
<1>3. CASE ~written
  BY <1>1, <1>3 DEF Saved, RecordStep
<1> QED BY <1>2, <1>3

\* What the code does to a frame without touching its walk.
LEMMA TypedFrames ==
  ASSUME IInv
  PROVE  /\ ex \in [Exec -> Frames]
         /\ \A e \in Exec : ex[e] \in Frames /\ Sound(ex[e])
  BY DEF IInv, AllSound

\* The steps of a handler are quiet.
LEMMA HandlerQuiet ==
  ASSUME IInv, NEW e \in Exec, NEW answer,
         HandlerEnds(e, answer) \/ HandlerStopped(e, answer)
  PROVE  QuietKind
<1> DEFINE g == [ex[e] EXCEPT !.call = answer]
<1>1. ex' = [ex EXCEPT ![e] = g] /\ UNCHANGED <<sem, metrics, store>>
  BY DEF HandlerEnds, HandlerStopped
<1>2. Quiet(ex[e], g) /\ g.creq = ex[e].creq /\ g.child = ex[e].child
  BY TypedFrames DEF Quiet, SameWalk, Frames
<1> HIDE DEF g
<1> QED BY <1>1, <1>2, TypedFrames, OneQuiet DEF QuietKind, RecordStep

\* A loop that has loaded its sub-workflow answers, or begins an execution.
LEMMA LoopKind ==
  ASSUME IInv, NEW e \in Exec, NEW d \in Exec, LoopLoaded(e, d)
  PROVE  QuietKind \/ BeginKind
<1> DEFINE n == NodeOf(ex[e])
           h == [ex[e] EXCEPT !.call = "ok"]
           g == [ex[e] EXCEPT !.child = d, !.item = 1]
           x == [ex EXCEPT ![e].child = d, ![e].item = 1]
<1>1. /\ ex \in [Exec -> Frames] /\ ex[e] \in Frames /\ Sound(ex[e])
      /\ ex[e].call = "running"
  BY TypedFrames DEF LoopLoaded, CallOpen
<1>2. n \in NodeDefs
  BY <1>1, NodeIsTyped
<1>3. CASE n.items = 0
  <2>1. ex' = [ex EXCEPT ![e] = h] /\ UNCHANGED <<sem, metrics, store>>
    BY <1>3 DEF LoopLoaded
  <2>2. Quiet(ex[e], h) /\ h.creq = ex[e].creq /\ h.child = ex[e].child
    BY <1>1 DEF Quiet, SameWalk, Frames
  <2> HIDE DEF h
  <2> QED BY <1>1, <2>1, <2>2, OneQuiet DEF QuietKind, RecordStep
<1>4. CASE n.items > 0
  <2>1. /\ Begin(x, d, n.sub, e, ex[e].depth + 1, n.subMax)
        /\ ex[d].pc = "free" /\ n.sub \in DOMAIN Flows /\ UNCHANGED store
    BY <1>2, <1>4 DEF LoopLoaded, IsFresh, NodeDefs
  <2>2. g \in Frames /\ Quiet(ex[e], g) /\ g.creq = ex[e].creq /\ g.child = d
    <3>1. g \in Frames
      BY <1>1 DEF Frames
    <3>2. Quiet(ex[e], g) /\ g.creq = ex[e].creq /\ g.child = d
      BY <1>1 DEF Frames, Quiet, SameWalk
    <3> QED BY <3>1, <3>2
  <2>3. x = [ex EXCEPT ![e] = g]
    BY <1>1 DEF Frames
  <2>4. ex[e].depth + 1 \in Nat /\ n.subMax \in Nat
    BY <1>1, <1>2 DEF Frames, NodeDefs
  <2> HIDE DEF g, x, n
  <2>5. x \in [Exec -> Frames] /\ QuietStep(ex, x, {}, {d})
    BY <1>1, <2>2, <2>3, OneQuiet
  <2> QED BY <2>1, <2>4, <2>5 DEF BeginKind, RecordStep
<1> QED BY <1>2, <1>3, <1>4 DEF NodeDefs

\* A timeout or a cancel that reaches a wait_for is quiet, or it cancels the
\* iteration that runs in it.
LEMMA InterruptKind ==
  ASSUME IInv, Fresh(ex), NEW e \in Exec, NEW pc \in {"cancelling", "timingout"},
         Interrupt(e, pc), pc = "timingout" => ~ex[e].creq
  PROVE  QuietKind \/ CancelKind
<1> DEFINE c == ex[e].child
           g == [ex[e] EXCEPT !.pc = pc, !.creq = FALSE]
           h == [ex[e] EXCEPT !.pc = pc, !.creq = FALSE, !.call = "stopping"]
<1>1. /\ ex \in [Exec -> Frames] /\ ex[e] \in Frames
      /\ ex[e].pc = "acting" /\ UNCHANGED <<active, metrics, store, cancels>>
  BY TypedFrames DEF Interrupt, Interruptible
<1>2. CASE c = NoExec
  <2>1. ex' = [ex EXCEPT ![e] = h] /\ sem' = sem
    BY <1>1, <1>2 DEF Interrupt, Interruptible
  <2>2. Quiet(ex[e], h) /\ h.child = ex[e].child
    BY <1>1 DEF Quiet, SameWalk, Frames, Holding, InFlight
  <2> HIDE DEF h
  <2> QED BY <1>1, <2>1, <2>2, OneQuiet DEF QuietKind, RecordStep
<1>3. CASE c # NoExec
  <2> DEFINE y == [ex EXCEPT ![e] = g]
             z == [y[c] EXCEPT !.creq = TRUE]
  <2>1. c \in Exec /\ ex[c].pc # "free"
    BY <1>1, <1>3 DEF Frames, Fresh
  <2>2. ex' = [y EXCEPT ![c] = z] /\ sem' = WithdrawIfWaiting(sem, c)
    BY <1>1, <1>3, <2>1 DEF Interrupt, Interruptible
  <2>3. g \in Frames /\ Quiet(ex[e], g) /\ g.pc = pc /\ g.child = c
    BY <1>1 DEF Quiet, SameWalk, Frames, Pcs, Holding, InFlight
  <2> HIDE DEF g
  <2>4. y \in [Exec -> Frames] /\ y[c] \in Frames
    BY <1>1, <2>1, <2>3
  <2>5. \A b \in Exec : /\ Quiet(ex[b], y[b]) /\ y[b].child = ex[b].child
                        /\ ex[b].pc \in {"free", "waiting"} => y[b] = ex[b]
    BY <1>1, <2>3 DEF Quiet, SameWalk
  <2> HIDE DEF y
  <2>6. /\ SameWalk(y[c], z) /\ z.pc = y[c].pc /\ z.creq = TRUE
        /\ z.child = y[c].child
    BY <2>4 DEF SameWalk, Frames
  <2> HIDE DEF z
  <2>7. ex'[c] = z /\ \A b \in Exec : b # c => ex'[b] = y[b]
    BY <2>1, <2>2, <2>4
  <2>8. QuietStep(ex, ex', {c}, {})
    BY <2>1, <2>5, <2>6, <2>7 DEF QuietStep, Quiet, SameWalk
  <2> QED BY <1>1, <2>1, <2>2, <2>8 DEF CancelKind
<1> QED BY <1>2, <1>3

\* task.cancel() from outside cancels one execution.
LEMMA RequestKind ==
  ASSUME IInv, NEW e \in Exec, CancelWorkflow(e) \/ CancelTop(e)
  PROVE  CancelKind
<1> DEFINE g == [ex[e] EXCEPT !.creq = TRUE]
<1>1. /\ ex' = [ex EXCEPT ![e] = g] /\ sem' = WithdrawIfWaiting(sem, e)
      /\ UNCHANGED <<metrics, store>>
  BY DEF RequestCancel, CancelWorkflow, CancelTop
<1>0. ex[e].pc # "free"
  BY DEF CancelWorkflow, CancelTop, IInv, RegistryExact, InFlight
<1>2. ex \in [Exec -> Frames] /\ ex[e] \in Frames
  BY TypedFrames
<1>3. SameWalk(ex[e], g) /\ g.pc = ex[e].pc /\ g.creq = TRUE /\ g.child = ex[e].child
  BY <1>2 DEF SameWalk, Frames
<1> HIDE DEF g
<1>4. ex'[e] = g /\ \A b \in Exec : b # e => ex'[b] = ex[b]
  BY <1>1, <1>2
<1>5. QuietStep(ex, ex', {e}, {})
  BY <1>3, <1>4 DEF QuietStep, Quiet, SameWalk
<1> QED BY <1>0, <1>1, <1>5 DEF CancelKind

\* An execution whose call returns to nobody, or into the call of a loop.
LEMMA ReturnQuiet ==
  ASSUME IInv, NEW e \in Exec, NEW written \in BOOLEAN, NEW g \in Frames,
         NEW answer, ex[e].pc = "saving", SameWalk(ex[e], g), g.pc = "done",
         g.child = ex[e].child, Saved(e, written),
         UNCHANGED <<sem, metrics>>, ex[e].parent \in Exec \cup {NoExec},
         LET frames == [ex EXCEPT ![e] = g] IN
           ex' = frames \/ ex' = CallEnds(frames, ex[e].parent, answer)
  PROVE  QuietKind
<1> DEFINE p == ex[e].parent
           frames == [ex EXCEPT ![e] = g]
           h == [frames[p] EXCEPT !.call = answer, !.child = NoExec]
<1>0. ex \in [Exec -> Frames]
  BY TypedFrames
<1>1. Quiet(ex[e], g)
  BY DEF Quiet
<1>2. frames[e] = g /\ \A b \in Exec : b # e => frames[b] = ex[b]
  BY <1>0
<1>3. \A b \in Exec : /\ Quiet(ex[b], frames[b]) /\ frames[b].child = ex[b].child
                      /\ ex[b].pc \in {"free", "waiting"} => frames[b] = ex[b]
  BY <1>1, <1>2 DEF Quiet, SameWalk
<1>4. frames \in [Exec -> Frames]
  BY <1>0, <1>2
<1>5. ex' = frames \/ ex' = [frames EXCEPT ![p] = h]
  BY DEF CallEnds
<1> HIDE DEF frames
<1>6. CASE ex' = frames
  BY <1>3, <1>6, SavedRecords DEF QuietKind, QuietStep
<1>7. CASE ex' = [frames EXCEPT ![p] = h]
  <2>1. \A b \in Exec :
          /\ ex'[b].pc = frames[b].pc /\ ex'[b].creq = frames[b].creq
          /\ SameWalk(frames[b], ex'[b])
          /\ ex'[b].child \in {frames[b].child, NoExec}
    BY <1>4, <1>7 DEF SameWalk, Frames
  <2>2. QuietStep(ex, ex', {}, {})
    BY <1>3, <2>1 DEF QuietStep, Quiet, SameWalk
  <2> QED BY <2>2, SavedRecords DEF QuietKind
<1> QED BY <1>5, <1>6, <1>7

\* An execution that returns, or is cancelled while it saves, is quiet.
LEMMA EndQuiet ==
  ASSUME IInv, NEW e \in Exec, NEW written \in BOOLEAN,
         TopReturns(e, written) \/ SaveCancelled(e, written)
  PROVE  QuietKind
<1> DEFINE g == [ex[e] EXCEPT !.pc = "done"]
           h == [ex[e] EXCEPT !.pc = "done", !.creq = FALSE]
<1>1. /\ ex \in [Exec -> Frames] /\ ex[e] \in Frames /\ ex[e].pc = "saving"
      /\ Saved(e, written) /\ UNCHANGED <<sem, metrics>>
      /\ ex[e].parent \in Exec \cup {NoExec}
  BY TypedFrames DEF TopReturns, SaveCancelled, Frames
<1>2. g \in Frames /\ SameWalk(ex[e], g) /\ g.pc = "done" /\ g.child = ex[e].child
  BY <1>1 DEF SameWalk, Frames, Pcs
<1>3. h \in Frames /\ SameWalk(ex[e], h) /\ h.pc = "done" /\ h.child = ex[e].child
  BY <1>1 DEF SameWalk, Frames, Pcs
<1>4. CASE TopReturns(e, written)
  <2>1. ex' = [ex EXCEPT ![e] = g]
    BY <1>4 DEF TopReturns
  <2> HIDE DEF g
  <2> QED BY <1>1, <1>2, <2>1, ReturnQuiet
<1>5. CASE SaveCancelled(e, written)
  <2> DEFINE frames == [ex EXCEPT ![e] = h]
  <2>1. ex' = frames \/ ex' = CallEnds(frames, ex[e].parent, "cancelled")
    BY <1>1, <1>5 DEF SaveCancelled
  <2> HIDE DEF h
  <2> QED BY <1>1, <1>3, <2>1, ReturnQuiet
<1> QED BY <1>4, <1>5

\* An iteration that returns ends its loop, or the loop begins the next one.
LEMMA IterationKind ==
  ASSUME IInv, NEW e \in Exec, NEW d \in Exec, NEW written \in BOOLEAN,
         IterationReturns(e, d, written)
  PROVE  QuietKind \/ BeginKind
<1> DEFINE p == ex[e].parent
           g == [ex[e] EXCEPT !.pc = "done"]
           frames == [ex EXCEPT ![e] = g]
           x == [[ex EXCEPT ![e].pc = "done"] EXCEPT ![p].child = d, ![p].item = @ + 1]
<1>1. /\ ex \in [Exec -> Frames] /\ ex[e] \in Frames /\ Sound(ex[e])
      /\ ex[e].pc = "saving" /\ Saved(e, written) /\ p \in Exec /\ p # e
      /\ ex[p] \in Frames
  BY TypedFrames DEF IInv, Linked, Frames, IterationReturns
<1>2. /\ g \in Frames /\ SameWalk(ex[e], g) /\ g.pc = "done" /\ g.creq = ex[e].creq
      /\ g.child = ex[e].child
  BY <1>1 DEF SameWalk, Frames, Pcs
<1>3. \/ \E answer : ex' = CallEnds(frames, p, answer) /\ UNCHANGED <<sem, metrics>>
      \/ /\ Begin(x, d, ex[e].wf, p, ex[e].depth, ex[e].maxIter)
         /\ ex[d].pc = "free"
  BY <1>1 DEF IterationReturns, IsFresh
<1>4. ASSUME NEW answer, ex' = CallEnds(frames, p, answer),
             UNCHANGED <<sem, metrics>>
      PROVE  QuietKind
  <2> HIDE DEF g
  <2> QED BY <1>1, <1>2, <1>4, ReturnQuiet
<1>5. CASE /\ Begin(x, d, ex[e].wf, p, ex[e].depth, ex[e].maxIter)
           /\ ex[d].pc = "free"
  <2> DEFINE h == [ex[p] EXCEPT !.child = d, !.item = @ + 1]
  <2>1. h \in Frames /\ Quiet(ex[p], h) /\ h.creq = ex[p].creq /\ h.child = d
    <3>1. ex[p].item + 1 \in Nat
      BY <1>1 DEF Frames
    <3>2. h \in Frames
      BY <1>1, <3>1 DEF Frames
    <3>3. Quiet(ex[p], h) /\ h.creq = ex[p].creq /\ h.child = d
      BY <1>1 DEF Frames, Quiet, SameWalk
    <3> QED BY <3>2, <3>3
  <2>2. x = [frames EXCEPT ![p] = h]
    <3>1. x = [frames EXCEPT ![p] = [frames[p] EXCEPT !.child = d, !.item = @ + 1]]
      BY <1>1
    <3>2. frames[p] = ex[p]
      BY <1>1
    <3> QED BY <3>1, <3>2
  <2>3. Quiet(ex[e], g)
    BY <1>1, <1>2 DEF Quiet
  <2> HIDE DEF g, h, x
  <2>4. frames \in [Exec -> Frames] /\ QuietStep(ex, frames, {}, {}) /\ frames[p] = ex[p]
    BY <1>1, <1>2, <2>3, OneQuiet
  <2> HIDE DEF frames
  <2>5. x \in [Exec -> Frames]
    BY <1>1, <2>1, <2>2, <2>4
  <2>6. x[p] = h /\ \A b \in Exec : b # p => x[b] = frames[b]
    BY <1>1, <2>2, <2>4
  <2>7. QuietStep(ex, x, {}, {d})
    BY <2>1, <2>4, <2>6 DEF QuietStep
  <2>8. ex[e].wf \in DOMAIN Flows /\ ex[e].depth \in Nat /\ ex[e].maxIter \in Nat
    BY <1>1 DEF Frames
  <2>9. RecordStep
    BY <1>1, SavedRecords
  <2> QED BY <1>1, <1>5, <2>5, <2>7, <2>8, <2>9 DEF BeginKind
<1> QED BY <1>3, <1>4, <1>5

\* An execution that is started from outside begins over unchanged frames.
LEMMA TopKind ==
  ASSUME IInv, NEW w \in DOMAIN Flows, NEW d \in Exec, StartTop(w, d)
  PROVE  BeginKind
<1>1. ex \in [Exec -> Frames] /\ Flows[w].maxIter \in Nat /\ 0 \in Nat
  BY TypedFrames, FlowsTyped DEF FlowsAssumption
<1>2. QuietStep(ex, ex, {}, {d})
  BY DEF QuietStep, Quiet, SameWalk
<1>3. /\ Begin(ex, d, w, NoExec, 0, Flows[w].maxIter) /\ ex[d].pc = "free"
      /\ RecordStep
  BY DEF StartTop, IsFresh, RecordStep
<1>4. NoExec \in Exec \cup {NoExec}
  OBVIOUS
<1> QED BY <1>1, <1>2, <1>3, <1>4 DEF BeginKind

---------------------------------------------------------------------------
(* The walk of an execution and its outputs.                               *)

\* Leaving the loop with an error, or at an end of the path.
LEMMA LeavePath ==
  ASSUME NEW f, Walking(f), f.errors # {} \/ f.iter >= f.maxIter \/ Ran(f, NoNode)
  PROVE  /\ Path(Leave(f))
         /\ f.errors # {} \/ f.iter >= f.maxIter => Leave(f).status = "failed"
<1> DEFINE errs == f.errors \cup
                     (IF f.iter >= f.maxIter THEN {"max_iterations"} ELSE {})
           g == Leave(f)
<1>1. /\ g.pc = "saving" /\ g.wf = f.wf /\ g.outs = f.outs
      /\ g.status = IF errs = {} THEN "completed" ELSE "failed"
  BY DEF Leave, Walking, Frames
<1>2. f.errors # {} \/ f.iter >= f.maxIter => errs # {}
  OBVIOUS
<1> HIDE DEF errs, g
<1>3. Ran(f, NoNode) => Ran(g, NoNode)
  BY <1>1 DEF Ran
<1>4. Path(g)
  BY <1>1, <1>2, <1>3 DEF Path, Holding, InFlight
<1> QED BY <1>1, <1>2, <1>4 DEF g

\* Visiting the node the path leads to keeps the path, and a visit to a node
\* that cannot be run fails.
LEMMA VisitPath ==
  ASSUME NEW f, Walking(f), NEW n \in NodeIds, f.errors # {} \/ Ran(f, n)
  PROVE  /\ Path(Visit(f, n))
         /\ n # NoNode /\ Visit(f, n).pc = "saving" => Visit(f, n).status = "failed"
<1> DEFINE g == [f EXCEPT !.node = n]
           h == [g EXCEPT !.iter = @ + 1, !.errors = @ \cup {"not_found"}]
           k == [g EXCEPT !.iter = @ + 1, !.att = 0]
<1>1. /\ Walking(g) /\ g.wf = f.wf /\ g.outs = f.outs /\ g.errors = f.errors
      /\ g.iter = f.iter /\ g.maxIter = f.maxIter /\ g.node = n
  BY DEF Walking, Frames
<1> HIDE DEF g
<1>2. g.iter + 1 \in Nat /\ g.errors \cup {"not_found"} \in SUBSET Reasons
  BY <1>1 DEF Walking, Frames, Reasons
<1>3. Walking(h) /\ h.errors # {}
  BY <1>1, <1>2 DEF Walking, Frames
<1>4. Attempt(k).pc = "acting" /\ Attempt(k).node = n /\ Attempt(k).wf = f.wf
      /\ Attempt(k).outs = f.outs /\ Attempt(k).errors = f.errors
      /\ Attempt(k).status = "none"
  BY <1>1 DEF Walking, Frames, Attempt
<1>5. Ran(f, n) => Ran(g, n) /\ Ran(Attempt(k), n)
  BY <1>1, <1>4 DEF Ran
<1>6. Path(Attempt(k))
  <2> DEFINE a == Attempt(k)
  <2>1. f.errors # {} => a.errors # {}
    BY <1>4
  <2> HIDE DEF a
  <2> QED BY <1>4, <1>5, <2>1 DEF Path, Holding, InFlight, a
<1>7. CASE n = NoNode \/ f.iter >= f.maxIter
  <2>1. Visit(f, n) = Leave(g)
    BY <1>7 DEF Visit, g
  <2>2. g.errors # {} \/ g.iter >= g.maxIter \/ Ran(g, NoNode)
    BY <1>1, <1>5, <1>7
  <2> QED BY <1>1, <1>7, <2>1, <2>2, LeavePath
<1>8. CASE ~(n = NoNode \/ f.iter >= f.maxIter) /\ n \notin DOMAIN Flows[f.wf].nodes
  <2>1. Visit(f, n) = Leave(h)
    BY <1>8 DEF Visit, g
  <2> HIDE DEF h
  <2> QED BY <1>3, <2>1, LeavePath
<1>9. CASE ~(n = NoNode \/ f.iter >= f.maxIter) /\ n \in DOMAIN Flows[f.wf].nodes
  <2>1. Visit(f, n) = Attempt(k)
    BY <1>9 DEF Visit, g
  <2> HIDE DEF k
  <2> QED BY <1>4, <1>6, <2>1
<1> QED BY <1>7, <1>8, <1>9

\* The first segment starts the path at the start node; it may fail at once,
\* but it does not complete.
LEMMA EnterPath ==
  ASSUME NEW f, Walking(f), f.outs = {}
  PROVE  /\ Path(EnterFlow(f))
         /\ EnterFlow(f).pc = "saving" => EnterFlow(f).status = "failed"
<1> DEFINE start == Flows[f.wf].start
<1>1. start \in NodeIds
  BY FlowsTyped DEF FlowsAssumption, Walking, Frames
<1>2. CASE start = NoNode
  <2> DEFINE g == EnterFlow(f)
  <2>1. g.pc = "saving" /\ g.status = "failed"
    BY <1>2 DEF EnterFlow, Walking, Frames
  <2> HIDE DEF g
  <2>2. Path(g)
    BY <2>1 DEF Path, Holding, InFlight
  <2> QED BY <2>1, <2>2 DEF g
<1>3. CASE start # NoNode
  <2>1. Ran(f, start)
    BY <1>3 DEF Ran
  <2> QED BY <1>1, <1>3, <2>1, VisitPath DEF EnterFlow
<1> QED BY <1>2, <1>3

\* The walk leaves the iteration a frame is linked to, or has none, and where it
\* goes on a call runs.
LEMMA VisitChild ==
  ASSUME NEW f, Walking(f), NEW n
  PROVE  /\ Visit(f, n).child \in {f.child, NoExec}
         /\ Visit(f, n).pc = "acting" => Visit(f, n).call = "running"
BY DEF Visit, Leave, Attempt, Walking, Frames

\* So it is when an execution enters its workflow.
LEMMA EnterChild ==
  ASSUME NEW f, Walking(f)
  PROVE  /\ EnterFlow(f).child \in {f.child, NoExec}
         /\ EnterFlow(f).pc = "acting" => EnterFlow(f).call = "running"
<1>1. CASE Flows[f.wf].start = NoNode
  BY <1>1 DEF EnterFlow, Walking, Frames
<1>2. CASE Flows[f.wf].start # NoNode
  BY <1>2, VisitChild DEF EnterFlow
<1> QED BY <1>1, <1>2

\* A result that leads to a frame on the path is a segment; a pending cancel
\* can only be lost to a result that was there first.
LEMMA ResultSegment ==
  ASSUME IInv, NEW e \in Exec, AttemptOver(e), NEW f, Settle(e, f, sem),
         Sound(f), f.pc \in {"acting", "backoff", "saving"},
         Path(ex[e]) => Path(f), f.child \in {ex[e].child, NoExec},
         f.parent = ex[e].parent, f.pc = "acting" => f.call = "running"
  PROVE  SegmentKind
<1>1. ex[e].pc \in Holding
  BY DEF AttemptOver, Holding, InFlight
<1>2. f \in Frames
  BY DEF Sound
<1>3. ex[e].creq /\ ~f.creq => ex[e].pc = "acting" /\ ex[e].call \in Ended
  BY DEF AttemptOver
<1>4. Calls(ex[e]) => Calls(f)
  <2>1. ex[e].call # "running"
    BY DEF AttemptOver, Ended, Succeeding
  <2>2. f.pc \notin Interrupted
    BY DEF Interrupted
  <2> QED BY <2>1, <2>2 DEF Calls
<1> QED BY <1>1, <1>2, <1>3, <1>4 DEF SegmentKind

\* What a result starts from: a frame the walk may go on from.
LEMMA ResultFrame ==
  ASSUME IInv, NEW e \in Exec, AttemptOver(e)
  PROVE  LET a == Answered(ex[e]) IN
         /\ Walking(a) /\ a.wf = ex[e].wf /\ a.node = ex[e].node
         /\ a.child = ex[e].child /\ a.parent = ex[e].parent
         /\ a.outs = ex[e].outs /\ a.errors = ex[e].errors
         /\ ex[e] \in Frames /\ ex[e].status = "none" /\ ex[e].pc \in Holding
         /\ Path(ex[e]) => ex[e].errors # {} \/ Ran(ex[e], ex[e].node)
<1>1. Sound(ex[e]) /\ ex[e].pc \in InFlight
  BY AttemptOverFacts
<1>2. ex[e].pc \in Holding
  BY DEF AttemptOver, Holding, InFlight
<1>3. Answered(ex[e]).child = ex[e].child /\ Answered(ex[e]).parent = ex[e].parent
  BY <1>1 DEF Answered, Sound, Frames
<1> QED BY <1>1, <1>2, <1>3, AnsweredWalks DEF Sound, Path

\* A node that succeeds extends the path by itself,
LEMMA NodeSucceededSegment ==
  ASSUME IInv, NEW e \in Exec, NodeSucceeded(e)
  PROVE  SegmentKind
<1> DEFINE b == ex[e]
           a == Answered(b)
           f == [a EXCEPT !.outs = @ \cup {b.node}]
           n == Successor(NodeOf(b), Outcome(b))
<1>1. AttemptOver(e) /\ Outcome(b) \in Succeeding /\ Settle(e, Visit(f, n), sem)
  BY DEF NodeSucceeded
<1>2. /\ Walking(a) /\ a.wf = b.wf /\ a.outs = b.outs /\ a.errors = b.errors
      /\ b \in Frames /\ a.child = b.child /\ a.parent = b.parent
      /\ Path(b) => b.errors # {} \/ Ran(b, b.node)
  BY <1>1, ResultFrame
<1>3. n \in NodeIds /\ b.node \in NodeIds
  BY <1>1, <1>2, AttemptOverFacts, SuccessorTyped DEF Frames
<1> HIDE DEF a
<1>4. /\ Walking(f) /\ f.wf = b.wf /\ f.outs = b.outs \cup {b.node}
      /\ f.errors = b.errors /\ f.child = b.child /\ f.parent = b.parent
  <2>1. a \in Frames /\ a.outs \cup {b.node} \in SUBSET NodeIds
    BY <1>2, <1>3 DEF Walking, Frames
  <2> QED BY <1>2, <2>1 DEF Walking, Frames
<1>5. n = Successor(Flows[b.wf].nodes[b.node], Outcome(b))
  BY DEF NodeOf
<1> HIDE DEF f, n
<1>6. Ran(b, b.node) => Ran(f, n)
  BY <1>1, <1>4, <1>5 DEF Ran
<1>7. Settled(f, Visit(f, n))
  BY <1>3, <1>4, VisitSettles
<1>8. Path(b) => Path(Visit(f, n))
  BY <1>2, <1>3, <1>4, <1>6, VisitPath
<1>9. /\ Visit(f, n).child \in {b.child, NoExec}
      /\ Visit(f, n).pc = "acting" => Visit(f, n).call = "running"
  BY <1>4, VisitChild
<1> QED BY <1>1, <1>4, <1>7, <1>8, <1>9, ResultSegment DEF Settled

\* a stop node ends it,
LEMMA StopReachedSegment ==
  ASSUME IInv, NEW e \in Exec, StopReached(e)
  PROVE  SegmentKind
<1> DEFINE b == ex[e]
           a == Answered(b)
           f == [a EXCEPT !.outs = @ \cup {b.node}, !.node = NoNode]
<1>1. AttemptOver(e) /\ NodeOf(b).kind = "stop" /\ Settle(e, Leave(f), sem)
  BY DEF StopReached
<1>2. /\ Walking(a) /\ a.wf = b.wf /\ a.outs = b.outs /\ a.errors = b.errors
      /\ b \in Frames /\ a.child = b.child /\ a.parent = b.parent
      /\ Path(b) => b.errors # {} \/ Ran(b, b.node)
  BY <1>1, ResultFrame
<1> HIDE DEF a
<1>3. /\ Walking(f) /\ f.wf = b.wf /\ f.outs = b.outs \cup {b.node}
      /\ f.errors = b.errors /\ f.child = b.child /\ f.parent = b.parent
  <2>1. /\ a \in Frames /\ a.outs \cup {b.node} \in SUBSET NodeIds
        /\ NoNode \in NodeIds
    BY <1>2, FlowsTyped DEF Walking, Frames, FlowsAssumption
  <2> QED BY <1>2, <2>1 DEF Walking, Frames
<1>4. Flows[b.wf].nodes[b.node].kind = "stop"
  BY <1>1 DEF NodeOf
<1> HIDE DEF f
<1>5. Ran(b, b.node) => Ran(f, NoNode)
  BY <1>3, <1>4 DEF Ran
<1>6. Sound(Leave(f)) /\ Leave(f).pc = "saving" /\ Leave(f).parent = b.parent
  BY <1>3, LeaveSound
<1>7. Path(b) => Path(Leave(f))
  BY <1>2, <1>3, <1>5, LeavePath
<1>8. Leave(f).child = b.child
  BY <1>3 DEF Leave, Walking, Frames
<1> QED BY <1>1, <1>6, <1>7, <1>8, ResultSegment

\* and an error ends it or goes on to on_error, never to "completed".
LEMMA ErrorThrownSegment ==
  ASSUME IInv, NEW e \in Exec, ErrorThrown(e)
  PROVE  SegmentKind
<1> DEFINE b == ex[e]
           a == Answered(b)
           f == [a EXCEPT !.errors = @ \cup {"node_failed"}]
<1>1. AttemptOver(e) /\ Settle(e, Leave(f), sem)
  BY DEF ErrorThrown
<1>2. Walking(a) /\ a.child = b.child /\ a.parent = b.parent
  BY <1>1, ResultFrame
<1> HIDE DEF a
<1>3. Walking(f) /\ f.errors # {} /\ f.child = b.child /\ f.parent = b.parent
  <2>1. a \in Frames /\ a.errors \cup {"node_failed"} \in SUBSET Reasons
    BY <1>2 DEF Walking, Frames, Reasons
  <2> QED BY <1>2, <2>1 DEF Walking, Frames
<1> HIDE DEF f
<1>4. /\ Sound(Leave(f)) /\ Leave(f).pc = "saving" /\ Path(Leave(f))
      /\ Leave(f).parent = b.parent
  BY <1>3, LeaveSound, LeavePath
<1>5. Leave(f).child = b.child
  BY <1>3 DEF Leave, Walking, Frames
<1> QED BY <1>1, <1>4, <1>5, ResultSegment

\* A node that gave up leads on along on_error, or ends the execution.
LEMMA NodeGaveUpSegment ==
  ASSUME IInv, NEW e \in Exec, NodeGaveUp(e)
  PROVE  SegmentKind
<1> DEFINE b == ex[e]
           a == Answered(b)
           errs == ErrorsAfter(b)
           f == [a EXCEPT !.errors = errs]
           n == NodeOf(b).onError
<1>1. AttemptOver(e) /\ Settle(e, Visit(f, n), sem)
  BY DEF NodeGaveUp
<1>2. Walking(a) /\ b \in Frames /\ a.child = b.child /\ a.parent = b.parent
  BY <1>1, ResultFrame
<1>3. n \in NodeIds
  BY <1>1, AttemptOverFacts DEF NodeDefs
<1>4. errs \in SUBSET Reasons /\ errs # {}
  BY <1>2 DEF ErrorsAfter, Reasons, Frames
<1> HIDE DEF a, errs, n
<1>5. Walking(f) /\ f.errors # {} /\ f.child = b.child /\ f.parent = b.parent
  BY <1>2, <1>4 DEF Walking, Frames
<1> HIDE DEF f
<1>6. Settled(f, Visit(f, n)) /\ Path(Visit(f, n))
  BY <1>3, <1>5, VisitSettles, VisitPath
<1>7. /\ Visit(f, n).child \in {b.child, NoExec}
      /\ Visit(f, n).pc = "acting" => Visit(f, n).call = "running"
  BY <1>5, VisitChild
<1> QED BY <1>1, <1>5, <1>6, <1>7, ResultSegment DEF Settled

\* A failed attempt, the retry after it and a cancel leave the path alone.
LEMMA AttemptFailedSegment ==
  ASSUME IInv, NEW e \in Exec, AttemptFailed(e)
  PROVE  SegmentKind
<1> DEFINE b == ex[e]
           a == Answered(b)
           f == [a EXCEPT !.pc = "backoff"]
<1>1. AttemptOver(e) /\ Settle(e, f, sem)
  BY DEF AttemptFailed
<1>2. /\ Walking(a) /\ a.wf = b.wf /\ a.node = b.node /\ a.outs = b.outs
      /\ a.errors = b.errors /\ a.child = b.child /\ a.parent = b.parent
      /\ Path(b) => b.errors # {} \/ Ran(b, b.node)
  BY <1>1, ResultFrame
<1>3. b.node \in DOMAIN Flows[b.wf].nodes
  BY <1>1, AttemptOverFacts
<1> HIDE DEF a
<1>4. /\ f \in Frames /\ f.pc = "backoff" /\ f.call = "none" /\ f.status = "none"
      /\ f.wf = b.wf /\ f.node = b.node /\ f.outs = b.outs /\ f.errors = b.errors
      /\ f.child = b.child /\ f.parent = b.parent
  BY <1>2 DEF Walking, Frames, Pcs
<1> HIDE DEF f
<1>5. Sound(f)
  BY <1>3, <1>4 DEF Sound, InFlight
<1>6. Path(b) => Path(f)
  BY <1>2, <1>4 DEF Path, Ran
<1> QED BY <1>1, <1>4, <1>5, <1>6, ResultSegment

\* After a backoff the node is tried again.
LEMMA BackoffOverSegment ==
  ASSUME IInv, NEW e \in Exec, BackoffOver(e)
  PROVE  SegmentKind
<1> DEFINE b == ex[e]
           g == [b EXCEPT !.att = @ + 1]
           f == Attempt(g)
<1>1. /\ b \in Frames /\ Sound(b) /\ b.pc = "backoff" /\ ~b.creq
      /\ Settle(e, f, sem)
  BY TypedFrames DEF BackoffOver
<1>2. /\ b.call = "none" /\ b.node \in DOMAIN Flows[b.wf].nodes /\ b.status = "none"
      /\ b.att + 1 \in Nat
  BY <1>1 DEF Sound, InFlight, Frames
<1>3. Walking(g) /\ SameWalk(b, g)
  BY <1>1, <1>2 DEF Walking, Frames, SameWalk
<1> HIDE DEF g
<1>4. Sound(f) /\ f.pc = "acting"
  BY <1>2, <1>3, AttemptSound DEF SameWalk
<1>5. SameWalk(b, f) /\ f.child = NoExec /\ f.parent = b.parent /\ f.call = "running"
  <2>1. g.parent = b.parent
    BY <1>1 DEF Frames, g
  <2> QED BY <1>3, <2>1 DEF SameWalk, Attempt, Walking, Frames
<1> HIDE DEF f
<1>6. Path(b) => Path(f)
  BY <1>1, <1>2, <1>4, <1>5 DEF Path, SameWalk, Holding, InFlight, Ran
<1>7. Calls(f)
  BY <1>4, <1>5 DEF Calls, Interrupted
<1> QED BY <1>1, <1>4, <1>5, <1>6, <1>7 DEF SegmentKind, Sound, Holding, InFlight

\* A cancel that is raised ends the execution.
LEMMA CancelRaisedSegment ==
  ASSUME IInv, NEW e \in Exec, CancelRaised(e)
  PROVE  SegmentKind
<1> DEFINE f == Cancelled(ex[e])
<1>1. Sound(ex[e]) /\ ex[e].pc \in Holding /\ Settle(e, f, sem)
  BY TypedFrames DEF CancelRaised, CancelDue, Holding, InFlight
<1>2. Sound(f) /\ f.pc = "saving" /\ f.status = "cancelled" /\ f \in Frames
      /\ f.child = ex[e].child /\ f.call = ex[e].call /\ f.parent = ex[e].parent
  BY <1>1, CancelledSound DEF Sound
<1>3. NodeOf(f) = NodeOf(ex[e])
  BY <1>1 DEF Cancelled, NodeOf, Sound, Frames
<1> HIDE DEF f
<1>4. Path(f)
  BY <1>2 DEF Path, Holding, InFlight
<1>5. Calls(ex[e]) => Calls(f)
  BY <1>2, <1>3 DEF Calls, Interrupted
<1> QED BY <1>1, <1>2, <1>4, <1>5 DEF SegmentKind

\* Every step is of one of the kinds.
LEMMA NextKind ==
  ASSUME IInv, Fresh(ex), [Next]_vars
  PROVE  StepKind
<1>1. ASSUME NEW e \in Exec, Scheduled(e)
      PROVE  StepKind
  <2>1. CASE Acquired(e) \/ AcquireCancelled(e)
    BY <2>1 DEF StepKind
  <2>2. ASSUME NEW a \in Ended, HandlerStopped(e, a) \/ HandlerEnds(e, a)
        PROVE  StepKind
    BY <2>2, HandlerQuiet DEF StepKind
  <2>3. CASE TimeoutFires(e)
    BY <2>3, InterruptKind DEF TimeoutFires, StepKind
  <2>4. CASE CancelDelivered(e)
    BY <2>4, InterruptKind DEF CancelDelivered, StepKind
  <2>5. CASE NodeSucceeded(e)
    BY <2>5, NodeSucceededSegment DEF StepKind
  <2>6. CASE StopReached(e)
    BY <2>6, StopReachedSegment DEF StepKind
  <2>7. CASE ErrorThrown(e)
    BY <2>7, ErrorThrownSegment DEF StepKind
  <2>8. CASE AttemptFailed(e)
    BY <2>8, AttemptFailedSegment DEF StepKind
  <2>9. CASE NodeGaveUp(e)
    BY <2>9, NodeGaveUpSegment DEF StepKind
  <2>10. CASE BackoffOver(e)
    BY <2>10, BackoffOverSegment DEF StepKind
  <2>11. CASE CancelRaised(e)
    BY <2>11, CancelRaisedSegment DEF StepKind
  <2>12. ASSUME NEW written \in BOOLEAN,
                TopReturns(e, written) \/ SaveCancelled(e, written)
         PROVE  StepKind
    BY <2>12, EndQuiet DEF StepKind
  <2>13. ASSUME NEW written \in BOOLEAN, NEW d \in Exec,
                IterationReturns(e, d, written)
         PROVE  StepKind
    BY <2>13, IterationKind DEF StepKind
  <2> QED BY <1>1, <2>1, <2>2, <2>3, <2>4, <2>5, <2>6, <2>7, <2>8, <2>9, <2>10,
             <2>11, <2>12, <2>13 DEF Scheduled
<1>2. ASSUME NEW e \in Exec, Unscheduled(e)
      PROVE  StepKind
  <2>1. ASSUME NEW w \in DOMAIN Flows, StartTop(w, e) PROVE StepKind
    BY <2>1, TopKind DEF StepKind
  <2>2. ASSUME NEW a \in Ended, HandlerEnds(e, a) PROVE StepKind
    BY <2>2, HandlerQuiet DEF StepKind
  <2>3. ASSUME NEW d \in Exec, LoopLoaded(e, d) PROVE StepKind
    BY <2>3, LoopKind DEF StepKind
  <2>4. CASE CancelWorkflow(e) \/ CancelTop(e)
    BY <2>4, RequestKind DEF StepKind
  <2> QED BY <1>2, <2>1, <2>2, <2>3, <2>4 DEF Unscheduled
<1>3. CASE UNCHANGED vars
  <2>1. UNCHANGED <<ex, sem, metrics, store>>
    BY <1>3 DEF vars
  <2>2. QuietStep(ex, ex', {}, {})
    BY <2>1 DEF QuietStep, Quiet, SameWalk
  <2> QED BY <2>1, <2>2 DEF StepKind, QuietKind, RecordStep
<1> QED BY <1>1, <1>2, <1>3 DEF Next

---------------------------------------------------------------------------
(* The permits.                                                            *)

Waiters(x)     == {e \in Exec : x[e].pc = "waiting"}
Uncancelled(x) == {e \in Exec : x[e].pc = "waiting" /\ ~x[e].creq}
Holders(x)     == {e \in Exec : x[e].pc \in Holding}

PermitInv == Accounted(sem, Waiters(ex), Uncancelled(ex), Holders(ex))

\* A quiet step changes who is cancelled at most.
LEMMA QuietSets ==
  ASSUME NEW x, NEW y, NEW C, NEW D, QuietStep(x, y, C, D)
  PROVE  /\ Waiters(y) = Waiters(x) /\ Holders(y) = Holders(x)
         /\ Uncancelled(y) = Uncancelled(x) \ C
<1>1. \A e \in Exec : y[e].pc = "waiting" <=> x[e].pc = "waiting"
  BY DEF QuietStep, Quiet, Holding
<1>2. \A e \in Exec : y[e].pc \in Holding <=> x[e].pc \in Holding
  BY DEF QuietStep, Quiet, Holding, InFlight
<1>3. \A e \in Exec : x[e].pc = "waiting" => (y[e].creq <=> x[e].creq \/ e \in C)
  BY DEF QuietStep
<1> QED BY <1>1, <1>2, <1>3 DEF Waiters, Holders, Uncancelled

\* One frame that changes.
Becomes(x, e, g, y) == x \in [Exec -> Frames] /\ y = [x EXCEPT ![e] = g]

\* One frame changes, the others stay.
LEMMA OneFrame ==
  ASSUME NEW x, NEW e \in Exec, NEW g, NEW y, Becomes(x, e, g, y)
  PROVE  /\ g.pc = "waiting" => Waiters(y) = Waiters(x) \cup {e}
         /\ g.pc # "waiting" => Waiters(y) = Waiters(x) \ {e}
         /\ g.pc = "waiting" /\ ~g.creq => Uncancelled(y) = Uncancelled(x) \cup {e}
         /\ g.pc # "waiting" => Uncancelled(y) = Uncancelled(x) \ {e}
         /\ g.pc \in Holding => Holders(y) = Holders(x) \cup {e}
         /\ g.pc \notin Holding => Holders(y) = Holders(x) \ {e}
<1>1. y[e] = g /\ \A b \in Exec : b # e => y[b] = x[b]
  BY DEF Becomes
<1> QED BY <1>1 DEF Waiters, Uncancelled, Holders

\* An execution that begins queues up, takes a permit, or is over at once.
LEMMA BeginPermits ==
  ASSUME IInv, PermitInv, BeginKind
  PROVE  PermitInv'
<1>1. PICK x \in [Exec -> Frames], d \in Exec, w \in DOMAIN Flows,
           p \in Exec \cup {NoExec}, depth \in Nat, max \in Nat :
        /\ QuietStep(ex, x, {}, {d})
        /\ ex[d].pc = "free"
        /\ Begin(x, d, w, p, depth, max)
  BY DEF BeginKind
<1> DEFINE W == Waiters(ex)
           U == Uncancelled(ex)
           H == Holders(ex)
           f == NewFrame(w, p, depth, max)
           g == EnterFlow(f)
<1>2. Waiters(x) = W /\ Uncancelled(x) = U /\ Holders(x) = H
  BY <1>1, QuietSets
<1>3. d \notin W /\ d \notin U /\ d \notin H
  BY <1>1 DEF Waiters, Uncancelled, Holders, Holding, InFlight
<1>4. Accounted(sem, W, U, H)
  BY DEF PermitInv
<1>5. f.pc = "waiting" /\ ~f.creq
  BY DEF NewFrame
<1>6. \/ Locked(sem) /\ ex' = [x EXCEPT ![d] = f] /\ sem' = Enqueue(sem, d)
      \/ ~Locked(sem) /\ g.pc = "acting" /\ ex' = [x EXCEPT ![d] = g] /\ sem' = Take(sem)
      \/ g.pc = "saving" /\ ex' = [x EXCEPT ![d] = g] /\ sem' = sem
  BY <1>1 DEF Begin
<1> HIDE DEF f, g
<1>7. CASE Locked(sem) /\ ex' = [x EXCEPT ![d] = f] /\ sem' = Enqueue(sem, d)
  <2> HIDE DEF W, U, H
  <2>1. Becomes(x, d, f, ex') /\ f.pc \notin Holding
    BY <1>5, <1>7 DEF Becomes, Holding
  <2>2. Waiters(ex') = W \cup {d} /\ Uncancelled(ex') = U \cup {d} /\ Holders(ex') = H \ {d}
    BY <1>2, <1>5, <2>1, OneFrame
  <2>3. H \ {d} = H
    BY <1>3
  <2>4. Accounted(sem', W \cup {d}, U \cup {d}, H)
    BY <1>3, <1>4, <1>7, AccountEnqueue
  <2> QED BY <2>2, <2>3, <2>4 DEF PermitInv
<1>8. CASE ~Locked(sem) /\ g.pc = "acting" /\ ex' = [x EXCEPT ![d] = g] /\ sem' = Take(sem)
  <2> HIDE DEF W, U, H
  <2>1. Becomes(x, d, g, ex') /\ g.pc \in Holding /\ g.pc # "waiting"
    BY <1>8 DEF Becomes, Holding, InFlight
  <2>2. Waiters(ex') = W \ {d} /\ Uncancelled(ex') = U \ {d} /\ Holders(ex') = H \cup {d}
    BY <1>2, <2>1, OneFrame
  <2>3. W \ {d} = W /\ U \ {d} = U
    BY <1>3
  <2>4. Accounted(sem', W, U, H \cup {d})
    BY <1>3, <1>4, <1>8, AccountTake
  <2> QED BY <2>2, <2>3, <2>4 DEF PermitInv
<1>9. CASE g.pc = "saving" /\ ex' = [x EXCEPT ![d] = g] /\ sem' = sem
  <2> HIDE DEF W, U, H
  <2>1. Becomes(x, d, g, ex') /\ g.pc \notin Holding /\ g.pc # "waiting"
    BY <1>9 DEF Becomes, Holding, InFlight
  <2>2. Waiters(ex') = W \ {d} /\ Uncancelled(ex') = U \ {d} /\ Holders(ex') = H \ {d}
    BY <1>2, <2>1, OneFrame
  <2>3. W \ {d} = W /\ U \ {d} = U /\ H \ {d} = H
    BY <1>3
  <2> QED BY <1>4, <1>9, <2>2, <2>3 DEF PermitInv
<1> QED BY <1>6, <1>7, <1>8, <1>9

\* A segment of an execution that holds a permit gives it back at its end.
LEMMA SegmentPermits ==
  ASSUME IInv, PermitInv, SegmentKind
  PROVE  PermitInv'
<1>1. PICK e \in Exec, f \in Frames :
        /\ ex[e].pc \in Holding
        /\ Settle(e, f, sem)
        /\ f.pc \in {"acting", "backoff", "saving"}
  BY DEF SegmentKind
<1> DEFINE W == Waiters(ex)
           U == Uncancelled(ex)
           H == Holders(ex)
<1>2. /\ ex \in [Exec -> Frames] /\ ex' = [ex EXCEPT ![e] = f]
      /\ sem' = IF f.pc = "saving" THEN Release(sem) ELSE sem
  BY <1>1, TypedFrames DEF Settle
<1>3. e \notin W /\ e \notin U /\ e \in H
  BY <1>1 DEF Waiters, Uncancelled, Holders, Holding
<1>4. Accounted(sem, W, U, H)
  BY DEF PermitInv
<1>5. /\ Waiters(ex') = W \ {e} /\ Uncancelled(ex') = U \ {e}
      /\ Holders(ex') = IF f.pc = "saving" THEN H \ {e} ELSE H \cup {e}
  <2>1. Becomes(ex, e, f, ex') /\ f.pc # "waiting"
    BY <1>1, <1>2 DEF Becomes
  <2>2. f.pc \in Holding <=> f.pc # "saving"
    BY <1>1 DEF Holding, InFlight
  <2> QED BY <2>1, <2>2, OneFrame
<1> HIDE DEF W, U, H
<1>6. W \ {e} = W /\ U \ {e} = U /\ H \cup {e} = H
  BY <1>3
<1>7. CASE f.pc = "saving"
  <2>1. Accounted(sem', W, U, H \ {e})
    BY <1>2, <1>3, <1>4, <1>7, AccountRelease
  <2> QED BY <1>5, <1>6, <1>7, <2>1 DEF PermitInv
<1>8. CASE f.pc # "saving"
  BY <1>2, <1>4, <1>5, <1>6, <1>8 DEF PermitInv
<1> QED BY <1>7, <1>8

\* A woken waiter that runs takes its permit, and gives it back if it is over
\* at once.
LEMMA AcquiredPermits ==
  ASSUME IInv, PermitInv, NEW e \in Exec, Acquired(e)
  PROVE  PermitInv'
<1> DEFINE W == Waiters(ex)
           U == Uncancelled(ex)
           H == Holders(ex)
           f == EnterFlow(ex[e])
           r == Resume(sem, e)
<1>1. /\ ex \in [Exec -> Frames] /\ Sound(ex[e]) /\ ex[e].pc = "waiting"
      /\ e \in sem.granted /\ ex' = [ex EXCEPT ![e] = f]
      /\ sem' = IF f.pc = "saving" THEN Release(r) ELSE r
  BY TypedFrames DEF Acquired, Settle
<1>2. f.pc \in {"acting", "saving"}
  <2>1. Walking(ex[e])
    BY <1>1 DEF Walking, Sound, InFlight
  <2> QED BY <2>1, EnterFlowSettles DEF Settled
<1>3. e \notin H
  BY <1>1 DEF Holders, Holding
<1> HIDE DEF f
<1>4. /\ Waiters(ex') = W \ {e} /\ Uncancelled(ex') = U \ {e}
      /\ Holders(ex') = IF f.pc = "saving" THEN H \ {e} ELSE H \cup {e}
  <2>1. Becomes(ex, e, f, ex') /\ f.pc # "waiting"
    BY <1>1, <1>2 DEF Becomes
  <2>2. f.pc \in Holding <=> f.pc # "saving"
    BY <1>2 DEF Holding, InFlight
  <2> QED BY <2>1, <2>2, OneFrame
<1> HIDE DEF W, U, H
<1>5. Accounted(sem, W, U, H)
  BY DEF PermitInv, W, U, H
<1>6. Accounted(r, W \ {e}, U \ {e}, H \cup {e})
  BY <1>1, <1>3, <1>5, AccountResume
<1> HIDE DEF r
<1>7. Accounted(Release(r), W \ {e}, U \ {e}, (H \cup {e}) \ {e})
  BY <1>6, AccountRelease
<1>8. (H \cup {e}) \ {e} = H \ {e}
  OBVIOUS
<1> QED BY <1>1, <1>4, <1>6, <1>7, <1>8 DEF PermitInv

\* A waiter that was cancelled passes a permit that had come to it on.
LEMMA AcquireCancelledPermits ==
  ASSUME IInv, PermitInv, NEW e \in Exec, AcquireCancelled(e)
  PROVE  PermitInv'
<1> DEFINE W == Waiters(ex)
           U == Uncancelled(ex)
           H == Holders(ex)
           f == Cancelled(ex[e])
<1>1. /\ ex \in [Exec -> Frames] /\ ex[e] \in Frames /\ ex[e].pc = "waiting"
      /\ ex[e].creq /\ ex' = [ex EXCEPT ![e] = f]
      /\ sem' = IF e \in sem.granted THEN Abandon(sem, e) ELSE sem
  BY TypedFrames DEF AcquireCancelled
<1>2. f.pc = "saving"
  BY <1>1 DEF Cancelled, Frames
<1>3. e \notin U /\ e \notin H
  BY <1>1 DEF Uncancelled, Holders, Holding
<1> HIDE DEF f, W, U, H
<1>4. /\ Waiters(ex') = W \ {e} /\ Uncancelled(ex') = U \ {e}
      /\ Holders(ex') = H \ {e}
  <2>1. Becomes(ex, e, f, ex') /\ f.pc # "waiting" /\ f.pc \notin Holding
    BY <1>1, <1>2 DEF Becomes, Holding, InFlight
  <2> QED BY <2>1, OneFrame DEF W, U, H
<1>5. Accounted(sem, W, U, H)
  BY DEF PermitInv, W, U, H
<1>6. U \ {e} = U /\ H \ {e} = H
  BY <1>3
<1>7. Accounted(sem', W \ {e}, U, H)
  BY <1>1, <1>3, <1>5, <1>6, AccountAbandon, AccountLeave
<1> QED BY <1>4, <1>6, <1>7 DEF PermitInv

\* A cancel takes a waiter out of the queue.
LEMMA CancelPermits ==
  ASSUME PermitInv, CancelKind
  PROVE  PermitInv'
<1>1. PICK c \in Exec : QuietStep(ex, ex', {c}, {}) /\ sem' = WithdrawIfWaiting(sem, c)
  BY DEF CancelKind
<1> DEFINE W == Waiters(ex)
           U == Uncancelled(ex)
           H == Holders(ex)
<1>2. Waiters(ex') = W /\ Uncancelled(ex') = U \ {c} /\ Holders(ex') = H
  BY <1>1, QuietSets
<1>3. ex[c].pc # "waiting" => U \ {c} = U
  BY DEF Uncancelled
<1> HIDE DEF W, U, H
<1>4. Accounted(sem, W, U, H)
  BY DEF PermitInv, W, U, H
<1>5. Accounted(sem', W, U \ {c}, H)
  BY <1>1, <1>3, <1>4, AccountWithdraw DEF WithdrawIfWaiting
<1> QED BY <1>2, <1>5 DEF PermitInv

\* A quiet step leaves the account as it is.
LEMMA QuietPermits ==
  ASSUME PermitInv, QuietKind
  PROVE  PermitInv'
<1>1. QuietStep(ex, ex', {}, {}) /\ sem' = sem
  BY DEF QuietKind
<1>2. /\ Waiters(ex') = Waiters(ex) /\ Holders(ex') = Holders(ex)
      /\ Uncancelled(ex') = Uncancelled(ex)
  BY <1>1, QuietSets
<1> QED BY <1>1, <1>2 DEF PermitInv

\* Every step keeps the account of permits.
LEMMA StepPermits ==
  ASSUME IInv, PermitInv, StepKind
  PROVE  PermitInv'
BY QuietPermits, CancelPermits, BeginPermits, SegmentPermits, AcquiredPermits,
   AcquireCancelledPermits DEF StepKind

\* At the start all permits are free and nobody waits.
LEMMA InitPermits == Init => PermitInv
<1> SUFFICES ASSUME Init PROVE PermitInv
  OBVIOUS
<1>1. \A e \in Exec : ex[e].pc = "free"
  BY DEF Init, NewFrame
<1>2. Waiters(ex) = {} /\ Uncancelled(ex) = {} /\ Holders(ex) = {}
  BY <1>1 DEF Waiters, Uncancelled, Holders, Holding, InFlight
<1>3. sem = [value |-> MaxConcurrent, queue |-> <<>>, granted |-> {}]
  BY DEF Init, NewSemaphore
<1>4. sem \in Semaphore(Exec)
  BY InitInv DEF IInv, TypeOK
<1>5. Tidy(sem) /\ NoneIdle(sem) /\ Line(sem) = {}
  BY <1>3, <1>4 DEF Tidy, NoneIdle, Line
<1>6. Total(sem) + Cardinality({}) = MaxConcurrent
  BY <1>3, FS_EmptySet, BoundsTyped DEF Total
<1> QED BY <1>2, <1>3, <1>5, <1>6 DEF PermitInv, Accounted

---------------------------------------------------------------------------
(* The metrics.                                                            *)

Metrics == [executed : Nat, succeeded : Nat, failed : Nat, cancelled : Nat]

Started(x)    == {e \in Exec : x[e].pc # "free"}
EndedAs(x, s) == {e \in Exec : x[e].status = s}

Tally(x, m) ==
  /\ m.executed = Cardinality(Started(x))
  /\ m.succeeded = Cardinality(EndedAs(x, "completed"))
  /\ m.failed = Cardinality(EndedAs(x, "failed"))
  /\ m.cancelled = Cardinality(EndedAs(x, "cancelled"))

\* Frames of which as many have begun and ended, in the same ways.
LEMMA QuietTally ==
  ASSUME NEW x, NEW y, NEW C, NEW D, QuietStep(x, y, C, D), NEW m, Tally(x, m)
  PROVE  Tally(y, m)
<1>1. \A e \in Exec : (y[e].pc # "free" <=> x[e].pc # "free")
  BY DEF QuietStep, Quiet, Holding, InFlight
<1>2. \A e \in Exec : y[e].status = x[e].status
  BY DEF QuietStep, Quiet, SameWalk
<1>3. Started(y) = Started(x)
  BY <1>1 DEF Started
<1>4. \A s : EndedAs(y, s) = EndedAs(x, s)
  BY <1>2 DEF EndedAs
<1> QED BY <1>3, <1>4 DEF Tally

\* One more that has begun.
LEMMA StartTally ==
  ASSUME NEW x, NEW d \in Exec, NEW f, NEW y, Becomes(x, d, f, y),
         x[d].pc = "free", f.pc # "free", f.status = x[d].status,
         NEW m \in Metrics, Tally(x, m)
  PROVE  Tally(y, [m EXCEPT !.executed = @ + 1])
<1> DEFINE k == [m EXCEPT !.executed = @ + 1]
<1>1. y[d] = f /\ \A b \in Exec : b # d => y[b] = x[b]
  BY DEF Becomes
<1>2. Started(y) = Started(x) \cup {d}
  BY <1>1 DEF Started
<1>3. d \notin Started(x) /\ Started(x) \in SUBSET Exec
  BY DEF Started
<1>4. \A s : EndedAs(y, s) = EndedAs(x, s)
  BY <1>1 DEF EndedAs
<1>5. Cardinality(Started(y)) = Cardinality(Started(x)) + 1
  BY <1>2, <1>3, OneMore
<1>6. /\ k.executed = m.executed + 1 /\ k.succeeded = m.succeeded
      /\ k.failed = m.failed /\ k.cancelled = m.cancelled
  BY DEF Metrics
<1> HIDE DEF k
<1> QED BY <1>4, <1>5, <1>6 DEF Tally, k

\* One more that has ended, counted under its status.
LEMMA EndTally ==
  ASSUME NEW x, NEW e \in Exec, NEW g, NEW y, Becomes(x, e, g, y),
         x[e].pc # "free", g.pc # "free", x[e].status = "none", g.status \in Final,
         NEW m \in Metrics, Tally(x, m)
  PROVE  Tally(y, Counted(m, g.status))
<1> DEFINE k == Counted(m, g.status)
<1>1. y[e] = g /\ \A b \in Exec : b # e => y[b] = x[b]
  BY DEF Becomes
<1>2. Started(y) = Started(x)
  BY <1>1 DEF Started
<1>3. \A s : s # g.status /\ s # "none" => EndedAs(y, s) = EndedAs(x, s)
  BY <1>1 DEF EndedAs
<1>4. EndedAs(y, g.status) = EndedAs(x, g.status) \cup {e}
  BY <1>1 DEF EndedAs
<1>5. e \notin EndedAs(x, g.status) /\ EndedAs(x, g.status) \in SUBSET Exec
  BY DEF EndedAs, Final
<1>6. Cardinality(EndedAs(y, g.status)) = Cardinality(EndedAs(x, g.status)) + 1
  BY <1>4, <1>5, OneMore
<1>7. CASE g.status = "completed"
  <2>1. /\ k.executed = m.executed /\ k.succeeded = m.succeeded + 1
        /\ k.failed = m.failed /\ k.cancelled = m.cancelled
    BY <1>7 DEF Counted, Metrics
  <2> HIDE DEF k
  <2> QED BY <1>2, <1>3, <1>6, <1>7, <2>1 DEF Tally, k
<1>8. CASE g.status = "failed"
  <2>1. /\ k.executed = m.executed /\ k.succeeded = m.succeeded
        /\ k.failed = m.failed + 1 /\ k.cancelled = m.cancelled
    BY <1>8 DEF Counted, Metrics
  <2> HIDE DEF k
  <2> QED BY <1>2, <1>3, <1>6, <1>8, <2>1 DEF Tally, k
<1>9. CASE g.status = "cancelled"
  <2>1. /\ k.executed = m.executed /\ k.succeeded = m.succeeded
        /\ k.failed = m.failed /\ k.cancelled = m.cancelled + 1
    BY <1>9 DEF Counted, Metrics
  <2> HIDE DEF k
  <2> QED BY <1>2, <1>3, <1>6, <1>9, <2>1 DEF Tally, k
<1> QED BY <1>7, <1>8, <1>9 DEF Final

\* A frame that changes without beginning or ending.
LEMMA SameTally ==
  ASSUME NEW x, NEW e \in Exec, NEW g, NEW y, Becomes(x, e, g, y),
         x[e].pc # "free", g.pc # "free", g.status = x[e].status,
         NEW m, Tally(x, m)
  PROVE  Tally(y, m)
<1>1. y[e] = g /\ \A b \in Exec : b # e => y[b] = x[b]
  BY DEF Becomes
<1>2. Started(y) = Started(x)
  BY <1>1 DEF Started
<1>3. \A s : EndedAs(y, s) = EndedAs(x, s)
  BY <1>1 DEF EndedAs
<1> QED BY <1>2, <1>3 DEF Tally

\* An id not in use yet, and what its execution may be when it has begun.
Newborn(x, d, f) ==
  LET g == EnterFlow(f) IN
  /\ x[d].pc = "free" /\ x[d].status = "none"
  /\ f.pc = "waiting" /\ f.status = "none" /\ f.outs = {}
  /\ Sound(f) /\ Path(f) /\ Sound(g) /\ Path(g)
  /\ g.pc = "acting" => g.status = "none"
  /\ g.pc = "saving" => g.status = "failed"

\* What begins is newborn.
LEMMA BeginFrames ==
  ASSUME IInv, NEW x \in [Exec -> Frames], NEW d \in Exec, NEW w \in DOMAIN Flows,
         NEW p \in Exec \cup {NoExec}, NEW depth \in Nat, NEW max \in Nat,
         Quiet(ex[d], x[d]), ex[d].pc = "free"
  PROVE  Newborn(x, d, NewFrame(w, p, depth, max))
<1> DEFINE f == NewFrame(w, p, depth, max)
           g == EnterFlow(f)
<1>1. Sound(ex[d])
  BY TypedFrames
<1>2. x[d].pc = "free" /\ x[d].status = "none"
  BY <1>1 DEF Quiet, SameWalk, Sound, Holding, InFlight
<1>3. Starts(f, p)
  BY NewFrameStarts, Zenon
<1>4. f.outs = {}
  BY DEF NewFrame
<1> HIDE DEF f
<1>5. Walking(f) /\ Sound(f) /\ f.pc = "waiting" /\ f.status = "none" /\ Settled(f, g)
  BY <1>3 DEF Starts, Walking
<1>6. Path(f)
  BY <1>4, <1>5 DEF Path, Holding, InFlight
<1>7. Path(g) /\ (g.pc = "saving" => g.status = "failed")
  BY <1>4, <1>5, EnterPath
<1> HIDE DEF g
<1>8. Sound(g) /\ (g.pc = "acting" => g.status = "none")
  BY <1>5 DEF Settled, Sound, InFlight
<1> QED BY <1>2, <1>4, <1>5, <1>6, <1>7, <1>8 DEF Newborn, f, g

\* An execution that begins is counted once, also if it is over at once.
LEMMA BeginTally ==
  ASSUME IInv, Tally(ex, metrics), BeginKind
  PROVE  Tally(ex', metrics')
<1>1. PICK x \in [Exec -> Frames], d \in Exec, w \in DOMAIN Flows,
           p \in Exec \cup {NoExec}, depth \in Nat, max \in Nat :
        /\ QuietStep(ex, x, {}, {d})
        /\ ex[d].pc = "free"
        /\ Begin(x, d, w, p, depth, max)
  BY DEF BeginKind
<1> DEFINE f == NewFrame(w, p, depth, max)
           g == EnterFlow(f)
           m == [metrics EXCEPT !.executed = @ + 1]
           z == [x EXCEPT ![d] = f]
<1>2. /\ x[d].pc = "free" /\ x[d].status = "none"
      /\ f.pc = "waiting" /\ f.status = "none"
      /\ g.pc = "acting" => g.status = "none"
      /\ g.pc = "saving" => g.status = "failed"
      /\ f \in Frames
  <2>1. Quiet(ex[d], x[d]) /\ ex[d].pc = "free"
    BY <1>1 DEF QuietStep
  <2>2. Newborn(x, d, f)
    BY <2>1, BeginFrames
  <2> HIDE DEF f
  <2> QED BY <2>2 DEF Newborn, Sound
<1>3. metrics \in Metrics /\ m \in Metrics
  BY DEF IInv, TypeOK, Metrics
<1>4. Tally(x, metrics)
  BY <1>1, QuietTally
<1>5. \/ ex' = z /\ metrics' = m
      \/ g.pc = "acting" /\ ex' = [x EXCEPT ![d] = g] /\ metrics' = m
      \/ g.pc = "saving" /\ ex' = [x EXCEPT ![d] = g] /\ metrics' = Counted(m, g.status)
  BY <1>1 DEF Begin
<1> HIDE DEF f, g
<1>6. z[d] = f /\ z \in [Exec -> Frames] /\ Becomes(x, d, f, z)
  BY <1>2 DEF Becomes
<1>7. Tally(z, m)
  BY <1>2, <1>3, <1>4, <1>6, StartTally
<1>8. CASE g.pc = "acting" /\ ex' = [x EXCEPT ![d] = g] /\ metrics' = m
  <2>1. Becomes(x, d, g, ex')
    BY <1>8 DEF Becomes
  <2> QED BY <1>2, <1>3, <1>4, <1>8, <2>1, StartTally
<1>9. CASE g.pc = "saving" /\ ex' = [x EXCEPT ![d] = g] /\ metrics' = Counted(m, g.status)
  <2>1. ex' = [z EXCEPT ![d] = g]
    BY <1>9
  <2> HIDE DEF z, m
  <2>2. Becomes(z, d, g, ex')
    BY <1>6, <2>1 DEF Becomes
  <2> QED BY <1>2, <1>3, <1>6, <1>7, <1>9, <2>2, EndTally DEF Final
<1> QED BY <1>5, <1>7, <1>8, <1>9

\* A segment counts the execution exactly if it ends it.
LEMMA SettleTally ==
  ASSUME IInv, Tally(ex, metrics), NEW e \in Exec, NEW f, NEW s,
         Settle(e, f, s), ex[e].pc \in InFlight, Sound(f),
         f.pc \in {"acting", "backoff", "saving"}
  PROVE  Tally(ex', metrics')
<1>1. /\ ex \in [Exec -> Frames] /\ ex[e].status = "none" /\ ex[e].pc # "free"
      /\ metrics \in Metrics
  BY TypedFrames DEF IInv, TypeOK, Metrics, Sound, InFlight
<1>2. Becomes(ex, e, f, ex') /\ f.pc # "free"
  BY <1>1 DEF Settle, Becomes
<1>3. CASE f.pc = "saving"
  <2>1. f.status \in Final /\ metrics' = Counted(metrics, f.status)
    BY <1>3 DEF Settle, Sound, InFlight, Frames
  <2> QED BY <1>1, <1>2, <2>1, EndTally
<1>4. CASE f.pc # "saving"
  <2>1. f.status = "none" /\ metrics' = metrics
    BY <1>4 DEF Settle, Sound, InFlight
  <2> QED BY <1>1, <1>2, <2>1, SameTally
<1> QED BY <1>3, <1>4

\* What a woken waiter becomes.
LEMMA AcquiredFrame ==
  ASSUME IInv, NEW e \in Exec, Acquired(e)
  PROVE  LET f == EnterFlow(ex[e]) IN
         /\ Settle(e, f, Resume(sem, e)) /\ ex[e].pc = "waiting" /\ ~ex[e].creq
         /\ Sound(f) /\ f.pc \in {"acting", "saving"}
         /\ Path(ex[e]) => Path(f)
<1>1. /\ Sound(ex[e]) /\ ex[e].pc = "waiting" /\ ~ex[e].creq
      /\ Settle(e, EnterFlow(ex[e]), Resume(sem, e))
  BY TypedFrames DEF Acquired
<1>2. Walking(ex[e])
  BY <1>1 DEF Walking, Sound, InFlight
<1>3. Settled(ex[e], EnterFlow(ex[e]))
  BY <1>2, EnterFlowSettles
<1>4. Path(ex[e]) => ex[e].outs = {}
  BY <1>1 DEF Path
<1>5. Path(ex[e]) => Path(EnterFlow(ex[e]))
  BY <1>2, <1>4, EnterPath
<1> QED BY <1>1, <1>3, <1>5 DEF Settled

\* Every step keeps the tally.
LEMMA StepTally ==
  ASSUME IInv, Tally(ex, metrics), StepKind
  PROVE  Tally(ex', metrics')
<1>1. CASE QuietKind \/ CancelKind
  BY <1>1, QuietTally DEF QuietKind, CancelKind
<1>2. CASE BeginKind
  BY <1>2, BeginTally
<1>3. CASE SegmentKind
  <2>1. PICK e \in Exec, f \in Frames :
          /\ ex[e].pc \in Holding /\ Settle(e, f, sem) /\ Sound(f)
          /\ f.pc \in {"acting", "backoff", "saving"}
    BY <1>3 DEF SegmentKind
  <2> QED BY <2>1, SettleTally DEF Holding
<1>4. ASSUME NEW e \in Exec, Acquired(e) PROVE Tally(ex', metrics')
  <2>1. /\ Settle(e, EnterFlow(ex[e]), Resume(sem, e)) /\ ex[e].pc \in InFlight
        /\ Sound(EnterFlow(ex[e])) /\ EnterFlow(ex[e]).pc \in {"acting", "saving"}
    BY <1>4, AcquiredFrame DEF InFlight
  <2> QED BY <2>1, SettleTally
<1>5. ASSUME NEW e \in Exec, AcquireCancelled(e) PROVE Tally(ex', metrics')
  <2> DEFINE f == Cancelled(ex[e])
  <2>1. /\ ex \in [Exec -> Frames] /\ Sound(ex[e]) /\ ex[e].pc = "waiting"
        /\ ex' = [ex EXCEPT ![e] = f] /\ metrics' = Counted(metrics, "cancelled")
    BY <1>5, TypedFrames DEF AcquireCancelled
  <2>2. f.pc = "saving" /\ f.status = "cancelled"
    BY <2>1, CancelledSound
  <2> HIDE DEF f
  <2>3. Becomes(ex, e, f, ex') /\ ex[e].status = "none"
    BY <2>1 DEF Becomes, Sound, InFlight
  <2>4. metrics \in Metrics
    BY DEF IInv, TypeOK, Metrics
  <2> QED BY <2>1, <2>2, <2>3, <2>4, EndTally DEF Final
<1> QED BY <1>1, <1>2, <1>3, <1>4, <1>5 DEF StepKind

\* At the start nothing has begun and nothing is counted.
LEMMA InitTally == Init => Tally(ex, metrics)
<1> SUFFICES ASSUME Init PROVE Tally(ex, metrics)
  OBVIOUS
<1>1. \A e \in Exec : ex[e].pc = "free" /\ ex[e].status = "none"
  BY DEF Init, NewFrame
<1>2. Started(ex) = {} /\ \A s : s # "none" => EndedAs(ex, s) = {}
  BY <1>1 DEF Started, EndedAs
<1>3. /\ metrics.executed = 0 /\ metrics.succeeded = 0 /\ metrics.failed = 0
      /\ metrics.cancelled = 0
  BY DEF Init
<1> QED BY <1>2, <1>3, FS_EmptySet DEF Tally

---------------------------------------------------------------------------
(* The path of every execution.                                            *)

AllPaths(x) == \A e \in Exec : Path(x[e])

\* A quiet frame keeps its path.
LEMMA QuietPath ==
  ASSUME NEW f, NEW g, Quiet(f, g), Path(f)
  PROVE  Path(g)
<1>1. g.pc = "waiting" => f.pc = "waiting"
  BY DEF Quiet, Holding
<1>2. g.pc \in Holding => f.pc \in Holding
  BY DEF Quiet, Holding, InFlight
<1>3. \A n : Ran(f, n) => Ran(g, n)
  BY DEF Quiet, SameWalk, Ran
<1> QED BY <1>1, <1>2, <1>3 DEF Quiet, SameWalk, Path

\* One frame that keeps its path, among others that do not change.
LEMMA OnePath ==
  ASSUME NEW x, NEW e \in Exec, NEW f, NEW y, Becomes(x, e, f, y),
         AllPaths(x), Path(f)
  PROVE  AllPaths(y)
BY DEF Becomes, AllPaths

\* Every step keeps the paths.
LEMMA StepPaths ==
  ASSUME IInv, AllPaths(ex), StepKind
  PROVE  AllPaths(ex')
<1>0. ex \in [Exec -> Frames]
  BY TypedFrames
<1>1. CASE QuietKind \/ CancelKind
  BY <1>1, QuietPath DEF QuietKind, CancelKind, QuietStep, AllPaths
<1>2. CASE BeginKind
  <2>1. PICK x \in [Exec -> Frames], d \in Exec, w \in DOMAIN Flows,
             p \in Exec \cup {NoExec}, depth \in Nat, max \in Nat :
          /\ QuietStep(ex, x, {}, {d})
          /\ ex[d].pc = "free"
          /\ Begin(x, d, w, p, depth, max)
    BY <1>2 DEF BeginKind
  <2> DEFINE f == NewFrame(w, p, depth, max)
             g == EnterFlow(f)
  <2>2. Quiet(ex[d], x[d]) /\ ex[d].pc = "free"
    BY <2>1 DEF QuietStep
  <2>6. Newborn(x, d, f)
    BY <2>2, BeginFrames
  <2>3. ex' = [x EXCEPT ![d] = f] \/ ex' = [x EXCEPT ![d] = g]
    BY <2>1 DEF Begin
  <2>4. AllPaths(x)
    BY <2>1, QuietPath DEF QuietStep, AllPaths
  <2> HIDE DEF f
  <2>7. Path(f) /\ Path(g)
    BY <2>6 DEF Newborn
  <2> HIDE DEF g
  <2>5. Becomes(x, d, f, ex') \/ Becomes(x, d, g, ex')
    BY <2>3 DEF Becomes
  <2> QED BY <2>4, <2>5, <2>7, OnePath
<1>3. CASE SegmentKind
  <2>1. PICK e \in Exec, f \in Frames : Settle(e, f, sem) /\ (Path(ex[e]) => Path(f))
    BY <1>3 DEF SegmentKind
  <2>2. Becomes(ex, e, f, ex') /\ Path(f)
    BY <1>0, <2>1 DEF Settle, Becomes, AllPaths
  <2> QED BY <2>2, OnePath
<1>4. ASSUME NEW e \in Exec, Acquired(e) PROVE AllPaths(ex')
  <2> DEFINE f == EnterFlow(ex[e])
  <2>1. Settle(e, f, Resume(sem, e)) /\ (Path(ex[e]) => Path(f))
    BY <1>4, AcquiredFrame
  <2> HIDE DEF f
  <2>2. Becomes(ex, e, f, ex') /\ Path(f)
    BY <1>0, <2>1 DEF Settle, Becomes, AllPaths
  <2> QED BY <2>2, OnePath
<1>5. ASSUME NEW e \in Exec, AcquireCancelled(e) PROVE AllPaths(ex')
  <2> DEFINE f == Cancelled(ex[e])
  <2>1. f.pc = "saving" /\ f.status = "cancelled"
    BY <1>0, CancelledSound, TypedFrames
  <2>2. ex' = [ex EXCEPT ![e] = f]
    BY <1>5 DEF AcquireCancelled
  <2> HIDE DEF f
  <2>3. Becomes(ex, e, f, ex') /\ Path(f)
    BY <1>0, <2>1, <2>2 DEF Becomes, Path, Holding, InFlight
  <2> QED BY <2>3, OnePath
<1> QED BY <1>1, <1>2, <1>3, <1>4, <1>5 DEF StepKind

\* At the start no execution has a path.
LEMMA InitPaths == Init => AllPaths(ex)
<1> SUFFICES ASSUME Init, NEW e \in Exec PROVE Path(ex[e])
  BY DEF AllPaths
<1>1. ex[e].pc = "free" /\ ex[e].status = "none"
  BY DEF Init, NewFrame
<1> QED BY <1>1 DEF Path, Holding, InFlight

---------------------------------------------------------------------------
(* Nobody refers to an execution that has not begun.                       *)

\* One frame that begins or goes on, in frames that are fresh but for it.
LEMMA OneFresh ==
  ASSUME NEW x, NEW e \in Exec, NEW f, NEW y, Becomes(x, e, f, y),
         f.pc # "free", f.child \in {x[e].child, NoExec},
         \A b \in Exec : /\ x[b].pc = "free" => ~x[b].creq
                         /\ x[b].child # NoExec =>
                              x[b].child = e \/ x[x[b].child].pc # "free"
  PROVE  Fresh(y)
<1>1. y[e] = f /\ \A b \in Exec : b # e => y[b] = x[b]
  BY DEF Becomes
<1>2. \A b \in Exec : x[b].child \in Exec \cup {NoExec}
  BY DEF Becomes, Frames
<1> QED BY <1>1, <1>2 DEF Fresh

\* Every step keeps the ids not in use yet fresh.
LEMMA StepFresh ==
  ASSUME IInv, Fresh(ex), StepKind
  PROVE  Fresh(ex')
<1>0. /\ ex \in [Exec -> Frames]
      /\ \A b \in Exec : ex[b].child \in Exec \cup {NoExec}
  BY TypedFrames DEF Frames
<1>1. ASSUME NEW C, QuietStep(ex, ex', C, {}), \A c \in C : ex[c].pc # "free"
      PROVE  Fresh(ex')
  <2>1. \A b \in Exec : /\ ex'[b].pc = "free" <=> ex[b].pc = "free"
                        /\ ex[b].pc = "free" => ~ex'[b].creq
                        /\ ex'[b].child \in {ex[b].child, NoExec}
    BY <1>1 DEF QuietStep, Quiet, Fresh, Holding, InFlight
  <2> QED BY <1>0, <2>1 DEF Fresh
<1>2. CASE BeginKind
  <2>1. PICK x \in [Exec -> Frames], d \in Exec, w \in DOMAIN Flows,
             p \in Exec \cup {NoExec}, depth \in Nat, max \in Nat :
          /\ QuietStep(ex, x, {}, {d})
          /\ ex[d].pc = "free"
          /\ Begin(x, d, w, p, depth, max)
    BY <1>2 DEF BeginKind
  <2> DEFINE f == NewFrame(w, p, depth, max)
             g == EnterFlow(f)
  <2>2. Starts(f, p) /\ f.child = NoExec
    BY NewFrameStarts, Zenon DEF NewFrame
  <2> HIDE DEF f
  <2>3. f.pc = "waiting" /\ Settled(f, g) /\ g.child = NoExec
    BY <2>2, EnterChild DEF Starts
  <2>4. ex' = [x EXCEPT ![d] = f] \/ ex' = [x EXCEPT ![d] = g]
    BY <2>1 DEF Begin, f
  <2> HIDE DEF g
  <2>5. Becomes(x, d, f, ex') \/ Becomes(x, d, g, ex')
    BY <2>4 DEF Becomes
  <2>6. \A b \in Exec : /\ x[b].pc = "free" <=> ex[b].pc = "free"
                        /\ ex[b].pc = "free" => ~x[b].creq
                        /\ x[b].child \in {ex[b].child, NoExec, d}
    BY <2>1 DEF QuietStep, Quiet, Fresh, Holding, InFlight
  <2>7. \A b \in Exec : /\ x[b].pc = "free" => ~x[b].creq
                        /\ x[b].child # NoExec =>
                             x[b].child = d \/ x[x[b].child].pc # "free"
    BY <1>0, <2>6 DEF Fresh
  <2>8. f.pc # "free" /\ g.pc # "free"
    BY <2>3 DEF Settled
  <2> QED BY <2>2, <2>3, <2>5, <2>7, <2>8, OneFresh
<1>3. ASSUME NEW e \in Exec, NEW f, NEW s, Settle(e, f, s), f.pc # "free",
             f.child \in {ex[e].child, NoExec}
      PROVE  Fresh(ex')
  <2>1. Becomes(ex, e, f, ex')
    BY <1>0, <1>3 DEF Settle, Becomes
  <2> QED BY <1>3, <2>1, OneFresh DEF Fresh
<1>4. ASSUME NEW e \in Exec, Acquired(e) PROVE Fresh(ex')
  <2>1. Sound(ex[e]) /\ ex[e].pc = "waiting"
    BY <1>4, TypedFrames DEF Acquired
  <2>2. EnterFlow(ex[e]).child \in {ex[e].child, NoExec}
    BY <2>1, EnterChild DEF Walking, Sound, InFlight
  <2> QED BY <1>3, <1>4, <2>2, AcquiredFrame
<1>5. ASSUME NEW e \in Exec, AcquireCancelled(e) PROVE Fresh(ex')
  <2> DEFINE f == Cancelled(ex[e])
  <2>1. f.pc = "saving" /\ f.child = ex[e].child
    BY CancelledSound, TypedFrames
  <2>2. ex' = [ex EXCEPT ![e] = f]
    BY <1>5 DEF AcquireCancelled
  <2> HIDE DEF f
  <2>3. Becomes(ex, e, f, ex')
    BY <1>0, <2>2 DEF Becomes
  <2> QED BY <2>1, <2>3, OneFresh DEF Fresh
<1>6. CASE SegmentKind
  BY <1>3, <1>6 DEF SegmentKind
<1>7. CASE QuietKind
  BY <1>1, <1>7 DEF QuietKind
<1>8. CASE CancelKind
  <2>1. PICK c \in Exec : QuietStep(ex, ex', {c}, {}) /\ ex[c].pc # "free"
    BY <1>8 DEF CancelKind
  <2>2. \A b \in {c} : ex[b].pc # "free"
    BY <2>1
  <2> QED BY <1>1, <2>1, <2>2
<1> QED BY <1>2, <1>4, <1>5, <1>6, <1>7, <1>8 DEF StepKind

\* At the start no id is in use.
LEMMA InitFresh == Init => Fresh(ex)
<1> SUFFICES ASSUME Init PROVE Fresh(ex)
  OBVIOUS
<1>1. \A e \in Exec : ~ex[e].creq /\ ex[e].child = NoExec
  BY DEF Init, NewFrame
<1> QED BY <1>1 DEF Fresh

---------------------------------------------------------------------------
(* What the executor counts.                                               *)

CountInv == PermitInv /\ Tally(ex, metrics) /\ AllPaths(ex) /\ Fresh(ex)

\* The account of the permits, the metrics and the paths hold throughout.
THEOREM Accounts == Spec => []CountInv
<1>1. Init => CountInv
  BY InitPermits, InitTally, InitPaths, InitFresh DEF CountInv
<1>2. ASSUME IInv, CountInv, [Next]_vars PROVE CountInv'
  <2>1. StepKind
    BY <1>2, NextKind DEF CountInv
  <2>2. PermitInv' /\ Tally(ex', metrics') /\ AllPaths(ex') /\ Fresh(ex')
    BY <1>2, <2>1, StepPermits, StepTally, StepPaths, StepFresh DEF CountInv
  <2> QED BY <2>2 DEF CountInv
<1>3. IInv /\ CountInv /\ [Next]_vars => CountInv'
  BY <1>2
<1> QED BY <1>1, <1>3, Inductive, PTL DEF Spec

\* No path through the cancels, timeouts and early ends loses or duplicates a
\* permit.
THEOREM PermitsConserved == Spec => []PermitConservation
<1>1. ASSUME CountInv PROVE PermitConservation
  <2>1. Total(sem) + Cardinality(Holders(ex)) = MaxConcurrent
    BY <1>1 DEF CountInv, PermitInv, Accounted
  <2>2. Holders(ex) = {e \in Exec : Holds(e)}
    BY DEF Holders, Holds
  <2> QED BY <2>1, <2>2 DEF Total, PermitConservation
<1> QED BY <1>1, Accounts, PTL

\* A free permit with somebody queueing for it has a woken waiter that is going
\* to pass it on.
THEOREM WakeupsNotLost == Spec => []NoLostWakeup
<1>1. CountInv => NoLostWakeup
  BY DEF CountInv, PermitInv, Accounted, NoneIdle, NoLostWakeup
<1> QED BY <1>1, Accounts, PTL

\* The queue holds the waiting executions nobody has cancelled or woken.
THEOREM QueueHoldsWaiters == Spec => []QueueMatchesWaiters
<1>1. ASSUME CountInv PROVE QueueMatchesWaiters
  <2>1. /\ Line(sem) = Uncancelled(ex) \ sem.granted
        /\ sem.granted \subseteq Waiters(ex) /\ sem \in Semaphore(Exec)
    BY <1>1 DEF CountInv, PermitInv, Accounted, Tidy
  <2>2. DOMAIN sem.queue = 1..Len(sem.queue)
    BY <2>1 DEF Semaphore
  <2>3. \A e \in Exec : (\E i \in DOMAIN sem.queue : sem.queue[i] = e) <=> e \in Line(sem)
    BY <2>2 DEF Line
  <2>4. \A e \in Exec : e \in Uncancelled(ex) <=> ex[e].pc = "waiting" /\ ~ex[e].creq
    BY DEF Uncancelled
  <2>5. \A e \in sem.granted : ex[e].pc = "waiting"
    BY <2>1 DEF Waiters
  <2> QED BY <2>1, <2>3, <2>4, <2>5 DEF QueueMatchesWaiters
<1> QED BY <1>1, Accounts, PTL

\* get_metrics counts each execution once, under the status it ends with.
THEOREM MetricsTrue == Spec => []MetricsAddUp
<1>1. CountInv => MetricsAddUp
  BY DEF CountInv, Tally, Started, EndedAs, MetricsAddUp
<1> QED BY <1>1, Accounts, PTL

\* A completed execution went down the success path to an end.
THEOREM CompletedRan == Spec => []CompletedRanThrough
<1>1. ASSUME CountInv PROVE CompletedRanThrough
  <2> SUFFICES ASSUME NEW e \in Exec, ex[e].status = "completed"
               PROVE  LET f == ex[e]  nodes == Flows[f.wf].nodes IN
                      /\ Flows[f.wf].start \in f.outs
                      /\ \A n \in f.outs :
                           \/ nodes[n].kind = "stop"
                           \/ \E a \in Succeeding :
                                Successor(nodes[n], a) \in f.outs \cup {NoNode}
    BY DEF CompletedRanThrough
  <2>1. Ran(ex[e], NoNode)
    BY <1>1 DEF CountInv, AllPaths, Path
  <2>2. {NoNode, NoNode} = {NoNode}
    OBVIOUS
  <2> QED BY <2>1, <2>2 DEF Ran
<1> QED BY <1>1, Accounts, PTL

---------------------------------------------------------------------------
(* What becomes of a cancel.                                               *)

\* A pending cancel makes way for an interrupted call, the end, or a result
\* that was there first; in the queue it ends the execution.
Honoured(e) ==
  /\ ex[e].creq /\ ~ex'[e].creq =>
       \/ ex'[e].pc \in {"cancelling", "done"}
       \/ ex'[e].status = "cancelled"
       \/ ex[e].pc = "acting" /\ ex[e].call \in Ended
  /\ ex[e].pc = "waiting" /\ ex[e].creq =>
       ex'[e].pc = "waiting" \/ ex'[e].status = "cancelled"

\* Every step honours the cancels.
LEMMA StepHonours ==
  ASSUME IInv, Fresh(ex), StepKind, NEW b \in Exec
  PROVE  Honoured(b)
<1>0. ex \in [Exec -> Frames]
  BY TypedFrames
<1>1. ASSUME Quiet(ex[b], ex'[b]) PROVE Honoured(b)
  BY <1>1 DEF Quiet, Honoured, Holding
<1>2. CASE QuietKind \/ CancelKind
  BY <1>1, <1>2 DEF QuietKind, CancelKind, QuietStep
<1>3. CASE BeginKind
  <2>1. PICK x \in [Exec -> Frames], d \in Exec, w \in DOMAIN Flows,
             p \in Exec \cup {NoExec}, depth \in Nat, max \in Nat :
          /\ QuietStep(ex, x, {}, {d})
          /\ ex[d].pc = "free"
          /\ Begin(x, d, w, p, depth, max)
    BY <1>3 DEF BeginKind
  <2>2. b # d => ex'[b] = x[b]
    BY <2>1 DEF Begin
  <2>3. ~ex[d].creq
    BY <2>1 DEF Fresh
  <2>4. CASE b = d
    BY <2>1, <2>3, <2>4 DEF Honoured
  <2>5. CASE b # d
    BY <1>1, <2>1, <2>2, <2>5 DEF QuietStep
  <2> QED BY <2>4, <2>5
<1>4. CASE SegmentKind
  <2>1. PICK e \in Exec, f \in Frames :
          /\ ex[e].pc \in Holding
          /\ Settle(e, f, sem)
          /\ ex[e].creq /\ ~f.creq => \/ f.status = "cancelled"
                                      \/ ex[e].pc = "acting" /\ ex[e].call \in Ended
    BY <1>4 DEF SegmentKind
  <2>2. ex' = [ex EXCEPT ![e] = f]
    BY <2>1 DEF Settle
  <2> QED BY <1>0, <2>1, <2>2 DEF Honoured, Holding
<1>5. ASSUME NEW e \in Exec, Acquired(e) PROVE Honoured(b)
  <2>1. ~ex[e].creq /\ (b # e => ex'[b] = ex[b])
    BY <1>0, <1>5 DEF Acquired, Settle
  <2> QED BY <2>1 DEF Honoured
<1>6. ASSUME NEW e \in Exec, AcquireCancelled(e) PROVE Honoured(b)
  <2> DEFINE f == Cancelled(ex[e])
  <2>1. f.status = "cancelled"
    BY CancelledSound, TypedFrames
  <2>2. ex' = [ex EXCEPT ![e] = f]
    BY <1>6 DEF AcquireCancelled
  <2> HIDE DEF f
  <2> QED BY <1>0, <2>1, <2>2 DEF Honoured
<1> QED BY <1>2, <1>3, <1>4, <1>5, <1>6 DEF StepKind

\* cancel_workflow's request is honoured, unless the attempt the execution
\* waits for had already ended.
THEOREM CancelsHonoured == Spec => CancelHonoured
<1> DEFINE Goal ==
      \A e \in Exec : ex[e].creq /\ ~ex'[e].creq =>
        \/ ex'[e].pc \in {"cancelling", "done"}
        \/ ex'[e].status = "cancelled"
        \/ ex[e].pc = "acting" /\ ex[e].call \in Ended
<1>1. IInv /\ CountInv /\ [Next]_vars => [Goal]_vars
  <2> SUFFICES ASSUME IInv, CountInv, Next, NEW e \in Exec PROVE Honoured(e)
    BY DEF Honoured
  <2> QED BY NextKind, StepHonours DEF CountInv
<1> QED BY <1>1, Inductive, Accounts, PTL DEF Spec, CancelHonoured

\* Whoever is cancelled while it queues for a permit never runs a node.
THEOREM QueuedCancelNeverRuns == Spec => CancelledInQueueNeverRuns
<1> DEFINE Goal ==
      \A e \in Exec : ex[e].pc = "waiting" /\ ex[e].creq
        => ex'[e].pc = "waiting" \/ ex'[e].status = "cancelled"
<1>1. IInv /\ CountInv /\ [Next]_vars => [Goal]_vars
  <2> SUFFICES ASSUME IInv, CountInv, Next, NEW e \in Exec PROVE Honoured(e)
    BY DEF Honoured
  <2> QED BY NextKind, StepHonours DEF CountInv
<1> QED BY <1>1, Inductive, Accounts, PTL DEF Spec, CancelledInQueueNeverRuns

---------------------------------------------------------------------------
(* The life cycle of executions.                                           *)

Life(x) == [e \in Exec |-> LifeOf(x[e])]

\* The life of one frame.
LEMMA LifeFacts ==
  ASSUME NEW f, Sound(f)
  PROVE  /\ f.pc = "free" => LifeOf(f) = "absent"
         /\ f.pc \in InFlight => LifeOf(f) = "active"
         /\ f.pc \in {"saving", "done"} => LifeOf(f) = f.status /\ f.status \in Final
<1>1. CASE f.pc = "free"
  BY <1>1 DEF LifeOf, InFlight
<1>2. CASE f.pc \in InFlight
  BY <1>2 DEF LifeOf, InFlight
<1>3. CASE f.pc \in {"saving", "done"}
  BY <1>3 DEF LifeOf, InFlight, Sound, Frames
<1> QED BY <1>1, <1>2, <1>3 DEF InFlight

\* A quiet frame lives as before.
LEMMA QuietLife ==
  ASSUME NEW f, NEW g, Sound(f), Quiet(f, g)
  PROVE  LifeOf(g) = LifeOf(f)
<1>1. CASE f.pc \in InFlight
  <2>1. g.pc \in InFlight
    BY <1>1 DEF Quiet, Holding, InFlight
  <2> QED BY <1>1, <2>1 DEF LifeOf, InFlight
<1>2. CASE f.pc = "free"
  <2>1. g.pc = "free"
    BY <1>2 DEF Quiet, Holding, InFlight
  <2> QED BY <1>2, <2>1 DEF LifeOf, InFlight
<1>3. CASE f.pc \in {"saving", "done"}
  <2>1. g.pc \in {"saving", "done"} /\ g.status = f.status
    BY <1>3 DEF Quiet, SameWalk, Holding, InFlight
  <2> QED BY <1>3, <2>1 DEF LifeOf, InFlight
<1> QED BY <1>1, <1>2, <1>3 DEF Sound, Frames, Pcs, InFlight

\* The executor counts as the life cycle does.
LEMMA CountsAgree ==
  \A m, status : status \in Final => Lifecycle!Count(m, status) = Counted(m, status)
BY DEF Final, Counted, Lifecycle!Count

\* What is recorded is the record of an execution that has ended.
LEMMA RecordAgrees ==
  ASSUME IInv, RecordStep
  PROVE  UNCHANGED store \/ \E e \in Exec : Lifecycle!Record(e)
<1> SUFFICES ASSUME NEW e \in Exec, ex[e].pc = "saving",
                    store' = [store EXCEPT ![e] = ex[e].status]
             PROVE  Lifecycle!Record(e)
  BY DEF RecordStep
<1>1. Life(ex)[e] = ex[e].status /\ ex[e].status \in Final
  BY TypedFrames, LifeFacts DEF Life
<1>2. store[e] = "none"
  BY DEF IInv, StoreFinal
<1> QED BY <1>1, <1>2 DEF Lifecycle!Record, Lifecycle!Final, Final, Life

\* Of one execution alone the life changes, or of none.
Lives(x, y, d, s) == Life(y) = [Life(x) EXCEPT ![d] = s]

\* One frame that changes changes one life.
LEMMA OneLife ==
  ASSUME NEW x, NEW y, NEW d \in Exec, NEW f, Becomes(x, d, f, y)
  PROVE  Lives(x, y, d, LifeOf(f))
<1>1. y[d] = f /\ \A b \in Exec : b # d => y[b] = x[b]
  BY DEF Becomes
<1> QED BY <1>1 DEF Lives, Life

\* Quiet frames change none.
LEMMA QuietLives ==
  ASSUME IInv, NEW y, NEW C, NEW D, QuietStep(ex, y, C, D)
  PROVE  Life(y) = Life(ex)
<1>1. \A b \in Exec : LifeOf(y[b]) = LifeOf(ex[b])
  BY TypedFrames, QuietLife DEF QuietStep
<1> QED BY <1>1 DEF Life

\* An execution that was in flight and is not ends and is counted.
LEMMA SettleLife ==
  ASSUME IInv, NEW e \in Exec, NEW f, NEW s,
         Settle(e, f, s), ex[e].pc \in InFlight, Sound(f),
         f.pc \in {"acting", "backoff", "saving"}
  PROVE  \/ Life(ex') = Life(ex) /\ UNCHANGED <<store, metrics>>
         \/ \E status \in Final : Lifecycle!End(e, status)
<1>1. Sound(ex[e]) /\ ex \in [Exec -> Frames]
  BY TypedFrames
<1>2. Life(ex)[e] = "active"
  BY <1>1, LifeFacts DEF Life
<1>3. Lives(ex, ex', e, LifeOf(f))
  <2>1. Becomes(ex, e, f, ex')
    BY <1>1 DEF Settle, Becomes
  <2> QED BY <2>1, OneLife
<1>4. CASE f.pc = "saving"
  <2>1. LifeOf(f) = f.status /\ f.status \in Final
    BY <1>4, LifeFacts
  <2>2. metrics' = Lifecycle!Count(metrics, f.status) /\ UNCHANGED store
    BY <1>4, <2>1, CountsAgree DEF Settle
  <2>3. Lifecycle!End(e, f.status)
    BY <1>2, <1>3, <2>1, <2>2
       DEF Lifecycle!End, Lifecycle!Final, Final, Lives, Life
  <2> QED BY <2>1, <2>3
<1>5. CASE f.pc # "saving"
  <2>1. LifeOf(f) = "active"
    BY <1>5, LifeFacts DEF InFlight
  <2>2. Life(ex') = Life(ex)
    BY <1>2, <1>3, <2>1 DEF Lives, Life
  <2> QED BY <1>5, <2>2 DEF Settle
<1> QED BY <1>4, <1>5

\* An execution that begins is there; if it is over at once, as failed.
LEMMA BeginLife ==
  ASSUME IInv, BeginKind
  PROVE  \E d \in Exec : \E status \in {"active", "failed"} : Lifecycle!Begin(d, status)
<1>1. PICK x \in [Exec -> Frames], d \in Exec, w \in DOMAIN Flows,
           p \in Exec \cup {NoExec}, depth \in Nat, max \in Nat :
        /\ QuietStep(ex, x, {}, {d})
        /\ ex[d].pc = "free"
        /\ Begin(x, d, w, p, depth, max)
  BY DEF BeginKind
<1> DEFINE f == NewFrame(w, p, depth, max)
           g == EnterFlow(f)
           m == [metrics EXCEPT !.executed = @ + 1]
<1>2. Newborn(x, d, f)
  BY <1>1, BeginFrames DEF QuietStep
<1>3. \/ ex' = [x EXCEPT ![d] = f] /\ metrics' = m
      \/ g.pc = "acting" /\ ex' = [x EXCEPT ![d] = g] /\ metrics' = m
      \/ g.pc = "saving" /\ ex' = [x EXCEPT ![d] = g] /\ metrics' = Counted(m, g.status)
  BY <1>1 DEF Begin
<1>4. /\ Sound(f) /\ f.pc = "waiting" /\ Sound(g)
      /\ g.pc = "saving" => g.status = "failed"
  BY <1>2, Zenon DEF Newborn
<1> HIDE DEF f, g
<1>5. LifeOf(f) = "active"
  BY <1>4, LifeFacts DEF InFlight
<1>6. g.pc = "acting" => LifeOf(g) = "active"
  BY <1>4, LifeFacts DEF InFlight
<1>7. g.pc = "saving" => LifeOf(g) = "failed"
  BY <1>4, LifeFacts
<1>8. Life(x) = Life(ex)
  BY <1>1, QuietLives
<1>9. Life(ex)[d] = "absent"
  BY <1>1, TypedFrames, LifeFacts DEF Life
<1>10. ASSUME NEW h, ex' = [x EXCEPT ![d] = h]
       PROVE  Life(ex') = [Life(ex) EXCEPT ![d] = LifeOf(h)]
  <2>1. Becomes(x, d, h, ex')
    BY <1>10 DEF Becomes
  <2>2. Lives(x, ex', d, LifeOf(h))
    BY <2>1, OneLife
  <2> QED BY <1>8, <2>2 DEF Lives
<1>11. PICK status \in {"active", "failed"} :
         /\ Life(ex') = [Life(ex) EXCEPT ![d] = status]
         /\ metrics' = IF status = "failed" THEN Counted(m, "failed") ELSE m
  <2>1. CASE ex' = [x EXCEPT ![d] = f] /\ metrics' = m
    BY <1>5, <1>10, <2>1
  <2>2. CASE g.pc = "acting" /\ ex' = [x EXCEPT ![d] = g] /\ metrics' = m
    BY <1>6, <1>10, <2>2
  <2>3. CASE g.pc = "saving" /\ ex' = [x EXCEPT ![d] = g] /\ metrics' = Counted(m, g.status)
    BY <1>4, <1>7, <1>10, <2>3
  <2> QED BY <1>3, <2>1, <2>2, <2>3
<1>12. Lifecycle!Count(m, status) = IF status = "failed" THEN Counted(m, "failed") ELSE m
  <2>1. CASE status = "failed"
    BY <2>1, CountsAgree DEF Final
  <2>2. CASE status = "active"
    BY <2>2 DEF Lifecycle!Count
  <2> QED BY <2>1, <2>2
<1> HIDE DEF m
<1>13. metrics' = Lifecycle!Count(m, status)
  BY <1>11, <1>12
<1>14. Lifecycle!Begin(d, status)
  BY <1>9, <1>11, <1>13 DEF Lifecycle!Begin, Life, m
<1> QED BY <1>14

\* Every step is one of the life cycle, or none of its business.
LEMMA StepLife ==
  ASSUME IInv, StepKind
  PROVE  \/ Lifecycle!Next
         \/ Life(ex') = Life(ex) /\ UNCHANGED <<store, metrics>>
<1>1. ASSUME NEW C, NEW D, QuietStep(ex, ex', C, D), UNCHANGED metrics, RecordStep
      PROVE  \/ Lifecycle!Next
             \/ Life(ex') = Life(ex) /\ UNCHANGED <<store, metrics>>
  <2>1. Life(ex') = Life(ex)
    BY <1>1, QuietLives
  <2> QED BY <1>1, <2>1, RecordAgrees DEF Lifecycle!Next, Life
<1>2. CASE QuietKind
  BY <1>1, <1>2 DEF QuietKind
<1>3. CASE CancelKind
  BY <1>1, <1>3 DEF CancelKind, RecordStep
<1>4. CASE BeginKind
  <2>1. PICK d \in Exec, status \in {"active", "failed"} : Lifecycle!Begin(d, status)
    BY <1>4, BeginLife
  <2>2. RecordStep
    BY <1>4 DEF BeginKind
  <2> QED BY <2>1, <2>2, RecordAgrees DEF Lifecycle!Next
<1>5. ASSUME NEW e \in Exec,
             \/ Life(ex') = Life(ex) /\ UNCHANGED <<store, metrics>>
             \/ \E status \in Final : Lifecycle!End(e, status)
      PROVE  \/ Lifecycle!Next
             \/ Life(ex') = Life(ex) /\ UNCHANGED <<store, metrics>>
  BY <1>5 DEF Lifecycle!Next, Lifecycle!Final, Final
<1>6. CASE SegmentKind
  <2>1. PICK e \in Exec, f \in Frames :
          /\ ex[e].pc \in Holding /\ Settle(e, f, sem) /\ Sound(f)
          /\ f.pc \in {"acting", "backoff", "saving"}
    BY <1>6 DEF SegmentKind
  <2>2. ex[e].pc \in InFlight
    BY <2>1 DEF Holding
  <2> QED BY <1>5, <2>1, <2>2, SettleLife
<1>7. ASSUME NEW e \in Exec, Acquired(e)
      PROVE  \/ Lifecycle!Next
             \/ Life(ex') = Life(ex) /\ UNCHANGED <<store, metrics>>
  <2>1. /\ Settle(e, EnterFlow(ex[e]), Resume(sem, e)) /\ ex[e].pc \in InFlight
        /\ Sound(EnterFlow(ex[e])) /\ EnterFlow(ex[e]).pc \in {"acting", "saving"}
    BY <1>7, AcquiredFrame DEF InFlight
  <2> QED BY <1>5, <2>1, SettleLife
<1>8. ASSUME NEW e \in Exec, AcquireCancelled(e)
      PROVE  \/ Lifecycle!Next
             \/ Life(ex') = Life(ex) /\ UNCHANGED <<store, metrics>>
  <2> DEFINE f == Cancelled(ex[e])
  <2>1. /\ ex \in [Exec -> Frames] /\ Sound(ex[e]) /\ ex[e].pc = "waiting"
        /\ ex' = [ex EXCEPT ![e] = f] /\ metrics' = Counted(metrics, "cancelled")
        /\ UNCHANGED store
    BY <1>8, TypedFrames DEF AcquireCancelled
  <2>2. Sound(f) /\ f.pc = "saving" /\ f.status = "cancelled"
    BY <2>1, CancelledSound
  <2> HIDE DEF f
  <2>3. LifeOf(f) = "cancelled"
    BY <2>2, LifeFacts
  <2>4. Becomes(ex, e, f, ex')
    BY <2>1 DEF Becomes
  <2>5. Lives(ex, ex', e, "cancelled")
    BY <2>3, <2>4, OneLife
  <2>6. Life(ex)[e] = "active"
    BY <2>1, LifeFacts DEF Life, InFlight
  <2>7. metrics' = Lifecycle!Count(metrics, "cancelled")
    BY <2>1, CountsAgree DEF Final
  <2>8. Lifecycle!End(e, "cancelled")
    BY <2>1, <2>5, <2>6, <2>7 DEF Lifecycle!End, Lifecycle!Final, Lives, Life
  <2> QED BY <1>5, <2>8 DEF Final
<1> QED BY <1>2, <1>3, <1>4, <1>6, <1>7, <1>8 DEF StepKind

\* The executor implements the life cycle of executions: each begins, ends, is
\* counted and is recorded at most once, and in that order.
THEOREM ExecutorImplementsLifecycle == Spec => ImplementsLifecycle
<1>1. Init => Lifecycle!Init
  <2> SUFFICES ASSUME Init PROVE Lifecycle!Init
    OBVIOUS
  <2>1. \A e \in Exec : LifeOf(ex[e]) = "absent"
    BY DEF Init, NewFrame, LifeOf, InFlight
  <2> QED BY <2>1 DEF Init, Lifecycle!Init
<1>2. IInv /\ CountInv /\ [Next]_vars => [Lifecycle!Next]_(Lifecycle!vars)
  <2>1. ASSUME IInv, CountInv, Next
        PROVE  [Lifecycle!Next]_(Lifecycle!vars)
    <3>1. StepKind
      BY <2>1, NextKind DEF CountInv
    <3>2. Lifecycle!Next \/ (Life(ex') = Life(ex) /\ UNCHANGED <<store, metrics>>)
      BY <2>1, <3>1, StepLife
    <3> QED BY <3>2 DEF Life, Lifecycle!vars
  <2>2. CASE UNCHANGED vars
    BY <2>2 DEF vars, Lifecycle!vars
  <2> QED BY <2>1, <2>2
<1> QED BY <1>1, <1>2, Inductive, Accounts, PTL
        DEF Spec, ImplementsLifecycle, Lifecycle!Spec


---------------------------------------------------------------------------
(* Nobody is stuck.  A loop that was interrupted has used up its timeout.   *)
(* If the iteration it waits for has swallowed the cancel, that one or one  *)
(* after it may queue for a permit.  But it swallowed it while it held a    *)
(* permit, which it got after the loop: so not all permits were held by the *)
(* loop and those who got theirs before it, and that remains so.            *)

AllCalls(x) == \A e \in Exec : Calls(x[e])

\* Frames that have not ended.
Alive(f) == f.pc \notin {"free", "done"}

\* The iteration a loop waits for has not ended, and it is one of that loop.
Parents(x) ==
  \A p \in Exec : x[p].child # NoExec =>
    /\ x[p].child \in Exec \ {p}
    /\ Alive(x[x[p].child])
    /\ x[x[p].child].parent = p

\* Both the loop and its iteration hold a permit.
Nested(x, p) ==
  /\ p \in Holders(x)
  /\ x[p].child # NoExec
  /\ x[p].child \in Holders(x)

\* An interrupted loop waits for an iteration that nobody will cancel for it.
Patient(x, p) ==
  /\ p \in Holders(x) /\ x[p].pc \in Interrupted
  /\ x[p].child # NoExec
  /\ ~x[x[p].child].creq /\ x[x[p].child].status # "cancelled"

\* Who holds a permit and got it no later than p.
Elders(x, rank, p) == {h \in Holders(x) : rank[h] <= rank[p]}

\* The permits in the order in which they were given.
Ranked(x, rank, top) ==
  /\ \A e \in Exec : rank[e] < top
  /\ \A p \in Exec : Nested(x, p) => rank[p] < rank[x[p].child]
  /\ \A p \in Exec : Patient(x, p) => Cardinality(Elders(x, rank, p)) < MaxConcurrent

Ordered(x) == \E rank \in [Exec -> Nat], top \in Nat : Ranked(x, rank, top)

\* At most one permit is given, to d; who is nested was, or is with d; and who
\* is patient was, or was nested.
OrderStep(x, y, d) ==
  /\ Holders(y) \subseteq Holders(x) \cup {d}
  /\ \A p \in Exec : Nested(y, p) =>
       \/ Nested(x, p) /\ y[p].child = x[p].child
       \/ p \in Holders(x) /\ y[p].child = d /\ d \notin Holders(x)
  /\ \A p \in Exec : Patient(y, p) => Patient(x, p) \/ Nested(x, p)

\* Such a step keeps an order of the permits.
LEMMA OrderKept ==
  ASSUME NEW x, NEW y, NEW d \in Exec, Ordered(x), OrderStep(x, y, d), Parents(x),
         Cardinality(Holders(x)) <= MaxConcurrent
  PROVE  Ordered(y)
<1>1. PICK rank \in [Exec -> Nat], top \in Nat : Ranked(x, rank, top)
  BY DEF Ordered
<1> DEFINE r == IF d \in Holders(x) THEN rank ELSE [rank EXCEPT ![d] = top]
<1>2. r \in [Exec -> Nat] /\ top + 1 \in Nat
  OBVIOUS
<1>3. /\ \A e \in Exec : rank[e] \in Nat /\ rank[e] < top
      /\ \A p \in Exec : Nested(x, p) => rank[p] < rank[x[p].child]
      /\ \A p \in Exec : Patient(x, p) => Cardinality(Elders(x, rank, p)) < MaxConcurrent
  BY <1>1 DEF Ranked
<1>4. /\ \A e \in Holders(x) : e \in Exec /\ r[e] = rank[e]
      /\ \A e \in Exec : r[e] < top + 1
      /\ d \notin Holders(x) => r[d] = top
  BY <1>3 DEF Holders
<1> HIDE DEF r
<1>5. ASSUME NEW p \in Exec, Nested(y, p)
      PROVE  r[p] < r[y[p].child]
  <2>1. CASE Nested(x, p) /\ y[p].child = x[p].child
    <3>1. p \in Holders(x) /\ x[p].child \in Holders(x)
      BY <2>1 DEF Nested
    <3> QED BY <1>3, <1>4, <2>1, <3>1
  <2>2. CASE p \in Holders(x) /\ y[p].child = d /\ d \notin Holders(x)
    BY <1>3, <1>4, <2>2
  <2> QED BY <1>5, <2>1, <2>2 DEF OrderStep
<1>6. ASSUME NEW p \in Exec, Patient(y, p)
      PROVE  Cardinality(Elders(y, r, p)) < MaxConcurrent
  <2> DEFINE E == Elders(x, rank, p)
             F == Elders(y, r, p)
  <2>1. p \in Holders(x) /\ (Patient(x, p) \/ Nested(x, p))
    BY <1>6 DEF OrderStep, Patient, Nested
  <2>2. F \subseteq E
    <3> SUFFICES ASSUME NEW h \in Holders(y), r[h] <= r[p]
                 PROVE  h \in Holders(x) /\ rank[h] <= rank[p]
      BY DEF Elders
    <3>1. r[p] = rank[p] /\ rank[p] < top /\ rank[p] \in Nat
      BY <1>3, <1>4, <2>1
    <3>2. h \in Holders(x)
      <4> SUFFICES ASSUME h \notin Holders(x) PROVE FALSE
        OBVIOUS
      <4>1. h = d /\ r[h] = top
        BY <1>4 DEF OrderStep
      <4> QED BY <3>1, <4>1
    <3> QED BY <1>4, <3>1, <3>2
  <2>3. E \in SUBSET Exec /\ F \in SUBSET Exec /\ Holders(x) \in SUBSET Exec
    BY DEF Elders, Holders
  <2>4. Cardinality(F) <= Cardinality(E) /\ Cardinality(F) \in Nat /\ Cardinality(E) \in Nat
    BY <2>2, <2>3, Countable, FS_Subset
  <2>5. CASE Patient(x, p)
    BY <1>3, <2>4, <2>5, BoundsTyped
  <2>6. CASE Nested(x, p)
    <3> DEFINE c == x[p].child
    <3>1. c \in Holders(x) /\ c \in Exec /\ rank[p] < rank[c]
      BY <1>3, <2>6 DEF Nested, Holders
    <3>2. c \notin E /\ E \subseteq Holders(x)
      BY <1>3, <3>1 DEF Elders
    <3>3. E \subseteq Holders(x) \ {c} /\ Holders(x) \ {c} \in SUBSET Exec
      BY <2>3, <3>2
    <3>4. Cardinality(E) <= Cardinality(Holders(x) \ {c})
      BY <3>3, Countable, FS_Subset
    <3>5. Cardinality(Holders(x) \ {c}) = Cardinality(Holders(x)) - 1
      BY <2>3, <3>1, OneLess
    <3>6. Cardinality(Holders(x)) \in Nat
      BY <2>3, Countable
    <3> QED BY <2>4, <3>4, <3>5, <3>6, BoundsTyped
  <2> QED BY <2>1, <2>5, <2>6
<1>7. Ranked(y, r, top + 1)
  BY <1>4, <1>5, <1>6 DEF Ranked
<1> QED BY <1>2, <1>7 DEF Ordered

\* The invariant about loops and the permits they hold.
Nesting(x) == AllCalls(x) /\ Parents(x) /\ Ordered(x)

\* e is no loop's iteration.
Childless(x, e) == \A p \in Exec : x[p].child # e

\* One frame changes, and with it neither who it waits for, unless it stops
\* waiting, nor whom it belongs to, unless that has nobody waiting.
Moves(x, e, f, y) ==
  /\ Becomes(x, e, f, y)
  /\ Calls(f)
  /\ f.child \in {x[e].child, NoExec}
  /\ (Alive(f) /\ f.parent = x[e].parent) \/ Childless(x, e)
  /\ f.pc \in Holding => e \in Holders(x) \/ x[e].child = NoExec
  /\ f.pc \in Interrupted /\ f.child # NoExec =>
       e \in Holders(x) /\ (x[e].pc \in Interrupted \/ x[f.child].creq)
  /\ ~f.creq /\ f.status # "cancelled" =>
       e \in Holders(x) \/ Childless(x, e) \/ (~x[e].creq /\ x[e].status # "cancelled")

\* A move keeps the nesting.
LEMMA MoveNests ==
  ASSUME NEW x, NEW y, NEW e \in Exec, NEW f, Moves(x, e, f, y), Nesting(x),
         Cardinality(Holders(x)) <= MaxConcurrent
  PROVE  Nesting(y)
<1>1. /\ y[e] = f /\ \A b \in Exec : b # e => y[b] = x[b]
  BY DEF Moves, Becomes
<1>2. AllCalls(y)
  BY <1>1 DEF Moves, Nesting, AllCalls
<1>3. \A p \in Exec : x[p].child # NoExec =>
        /\ x[p].child \in Exec /\ x[p].child # p
        /\ Alive(x[x[p].child]) /\ x[x[p].child].parent = p
  BY DEF Nesting, Parents
<1>4. Parents(y)
  <2> SUFFICES ASSUME NEW p \in Exec, y[p].child # NoExec
               PROVE  /\ y[p].child \in Exec \ {p}
                      /\ Alive(y[y[p].child])
                      /\ y[y[p].child].parent = p
    BY DEF Parents
  <2>1. y[p].child = x[p].child
    BY <1>1 DEF Moves
  <2>2. x[p].child \in Exec /\ x[p].child # p /\ Alive(x[x[p].child]) /\ x[x[p].child].parent = p
    BY <1>3, <2>1
  <2>3. CASE x[p].child = e
    BY <1>1, <2>1, <2>2, <2>3 DEF Moves, Childless
  <2>4. CASE x[p].child # e
    BY <1>1, <2>1, <2>2, <2>4
  <2> QED BY <2>3, <2>4
<1>5. \A b \in Exec : b # e => (b \in Holders(y) <=> b \in Holders(x))
  BY <1>1 DEF Holders
<1>6. OrderStep(x, y, e)
  <2>1. Holders(y) \subseteq Holders(x) \cup {e}
    BY <1>5 DEF Holders
  <2>2. ASSUME NEW p \in Exec, Nested(y, p)
        PROVE  \/ Nested(x, p) /\ y[p].child = x[p].child
               \/ p \in Holders(x) /\ y[p].child = e /\ e \notin Holders(x)
    <3>1. y[p].child = x[p].child /\ p \in Holders(y) /\ y[p].child \in Holders(y)
      BY <1>1, <2>2 DEF Nested, Moves
    <3>2. x[p].child \in Exec /\ x[p].child # p /\ x[p].child # NoExec
      BY <1>3, <2>2, <3>1 DEF Nested
    <3>3. CASE p = e
      <4>1. f.pc \in Holding
        BY <1>1, <3>1, <3>3 DEF Holders
      <4>2. e \in Holders(x)
        BY <3>2, <3>3, <4>1 DEF Moves
      <4> QED BY <1>5, <3>1, <3>2, <3>3, <4>2 DEF Nested
    <3>4. CASE p # e
      BY <1>5, <3>1, <3>2, <3>4 DEF Nested
    <3> QED BY <3>3, <3>4
  <2>3. ASSUME NEW p \in Exec, Patient(y, p)
        PROVE  Patient(x, p) \/ Nested(x, p)
    <3> DEFINE c == x[p].child
    <3>1. /\ y[p].child = c /\ p \in Holders(y) /\ y[p].pc \in Interrupted
          /\ c # NoExec /\ ~y[c].creq /\ y[c].status # "cancelled"
      BY <1>1, <2>3 DEF Patient, Moves
    <3>2. c \in Exec /\ c # p
      BY <1>3, <3>1
    <3>3. CASE p = e
      <4>1. f.pc \in Interrupted /\ f.child = c
        BY <1>1, <3>1, <3>3
      <4>2. y[c] = x[c]
        BY <1>1, <3>2, <3>3
      <4>3. e \in Holders(x) /\ x[e].pc \in Interrupted
        BY <3>1, <4>1, <4>2 DEF Moves
      <4> QED BY <3>1, <3>3, <4>2, <4>3 DEF Patient
    <3>4. CASE p # e
      <4>1. y[p] = x[p] /\ p \in Holders(x)
        BY <1>1, <1>5, <3>1, <3>4
      <4>2. CASE c = e
        <5>1. ~Childless(x, e)
          BY <4>2 DEF Childless
        <5>2. ~f.creq /\ f.status # "cancelled"
          BY <1>1, <3>1, <4>2
        <5>3. e \in Holders(x) \/ (~x[e].creq /\ x[e].status # "cancelled")
          BY <5>1, <5>2 DEF Moves
        <5> QED BY <3>1, <4>1, <4>2, <5>3 DEF Patient, Nested
      <4>3. CASE c # e
        BY <1>1, <3>1, <3>2, <4>1, <4>3 DEF Patient
      <4> QED BY <4>2, <4>3
    <3> QED BY <3>3, <3>4
  <2> QED BY <2>1, <2>2, <2>3 DEF OrderStep
<1>7. Ordered(y)
  BY <1>6, OrderKept DEF Nesting
<1> QED BY <1>2, <1>4, <1>7 DEF Nesting

\* A loop p begins the iteration d, when it has none or the one it has is over.
Iterates(x, p, d, h, y) ==
  /\ p # d /\ x[d].pc = "free"
  /\ y[d] = h /\ Calls(h) /\ Alive(h)
  /\ h.child = NoExec /\ h.parent = p
  /\ y[p].child = d /\ Calls(y[p])
  /\ y[p].pc = x[p].pc /\ y[p].parent = x[p].parent
  /\ y[p].creq = x[p].creq /\ y[p].status = x[p].status
  /\ \A b \in Exec \ {p, d} :
       \/ y[b] = x[b]
       \/ b = x[p].child /\ y[b].pc = "done" /\ y[b].child = x[b].child /\ Calls(y[b])
  /\ x[p].pc \in Interrupted => Patient(x, p)

\* So does the beginning of an iteration.
LEMMA IterationNests ==
  ASSUME NEW x, NEW y, NEW p \in Exec, NEW d \in Exec, NEW h, Iterates(x, p, d, h, y),
         Nesting(x), Cardinality(Holders(x)) <= MaxConcurrent
  PROVE  Nesting(y)
<1> DEFINE e == x[p].child
<1>1. /\ p # d /\ x[d].pc = "free" /\ d \notin Holders(x)
      /\ y[d].child = NoExec /\ y[d].parent = p /\ Alive(y[d])
      /\ y[p].child = d /\ y[p].pc = x[p].pc /\ y[p].parent = x[p].parent
      /\ y[p].creq = x[p].creq /\ y[p].status = x[p].status
  BY DEF Iterates, Holders, Holding, InFlight
<1>2. \A b \in Exec \ {p, d} :
        /\ y[b].child = x[b].child
        /\ y[b] = x[b] \/ (b = e /\ y[b].pc = "done")
  <2> SUFFICES ASSUME NEW b \in Exec \ {p, d}
               PROVE  /\ y[b].child = x[b].child
                      /\ y[b] = x[b] \/ (b = e /\ y[b].pc = "done")
    OBVIOUS
  <2> QED BY DEF Iterates
<1>3. AllCalls(y)
  BY DEF Iterates, Nesting, AllCalls
<1>4. \A q \in Exec : x[q].child # NoExec =>
        /\ x[q].child \in Exec /\ x[q].child # q
        /\ Alive(x[x[q].child]) /\ x[x[q].child].parent = q
  BY DEF Nesting, Parents
<1>5. ~Alive(x[d])
  BY <1>1 DEF Alive
<1>6. \A q \in Exec \ {p, d} : x[q].child # NoExec =>
        /\ x[q].child \in Exec \ {q, d, e}
        /\ x[q].child # p => y[x[q].child] = x[x[q].child]
  <2> SUFFICES ASSUME NEW q \in Exec \ {p, d}, x[q].child # NoExec
               PROVE  /\ x[q].child \in Exec \ {q, d, e}
                      /\ x[q].child # p => y[x[q].child] = x[x[q].child]
    OBVIOUS
  <2> DEFINE c == x[q].child
  <2>1. c \in Exec /\ c # q /\ Alive(x[c]) /\ x[c].parent = q
    BY <1>4
  <2>2. c # d
    BY <1>5, <2>1
  <2>3. c # e
    BY <1>4, <2>1
  <2>4. c # p => y[c] = x[c]
    BY <1>2, <2>1, <2>2, <2>3
  <2> QED BY <2>1, <2>2, <2>3, <2>4
<1>7. Parents(y)
  <2> SUFFICES ASSUME NEW q \in Exec, y[q].child # NoExec
               PROVE  /\ y[q].child \in Exec \ {q}
                      /\ Alive(y[y[q].child])
                      /\ y[y[q].child].parent = q
    BY DEF Parents
  <2>1. CASE q = p
    BY <1>1, <2>1
  <2>2. CASE q = d
    BY <1>1, <2>2
  <2>3. CASE q # p /\ q # d
    <3> DEFINE c == x[q].child
    <3>1. y[q].child = c
      BY <1>2, <2>3
    <3>2. c \in Exec /\ c # q /\ Alive(x[c]) /\ x[c].parent = q /\ (c # p => y[c] = x[c])
      BY <1>4, <1>6, <2>3, <3>1
    <3>3. Alive(y[c]) /\ y[c].parent = q
      BY <1>1, <3>2 DEF Alive
    <3> QED BY <3>1, <3>2, <3>3
  <2> QED BY <2>1, <2>2, <2>3
<1>8. /\ p \in Holders(y) <=> p \in Holders(x)
      /\ \A b \in Exec \ {p, d} : b \in Holders(y) => b \in Holders(x) /\ y[b] = x[b]
      /\ \A b \in Exec \ {d} : b \in Holders(y) => b \in Holders(x)
  <2>1. p \in Holders(y) <=> p \in Holders(x)
    BY <1>1 DEF Holders
  <2>2. ASSUME NEW b \in Exec \ {p, d}, b \in Holders(y)
        PROVE  b \in Holders(x) /\ y[b] = x[b]
    BY <1>2, <2>2 DEF Holders, Holding, InFlight
  <2> QED BY <2>1, <2>2
<1>9. OrderStep(x, y, d)
  <2>1. Holders(y) \subseteq Holders(x) \cup {d}
    BY <1>8 DEF Holders
  <2>2. ASSUME NEW q \in Exec, Nested(y, q)
        PROVE  \/ Nested(x, q) /\ y[q].child = x[q].child
               \/ q \in Holders(x) /\ y[q].child = d /\ d \notin Holders(x)
    <3>1. q \in Holders(y) /\ y[q].child # NoExec /\ y[q].child \in Holders(y)
      BY <2>2 DEF Nested
    <3>2. q # d
      BY <1>1, <3>1
    <3>3. CASE q = p
      BY <1>1, <1>8, <3>1, <3>3
    <3>4. CASE q # p
      <4>1. q \in Holders(x) /\ y[q] = x[q]
        BY <1>8, <3>1, <3>2, <3>4
      <4>2. x[q].child \in Exec \ {d}
        BY <1>6, <3>1, <3>2, <3>4, <4>1
      <4>3. x[q].child \in Holders(x)
        BY <1>8, <3>1, <4>1, <4>2
      <4> QED BY <3>1, <4>1, <4>3 DEF Nested
    <3> QED BY <3>3, <3>4
  <2>3. ASSUME NEW q \in Exec, Patient(y, q)
        PROVE  Patient(x, q) \/ Nested(x, q)
    <3>1. /\ q \in Holders(y) /\ y[q].pc \in Interrupted /\ y[q].child # NoExec
          /\ ~y[y[q].child].creq /\ y[y[q].child].status # "cancelled"
      BY <2>3 DEF Patient
    <3>2. q # d
      BY <1>1, <3>1
    <3>3. CASE q = p
      BY <1>1, <3>1, <3>3 DEF Iterates
    <3>4. CASE q # p
      <4> DEFINE c == x[q].child
      <4>1. q \in Holders(x) /\ y[q] = x[q] /\ y[q].child = c
        BY <1>8, <3>1, <3>2, <3>4
      <4>2. c \in Exec /\ (c # p => y[c] = x[c])
        BY <1>6, <3>1, <3>2, <3>4, <4>1
      <4>3. ~x[c].creq /\ x[c].status # "cancelled"
        BY <1>1, <3>1, <4>1, <4>2
      <4> QED BY <3>1, <4>1, <4>3 DEF Patient
    <3> QED BY <3>3, <3>4
  <2> QED BY <2>1, <2>2, <2>3 DEF OrderStep
<1>10. Ordered(y)
  BY <1>9, OrderKept DEF Nesting
<1> QED BY <1>3, <1>7, <1>10 DEF Nesting

---------------------------------------------------------------------------
(* Every step keeps the nesting.                                           *)

\* No more executions hold a permit than there are permits.
LEMMA FewHolders ==
  ASSUME PermitInv
  PROVE  Cardinality(Holders(ex)) <= MaxConcurrent
<1>1. Tidy(sem) /\ Total(sem) + Cardinality(Holders(ex)) = MaxConcurrent
  BY DEF PermitInv, Accounted
<1>2. Holders(ex) \in SUBSET Exec
  BY DEF Holders
<1>3. sem.value \in Nat /\ sem.granted \in SUBSET Exec
  BY <1>1 DEF Tidy, Semaphore
<1>4. Cardinality(Holders(ex)) \in Nat /\ Cardinality(sem.granted) \in Nat
  BY <1>2, <1>3, Countable
<1> QED BY <1>1, <1>3, <1>4 DEF Total

\* No loop waits for an execution that has ended or not begun, or that is no
\* loop's.
LEMMA NobodyWaits ==
  ASSUME NEW x, Parents(x), NEW e \in Exec, ~Alive(x[e]) \/ x[e].parent = NoExec
  PROVE  Childless(x, e)
<1> SUFFICES ASSUME NEW p \in Exec, x[p].child = e PROVE FALSE
  BY DEF Childless
<1>1. e # NoExec /\ p # NoExec
  BY DEF Exec, NoExec
<1> QED BY <1>1 DEF Parents

\* Where the loops stand before a step.
Standing == IInv /\ PermitInv /\ Fresh(ex) /\ Nesting(ex)

\* A segment of an execution that holds a permit.
LEMMA SegmentNests ==
  ASSUME Standing, SegmentKind
  PROVE  Nesting(ex')
<1>1. PICK e \in Exec, f \in Frames :
        /\ ex[e].pc \in Holding
        /\ Settle(e, f, sem)
        /\ f.pc \in {"acting", "backoff", "saving"}
        /\ Calls(ex[e]) => Calls(f)
        /\ f.parent = ex[e].parent /\ f.child \in {ex[e].child, NoExec}
  BY DEF SegmentKind
<1>2. Becomes(ex, e, f, ex')
  BY <1>1, TypedFrames DEF Becomes, Settle, Standing
<1>3. e \in Holders(ex) /\ Alive(f) /\ f.pc \notin Interrupted
  BY <1>1 DEF Holders, Alive, Interrupted
<1>4. Calls(f)
  BY <1>1 DEF Standing, Nesting, AllCalls
<1>5. Moves(ex, e, f, ex')
  BY <1>1, <1>2, <1>3, <1>4 DEF Moves
<1> QED BY <1>5, MoveNests, FewHolders DEF Standing

\* An execution that queues, or has not begun, runs no loop yet.
LEMMA QueuedAlone ==
  ASSUME Standing, NEW e \in Exec, ex[e].pc \in {"free", "waiting"}
  PROVE  ex[e].child = NoExec /\ ex[e].call = "none"
<1>1. Sound(ex[e]) /\ Calls(ex[e])
  BY TypedFrames DEF Standing, Nesting, AllCalls
<1>2. ex[e].call = "none"
  BY <1>1 DEF Sound
<1> QED BY <1>1, <1>2 DEF Calls

\* A woken waiter that runs,
LEMMA AcquiredNests ==
  ASSUME Standing, NEW e \in Exec, Acquired(e)
  PROVE  Nesting(ex')
<1> DEFINE f == EnterFlow(ex[e])
<1>1. /\ Sound(ex[e]) /\ ex[e].pc = "waiting" /\ ~ex[e].creq
      /\ ex' = [ex EXCEPT ![e] = f] /\ ex \in [Exec -> Frames]
  BY TypedFrames DEF Acquired, Settle, Standing
<1>2. Walking(ex[e])
  BY <1>1 DEF Walking, Sound, InFlight
<1>3. ex[e].child = NoExec /\ ex[e].status # "cancelled"
  BY <1>1, <1>2, QueuedAlone DEF Walking
<1>4. Settled(ex[e], f) /\ f.child = NoExec /\ (f.pc = "acting" => f.call = "running")
  BY <1>2, <1>3, EnterFlowSettles, EnterChild
<1> HIDE DEF f
<1>5. /\ f.pc \in {"acting", "saving"} /\ f.parent = ex[e].parent /\ Alive(f)
      /\ f.pc \notin Interrupted
  BY <1>4 DEF Settled, Alive, Interrupted
<1>6. Calls(f)
  BY <1>4, <1>5 DEF Calls, Interrupted
<1>7. Becomes(ex, e, f, ex')
  BY <1>1 DEF Becomes
<1>8. Moves(ex, e, f, ex')
  BY <1>1, <1>3, <1>4, <1>5, <1>6, <1>7 DEF Moves
<1> QED BY <1>8, MoveNests, FewHolders DEF Standing

\* and one that was cancelled.
LEMMA AcquireCancelledNests ==
  ASSUME Standing, NEW e \in Exec, AcquireCancelled(e)
  PROVE  Nesting(ex')
<1> DEFINE f == Cancelled(ex[e])
<1>1. /\ Sound(ex[e]) /\ ex[e].pc = "waiting"
      /\ ex' = [ex EXCEPT ![e] = f] /\ ex \in [Exec -> Frames]
  BY TypedFrames DEF AcquireCancelled, Standing
<1>2. ex[e].child = NoExec
  BY <1>1, QueuedAlone
<1>3. /\ f.pc = "saving" /\ f.status = "cancelled" /\ f.parent = ex[e].parent
      /\ f.child = NoExec
  BY <1>1, <1>2, CancelledSound
<1> HIDE DEF f
<1>4. Calls(f) /\ Alive(f) /\ f.pc \notin Holding /\ f.pc \notin Interrupted
  BY <1>3 DEF Calls, Interrupted, Alive, Holding, InFlight
<1>5. Becomes(ex, e, f, ex')
  BY <1>1 DEF Becomes
<1>6. Moves(ex, e, f, ex')
  BY <1>2, <1>3, <1>4, <1>5 DEF Moves
<1> QED BY <1>6, MoveNests, FewHolders DEF Standing

\* A call ends that no iteration runs in.
LEMMA CallOverNests ==
  ASSUME Standing, NEW e \in Exec, NEW answer \in Ended, ex[e].child = NoExec,
         ex' = [ex EXCEPT ![e].call = answer]
  PROVE  Nesting(ex')
<1> DEFINE f == [ex[e] EXCEPT !.call = answer]
<1>1. ex \in [Exec -> Frames] /\ ex[e] \in Frames
  BY TypedFrames DEF Standing
<1>2. /\ f.pc = ex[e].pc /\ f.status = ex[e].status /\ f.creq = ex[e].creq
      /\ f.parent = ex[e].parent /\ f.child = NoExec /\ f.call = answer
  BY <1>1 DEF Frames
<1>3. ex' = [ex EXCEPT ![e] = f]
  BY <1>1
<1> HIDE DEF f
<1>4. Becomes(ex, e, f, ex')
  BY <1>1, <1>3 DEF Becomes
<1>5. answer # "running"
  BY DEF Ended, Succeeding
<1>6. Calls(f)
  BY <1>2, <1>5 DEF Calls
<1>7. Alive(f) \/ Childless(ex, e)
  BY <1>2, NobodyWaits DEF Alive, Standing, Nesting
<1>8. f.pc \in Holding => e \in Holders(ex)
  BY <1>2 DEF Holders
<1>9. Moves(ex, e, f, ex')
  BY <1>2, <1>4, <1>6, <1>7, <1>8 DEF Moves
<1> QED BY <1>9, MoveNests, FewHolders DEF Standing

Requests(x, e, y) == x \in [Exec -> Frames] /\ y = [x EXCEPT ![e].creq = TRUE]

\* A cancel is requested.
LEMMA RequestNests ==
  ASSUME NEW x, NEW e \in Exec, NEW y, Requests(x, e, y), Nesting(x),
         Cardinality(Holders(x)) <= MaxConcurrent
  PROVE  Nesting(y) /\ Holders(y) = Holders(x)
<1> DEFINE f == [x[e] EXCEPT !.creq = TRUE]
<1>0. x \in [Exec -> Frames] /\ y = [x EXCEPT ![e].creq = TRUE]
  BY DEF Requests
<1>1. /\ f.pc = x[e].pc /\ f.status = x[e].status /\ f.creq = TRUE
      /\ f.parent = x[e].parent /\ f.child = x[e].child /\ f.call = x[e].call
      /\ NodeOf(f) = NodeOf(x[e])
  BY <1>0 DEF Frames, NodeOf
<1>2. y = [x EXCEPT ![e] = f]
  BY <1>0
<1> HIDE DEF f
<1>3. Becomes(x, e, f, y)
  BY <1>0, <1>2 DEF Becomes
<1>4. Calls(x[e])
  BY DEF Nesting, AllCalls
<1>5. Calls(f)
  BY <1>1, <1>4 DEF Calls
<1>6. Alive(f) \/ Childless(x, e)
  BY <1>1, NobodyWaits DEF Alive, Nesting
<1>7. /\ f.pc \in Holding => e \in Holders(x)
      /\ f.pc \in Interrupted => e \in Holders(x) /\ x[e].pc \in Interrupted
  BY <1>1 DEF Holders, Interrupted, Holding, InFlight
<1>8. Moves(x, e, f, y)
  BY <1>1, <1>3, <1>5, <1>6, <1>7 DEF Moves
<1>9. Nesting(y)
  BY <1>8, MoveNests
<1>10. \A b \in Exec : y[b].pc = x[b].pc
  BY <1>0, <1>1, <1>2
<1> QED BY <1>9, <1>10 DEF Holders

\* The wait for a call is interrupted.
LEMMA InterruptNests ==
  ASSUME Standing, NEW e \in Exec, NEW pc \in Interrupted, Interrupt(e, pc)
  PROVE  Nesting(ex')
<1> DEFINE c == ex[e].child
<1>1. /\ ex \in [Exec -> Frames] /\ ex[e] \in Frames
      /\ ex[e].pc = "acting" /\ ex[e].call = "running"
      /\ Cardinality(Holders(ex)) <= MaxConcurrent
      /\ pc \in Holding /\ pc \notin {"free", "done", "acting"}
  BY TypedFrames, FewHolders DEF Interrupt, Interruptible, Standing, Interrupted,
     Holding, InFlight
<1>2. e \in Holders(ex)
  BY <1>1 DEF Holders, Holding, InFlight
<1>3. CASE c = NoExec
  <2> DEFINE f == [ex[e] EXCEPT !.pc = pc, !.creq = FALSE, !.call = "stopping"]
  <2>1. ex' = [ex EXCEPT ![e] = f]
    BY <1>1, <1>3 DEF Interrupt
  <2>2. /\ f.pc = pc /\ f.parent = ex[e].parent /\ f.child = NoExec /\ f.call = "stopping"
    BY <1>1, <1>3 DEF Frames
  <2> HIDE DEF f
  <2>3. Calls(f) /\ Alive(f)
    BY <1>1, <2>2 DEF Calls, Alive
  <2>4. Becomes(ex, e, f, ex')
    BY <1>1, <2>1 DEF Becomes
  <2>5. Moves(ex, e, f, ex')
    BY <1>2, <2>2, <2>3, <2>4 DEF Moves
  <2> QED BY <1>1, <2>5, MoveNests DEF Standing
<1>4. CASE c # NoExec
  <2> DEFINE y == [ex EXCEPT ![c].creq = TRUE]
             f == [ex[e] EXCEPT !.pc = pc, !.creq = FALSE]
  <2>1. c \in Exec /\ c # e
    BY <1>4 DEF Standing, Nesting, Parents
  <2>2. y \in [Exec -> Frames]
    <3>1. [ex[c] EXCEPT !.creq = TRUE] \in Frames
      BY <1>1, <2>1 DEF Frames
    <3> QED BY <1>1, <2>1, <3>1
  <2>3. y[e] = ex[e] /\ y[c].creq = TRUE
    BY <1>1, <2>1 DEF Frames
  <2>4. ex' = [y EXCEPT ![e] = f]
    BY <1>1, <1>4, <2>1 DEF Interrupt
  <2>11. Requests(ex, c, y) /\ Nesting(ex)
    BY <1>1 DEF Standing, Requests
  <2>6. /\ f.pc = pc /\ f.parent = ex[e].parent /\ f.child = c /\ f.call = "running"
        /\ NodeOf(f) = NodeOf(ex[e])
    BY <1>1 DEF Frames, NodeOf
  <2> HIDE DEF f, y
  <2>5. Nesting(y) /\ Holders(y) = Holders(ex)
    BY <1>1, <2>1, <2>11, RequestNests
  <2>7. Calls(ex[e])
    BY DEF Standing, Nesting, AllCalls
  <2>8. Calls(f) /\ Alive(f)
    BY <1>1, <1>4, <2>6, <2>7 DEF Calls, Alive
  <2>9. Becomes(y, e, f, ex')
    BY <2>2, <2>4 DEF Becomes
  <2>10. Moves(y, e, f, ex')
    BY <1>2, <2>3, <2>5, <2>6, <2>8, <2>9 DEF Moves
  <2> QED BY <1>1, <2>5, <2>10, MoveNests
<1> QED BY <1>3, <1>4

\* A new execution, of the loop p or of nobody.
Born(f, p) == Calls(f) /\ Alive(f) /\ f.child = NoExec /\ f.parent = p

\* What begins is new, over the frames as its beginner leaves them.
LEMMA BeginBorn ==
  ASSUME NEW x \in [Exec -> Frames], NEW d \in Exec, NEW w \in DOMAIN Flows,
         NEW p \in Exec \cup {NoExec}, NEW depth \in Nat, NEW max \in Nat,
         Begin(x, d, w, p, depth, max)
  PROVE  \E h : Born(h, p) /\ Becomes(x, d, h, ex')
<1> DEFINE f == NewFrame(w, p, depth, max)
           g == EnterFlow(f)
<1>1. Starts(f, p)
  BY NewFrameStarts, Zenon
<1>2. f.child = NoExec
  BY DEF NewFrame
<1>3. ex' = [x EXCEPT ![d] = f] \/ ex' = [x EXCEPT ![d] = g]
  BY DEF Begin
<1> HIDE DEF f
<1>4. Born(f, p)
  BY <1>1, <1>2 DEF Starts, Born, Calls, Interrupted, Alive
<1>5. Settled(f, g) /\ g.child = NoExec /\ (g.pc = "acting" => g.call = "running")
  BY <1>1, <1>2, EnterChild DEF Starts
<1> HIDE DEF g
<1>6. Born(g, p)
  BY <1>1, <1>5 DEF Starts, Settled, Born, Calls, Interrupted, Alive
<1>7. Becomes(x, d, f, ex') \/ Becomes(x, d, g, ex')
  BY <1>3 DEF Becomes
<1> QED BY <1>4, <1>6, <1>7

\* An execution from outside.
LEMMA StartTopNests ==
  ASSUME Standing, NEW w \in DOMAIN Flows, NEW d \in Exec, StartTop(w, d)
  PROVE  Nesting(ex')
<1>1. /\ ex \in [Exec -> Frames] /\ Flows[w].maxIter \in Nat /\ 0 \in Nat
      /\ NoExec \in Exec \cup {NoExec} /\ ex[d].pc = "free"
      /\ Begin(ex, d, w, NoExec, 0, Flows[w].maxIter)
  BY TypedFrames, FlowsTyped DEF FlowsAssumption, Standing, StartTop, IsFresh
<1>2. PICK h : Born(h, NoExec) /\ Becomes(ex, d, h, ex')
  BY <1>1, BeginBorn
<1>3. ex[d].child = NoExec
  BY <1>1, QueuedAlone
<1>4. Childless(ex, d)
  BY <1>1, NobodyWaits DEF Alive, Standing, Nesting
<1>5. Moves(ex, d, h, ex')
  BY <1>2, <1>3, <1>4 DEF Moves, Born
<1> QED BY <1>5, MoveNests, FewHolders DEF Standing

\* A loop that has loaded its sub-workflow.
LEMMA LoopLoadedNests ==
  ASSUME Standing, NEW e \in Exec, NEW d \in Exec, LoopLoaded(e, d)
  PROVE  Nesting(ex')
<1> DEFINE n == NodeOf(ex[e])
           g == [ex[e] EXCEPT !.child = d, !.item = 1]
           x == [ex EXCEPT ![e].child = d, ![e].item = 1]
<1>1. /\ ex \in [Exec -> Frames] /\ ex[e] \in Frames /\ Sound(ex[e]) /\ Calls(ex[e])
      /\ ex[e].call = "running" /\ ex[e].child = NoExec /\ n.kind = "loop"
  BY TypedFrames DEF LoopLoaded, CallOpen, Standing, Nesting, AllCalls
<1>2. n \in NodeDefs
  BY <1>1, NodeIsTyped
<1>3. CASE n.items = 0
  <2>1. ex' = [ex EXCEPT ![e].call = "ok"]
    BY <1>3 DEF LoopLoaded
  <2> QED BY <1>1, <2>1, CallOverNests DEF Ended, Succeeding
<1>4. CASE n.items > 0
  <2>1. /\ Begin(x, d, n.sub, e, ex[e].depth + 1, n.subMax)
        /\ ex[d].pc = "free" /\ n.sub \in DOMAIN Flows
    BY <1>2, <1>4 DEF LoopLoaded, IsFresh, NodeDefs
  <2>2. d # e
    BY <1>1, <2>1 DEF Sound
  <2>3. x = [ex EXCEPT ![e] = g]
    BY <1>1 DEF Frames
  <2>4. /\ g \in Frames /\ g.child = d /\ g.call = "running" /\ g.pc = ex[e].pc
        /\ g.parent = ex[e].parent /\ g.creq = ex[e].creq /\ g.status = ex[e].status
        /\ NodeOf(g) = n
    <3>1. g \in Frames
      BY <1>1 DEF Frames
    <3> QED BY <1>1, <3>1 DEF Frames, NodeOf
  <2>5. ex[e].depth + 1 \in Nat /\ n.subMax \in Nat
    BY <1>1, <1>2 DEF Frames, NodeDefs
  <2> HIDE DEF g, x, n
  <2>6. x \in [Exec -> Frames] /\ x[e] = g /\ \A b \in Exec : b # e => x[b] = ex[b]
    BY <1>1, <2>3, <2>4
  <2>7. PICK h : Born(h, e) /\ Becomes(x, d, h, ex')
    BY <2>1, <2>5, <2>6, BeginBorn
  <2>8. ex'[d] = h /\ ex'[e] = g /\ \A b \in Exec \ {e, d} : ex'[b] = ex[b]
    BY <2>2, <2>6, <2>7 DEF Becomes
  <2>9. d # NoExec
    BY DEF Exec, NoExec
  <2>10. Calls(g)
    BY <1>1, <2>4, <2>9 DEF Calls
  <2>11. ex[e].pc \notin Interrupted
    BY <1>1 DEF Calls
  <2>12. Iterates(ex, e, d, h, ex')
    BY <2>1, <2>2, <2>4, <2>7, <2>8, <2>10, <2>11 DEF Iterates, Born
  <2> QED BY <2>12, IterationNests, FewHolders DEF Standing
<1> QED BY <1>2, <1>3, <1>4 DEF NodeDefs

\* An execution returns to nobody, or into the call of the loop that runs it.
LEMMA ReturnNests ==
  ASSUME Standing, NEW e \in Exec, NEW g \in Frames, NEW answer \in Ended,
         ex[e].pc = "saving", g.pc = "done", Calls(g), g.child = ex[e].child,
         LET p == ex[e].parent
             frames == [ex EXCEPT ![e] = g]
         IN  ex' = IF p = NoExec THEN frames ELSE CallEnds(frames, p, answer)
  PROVE  Nesting(ex')
<1> DEFINE p == ex[e].parent
<1>1. /\ ex \in [Exec -> Frames] /\ Cardinality(Holders(ex)) <= MaxConcurrent
      /\ Nesting(ex) /\ p \in Exec \cup {NoExec}
  BY TypedFrames, FewHolders DEF Standing, Frames
<1>2. g.pc \notin Holding /\ g.pc \notin Interrupted
  BY DEF Holding, InFlight, Interrupted
<1>3. CASE p = NoExec
  <2>1. Becomes(ex, e, g, ex')
    BY <1>1, <1>3 DEF Becomes
  <2>2. Childless(ex, e)
    BY <1>1, <1>3, NobodyWaits DEF Nesting
  <2>3. Moves(ex, e, g, ex')
    BY <1>2, <2>1, <2>2 DEF Moves
  <2> QED BY <1>1, <2>3, MoveNests
<1>4. CASE p # NoExec
  <2> DEFINE k == [ex[p] EXCEPT !.call = answer, !.child = NoExec]
             y == [ex EXCEPT ![p] = k]
  <2>1. p \in Exec /\ p # e /\ ex[p].child = e /\ ex[p] \in Frames
    BY <1>1, <1>4 DEF Standing, IInv, Linked
  <2>2. /\ k.pc = ex[p].pc /\ k.status = ex[p].status /\ k.creq = ex[p].creq
        /\ k.parent = ex[p].parent /\ k.child = NoExec /\ k.call = answer
    BY <2>1 DEF Frames
  <2>3. k \in Frames
    BY <2>1 DEF Frames, CallStates
  <2>4. ex' = [y EXCEPT ![e] = g]
    BY <1>1, <1>4, <2>1 DEF CallEnds
  <2> HIDE DEF k
  <2>5. y \in [Exec -> Frames] /\ Becomes(ex, p, k, y)
    BY <1>1, <2>1, <2>3 DEF Becomes
  <2>6. y[p] = k /\ \A b \in Exec : b # p => y[b] = ex[b]
    BY <1>1, <2>1
  <2> HIDE DEF y, p
  <2>7. answer # "running"
    BY DEF Ended, Succeeding
  <2>8. Calls(k)
    <3>1. Calls(ex[p])
      BY <1>1, <2>1 DEF Nesting, AllCalls
    <3> QED BY <2>2, <2>7, <3>1 DEF Calls
  <2>9. Alive(k) \/ Childless(ex, p)
    BY <1>1, <2>1, <2>2, NobodyWaits DEF Alive, Nesting
  <2>10. Moves(ex, p, k, y)
    <3>1. k.pc \in Holding => p \in Holders(ex)
      BY <2>1, <2>2 DEF Holders
    <3> QED BY <2>2, <2>5, <2>8, <2>9, <3>1 DEF Moves
  <2>11. Nesting(y)
    BY <1>1, <2>1, <2>10, MoveNests
  <2>12. Holders(y) = Holders(ex)
    BY <2>2, <2>6 DEF Holders
  <2>13. Childless(y, e)
    <3> SUFFICES ASSUME NEW q \in Exec, y[q].child = e PROVE FALSE
      BY DEF Childless
    <3>1. e # NoExec
      BY DEF Exec, NoExec
    <3>2. q # p
      BY <2>2, <2>6, <3>1
    <3>3. ex[q].child = e
      BY <2>6, <3>2
    <3>4. ex[e].parent = q
      BY <1>1, <3>1, <3>3 DEF Nesting, Parents
    <3> QED BY <3>2, <3>4 DEF p
  <2>14. Becomes(y, e, g, ex') /\ y[e] = ex[e]
    BY <2>1, <2>4, <2>5, <2>6 DEF Becomes
  <2>15. Moves(y, e, g, ex')
    BY <1>2, <2>13, <2>14 DEF Moves
  <2> QED BY <1>1, <2>11, <2>12, <2>15, MoveNests
<1> QED BY <1>3, <1>4

\* An execution that returns, or is cancelled while it saves.
LEMMA EndNests ==
  ASSUME Standing, NEW e \in Exec, NEW written \in BOOLEAN,
         TopReturns(e, written) \/ SaveCancelled(e, written)
  PROVE  Nesting(ex')
<1> DEFINE g == [ex[e] EXCEPT !.pc = "done"]
           h == [ex[e] EXCEPT !.pc = "done", !.creq = FALSE]
           p == ex[e].parent
<1>1. /\ ex \in [Exec -> Frames] /\ ex[e] \in Frames /\ ex[e].pc = "saving"
      /\ Calls(ex[e]) /\ "cancelled" \in Ended
  BY TypedFrames DEF TopReturns, SaveCancelled, Standing, Nesting, AllCalls, Ended
<1>2. ASSUME NEW k, k \in {g, h}
      PROVE  /\ k \in Frames /\ k.pc = "done" /\ k.child = ex[e].child
             /\ k.call = ex[e].call /\ NodeOf(k) = NodeOf(ex[e])
  BY <1>1, <1>2 DEF Frames, Pcs, NodeOf
<1>3. ASSUME NEW k, k \in {g, h}
      PROVE  k \in Frames /\ k.pc = "done" /\ k.child = ex[e].child /\ Calls(k)
  <2>1. /\ k \in Frames /\ k.pc = "done" /\ k.child = ex[e].child
        /\ k.call = ex[e].call /\ NodeOf(k) = NodeOf(ex[e])
    BY <1>2, <1>3
  <2> QED BY <1>1, <2>1 DEF Calls, Interrupted
<1>4. CASE TopReturns(e, written)
  <2>1. p = NoExec /\ ex' = [ex EXCEPT ![e] = g]
    BY <1>4 DEF TopReturns
  <2> HIDE DEF g, h
  <2>2. ex' = IF p = NoExec THEN [ex EXCEPT ![e] = g]
              ELSE CallEnds([ex EXCEPT ![e] = g], p, "cancelled")
    BY <2>1
  <2> QED BY <1>1, <1>3, <2>2, ReturnNests
<1>5. CASE SaveCancelled(e, written)
  <2>1. ex' = IF p = NoExec THEN [ex EXCEPT ![e] = h]
              ELSE CallEnds([ex EXCEPT ![e] = h], p, "cancelled")
    BY <1>1, <1>5 DEF SaveCancelled
  <2> HIDE DEF g, h
  <2> QED BY <1>1, <1>3, <2>1, ReturnNests
<1> QED BY <1>4, <1>5

\* An iteration returns, and its loop ends or begins the next one.
LEMMA IterationReturnNests ==
  ASSUME Standing, NEW e \in Exec, NEW d \in Exec, NEW written \in BOOLEAN,
         IterationReturns(e, d, written)
  PROVE  Nesting(ex')
<1> DEFINE p == ex[e].parent
           g == [ex[e] EXCEPT !.pc = "done"]
           frames == [ex EXCEPT ![e] = g]
           x == [[ex EXCEPT ![e].pc = "done"] EXCEPT ![p].child = d, ![p].item = @ + 1]
<1>1. /\ ex \in [Exec -> Frames] /\ ex[e] \in Frames
      /\ ex[e].pc = "saving" /\ ~ex[e].creq /\ p \in Exec /\ p # e
      /\ ex[p] \in Frames /\ Sound(ex[p]) /\ ex[p].child = e /\ ex[p].call = "running"
      /\ \A b \in Exec : Calls(ex[b])
  BY TypedFrames DEF IInv, Linked, Frames, IterationReturns, Standing, Nesting, AllCalls
<1>2. /\ g \in Frames /\ g.pc = "done" /\ g.child = ex[e].child
      /\ g.call = ex[e].call /\ NodeOf(g) = NodeOf(ex[e])
  BY <1>1 DEF Frames, Pcs, NodeOf
<1>3. Calls(g)
  <2> HIDE DEF g
  <2> QED BY <1>1, <1>2 DEF Calls, Interrupted
<1>4. \/ \E answer \in Ended : ex' = CallEnds(frames, p, answer)
      \/ /\ Begin(x, d, ex[e].wf, p, ex[e].depth, ex[e].maxIter)
         /\ ex[d].pc = "free" /\ ex[e].status # "cancelled"
  BY <1>1 DEF IterationReturns, IsFresh, Ended, Succeeding
<1>5. ASSUME NEW answer \in Ended, ex' = CallEnds(frames, p, answer)
      PROVE  Nesting(ex')
  <2>1. p # NoExec
    BY <1>1 DEF Exec, NoExec
  <2> HIDE DEF g
  <2> QED BY <1>1, <1>2, <1>3, <1>5, <2>1, ReturnNests
<1>6. CASE /\ Begin(x, d, ex[e].wf, p, ex[e].depth, ex[e].maxIter)
           /\ ex[d].pc = "free" /\ ex[e].status # "cancelled"
  <2> DEFINE k == [ex[p] EXCEPT !.child = d, !.item = @ + 1]
  <2>1. d # e /\ d # p
    BY <1>1, <1>6 DEF Sound
  <2>2. k \in Frames
    <3>1. ex[p].item + 1 \in Nat
      BY <1>1 DEF Frames
    <3> QED BY <1>1, <3>1 DEF Frames
  <2>3. /\ k.child = d /\ k.call = "running" /\ k.pc = ex[p].pc
        /\ k.parent = ex[p].parent /\ k.creq = ex[p].creq /\ k.status = ex[p].status
        /\ NodeOf(k) = NodeOf(ex[p])
    BY <1>1 DEF Frames, NodeOf
  <2>4. x = [frames EXCEPT ![p] = k]
    <3>1. x = [frames EXCEPT ![p] = [frames[p] EXCEPT !.child = d, !.item = @ + 1]]
      BY <1>1
    <3>2. frames[p] = ex[p]
      BY <1>1
    <3> QED BY <3>1, <3>2
  <2>5. /\ frames \in [Exec -> Frames] /\ frames[e] = g
        /\ \A b \in Exec : b # e => frames[b] = ex[b]
    BY <1>1, <1>2
  <2> HIDE DEF k, g, frames, x
  <2>6. x \in [Exec -> Frames] /\ x[p] = k /\ \A b \in Exec : b # p => x[b] = frames[b]
    BY <1>1, <2>2, <2>4, <2>5
  <2>7. ex[e].wf \in DOMAIN Flows /\ ex[e].depth \in Nat /\ ex[e].maxIter \in Nat
    BY <1>1 DEF Frames
  <2>8. PICK h : Born(h, p) /\ Becomes(x, d, h, ex')
    BY <1>1, <1>6, <2>6, <2>7, BeginBorn
  <2>9. /\ ex'[d] = h /\ ex'[p] = k /\ ex'[e] = g
        /\ \A b \in Exec \ {p, d} : b # e => ex'[b] = ex[b]
    BY <1>1, <2>1, <2>5, <2>6, <2>8 DEF Becomes
  <2>10. Calls(k)
    <3>1. Calls(ex[p]) /\ e # NoExec /\ d # NoExec
      BY <1>1 DEF Exec, NoExec
    <3> QED BY <1>1, <2>3, <3>1 DEF Calls
  <2>11. ex[p].pc \in Interrupted => Patient(ex, p)
    <3>1. e # NoExec /\ (ex[p].pc \in Interrupted => p \in Holders(ex))
      BY <1>1 DEF Exec, NoExec, Holders, Interrupted, Holding, InFlight
    <3> QED BY <1>1, <1>6, <3>1 DEF Patient
  <2>12. \A b \in Exec \ {p, d} :
           \/ ex'[b] = ex[b]
           \/ /\ b = ex[p].child /\ ex'[b].pc = "done" /\ ex'[b].child = ex[b].child
              /\ Calls(ex'[b])
    <3> SUFFICES ASSUME NEW b \in Exec \ {p, d}, ex'[b] # ex[b]
                 PROVE  /\ b = ex[p].child /\ ex'[b].pc = "done"
                        /\ ex'[b].child = ex[b].child /\ Calls(ex'[b])
      OBVIOUS
    <3>1. b = e
      BY <2>9
    <3> QED BY <1>1, <1>2, <1>3, <2>9, <3>1
  <2>13. Iterates(ex, p, d, h, ex')
    BY <1>6, <2>1, <2>3, <2>8, <2>9, <2>10, <2>11, <2>12 DEF Iterates, Born
  <2> HIDE DEF p
  <2> QED BY <1>1, <2>13, IterationNests, FewHolders DEF Standing
<1> QED BY <1>4, <1>5, <1>6

\* Every step keeps the nesting.
LEMMA StepNests ==
  ASSUME Standing, [Next]_vars
  PROVE  Nesting(ex')
<1>1. ASSUME NEW e \in Exec, Scheduled(e)
      PROVE  Nesting(ex')
  <2>1. ASSUME SegmentKind PROVE Nesting(ex')
    BY <2>1, SegmentNests
  <2>2. ASSUME NEW a \in Ended, HandlerStopped(e, a) \/ HandlerEnds(e, a)
        PROVE  Nesting(ex')
    BY <2>2, CallOverNests DEF HandlerStopped, HandlerEnds, CallOpen
  <2>3. CASE TimeoutFires(e) \/ CancelDelivered(e)
    BY <2>3, InterruptNests DEF TimeoutFires, CancelDelivered, Interrupted
  <2>4. CASE \/ NodeSucceeded(e) \/ StopReached(e) \/ ErrorThrown(e)
             \/ AttemptFailed(e) \/ NodeGaveUp(e) \/ BackoffOver(e) \/ CancelRaised(e)
    BY <2>1, <2>4, NodeSucceededSegment, StopReachedSegment, ErrorThrownSegment,
       AttemptFailedSegment, NodeGaveUpSegment, BackoffOverSegment,
       CancelRaisedSegment DEF Standing
  <2>5. ASSUME NEW written \in BOOLEAN,
               TopReturns(e, written) \/ SaveCancelled(e, written)
        PROVE  Nesting(ex')
    BY <2>5, EndNests
  <2>6. ASSUME NEW written \in BOOLEAN, NEW d \in Exec, IterationReturns(e, d, written)
        PROVE  Nesting(ex')
    BY <2>6, IterationReturnNests
  <2>7. CASE Acquired(e)
    BY <2>7, AcquiredNests
  <2>8. CASE AcquireCancelled(e)
    BY <2>8, AcquireCancelledNests
  <2> QED BY <1>1, <2>2, <2>3, <2>4, <2>5, <2>6, <2>7, <2>8 DEF Scheduled
<1>2. ASSUME NEW e \in Exec, Unscheduled(e)
      PROVE  Nesting(ex')
  <2>1. ASSUME NEW w \in DOMAIN Flows, StartTop(w, e) PROVE Nesting(ex')
    BY <2>1, StartTopNests
  <2>2. ASSUME NEW a \in Ended, HandlerEnds(e, a) PROVE Nesting(ex')
    BY <2>2, CallOverNests DEF HandlerEnds, CallOpen
  <2>3. ASSUME NEW d \in Exec, LoopLoaded(e, d) PROVE Nesting(ex')
    BY <2>3, LoopLoadedNests
  <2>4. CASE CancelWorkflow(e) \/ CancelTop(e)
    <3>1. Requests(ex, e, ex')
      BY <2>4, TypedFrames DEF CancelWorkflow, CancelTop, RequestCancel, Requests, Standing
    <3> QED BY <3>1, RequestNests, FewHolders DEF Standing
  <2> QED BY <1>2, <2>1, <2>2, <2>3, <2>4 DEF Unscheduled
<1>3. CASE UNCHANGED vars
  <2>1. ex' = ex
    BY <1>3 DEF vars
  <2> QED BY <2>1 DEF Standing
<1> QED BY <1>1, <1>2, <1>3 DEF Next

\* At the start nobody holds a permit and nobody runs a loop.
LEMMA InitNests == Init => Nesting(ex)
<1> SUFFICES ASSUME Init PROVE Nesting(ex)
  OBVIOUS
<1>1. \A e \in Exec : ex[e].pc = "free" /\ ex[e].child = NoExec
  BY DEF Init, NewFrame
<1>2. AllCalls(ex) /\ Parents(ex)
  BY <1>1 DEF AllCalls, Calls, Interrupted, Parents
<1>3. Holders(ex) = {}
  BY <1>1 DEF Holders, Holding, InFlight
<1>4. Ranked(ex, [e \in Exec |-> 0], 1)
  BY <1>3 DEF Ranked, Nested, Patient
<1>5. [e \in Exec |-> 0] \in [Exec -> Nat] /\ 1 \in Nat
  OBVIOUS
<1> QED BY <1>2, <1>4, <1>5 DEF Nesting, Ordered

\* A loop always waits for an iteration that runs, and the permits that loops
\* and their iterations hold can be put in an order.
THEOREM LoopsNest == Spec => []Nesting(ex)
<1>1. Init => Nesting(ex)
  BY InitNests
<1>2. ASSUME IInv, CountInv, Nesting(ex), [Next]_vars PROVE Nesting(ex)'
  BY <1>2, StepNests DEF Standing, CountInv
<1>3. IInv /\ CountInv /\ Nesting(ex) /\ [Next]_vars => Nesting(ex)'
  BY <1>2
<1> QED BY <1>1, <1>3, Inductive, Accounts, PTL DEF Spec

---------------------------------------------------------------------------
(* Somebody can always go on.                                              *)

\* A set of numbers has a least one.
LEMMA LeastOf ==
  ASSUME NEW S, S \subseteq Nat, S # {}
  PROVE  \E m \in S : \A n \in S : m <= n
<1>1. \E R : /\ IsWellFoundedOn(R, Nat)
             /\ \A k, n \in Nat : k < n => <<k, n>> \in R
  <2> DEFINE R == {ss \in Nat \X Nat : ss[1] < ss[2]}
  <2>1. R = OpToRel(<, Nat)
    BY Zenon DEF OpToRel
  <2>2. IsWellFoundedOn(R, Nat)
    BY <2>1, NatLessThanWellFounded, Zenon
  <2>3. \A k, n \in Nat : k < n => <<k, n>> \in R
    OBVIOUS
  <2> HIDE DEF R
  <2> QED BY <2>2, <2>3
<1>2. PICK R : /\ IsWellFoundedOn(R, Nat)
               /\ \A k, n \in Nat : k < n => <<k, n>> \in R
  BY <1>1
<1>3. IsWellFoundedOn(R, Nat)
  BY <1>2
<1>4. PICK m \in S : \A n \in S : ~(<<n, m>> \in R)
  BY <1>3, WFMin
<1>5. ASSUME NEW n \in S PROVE m <= n
  <2>1. ~(n < m) /\ n \in Nat /\ m \in Nat
    BY <1>2, <1>4
  <2> QED BY <2>1
<1> QED BY <1>5

\* Somebody who holds a permit got it last.
LEMMA LastHolder ==
  ASSUME NEW x, NEW rank, NEW top \in Nat, rank \in [Exec -> Nat],
         Ranked(x, rank, top), Holders(x) # {}
  PROVE  \E h \in Holders(x) : \A p \in Holders(x) : rank[p] <= rank[h]
<1> DEFINE S == {top - rank[h] : h \in Holders(x)}
<1>1. \A h \in Holders(x) : h \in Exec /\ rank[h] \in Nat /\ rank[h] < top
  BY DEF Ranked, Holders
<1>2. S \subseteq Nat /\ S # {}
  BY <1>1
<1>3. PICK m \in S : \A n \in S : m <= n
  BY <1>2, LeastOf
<1>4. PICK h \in Holders(x) : m = top - rank[h]
  BY <1>3
<1>5. ASSUME NEW p \in Holders(x) PROVE rank[p] <= rank[h]
  <2>1. top - rank[h] <= top - rank[p]
    BY <1>3, <1>4
  <2> QED BY <1>1, <2>1
<1> QED BY <1>5

\* An execution the event loop has nothing to run for queues, or it is a loop
\* that was interrupted and waits for an iteration.
LEMMA IdleForms ==
  ASSUME IInv, AllCalls(ex), NEW e \in Exec, Busy(e), ~Ready(e)
  PROVE  \/ ex[e].pc = "waiting" /\ ~ex[e].creq /\ e \notin sem.granted
         \/ ex[e].pc \in Interrupted /\ ex[e].child # NoExec
<1> DEFINE f == ex[e]
<1>1. f \in Frames /\ Calls(f)
  BY TypedFrames DEF AllCalls
<1>2. f.pc \in {"waiting", "acting", "cancelling", "timingout"}
  BY <1>1 DEF Busy, Ready, Frames, Pcs
<1>3. CASE f.pc = "waiting"
  BY <1>3 DEF Ready
<1>4. CASE f.pc = "acting"
  <2>1. f.call = "running" \/ f.call \in Ended
    BY <1>1, <1>4 DEF Calls
  <2>2. CASE f.call = "running"
    <3>1. NodeOf(f).kind \notin Suspending
      BY <1>4, <2>2 DEF Ready, Interruptible
    <3>2. f.child = NoExec
      BY <1>1, <3>1 DEF Calls, Suspending
    <3> QED BY <2>2, <3>1, <3>2 DEF Ready, CallOpen
  <2>3. CASE f.call \in Ended
    <3>1. Outcome(f) = f.call
      BY <1>4 DEF Outcome
    <3> QED BY <1>4, <2>3, <3>1 DEF Ready, AttemptOver, CancelDue
  <2> QED BY <2>1, <2>2, <2>3
<1>5. CASE f.pc \in Interrupted
  <2>1. f.call \in {"running", "stopping"} \cup Ended
    BY <1>1, <1>5 DEF Calls
  <2>2. CASE f.call = "running"
    BY <1>1, <1>5, <2>2 DEF Calls
  <2>3. CASE f.call = "stopping"
    BY <1>1, <2>3 DEF Calls, Ready, CallOpen
  <2>4. CASE f.call \in Ended
    <3>1. f.pc = "timingout" => Outcome(f) # "cancelled"
      BY DEF Outcome
    <3> QED BY <1>5, <2>4, <3>1 DEF Ready, AttemptOver, CancelDue, Interrupted
  <2> QED BY <2>1, <2>2, <2>3, <2>4
<1> QED BY <1>2, <1>3, <1>4, <1>5 DEF Interrupted

\* Executions never all wait for each other.
THEOREM NobodyEverStuck == Spec => []NobodyStuck
<1>1. ASSUME IInv, PermitInv, Nesting(ex), NEW b \in Exec, Busy(b),
             \A e \in Exec : Busy(e) => ~Ready(e)
      PROVE  FALSE
  <2>1. \A e \in Exec : Busy(e) =>
          \/ ex[e].pc = "waiting" /\ ~ex[e].creq /\ e \notin sem.granted
          \/ ex[e].pc \in Interrupted /\ ex[e].child # NoExec
    BY <1>1, IdleForms DEF Nesting
  <2>2. Accounted(sem, Waiters(ex), Uncancelled(ex), Holders(ex))
    BY <1>1 DEF PermitInv
  <2>3. ASSUME NEW c \in Exec, ex[c].pc = "waiting"
        PROVE  Cardinality(Holders(ex)) = MaxConcurrent
    <3>1. ~ex[c].creq /\ c \notin sem.granted
      BY <2>1, <2>3 DEF Busy, Interrupted
    <3>2. c \in Line(sem)
      BY <2>2, <2>3, <3>1 DEF Accounted, Uncancelled
    <3>3. sem.queue # <<>>
      BY <3>2 DEF Line
    <3>4. sem.granted = {}
      <4> SUFFICES ASSUME NEW g \in sem.granted PROVE FALSE
        OBVIOUS
      <4>1. g \in Exec /\ ex[g].pc = "waiting"
        BY <2>2 DEF Accounted, Waiters
      <4> QED BY <2>1, <4>1 DEF Busy, Interrupted
    <3>5. sem.value \in Nat /\ ~(sem.value > 0)
      BY <2>2, <3>3, <3>4 DEF Accounted, NoneIdle, Tidy, Semaphore
    <3>6. Total(sem) = 0
      BY <3>4, <3>5, FS_EmptySet DEF Total
    <3>7. Cardinality(Holders(ex)) \in Nat
      BY Countable DEF Holders
    <3> QED BY <2>2, <3>6, <3>7 DEF Accounted
  <2>4. CASE Holders(ex) = {}
    <3>1. ex[b].pc = "waiting"
      BY <1>1, <2>1, <2>4 DEF Holders, Interrupted, Holding, InFlight
    <3>2. Cardinality(Holders(ex)) = MaxConcurrent
      BY <2>3, <3>1
    <3> QED BY <2>4, <3>2, FS_EmptySet, BoundsTyped
  <2>5. CASE Holders(ex) # {}
    <3>1. PICK rank \in [Exec -> Nat], top \in Nat : Ranked(ex, rank, top)
      BY <1>1 DEF Nesting, Ordered
    <3>2. PICK h \in Holders(ex) : \A p \in Holders(ex) : rank[p] <= rank[h]
      BY <2>5, <3>1, LastHolder
    <3> DEFINE c == ex[h].child
    <3>3. h \in Exec /\ ex[h].pc \in Interrupted /\ c # NoExec
      BY <2>1, <3>2 DEF Busy, Holders, Holding, InFlight, Interrupted
    <3>4. c \in Exec /\ Alive(ex[c])
      BY <1>1, <3>3 DEF Nesting, Parents
    <3>5. c \notin Holders(ex)
      <4> SUFFICES ASSUME c \in Holders(ex) PROVE FALSE
        OBVIOUS
      <4>1. Nested(ex, h)
        BY <3>2, <3>3 DEF Nested
      <4>2. rank[h] < rank[c] /\ rank[c] <= rank[h] /\ rank[h] \in Nat /\ rank[c] \in Nat
        BY <3>1, <3>2, <3>3, <3>4, <4>1 DEF Ranked
      <4> QED BY <4>2
    <3>6. ex[c].pc = "waiting" /\ ~ex[c].creq
      BY <2>1, <3>4, <3>5 DEF Alive, Busy, Holders, Interrupted, Holding, InFlight
    <3>7. ex[c].status = "none"
      BY <1>1, <3>4, <3>6, TypedFrames DEF Sound, InFlight
    <3>8. Patient(ex, h)
      BY <3>2, <3>3, <3>6, <3>7 DEF Patient
    <3>9. Cardinality(Elders(ex, rank, h)) < MaxConcurrent
      BY <3>1, <3>3, <3>8 DEF Ranked
    <3>10. Elders(ex, rank, h) = Holders(ex)
      BY <3>2 DEF Elders
    <3>11. Cardinality(Holders(ex)) = MaxConcurrent
      BY <2>3, <3>4, <3>6
    <3> QED BY <3>9, <3>10, <3>11, BoundsTyped
  <2> QED BY <2>4, <2>5
<1>2. IInv /\ CountInv /\ Nesting(ex) => NobodyStuck
  BY <1>1 DEF NobodyStuck, CountInv
<1> QED BY <1>2, Inductive, Accounts, LoopsNest, PTL

---------------------------------------------------------------------------
(* The work of an execution is bounded: by the iterations of its workflow, *)
(* the attempts of each node, the items of a loop, and the depth of loops. *)

\* An execution within the limits of its workflow, its nodes and loops.
Within(f) ==
  /\ f.iter <= f.maxIter
  /\ f.depth <= DepthLimit
  /\ f.pc \in Holding => f.att <= Retries(NodeOf(f))
  /\ f.pc = "backoff" => f.att < Retries(NodeOf(f))
  /\ f.child # NoExec => f.call = "running" /\ f.item \in 1..NodeOf(f).items
  /\ f.call = "running" /\ f.child = NoExec => f.item = 0

\* An iteration is one deeper than the loop it belongs to.
Deeper(x, c) ==
  x[c].parent # NoExec => /\ x[x[c].parent].pc # "free"
                          /\ x[c].depth = x[x[c].parent].depth + 1

\* Every execution is within its limits.
WorkBounded == \A e \in Exec : Within(ex[e]) /\ Deeper(ex, e)

\* What one step makes of an execution: it never goes back in its walk, a node
\* is run again only as its next attempt, and a loop goes on to its next item.
Advances(f, g) ==
  /\ g.pc # "free" /\ g.wf = f.wf /\ g.parent = f.parent
  /\ g.depth = f.depth /\ g.maxIter = f.maxIter
  /\ g.iter > f.iter \/ (g.iter = f.iter /\ g.att >= f.att)
  /\ g.call = "running" /\ f.call # "running" =>
       g.iter > f.iter \/ (g.iter = f.iter /\ g.att > f.att /\ g.node = f.node)
  /\ g.child \notin {f.child, NoExec} =>
       /\ g.iter = f.iter /\ g.att = f.att /\ g.node = f.node
       /\ g.item = f.item + 1

WorkAdvances ==
  [][\A e \in Exec : ex[e].pc # "free" => Advances(ex[e], ex'[e])]_vars

\* An execution that begins, and one that goes on.
Begun(y, b) == y[b].pc # "free" /\ Within(y[b]) /\ Deeper(y, b)
Works(f, g) == Advances(f, g) /\ Within(g)

\* One step of all executions.
WorkStep(x, y) ==
  \A b \in Exec : IF x[b].pc = "free" THEN y[b] = x[b] \/ Begun(y, b)
                                      ELSE Works(x[b], y[b])

\* A step in which no execution begins.
Proceeds(x, y) ==
  \A b \in Exec : IF x[b].pc = "free" THEN y[b] = x[b] ELSE Works(x[b], y[b])

Bounded(x) == x \in [Exec -> Frames] /\ \A e \in Exec : Within(x[e]) /\ Deeper(x, e)

\* Such a step keeps the bounds.
LEMMA WorkStepBounds ==
  ASSUME NEW x, NEW y \in [Exec -> Frames], Bounded(x), WorkStep(x, y)
  PROVE  Bounded(y)
<1> SUFFICES ASSUME NEW e \in Exec PROVE Within(y[e]) /\ Deeper(y, e)
  BY DEF Bounded
<1>1. /\ x[e] \in Frames /\ Within(x[e]) /\ Deeper(x, e)
      /\ x[e].parent \in Exec \cup {NoExec}
  BY DEF Bounded, Frames
<1>2. \A b \in Exec : x[b].pc # "free" => y[b].pc # "free" /\ y[b].depth = x[b].depth
  BY DEF WorkStep, Works, Advances
<1>3. CASE y[e] = x[e]
  BY <1>1, <1>2, <1>3 DEF Deeper
<1>4. CASE Begun(y, e)
  BY <1>4 DEF Begun
<1>5. CASE Works(x[e], y[e])
  BY <1>1, <1>2, <1>5 DEF Works, Advances, Deeper
<1> QED BY <1>3, <1>4, <1>5 DEF WorkStep

\* A frame that is left alone goes on as it is.
LEMMA RestWorks ==
  ASSUME NEW x, Bounded(x), NEW b \in Exec, x[b].pc # "free"
  PROVE  Works(x[b], x[b])
<1>1. x[b] \in Frames /\ Within(x[b])
  BY DEF Bounded
<1>2. x[b].iter \in Nat /\ x[b].att \in Nat
  BY <1>1 DEF Frames
<1> QED BY <1>1, <1>2 DEF Works, Advances

\* One execution goes on, the others are left alone.
LEMMA OneWorks ==
  ASSUME NEW x, Bounded(x), NEW e \in Exec, NEW g, x[e].pc # "free", Works(x[e], g)
  PROVE  /\ WorkStep(x, [x EXCEPT ![e] = g])
         /\ Proceeds(x, [x EXCEPT ![e] = g])
<1> DEFINE y == [x EXCEPT ![e] = g]
<1>1. y[e] = g /\ \A b \in Exec : b # e => y[b] = x[b]
  BY DEF Bounded
<1> HIDE DEF y
<1>2. ASSUME NEW b \in Exec, x[b].pc # "free" PROVE Works(x[b], y[b])
  BY <1>1, <1>2, RestWorks
<1>3. ASSUME NEW b \in Exec, x[b].pc = "free" PROVE y[b] = x[b]
  BY <1>1, <1>3
<1> QED BY <1>2, <1>3 DEF WorkStep, Proceeds, y

\* Two of them do.
LEMMA TwoWork ==
  ASSUME NEW x, Bounded(x), NEW e \in Exec, NEW p \in Exec, e # p, NEW g, NEW h,
         x[e].pc # "free", Works(x[e], g), x[p].pc # "free", Works(x[p], h)
  PROVE  /\ WorkStep(x, [x EXCEPT ![e] = g, ![p] = h])
         /\ Proceeds(x, [x EXCEPT ![e] = g, ![p] = h])
<1> DEFINE y == [x EXCEPT ![e] = g, ![p] = h]
<1>1. y[e] = g /\ y[p] = h /\ \A b \in Exec : b \notin {e, p} => y[b] = x[b]
  BY DEF Bounded
<1> HIDE DEF y
<1>2. ASSUME NEW b \in Exec, x[b].pc # "free" PROVE Works(x[b], y[b])
  BY <1>1, <1>2, RestWorks
<1>3. ASSUME NEW b \in Exec, x[b].pc = "free" PROVE y[b] = x[b]
  BY <1>1, <1>3
<1> QED BY <1>2, <1>3 DEF WorkStep, Proceeds, y

---------------------------------------------------------------------------
(* The walk.                                                               *)

\* Between two attempts: no call, no iteration.
Idle(f) == Walking(f) /\ f.child = NoExec /\ f.iter <= f.maxIter /\ f.depth <= DepthLimit

\* What a visit makes of such a frame: the next attempt is one iteration on.
WalksOn(f, g) ==
  /\ g.pc \in {"acting", "saving"}
  /\ g.wf = f.wf /\ g.parent = f.parent /\ g.depth = f.depth /\ g.maxIter = f.maxIter
  /\ g.child = NoExec
  /\ g.iter \in Nat /\ g.att \in Nat /\ g.iter <= g.maxIter
  /\ \/ g.call = "none" /\ g.pc = "saving" /\ g.iter = f.iter /\ g.att = f.att
     \/ g.call = "none" /\ g.pc = "saving" /\ g.iter > f.iter
     \/ g.call = "running" /\ g.iter > f.iter /\ g.att = 0 /\ g.item = 0

\* Leaving ends the walk where it is.
LEMMA LeaveWalks ==
  ASSUME NEW f, Idle(f)
  PROVE  WalksOn(f, Leave(f))
<1> DEFINE errs == f.errors \cup
                     (IF f.iter >= f.maxIter THEN {"max_iterations"} ELSE {})
           st == IF errs = {} THEN "completed" ELSE "failed"
<1>1. Leave(f) = [f EXCEPT !.pc = "saving", !.errors = errs, !.status = st]
  BY DEF Leave
<1> HIDE DEF errs, st
<1> QED BY <1>1 DEF Idle, Walking, WalksOn, Frames

\* The head of the while loop.
LEMMA VisitWalks ==
  ASSUME NEW f, Idle(f), NEW n \in NodeIds
  PROVE  WalksOn(f, Visit(f, n))
<1> DEFINE g == [f EXCEPT !.node = n]
           errs == f.errors \cup {"not_found"}
           h == [g EXCEPT !.iter = @ + 1, !.errors = errs]
           k == [g EXCEPT !.iter = @ + 1, !.att = 0]
<1>1. /\ Idle(g) /\ g.wf = f.wf /\ g.parent = f.parent /\ g.depth = f.depth
      /\ g.maxIter = f.maxIter /\ g.iter = f.iter /\ g.att = f.att /\ g.errors = f.errors
      /\ f.iter \in Nat /\ f.att \in Nat /\ f.maxIter \in Nat /\ errs \in SUBSET Reasons
  BY DEF Idle, Walking, Frames, Reasons
<1> HIDE DEF g, errs
<1>2. CASE n = NoNode \/ f.iter >= f.maxIter
  <2>1. Visit(f, n) = Leave(g)
    BY <1>2 DEF Visit, g
  <2> QED BY <1>1, <2>1, LeaveWalks DEF WalksOn
<1>3. CASE ~(n = NoNode \/ f.iter >= f.maxIter) /\ n \notin DOMAIN Flows[f.wf].nodes
  <2>1. Visit(f, n) = Leave(h)
    BY <1>1, <1>3 DEF Visit, g, errs
  <2>2. /\ Idle(h) /\ h.wf = f.wf /\ h.parent = f.parent /\ h.depth = f.depth
        /\ h.maxIter = f.maxIter /\ h.iter = f.iter + 1 /\ h.att = f.att
    <3>1. g \in Frames /\ g.iter + 1 \in Nat /\ g.child = NoExec /\ g.call = "none"
          /\ g.status = "none" /\ g.depth <= DepthLimit
      BY <1>1 DEF Idle, Walking
    <3>2. h \in Frames
      BY <1>1, <3>1 DEF Frames
    <3>3. /\ h.call = g.call /\ h.status = g.status /\ h.child = g.child /\ h.wf = g.wf
          /\ h.parent = g.parent /\ h.depth = g.depth /\ h.maxIter = g.maxIter
          /\ h.iter = g.iter + 1 /\ h.att = g.att
      BY <3>1 DEF Frames
    <3>4. h.iter <= h.maxIter
      BY <1>1, <1>3, <3>3
    <3> HIDE DEF h
    <3> QED BY <1>1, <3>1, <3>2, <3>3, <3>4 DEF Idle, Walking
  <2> HIDE DEF h
  <2>3. WalksOn(h, Leave(h))
    BY <2>2, LeaveWalks
  <2>4. Leave(h).pc = "saving"
    BY <2>2, LeaveSound DEF Idle
  <2>5. Leave(h).call = "none"
    BY <2>2, LeaveSound DEF Idle
  <2>6. Leave(h).iter >= h.iter /\ Leave(h).iter \in Nat
    BY <1>1, <2>2, <2>3 DEF WalksOn
  <2> HIDE DEF WalksOn
  <2>7. WalksOn(f, Leave(h))
    BY <1>1, <2>2, <2>3, <2>4, <2>5, <2>6 DEF WalksOn
  <2> QED BY <2>1, <2>7
<1>4. CASE ~(n = NoNode \/ f.iter >= f.maxIter) /\ n \in DOMAIN Flows[f.wf].nodes
  <2>1. Visit(f, n) = Attempt(k)
    BY <1>4 DEF Visit, g
  <2>2. WalksOn(f, Attempt(k))
    BY <1>1, <1>4 DEF WalksOn, Attempt, Idle, Walking, Frames
  <2> QED BY <2>1, <2>2
<1> QED BY <1>2, <1>3, <1>4

\* The entry into the workflow.
LEMMA EnterWalks ==
  ASSUME NEW f, Idle(f)
  PROVE  WalksOn(f, EnterFlow(f))
<1> DEFINE start == Flows[f.wf].start
<1>1. start \in NodeIds
  BY FlowsTyped DEF FlowsAssumption, Idle, Walking, Frames
<1>2. CASE start = NoNode
  BY <1>2 DEF EnterFlow, Idle, Walking, Frames, WalksOn
<1>3. CASE start # NoNode
  BY <1>1, <1>3, VisitWalks DEF EnterFlow
<1> QED BY <1>2, <1>3

\* Retries are a number.
LEMMA RetriesTyped ==
  ASSUME NEW n \in NodeDefs
  PROVE  Retries(n) \in Nat
  BY DEF Retries, NodeDefs

\* Whatever the walk goes on to is work within the bounds.
LEMMA WalkWorks ==
  ASSUME NEW f, Idle(f), NEW g, WalksOn(f, g), Sound(g), NEW b,
         b.wf = f.wf, b.parent = f.parent, b.depth = f.depth, b.maxIter = f.maxIter,
         b.iter = f.iter, b.att = f.att
  PROVE  Works(b, g)
<1>1. f.iter \in Nat /\ f.att \in Nat /\ f.depth <= DepthLimit
  BY DEF Idle, Walking, Frames
<1>2. Advances(b, g)
  BY <1>1 DEF WalksOn, Advances
<1>3. g.pc \in Holding => g.att <= Retries(NodeOf(g))
  <2>1. ASSUME g.pc \in Holding PROVE g.att <= Retries(NodeOf(g))
    <3>1. g.call = "running" /\ g.att = 0
      BY <2>1 DEF WalksOn, Holding, InFlight
    <3>2. NodeOf(g) \in NodeDefs
      BY <3>1, NodeIsTyped
    <3>3. Retries(NodeOf(g)) \in Nat
      BY <3>2, RetriesTyped
    <3> QED BY <3>1, <3>3
  <2> QED BY <2>1
<1>4. Within(g)
  BY <1>1, <1>3 DEF Within, WalksOn
<1> QED BY <1>2, <1>4 DEF Works

---------------------------------------------------------------------------
(* The steps.                                                              *)

\* The same work is behind two frames.
SameWork(f, g) ==
  /\ g.wf = f.wf /\ g.parent = f.parent /\ g.depth = f.depth
  /\ g.maxIter = f.maxIter /\ g.iter = f.iter /\ g.att = f.att

\* What a frame of the bounds is.
LEMMA BoundedFrame ==
  ASSUME IInv, Bounded(ex), NEW e \in Exec
  PROVE  /\ ex[e] \in Frames /\ Sound(ex[e]) /\ Within(ex[e]) /\ Deeper(ex, e)
         /\ ex[e].iter \in Nat /\ ex[e].att \in Nat /\ ex[e].item \in Nat
         /\ ex[e].depth \in Nat
  BY DEF IInv, AllSound, Bounded, Frames

\* What a result starts from has no iteration under way.
LEMMA ResultIdles ==
  ASSUME IInv, Bounded(ex), NEW e \in Exec, AttemptOver(e)
  PROVE  /\ Idle(Answered(ex[e])) /\ SameWork(ex[e], Answered(ex[e]))
         /\ ex[e].pc # "free"
<1> DEFINE a == Answered(ex[e])
<1>1. /\ ex[e] \in Frames /\ Sound(ex[e]) /\ Within(ex[e])
      /\ ex[e].pc \in InFlight /\ ex[e].call # "running"
  BY BoundedFrame, AttemptOverFacts
<1>2. a.child = ex[e].child /\ SameWork(ex[e], a)
  BY <1>1 DEF Answered, Frames, SameWork
<1>3. Walking(a)
  BY <1>1, AnsweredWalks
<1> HIDE DEF a
<1>4. Idle(a)
  BY <1>1, <1>2, <1>3 DEF Idle, Within, SameWork
<1> QED BY <1>1, <1>2, <1>4 DEF InFlight, a

\* A result after which the walk goes on from f.
LEMMA ResultWorks ==
  ASSUME IInv, Bounded(ex), NEW e \in Exec, ex[e].pc # "free", NEW s, NEW f, Idle(f),
         SameWork(ex[e], f), NEW g, WalksOn(f, g), Sound(g), Settle(e, g, s)
  PROVE  WorkStep(ex, ex')
<1>1. Works(ex[e], g)
  BY WalkWorks DEF SameWork
<1>2. ex' = [ex EXCEPT ![e] = g]
  BY DEF Settle
<1> HIDE DEF Settle
<1> QED BY <1>1, <1>2, OneWorks

\* A node that succeeds,
LEMMA NodeSucceededWorks ==
  ASSUME IInv, Bounded(ex), NEW e \in Exec, NodeSucceeded(e)
  PROVE  WorkStep(ex, ex')
<1> DEFINE b == ex[e]
           a == Answered(b)
           f == [a EXCEPT !.outs = @ \cup {b.node}]
           n == Successor(NodeOf(b), Outcome(b))
<1>1. AttemptOver(e) /\ Settle(e, Visit(f, n), sem)
  BY DEF NodeSucceeded
<1>2. Idle(a) /\ SameWork(b, a) /\ b.pc # "free" /\ b \in Frames
  BY <1>1, ResultIdles, BoundedFrame
<1>3. n \in NodeIds /\ b.node \in NodeIds
  BY <1>1, <1>2, AttemptOverFacts, SuccessorTyped DEF Frames
<1> HIDE DEF a
<1>4. Idle(f) /\ SameWork(b, f)
  BY <1>2, <1>3 DEF Idle, Walking, SameWork, Frames
<1> HIDE DEF f, n, b
<1>5. WalksOn(f, Visit(f, n)) /\ Sound(Visit(f, n))
  BY <1>3, <1>4, VisitWalks, VisitSettles DEF Settled, Idle
<1> QED BY <1>1, <1>2, <1>4, <1>5, ResultWorks DEF b

\* a stop node,
LEMMA StopReachedWorks ==
  ASSUME IInv, Bounded(ex), NEW e \in Exec, StopReached(e)
  PROVE  WorkStep(ex, ex')
<1> DEFINE b == ex[e]
           a == Answered(b)
           f == [a EXCEPT !.outs = @ \cup {b.node}, !.node = NoNode]
<1>1. AttemptOver(e) /\ Settle(e, Leave(f), sem)
  BY DEF StopReached
<1>2. Idle(a) /\ SameWork(b, a) /\ b.pc # "free" /\ b.node \in NodeIds
      /\ NoNode \in NodeIds
  BY <1>1, ResultIdles, BoundedFrame, FlowsTyped DEF Frames, FlowsAssumption
<1> HIDE DEF a
<1>4. Idle(f) /\ SameWork(b, f)
  BY <1>2 DEF Idle, Walking, SameWork, Frames
<1> HIDE DEF f, b
<1>5. WalksOn(f, Leave(f)) /\ Sound(Leave(f))
  BY <1>4, LeaveWalks, LeaveSound DEF Idle
<1> QED BY <1>1, <1>2, <1>4, <1>5, ResultWorks DEF b

\* an error that is thrown,
LEMMA ErrorThrownWorks ==
  ASSUME IInv, Bounded(ex), NEW e \in Exec, ErrorThrown(e)
  PROVE  WorkStep(ex, ex')
<1> DEFINE b == ex[e]
           a == Answered(b)
           f == [a EXCEPT !.errors = @ \cup {"node_failed"}]
<1>1. AttemptOver(e) /\ Settle(e, Leave(f), sem)
  BY DEF ErrorThrown
<1>2. Idle(a) /\ SameWork(b, a) /\ b.pc # "free"
  BY <1>1, ResultIdles
<1> HIDE DEF a
<1>4. Idle(f) /\ SameWork(b, f)
  BY <1>2 DEF Idle, Walking, SameWork, Frames, Reasons
<1> HIDE DEF f, b
<1>5. WalksOn(f, Leave(f)) /\ Sound(Leave(f))
  BY <1>4, LeaveWalks, LeaveSound DEF Idle
<1> QED BY <1>1, <1>2, <1>4, <1>5, ResultWorks DEF b

\* and a node that gave up.
LEMMA NodeGaveUpWorks ==
  ASSUME IInv, Bounded(ex), NEW e \in Exec, NodeGaveUp(e)
  PROVE  WorkStep(ex, ex')
<1> DEFINE b == ex[e]
           a == Answered(b)
           errs == ErrorsAfter(b)
           f == [a EXCEPT !.errors = errs]
           n == NodeOf(b).onError
<1>1. AttemptOver(e) /\ Settle(e, Visit(f, n), sem)
  BY DEF NodeGaveUp
<1>2. Idle(a) /\ SameWork(b, a) /\ b.pc # "free" /\ b \in Frames
  BY <1>1, ResultIdles, BoundedFrame
<1>3. n \in NodeIds
  BY <1>1, AttemptOverFacts DEF NodeDefs
<1>4. errs \in SUBSET Reasons
  BY <1>2 DEF ErrorsAfter, Reasons, Frames
<1> HIDE DEF a, errs, n
<1>5. Idle(f) /\ SameWork(b, f)
  BY <1>2, <1>4 DEF Idle, Walking, SameWork, Frames
<1> HIDE DEF f, b
<1>6. WalksOn(f, Visit(f, n)) /\ Sound(Visit(f, n))
  BY <1>3, <1>5, VisitWalks, VisitSettles DEF Settled, Idle
<1> QED BY <1>1, <1>2, <1>5, <1>6, ResultWorks DEF b

\* A failed attempt is counted before the next one begins.
LEMMA AttemptFailedWorks ==
  ASSUME IInv, Bounded(ex), NEW e \in Exec, AttemptFailed(e)
  PROVE  WorkStep(ex, ex')
<1> DEFINE b == ex[e]
           a == Answered(b)
           f == [a EXCEPT !.pc = "backoff"]
<1>1. AttemptOver(e) /\ ex' = [ex EXCEPT ![e] = f] /\ b.att < Retries(NodeOf(b))
  BY DEF AttemptFailed, Settle
<1>2. Idle(a) /\ SameWork(b, a) /\ b.pc # "free" /\ Within(b) /\ a.node = b.node
      /\ b.iter \in Nat /\ b.att \in Nat
  BY <1>1, ResultIdles, BoundedFrame DEF Answered, Frames
<1>3. NodeOf(b) \in NodeDefs /\ Retries(NodeOf(b)) \in Nat
  BY <1>1, AttemptOverFacts, RetriesTyped
<1> HIDE DEF a
<1>4. /\ SameWork(b, f) /\ f.child = NoExec /\ f.call = "none" /\ f.node = b.node
      /\ f.pc = "backoff"
  BY <1>2 DEF Idle, Walking, SameWork, Frames
<1> HIDE DEF f
<1>5. NodeOf(f) = NodeOf(b)
  BY <1>4 DEF NodeOf, SameWork
<1>6. Within(f)
  BY <1>1, <1>2, <1>3, <1>4, <1>5 DEF Within, SameWork
<1>7. Advances(b, f)
  BY <1>2, <1>4 DEF Advances, SameWork
<1>8. Works(b, f)
  BY <1>6, <1>7 DEF Works
<1> HIDE DEF b
<1> QED BY <1>1, <1>2, <1>8, OneWorks DEF b

\* After a backoff comes the next attempt.
LEMMA BackoffOverWorks ==
  ASSUME IInv, Bounded(ex), NEW e \in Exec, BackoffOver(e)
  PROVE  WorkStep(ex, ex')
<1> DEFINE b == ex[e]
           g == [b EXCEPT !.att = @ + 1]
           f == Attempt(g)
<1>1. b.pc = "backoff" /\ ex' = [ex EXCEPT ![e] = f]
  BY DEF BackoffOver, Settle
<1>2. /\ b \in Frames /\ Sound(b) /\ Within(b) /\ b.iter \in Nat /\ b.att \in Nat
      /\ b.att < Retries(NodeOf(b))
  BY <1>1, BoundedFrame DEF Within
<1>3. NodeOf(b) \in NodeDefs /\ Retries(NodeOf(b)) \in Nat
  BY <1>1, <1>2, NodeIsTyped, RetriesTyped
<1>4. /\ f.wf = b.wf /\ f.parent = b.parent /\ f.depth = b.depth /\ f.node = b.node
      /\ f.maxIter = b.maxIter /\ f.iter = b.iter /\ f.att = b.att + 1
      /\ f.pc = "acting" /\ f.call = "running" /\ f.child = NoExec /\ f.item = 0
  BY <1>2 DEF Attempt, Frames
<1> HIDE DEF g, f
<1>5. NodeOf(f) = NodeOf(b)
  BY <1>4 DEF NodeOf
<1>6. Within(f)
  BY <1>2, <1>3, <1>4, <1>5 DEF Within
<1>7. Works(b, f)
  BY <1>2, <1>4, <1>6 DEF Works, Advances
<1> HIDE DEF b
<1> QED BY <1>1, <1>7, OneWorks DEF b

\* A cancel that is raised leaves the call as it is.
LEMMA CancelWorks ==
  ASSUME IInv, Bounded(ex), NEW e \in Exec, ex[e].pc # "free",
         ex' = [ex EXCEPT ![e] = Cancelled(@)]
  PROVE  WorkStep(ex, ex')
<1> DEFINE b == ex[e]
           f == Cancelled(b)
<1>1. b \in Frames /\ Within(b) /\ b.iter \in Nat /\ b.att \in Nat
  BY BoundedFrame
<1>2. /\ f.wf = b.wf /\ f.parent = b.parent /\ f.depth = b.depth /\ f.node = b.node
      /\ f.maxIter = b.maxIter /\ f.iter = b.iter /\ f.att = b.att
      /\ f.pc = "saving" /\ f.call = b.call /\ f.child = b.child /\ f.item = b.item
  BY <1>1 DEF Cancelled, Frames
<1>3. ex' = [ex EXCEPT ![e] = f]
  OBVIOUS
<1> HIDE DEF f
<1>4. NodeOf(f) = NodeOf(b)
  BY <1>2 DEF NodeOf
<1>5. Works(b, f)
  BY <1>1, <1>2, <1>4 DEF Works, Advances, Within, Holding, InFlight
<1>6. WorkStep(ex, [ex EXCEPT ![e] = f])
  BY <1>5, OneWorks
<1> QED BY <1>3, <1>6

\* The permit has come, and the walk begins.
LEMMA AcquiredWorks ==
  ASSUME IInv, Bounded(ex), NEW e \in Exec, Acquired(e)
  PROVE  WorkStep(ex, ex')
<1> DEFINE b == ex[e]
<1>1. b.pc = "waiting" /\ Settle(e, EnterFlow(b), Resume(sem, e))
  BY DEF Acquired
<1>2. b \in Frames /\ Sound(b) /\ Within(b)
  BY BoundedFrame
<1>3. Idle(b)
  BY <1>1, <1>2 DEF Idle, Walking, Sound, InFlight, Within
<1>4. WalksOn(b, EnterFlow(b)) /\ Sound(EnterFlow(b))
  BY <1>3, EnterWalks, EnterFlowSettles DEF Settled, Idle
<1>5. SameWork(b, b)
  BY DEF SameWork
<1> HIDE DEF b
<1> QED BY <1>1, <1>3, <1>4, <1>5, ResultWorks DEF b

\* Steps of a frame that leave its place in the work alone.
LEMMA StillWorks ==
  ASSUME IInv, Bounded(ex), NEW e \in Exec, ex[e].pc # "free", NEW g,
         SameWork(ex[e], g), g.pc # "free", g.node = ex[e].node,
         g.pc \in Holding => ex[e].pc \in Holding \ {"backoff"} \/ g.pc = ex[e].pc,
         g.pc = "backoff" => ex[e].pc = "backoff",
         \/ g.call = ex[e].call /\ g.child = ex[e].child /\ g.item = ex[e].item
         \/ g.call # "running" /\ g.child = NoExec
  PROVE  Works(ex[e], g)
<1>1. /\ ex[e] \in Frames /\ Within(ex[e]) /\ ex[e].iter \in Nat
      /\ ex[e].att \in Nat
  BY BoundedFrame
<1>2. NodeOf(g) = NodeOf(ex[e])
  BY DEF NodeOf, SameWork
<1>3. Within(g)
  BY <1>1, <1>2 DEF Within, SameWork
<1>4. Advances(ex[e], g)
  BY <1>1 DEF Advances, SameWork
<1> QED BY <1>3, <1>4 DEF Works

\* A handler that answers.
LEMMA HandlerWorks ==
  ASSUME IInv, Bounded(ex), NEW e \in Exec, NEW a \in Ended,
         HandlerEnds(e, a) \/ HandlerStopped(e, a)
  PROVE  WorkStep(ex, ex')
<1> DEFINE g == [ex[e] EXCEPT !.call = a]
<1>1. /\ ex[e] \in Frames /\ Sound(ex[e]) /\ ex[e].child = NoExec
      /\ ex[e].call \in {"running", "stopping"}
      /\ ex' = [ex EXCEPT ![e] = g]
  BY BoundedFrame DEF HandlerEnds, HandlerStopped, CallOpen
<1>2. ex[e].pc # "free" /\ a # "running"
  BY <1>1 DEF Sound, Ended, Succeeding
<1>3. /\ SameWork(ex[e], g) /\ g.pc = ex[e].pc /\ g.node = ex[e].node /\ g.call = a
      /\ g.child = NoExec
  BY <1>1 DEF SameWork, Frames
<1> HIDE DEF g
<1>4. Works(ex[e], g)
  BY <1>2, <1>3, StillWorks
<1> QED BY <1>1, <1>2, <1>4, OneWorks

\* The cancel of an execution that runs leaves its work alone.
LEMMA RequestWorks ==
  ASSUME IInv, Bounded(ex), NEW e \in Exec, ex[e].pc # "free",
         ex' = [ex EXCEPT ![e].creq = TRUE]
  PROVE  WorkStep(ex, ex')
<1> DEFINE g == [ex[e] EXCEPT !.creq = TRUE]
<1>1. ex[e] \in Frames /\ ex' = [ex EXCEPT ![e] = g]
  BY BoundedFrame
<1>2. /\ SameWork(ex[e], g) /\ g.pc = ex[e].pc /\ g.node = ex[e].node
      /\ g.call = ex[e].call /\ g.child = ex[e].child /\ g.item = ex[e].item
  BY <1>1 DEF SameWork, Frames
<1> HIDE DEF g
<1>3. Works(ex[e], g)
  BY <1>2, StillWorks
<1>4. WorkStep(ex, [ex EXCEPT ![e] = g])
  BY <1>3, OneWorks
<1> QED BY <1>1, <1>4

\* So does a timeout or cancel that reaches its call.
LEMMA InterruptWorks ==
  ASSUME IInv, Bounded(ex), Parents(ex), NEW e \in Exec, NEW w \in Interrupted,
         Interrupt(e, w)
  PROVE  WorkStep(ex, ex')
<1> DEFINE c == ex[e].child
           g == [ex[e] EXCEPT !.pc = w, !.creq = FALSE, !.call = "stopping"]
           h == [ex[e] EXCEPT !.pc = w, !.creq = FALSE]
           k == [ex[c] EXCEPT !.creq = TRUE]
<1>1. ex[e] \in Frames /\ ex[e].pc = "acting" /\ w \notin {"free", "backoff"}
  BY BoundedFrame DEF Interrupt, Interruptible, Interrupted
<1>2. CASE c = NoExec
  <2>1. ex' = [ex EXCEPT ![e] = g]
    BY <1>1, <1>2 DEF Interrupt
  <2>2. /\ SameWork(ex[e], g) /\ g.pc = w /\ g.node = ex[e].node
        /\ g.call = "stopping" /\ g.child = NoExec
    BY <1>1, <1>2 DEF SameWork, Frames
  <2> HIDE DEF g
  <2>3. Works(ex[e], g)
    BY <1>1, <2>2, StillWorks DEF Holding, InFlight
  <2> QED BY <1>1, <2>1, <2>3, OneWorks
<1>3. CASE c # NoExec
  <2>1. c \in Exec /\ c # e /\ ex[c].pc # "free" /\ ex[c] \in Frames
    BY <1>3, BoundedFrame DEF Parents, Alive
  <2>2. ex' = [ex EXCEPT ![e] = h, ![c] = k]
    BY <1>1, <1>3, <2>1 DEF Interrupt
  <2>3. /\ SameWork(ex[e], h) /\ h.pc = w /\ h.node = ex[e].node
        /\ h.call = ex[e].call /\ h.child = ex[e].child /\ h.item = ex[e].item
    BY <1>1 DEF SameWork, Frames
  <2>4. /\ SameWork(ex[c], k) /\ k.pc = ex[c].pc /\ k.node = ex[c].node
        /\ k.call = ex[c].call /\ k.child = ex[c].child /\ k.item = ex[c].item
    BY <2>1 DEF SameWork, Frames
  <2> HIDE DEF h, k
  <2>5. Works(ex[e], h)
    BY <1>1, <2>3, StillWorks DEF Holding, InFlight
  <2> HIDE DEF c
  <2>6. Works(ex[c], k)
    BY <2>1, <2>4, StillWorks
  <2> QED BY <1>1, <2>1, <2>2, <2>5, <2>6, TwoWork
<1> QED BY <1>2, <1>3

\* An execution returns, to nobody or into the call of its loop.
LEMMA EndWorks ==
  ASSUME IInv, Bounded(ex), NEW e \in Exec, ex[e].pc = "saving", NEW g,
         SameWork(ex[e], g), g.pc = "done", g.node = ex[e].node, g.call = ex[e].call,
         g.child = ex[e].child, g.item = ex[e].item
  PROVE  /\ WorkStep(ex, [ex EXCEPT ![e] = g])
         /\ \A a \in Ended : ex[e].parent # NoExec =>
              WorkStep(ex, CallEnds([ex EXCEPT ![e] = g], ex[e].parent, a))
<1>1. ex[e] \in Frames /\ Sound(ex[e])
  BY BoundedFrame
<1>2. Works(ex[e], g)
  BY StillWorks DEF Holding, InFlight
<1>3. WorkStep(ex, [ex EXCEPT ![e] = g])
  BY <1>2, OneWorks
<1>4. ASSUME NEW a \in Ended, ex[e].parent # NoExec
      PROVE  WorkStep(ex, CallEnds([ex EXCEPT ![e] = g], ex[e].parent, a))
  <2> DEFINE p == ex[e].parent
             h == [ex[p] EXCEPT !.call = a, !.child = NoExec]
  <2>1. p \in Exec /\ p # e /\ ex[p].call = "running" /\ a # "running"
    BY <1>1, <1>4 DEF IInv, Linked, Frames, Ended, Succeeding
  <2>2. ex[p] \in Frames /\ ex[p].pc # "free"
    BY <2>1, BoundedFrame DEF Sound
  <2>3. CallEnds([ex EXCEPT ![e] = g], p, a) = [ex EXCEPT ![e] = g, ![p] = h]
    BY <2>1 DEF CallEnds, Bounded
  <2>4. /\ SameWork(ex[p], h) /\ h.pc = ex[p].pc /\ h.node = ex[p].node
        /\ h.call = a /\ h.child = NoExec
    BY <2>2 DEF SameWork, Frames
  <2> HIDE DEF h, p
  <2>5. Works(ex[p], h)
    BY <2>1, <2>2, <2>4, StillWorks
  <2>6. WorkStep(ex, [ex EXCEPT ![e] = g, ![p] = h])
    BY <1>2, <2>1, <2>2, <2>5, TwoWork
  <2> QED BY <2>3, <2>6 DEF p
<1> QED BY <1>3, <1>4

\* What begins is within its limits, over frames that go on.
LEMMA BeginWorks ==
  ASSUME NEW x \in [Exec -> Frames], Bounded(ex), Proceeds(ex, x), NEW d \in Exec,
         ex[d].pc = "free", NEW w \in DOMAIN Flows, NEW p \in Exec \cup {NoExec},
         NEW depth \in Nat, NEW max \in Nat, depth <= DepthLimit,
         p # NoExec => p # d /\ x[p].pc # "free" /\ depth = x[p].depth + 1,
         Begin(x, d, w, p, depth, max)
  PROVE  WorkStep(ex, ex')
<1> DEFINE f == NewFrame(w, p, depth, max)
<1>1. /\ f.iter = 0 /\ f.att = 0 /\ f.item = 0 /\ f.child = NoExec /\ f.wf = w
      /\ f.depth = depth /\ f.maxIter = max /\ f.parent = p /\ f.pc = "waiting"
      /\ f.call = "none"
  BY DEF NewFrame
<1>2. Walking(f) /\ Settled(f, EnterFlow(f)) /\ Sound(f)
  BY NewFrameStarts DEF Starts
<1>3. PICK g : g \in {f, EnterFlow(f)} /\ ex' = [x EXCEPT ![d] = g]
  BY DEF Begin
<1> HIDE DEF f
<1>4. Idle(f) /\ SameWork(f, f)
  BY <1>1, <1>2 DEF Idle, SameWork
<1>5. Within(f)
  BY <1>1 DEF Within, Holding, InFlight
<1>6. WalksOn(f, EnterFlow(f))
  BY <1>4, EnterWalks
<1>7. Sound(EnterFlow(f))
  BY <1>2 DEF Settled
<1>8. Works(f, EnterFlow(f))
  BY <1>4, <1>6, <1>7, WalkWorks
<1>9. Within(g) /\ g.pc # "free" /\ g.parent = p /\ g.depth = depth
  BY <1>1, <1>3, <1>5, <1>8 DEF Works, Advances
<1>10. ex'[d] = g /\ \A b \in Exec : b # d => ex'[b] = x[b]
  BY <1>3
<1>11. Begun(ex', d)
  BY <1>9, <1>10 DEF Begun, Deeper
<1>12. ASSUME NEW b \in Exec, ex[b].pc # "free" PROVE Works(ex[b], ex'[b])
  BY <1>10, <1>12 DEF Proceeds
<1>13. ASSUME NEW b \in Exec, ex[b].pc = "free", b # d PROVE ex'[b] = ex[b]
  BY <1>10, <1>13 DEF Proceeds
<1> QED BY <1>11, <1>12, <1>13 DEF WorkStep

\* An execution from outside.
LEMMA StartTopWorks ==
  ASSUME Bounded(ex), NEW w \in DOMAIN Flows, NEW d \in Exec, StartTop(w, d)
  PROVE  WorkStep(ex, ex')
<1>1. Flows[w].maxIter \in Nat /\ 0 \in Nat /\ 0 <= DepthLimit /\ NoExec \in Exec \cup {NoExec}
  BY FlowsTyped, BoundsTyped DEF FlowsAssumption
<1>2. Begin(ex, d, w, NoExec, 0, Flows[w].maxIter) /\ ex[d].pc = "free"
  BY DEF StartTop, IsFresh
<1>3. Proceeds(ex, ex) /\ ex \in [Exec -> Frames]
  BY RestWorks DEF Proceeds, Bounded
<1> QED BY <1>1, <1>2, <1>3, BeginWorks

\* A loop that has loaded its sub-workflow begins with the first item.
LEMMA LoopLoadedWorks ==
  ASSUME IInv, Bounded(ex), NEW e \in Exec, NEW d \in Exec, LoopLoaded(e, d)
  PROVE  WorkStep(ex, ex')
<1> DEFINE n == NodeOf(ex[e])
           k == [ex[e] EXCEPT !.call = "ok"]
           h == [ex[e] EXCEPT !.child = d, !.item = 1]
           x == [ex EXCEPT ![e].child = d, ![e].item = 1]
<1>1. /\ ex[e] \in Frames /\ Sound(ex[e]) /\ Within(ex[e]) /\ ex[e].call = "running"
      /\ ex[e].child = NoExec /\ ex[e].iter \in Nat /\ ex[e].att \in Nat
      /\ ex[e].item = 0 /\ ex[e].depth \in Nat
  BY BoundedFrame DEF LoopLoaded, CallOpen, Within
<1>2. ex[e].pc # "free" /\ n \in NodeDefs
  BY <1>1, NodeIsTyped DEF Sound
<1>3. n.items \in Nat /\ n.sub \in DOMAIN Flows /\ n.subMax \in Nat
      /\ ex[e].depth + 1 <= DepthLimit
  BY <1>2 DEF NodeDefs, LoopLoaded
<1>4. CASE n.items = 0
  <2>1. ex' = [ex EXCEPT ![e] = k]
    BY <1>4 DEF LoopLoaded
  <2>2. /\ SameWork(ex[e], k) /\ k.pc = ex[e].pc /\ k.node = ex[e].node
        /\ k.call = "ok" /\ k.child = NoExec
    BY <1>1 DEF SameWork, Frames
  <2> HIDE DEF k
  <2>3. Works(ex[e], k)
    BY <1>2, <2>2, StillWorks
  <2>4. WorkStep(ex, [ex EXCEPT ![e] = k])
    BY <1>2, <2>3, OneWorks
  <2> QED BY <2>1, <2>4
<1>5. CASE n.items > 0
  <2>1. Begin(x, d, n.sub, e, ex[e].depth + 1, n.subMax) /\ ex[d].pc = "free"
    BY <1>3, <1>5 DEF LoopLoaded, IsFresh
  <2>2. x = [ex EXCEPT ![e] = h] /\ d # e
    BY <1>1, <1>2, <2>1 DEF Bounded
  <2>3. /\ h \in Frames /\ h.pc = ex[e].pc /\ h.node = ex[e].node /\ h.wf = ex[e].wf
        /\ h.parent = ex[e].parent /\ h.depth = ex[e].depth /\ h.call = "running"
        /\ h.maxIter = ex[e].maxIter /\ h.iter = ex[e].iter /\ h.att = ex[e].att
        /\ h.child = d /\ h.item = 1
    BY <1>1 DEF Frames
  <2> HIDE DEF h
  <2>4. NodeOf(h) = n
    BY <2>3 DEF NodeOf
  <2>5. d # NoExec
    BY DEF NoExec, Exec
  <2>6. Within(h)
    <3>1. 1 \in 1..n.items
      BY <1>3, <1>5
    <3> HIDE DEF n
    <3> QED BY <1>1, <2>3, <2>4, <2>5, <3>1 DEF Within, n
  <2>7. Advances(ex[e], h)
    BY <1>1, <1>2, <2>3 DEF Advances
  <2>8. Works(ex[e], h)
    BY <2>6, <2>7 DEF Works
  <2> HIDE DEF x
  <2>9. Proceeds(ex, x) /\ x \in [Exec -> Frames] /\ x[e] = h
    BY <1>2, <2>2, <2>3, <2>8, OneWorks DEF Bounded
  <2>10. x[e].pc # "free" /\ ex[e].depth + 1 = x[e].depth + 1 /\ ex[e].depth + 1 \in Nat
    BY <1>1, <1>2, <2>3, <2>9
  <2> HIDE DEF n
  <2> QED BY <1>3, <2>1, <2>2, <2>9, <2>10, BeginWorks
<1> QED BY <1>3, <1>4, <1>5

\* An iteration returns, and the loop answers or goes on with the next item.
LEMMA IterationReturnsWorks ==
  ASSUME IInv, Bounded(ex), NEW e \in Exec, NEW d \in Exec, NEW written \in BOOLEAN,
         IterationReturns(e, d, written)
  PROVE  WorkStep(ex, ex')
<1> DEFINE p == ex[e].parent
           n == NodeOf(ex[p])
           g == [ex[e] EXCEPT !.pc = "done"]
           h == [ex[p] EXCEPT !.child = d, !.item = @ + 1]
           frames == [ex EXCEPT ![e].pc = "done"]
           x == [frames EXCEPT ![p].child = d, ![p].item = @ + 1]
<1>1. /\ ex[e] \in Frames /\ Sound(ex[e]) /\ Within(ex[e]) /\ Deeper(ex, e)
      /\ ex[e].pc = "saving" /\ p # NoExec /\ ex[e].depth \in Nat
      /\ p \in Exec /\ p # e /\ ex[p].child = e /\ ex[p].call = "running"
  BY BoundedFrame DEF IInv, Linked, Frames, IterationReturns
<1>2. /\ ex[p] \in Frames /\ Sound(ex[p]) /\ Within(ex[p]) /\ ex[p].pc # "free"
      /\ ex[p].iter \in Nat /\ ex[p].att \in Nat /\ ex[p].item \in Nat
  BY <1>1, BoundedFrame DEF Sound
<1>3. /\ SameWork(ex[e], g) /\ g.pc = "done" /\ g.node = ex[e].node
      /\ g.call = ex[e].call /\ g.child = ex[e].child /\ g.item = ex[e].item
      /\ frames = [ex EXCEPT ![e] = g]
  BY <1>1 DEF SameWork, Frames
<1>4. \/ ex' = CallEnds(frames, p, "cancelled")
      \/ ex' = CallEnds(frames, p, "ok")
      \/ /\ ex[p].item < n.items /\ ex[d].pc = "free"
         /\ Begin(x, d, ex[e].wf, p, ex[e].depth, ex[e].maxIter)
  BY DEF IterationReturns, IsFresh
<1>5. ASSUME NEW a \in {"cancelled", "ok"}, ex' = CallEnds(frames, p, a)
      PROVE  WorkStep(ex, ex')
  <2>1. a \in Ended
    BY DEF Ended, Succeeding
  <2> HIDE DEF g, frames
  <2> QED BY <1>1, <1>3, <1>5, <2>1, EndWorks
<1>6. CASE /\ ex[p].item < n.items /\ ex[d].pc = "free"
           /\ Begin(x, d, ex[e].wf, p, ex[e].depth, ex[e].maxIter)
  <2>1. x = [ex EXCEPT ![e] = g, ![p] = h] /\ d # p /\ d # e
    BY <1>1, <1>2, <1>3, <1>6 DEF Bounded
  <2>2. /\ h \in Frames /\ h.pc = ex[p].pc /\ h.node = ex[p].node /\ h.wf = ex[p].wf
        /\ h.parent = ex[p].parent /\ h.depth = ex[p].depth /\ h.call = "running"
        /\ h.maxIter = ex[p].maxIter /\ h.iter = ex[p].iter /\ h.att = ex[p].att
        /\ h.child = d /\ h.item = ex[p].item + 1
    <3>1. ex[p].item + 1 \in Nat
      BY <1>2
    <3> QED BY <1>1, <1>2, <3>1 DEF Frames
  <2>3. g \in Frames
    BY <1>1 DEF Frames, Pcs
  <2>4. Works(ex[e], g)
    <3> HIDE DEF g
    <3> QED BY <1>1, <1>3, StillWorks DEF Holding, InFlight
  <2>5. NodeOf(h) = n /\ d # NoExec
    BY <2>2 DEF NodeOf, NoExec, Exec
  <2>6. n \in NodeDefs
    BY <1>1, <1>2, NodeIsTyped
  <2>7. n.items \in Nat
    BY <2>6 DEF NodeDefs
  <2> HIDE DEF g, h, x, n, frames
  <2>8. Within(h)
    <3>1. h.item \in 1..n.items
      BY <1>2, <1>6, <2>2, <2>7
    <3> QED BY <1>2, <2>2, <2>5, <3>1 DEF Within, n
  <2>9. Works(ex[p], h)
    BY <1>1, <1>2, <2>2, <2>8 DEF Works, Advances
  <2>10. Proceeds(ex, x)
    BY <1>1, <1>2, <2>1, <2>4, <2>9, TwoWork
  <2>11. x \in [Exec -> Frames] /\ x[p] = h
    BY <1>1, <2>1, <2>2, <2>3 DEF Bounded
  <2>12. /\ x[p].pc # "free" /\ ex[e].depth = x[p].depth + 1 /\ ex[e].depth <= DepthLimit
         /\ ex[e].wf \in DOMAIN Flows /\ ex[e].maxIter \in Nat
    BY <1>1, <1>2, <2>2, <2>11 DEF Deeper, Within, Frames
  <2> QED BY <1>1, <1>6, <2>1, <2>10, <2>11, <2>12, BeginWorks
<1> HIDE DEF frames, x, n
<1> QED BY <1>4, <1>5, <1>6

\* An execution that returns to nobody, or is cancelled while it saves.
LEMMA LastWorks ==
  ASSUME IInv, Bounded(ex), NEW e \in Exec, NEW written \in BOOLEAN,
         TopReturns(e, written) \/ SaveCancelled(e, written)
  PROVE  WorkStep(ex, ex')
<1> DEFINE g == [ex[e] EXCEPT !.pc = "done"]
           h == [ex[e] EXCEPT !.pc = "done", !.creq = FALSE]
           frames == [ex EXCEPT ![e].pc = "done", ![e].creq = FALSE]
<1>1. ex[e] \in Frames /\ ex[e].pc = "saving"
  BY BoundedFrame DEF TopReturns, SaveCancelled
<1>2. /\ SameWork(ex[e], g) /\ g.pc = "done" /\ g.node = ex[e].node
      /\ g.call = ex[e].call /\ g.child = ex[e].child /\ g.item = ex[e].item
  BY <1>1 DEF SameWork, Frames
<1>3. /\ SameWork(ex[e], h) /\ h.pc = "done" /\ h.node = ex[e].node
      /\ h.call = ex[e].call /\ h.child = ex[e].child /\ h.item = ex[e].item
      /\ frames = [ex EXCEPT ![e] = h]
  BY <1>1 DEF SameWork, Frames
<1>4. \/ ex' = [ex EXCEPT ![e] = g]
      \/ ex' = frames
      \/ ex[e].parent # NoExec /\ ex' = CallEnds(frames, ex[e].parent, "cancelled")
  BY DEF TopReturns, SaveCancelled
<1>5. "cancelled" \in Ended
  BY DEF Ended
<1> HIDE DEF g, h, frames
<1>6. WorkStep(ex, [ex EXCEPT ![e] = g])
  BY <1>1, <1>2, EndWorks
<1>7. /\ WorkStep(ex, frames)
      /\ ex[e].parent # NoExec => WorkStep(ex, CallEnds(frames, ex[e].parent, "cancelled"))
  BY <1>1, <1>3, <1>5, EndWorks
<1> QED BY <1>4, <1>6, <1>7

\* Every step is one of bounded work.
LEMMA NextWorks ==
  ASSUME IInv, Bounded(ex), Parents(ex), Fresh(ex), [Next]_vars
  PROVE  WorkStep(ex, ex')
<1>1. ASSUME NEW e \in Exec, Scheduled(e)
      PROVE  WorkStep(ex, ex')
  <2>1. CASE Acquired(e)
    BY <2>1, AcquiredWorks
  <2>2. CASE AcquireCancelled(e)
    BY <2>2, CancelWorks DEF AcquireCancelled
  <2>3. ASSUME NEW a \in Ended, HandlerStopped(e, a) \/ HandlerEnds(e, a)
        PROVE  WorkStep(ex, ex')
    BY <2>3, HandlerWorks
  <2>4. CASE TimeoutFires(e)
    BY <2>4, InterruptWorks DEF TimeoutFires, Interrupted
  <2>5. CASE CancelDelivered(e)
    BY <2>5, InterruptWorks DEF CancelDelivered, Interrupted
  <2>6. CASE NodeSucceeded(e)
    BY <2>6, NodeSucceededWorks
  <2>7. CASE StopReached(e)
    BY <2>7, StopReachedWorks
  <2>8. CASE ErrorThrown(e)
    BY <2>8, ErrorThrownWorks
  <2>9. CASE AttemptFailed(e)
    BY <2>9, AttemptFailedWorks
  <2>10. CASE NodeGaveUp(e)
    BY <2>10, NodeGaveUpWorks
  <2>11. CASE BackoffOver(e)
    BY <2>11, BackoffOverWorks
  <2>12. CASE CancelRaised(e)
    <3>1. ex[e].pc # "free" /\ ex' = [ex EXCEPT ![e] = Cancelled(@)]
      BY <2>12, BoundedFrame DEF CancelRaised, CancelDue, Settle
    <3> QED BY <3>1, CancelWorks
  <2>13. ASSUME NEW written \in BOOLEAN, TopReturns(e, written) \/ SaveCancelled(e, written)
         PROVE  WorkStep(ex, ex')
    BY <2>13, LastWorks
  <2>14. ASSUME NEW written \in BOOLEAN, NEW d \in Exec, IterationReturns(e, d, written)
         PROVE  WorkStep(ex, ex')
    BY <2>14, IterationReturnsWorks
  <2> QED BY <1>1, <2>1, <2>2, <2>3, <2>4, <2>5, <2>6, <2>7, <2>8, <2>9, <2>10,
             <2>11, <2>12, <2>13, <2>14 DEF Scheduled
<1>2. ASSUME NEW e \in Exec, Unscheduled(e)
      PROVE  WorkStep(ex, ex')
  <2>1. ASSUME NEW w \in DOMAIN Flows, StartTop(w, e) PROVE WorkStep(ex, ex')
    BY <2>1, StartTopWorks
  <2>2. ASSUME NEW a \in Ended, HandlerEnds(e, a) PROVE WorkStep(ex, ex')
    BY <2>2, HandlerWorks
  <2>3. ASSUME NEW d \in Exec, LoopLoaded(e, d) PROVE WorkStep(ex, ex')
    BY <2>3, LoopLoadedWorks
  <2>4. CASE CancelWorkflow(e) \/ CancelTop(e)
    <3>1. ex[e].pc # "free" /\ ex' = [ex EXCEPT ![e].creq = TRUE]
      BY <2>4 DEF CancelWorkflow, CancelTop, RequestCancel, IInv, RegistryExact, InFlight
    <3> QED BY <3>1, RequestWorks
  <2> QED BY <1>2, <2>1, <2>2, <2>3, <2>4 DEF Unscheduled
<1>3. CASE UNCHANGED vars
  <2>1. ex' = ex
    BY <1>3 DEF vars
  <2> QED BY <2>1, RestWorks DEF WorkStep
<1> QED BY <1>1, <1>2, <1>3 DEF Next

\* At the start there is no work.
LEMMA InitBounded == Init => Bounded(ex)
<1> SUFFICES ASSUME Init PROVE Bounded(ex)
  OBVIOUS
<1>1. ex \in [Exec -> Frames]
  BY InitInv DEF IInv, AllSound
<1>2. ASSUME NEW e \in Exec PROVE Within(ex[e]) /\ Deeper(ex, e)
  <2>1. /\ ex[e].iter = 0 /\ ex[e].maxIter = 1 /\ ex[e].depth = 0 /\ ex[e].pc = "free"
        /\ ex[e].child = NoExec /\ ex[e].call = "none" /\ ex[e].parent = NoExec
    BY DEF Init, NewFrame
  <2> QED BY <2>1, BoundsTyped DEF Within, Deeper, Holding, InFlight
<1> QED BY <1>1, <1>2 DEF Bounded

\* The bounds hold throughout.
InBounds == Bounded(ex)

\* One step keeps them.
LEMMA StepInBounds ==
  ASSUME IInv, CountInv, Nesting(ex), InBounds, [Next]_vars, IInv'
  PROVE  InBounds'
<1>1. ex' \in [Exec -> Frames]
  BY DEF IInv, AllSound
<1>2. Bounded(ex) /\ WorkStep(ex, ex')
  BY NextWorks DEF InBounds, CountInv, Nesting
<1>3. Bounded(ex')
  BY <1>1, <1>2, WorkStepBounds
<1> QED BY <1>3 DEF InBounds

\* So they hold throughout.
LEMMA BoundsKept == Spec => []InBounds
<1>1. Init => InBounds
  BY InitBounded DEF InBounds
<1> QED BY <1>1, StepInBounds, Inductive, Accounts, LoopsNest, PTL DEF Spec

\* No execution exceeds its iterations, no node its attempts, no loop its items
\* or the depth limit, whatever times out, is retried or is cancelled.
THEOREM WorkIsBounded == Spec => []WorkBounded
<1>1. InBounds => WorkBounded
  BY DEF InBounds, Bounded, WorkBounded
<1> QED BY <1>1, BoundsKept, PTL

\* And no work is done twice: each call of a handler is a later attempt than the
\* one before, and each iteration of an attempt is about the next item.
THEOREM WorkOnlyAdvances == Spec => WorkAdvances
<1> DEFINE Onward == \A e \in Exec : ex[e].pc # "free" => Advances(ex[e], ex'[e])
<1>1. IInv /\ CountInv /\ Nesting(ex) /\ InBounds /\ [Next]_vars => [Onward]_vars
  BY NextWorks DEF InBounds, CountInv, Nesting, WorkStep, Works
<1>2. Spec => [][Onward]_vars
  BY <1>1, Inductive, Accounts, LoopsNest, BoundsKept, PTL DEF Spec
<1> QED BY <1>2 DEF WorkAdvances
===========================================================================
