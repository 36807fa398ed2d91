------------------------- MODULE AgentThinkProofs -------------------------
(***************************************************************************)
(* Proofs about AgentThink for any callers, thresholds, times and rates.   *)
(***************************************************************************)
EXTENDS AgentThink, TLAPS

\* What the breaker keeps to itself: its type and its counters.
Coherent(b) ==
  /\ b \in Breaker
  /\ b.state = "closed" <=> b.failures < FailureThreshold
  /\ b.state = "half_open" => b.probes < HalfOpenMax

\* Whoever sleeps between two attempts has one left.
CallsKept(x) ==
  /\ x \in [Callers -> Calls]
  /\ \A c \in Callers : x[c].pc = "backoff" => x[c].attempt < MaxAttempts

\* The last failure is not older than the trip it caused or came after.
Inv ==
  /\ TypeOK
  /\ CallsKept(calls)
  /\ Coherent(breaker)
  /\ breaker.age <= tripped

\* Admitting a call, its success, its failure and time keep the breaker
\* coherent, in whatever state the call was admitted.
LEMMA BreakerKeeps ==
  ASSUME NEW b, Coherent(b)
  PROVE  /\ ~Refuses(b) => Coherent(Admitted(b)) /\ Admitted(b).age = b.age
         /\ Coherent(Succeeded(b)) /\ Succeeded(b).age = b.age
         /\ Coherent(Failed(b)) /\ Failed(b).age = 0
         /\ Coherent(Older(b))
         /\ Older(b).age = IF b.age <= RecoveryTime THEN b.age + 1 ELSE b.age
<1>1. /\ b \in Breaker /\ b.state \in {"closed", "open", "half_open"}
      /\ b.failures \in Nat /\ b.probes \in Nat /\ b.age \in 0..(RecoveryTime + 1)
      /\ RecoveryTime \in Nat /\ FailureThreshold \in Nat \ {0}
      /\ HalfOpenMax \in Nat \ {0}
  BY BreakerParams DEF Coherent, Breaker
<1>2. Coherent(Admitted(b)) /\ Admitted(b).age = b.age
  <2> DEFINE d == [b EXCEPT !.state = "half_open", !.probes = 0]
  <2>1. /\ d \in Breaker /\ d.state = "half_open" /\ d.probes = 0
        /\ d.failures = b.failures /\ d.age = b.age
    BY <1>1 DEF Breaker
  <2> HIDE DEF d
  <2>2. b.state = "open" => Coherent(d)
    BY <1>1, <2>1 DEF Coherent
  <2> QED BY <2>1, <2>2 DEF Admitted, d
<1>3. Coherent(Succeeded(b)) /\ Succeeded(b).age = b.age
  <2>1. CASE b.state = "half_open"
    <3> DEFINE d == [b EXCEPT !.state = "closed", !.failures = 0, !.probes = 0]
    <3>1. /\ d \in Breaker /\ d.state = "closed" /\ d.failures = 0 /\ d.age = b.age
      BY <1>1 DEF Breaker
    <3>2. Succeeded(b) = d
      BY <2>1 DEF Succeeded
    <3> HIDE DEF d
    <3> QED BY <1>1, <3>1, <3>2 DEF Coherent
  <2>2. CASE b.state = "closed"
    <3> DEFINE k == IF b.failures > 0 THEN b.failures - 1 ELSE 0
               d == [b EXCEPT !.failures = k]
    <3>1. k \in Nat /\ (b.failures < FailureThreshold => k < FailureThreshold)
      BY <1>1
    <3>2. Succeeded(b) = d
      BY <2>2 DEF Succeeded
    <3> HIDE DEF k
    <3>3. d \in Breaker /\ d.state = b.state /\ d.failures = k /\ d.age = b.age
      BY <1>1, <3>1 DEF Breaker
    <3> HIDE DEF d
    <3> QED BY <1>1, <2>2, <3>1, <3>2, <3>3 DEF Coherent
  <2>3. CASE b.state = "open"
    BY <1>1, <2>3 DEF Coherent, Succeeded
  <2> QED BY <1>1, <2>1, <2>2, <2>3
<1>4. Coherent(CountFailure(b)) /\ CountFailure(b).age = b.age
  <2>1. CASE b.state = "half_open"
    <3> DEFINE st == IF b.probes + 1 >= HalfOpenMax THEN "open" ELSE b.state
               d == [b EXCEPT !.probes = @ + 1, !.state = st]
    <3>1. b.probes + 1 \in Nat /\ st \in {"open", "half_open"}
      BY <1>1, <2>1
    <3>2. CountFailure(b) = d
      BY <2>1 DEF CountFailure
    <3>3. st = "half_open" => b.probes + 1 < HalfOpenMax
      BY <1>1
    <3> HIDE DEF st
    <3>4. /\ d \in Breaker /\ d.state = st /\ d.failures = b.failures
          /\ d.probes = b.probes + 1 /\ d.age = b.age
      BY <1>1, <3>1 DEF Breaker
    <3> HIDE DEF d
    <3> QED BY <1>1, <2>1, <3>1, <3>2, <3>3, <3>4 DEF Coherent
  <2>2. CASE b.state = "closed"
    <3> DEFINE st == IF b.failures + 1 >= FailureThreshold THEN "open" ELSE b.state
               d == [b EXCEPT !.failures = @ + 1, !.state = st]
    <3>1. /\ b.failures + 1 \in Nat /\ st \in {"open", "closed"}
          /\ st = "closed" <=> b.failures + 1 < FailureThreshold
      BY <1>1, <2>2
    <3>2. CountFailure(b) = d
      BY <2>2 DEF CountFailure
    <3> HIDE DEF st
    <3>4. /\ d \in Breaker /\ d.state = st /\ d.failures = b.failures + 1
          /\ d.age = b.age
      BY <1>1, <3>1 DEF Breaker
    <3> HIDE DEF d
    <3> QED BY <3>1, <3>2, <3>4 DEF Coherent
  <2>3. CASE b.state = "open"
    BY <1>1, <2>3 DEF Coherent, CountFailure
  <2> QED BY <1>1, <2>1, <2>2, <2>3
<1>5. Coherent(Failed(b)) /\ Failed(b).age = 0
  <2> DEFINE d == CountFailure(b)
  <2>1. Coherent(d) /\ Failed(b) = [d EXCEPT !.age = 0]
    BY <1>4 DEF Failed
  <2> HIDE DEF d
  <2> QED BY <1>1, <2>1 DEF Coherent, Breaker
<1>6. /\ Coherent(Older(b))
      /\ Older(b).age = IF b.age <= RecoveryTime THEN b.age + 1 ELSE b.age
  BY <1>1 DEF Coherent, Older, Breaker
<1> QED BY <1>2, <1>3, <1>5, <1>6

\* A poll of the limiter keeps the bucket typed.
LEMMA BucketKeeps ==
  ASSUME NEW b \in Bucket
  PROVE  /\ Refilled(b) \in Bucket
         /\ Has(b, 1) => Taken(b, 1) \in Bucket
<1>1. /\ b.tokens \in 0..Capacity /\ b.age \in Nat /\ Capacity \in Nat
      /\ b.age * Rate \in Nat
  BY BucketParams DEF Bucket
<1>2. Refilled(b) \in Bucket
  BY <1>1 DEF Refilled, Bucket
<1>3. Has(b, 1) => Taken(b, 1) \in Bucket
  <2> DEFINE r == Refilled(b)
  <2>1. r \in Bucket /\ (Has(b, 1) <=> r.tokens >= 1) /\ Taken(b, 1) = [r EXCEPT !.tokens = @ - 1]
    BY <1>2 DEF Has, Taken
  <2> HIDE DEF r
  <2> QED BY <1>1, <2>1 DEF Bucket
<1> QED BY <1>2, <1>3

\* The frames a caller changes to are typed.
LEMMA CallsTyped ==
  /\ Idle \in Calls /\ Idle.pc = "idle"
  /\ \A a \in 0..MaxAttempts, w \in 0..(MaxWait + 1), pc \in {"limiting", "calling"} :
       LET f == [pc |-> pc, attempt |-> a, waited |-> w]
       IN  f \in Calls /\ f.pc # "backoff"
  BY ThinkParams DEF Idle, Calls

\* A caller may change to any such frame.
LEMMA CallChanges ==
  ASSUME CallsKept(calls), NEW c \in Callers, NEW f \in Calls,
         f.pc = "backoff" => f.attempt < MaxAttempts, calls' = [calls EXCEPT ![c] = f]
  PROVE  CallsKept(calls')
  BY DEF CallsKept

\* So may one whose think is over.
LEMMA OverKeeps ==
  ASSUME CallsKept(calls), NEW c \in Callers, Over(c)
  PROVE  CallsKept(calls')
  BY CallsTyped, CallChanges DEF Over

\* A poll keeps the invariant.
LEMMA PollInv ==
  ASSUME Inv, NEW c \in Callers, NEW a \in 0..MaxAttempts, NEW w \in 0..(MaxWait + 1),
         Poll(c, a, w), UNCHANGED tripped
  PROVE  Inv'
<1>1. /\ calls \in [Callers -> Calls] /\ Coherent(breaker) /\ bucket \in Bucket
      /\ tripped \in 0..(RecoveryTime + 1) /\ breaker.age <= tripped
      /\ 0 \in 0..(MaxWait + 1)
  BY ThinkParams DEF Inv, TypeOK
<1>2. bucket' \in Bucket
  BY <1>1, BucketKeeps DEF Poll
<1>3. CallsKept(calls')
  <2> DEFINE F(pc, waited) == [pc |-> pc, attempt |-> a, waited |-> waited]
  <2>1. \/ Over(c)
        \/ calls' = [calls EXCEPT ![c] = F("limiting", w)]
        \/ calls' = [calls EXCEPT ![c] = F("calling", 0)]
    BY DEF Poll
  <2>2. /\ F("limiting", w) \in Calls /\ F("limiting", w).pc # "backoff"
        /\ F("calling", 0) \in Calls /\ F("calling", 0).pc # "backoff"
    BY <1>1, CallsTyped
  <2>3. CallsKept(calls)
    BY DEF Inv
  <2> HIDE DEF F
  <2> QED BY <2>1, <2>2, <2>3, CallChanges, OverKeeps
<1>4. Coherent(breaker') /\ breaker'.age = breaker.age
  BY <1>1, BreakerKeeps DEF Poll
<1> QED BY <1>1, <1>2, <1>3, <1>4 DEF Inv, TypeOK, Coherent, CallsKept

\* Every agent starts coherent,
LEMMA InitInv == Init => Inv
<1> SUFFICES ASSUME Init PROVE Inv
  OBVIOUS
<1>1. NewBreaker \in Breaker /\ NewBucket \in Bucket
  BY BreakerParams, BucketParams DEF NewBreaker, NewBucket, Breaker, Bucket
<1>2. Coherent(breaker) /\ breaker.age = tripped
  BY <1>1, BreakerParams DEF Init, NewBreaker, Coherent
<1>3. CallsKept(calls)
  BY CallsTyped DEF Init, CallsKept
<1>4. tripped \in 0..(RecoveryTime + 1) /\ breaker.age <= tripped
  BY <1>2, BreakerParams DEF Init
<1> QED BY <1>1, <1>2, <1>3, <1>4 DEF Init, Inv, TypeOK, CallsKept

\* and every step keeps it so.
LEMMA NextInv == Inv /\ [Next]_vars => Inv'
<1> SUFFICES ASSUME Inv, [Next]_vars PROVE Inv'
  OBVIOUS
<1>1. /\ calls \in [Callers -> Calls] /\ CallsKept(calls)
      /\ Coherent(breaker) /\ bucket \in Bucket
      /\ breaker \in Breaker /\ tripped \in 0..(RecoveryTime + 1)
      /\ breaker.age <= tripped /\ breaker.age \in Nat
      /\ RecoveryTime \in Nat /\ MaxAttempts \in Nat \ {0} /\ MaxWait \in Nat
  BY BreakerParams, ThinkParams DEF Inv, TypeOK, Breaker
<1>2. \A c \in Callers : /\ calls[c].attempt \in 0..MaxAttempts
                         /\ calls[c].waited \in 0..(MaxWait + 1)
                         /\ calls[c].pc = "backoff" => calls[c].attempt < MaxAttempts
  BY <1>1 DEF CallsKept, Calls
<1>3. ASSUME NEW c \in Callers, Think(c) PROVE Inv'
  BY <1>1, <1>3, PollInv DEF Think
<1>4. ASSUME NEW c \in Callers, PollAgain(c) PROVE Inv'
  BY <1>2, <1>4, PollInv DEF PollAgain
<1>5. ASSUME NEW c \in Callers, Answered(c) PROVE Inv'
  <2>1. Coherent(breaker') /\ breaker'.age = breaker.age
    BY <1>1, <1>5, BreakerKeeps DEF Answered
  <2>2. CallsKept(calls')
    BY <1>1, <1>5, OverKeeps DEF Answered
  <2> QED BY <1>1, <1>5, <2>1, <2>2 DEF Answered, Inv, TypeOK, Coherent, CallsKept
<1>6. ASSUME NEW c \in Callers, RecordFailure, UNCHANGED bucket,
             CallsKept(calls')
      PROVE  Inv'
  <2>1. Coherent(breaker') /\ breaker'.age = 0
    BY <1>1, <1>6, BreakerKeeps DEF RecordFailure
  <2>2. tripped' \in 0..(RecoveryTime + 1)
    BY <1>1, <1>6 DEF RecordFailure
  <2> QED BY <1>1, <1>6, <2>1, <2>2 DEF Inv, TypeOK, Coherent, CallsKept
<1>7. ASSUME NEW c \in Callers, ModelRaises(c) PROVE Inv'
  BY <1>1, <1>6, <1>7, OverKeeps DEF ModelRaises
<1>8. ASSUME NEW c \in Callers, TimesOut(c) PROVE Inv'
  <2> DEFINE f == [calls[c] EXCEPT !.pc = "backoff"]
  <2>1. f \in Calls /\ f.pc = "backoff" /\ f.attempt = calls[c].attempt
    BY <1>1 DEF Calls
  <2>3. \/ Over(c)
        \/ calls[c].attempt < MaxAttempts /\ calls' = [calls EXCEPT ![c] = f]
    BY <1>1, <1>8 DEF TimesOut
  <2> HIDE DEF f
  <2>2. CallsKept(calls')
    BY <1>1, <2>1, <2>3, OverKeeps, CallChanges
  <2> QED BY <1>6, <1>8, <2>2 DEF TimesOut
<1>9. ASSUME NEW c \in Callers, BackoffOver(c) PROVE Inv'
  <2>1. calls[c].attempt + 1 \in 0..MaxAttempts /\ 0 \in 0..(MaxWait + 1)
    BY <1>1, <1>2, <1>9 DEF BackoffOver
  <2> QED BY <1>9, <2>1, PollInv DEF BackoffOver
<1>10. ASSUME NEW c \in Callers, Cancelled(c) PROVE Inv'
  BY <1>1, <1>10, OverKeeps DEF Cancelled, Inv, TypeOK, Coherent, CallsKept
<1>11. CASE Tick
  <2>1. /\ Coherent(breaker')
        /\ breaker'.age = IF breaker.age <= RecoveryTime THEN breaker.age + 1
                                                         ELSE breaker.age
    BY <1>1, <1>11, BreakerKeeps DEF Tick
  <2>2. tripped' \in 0..(RecoveryTime + 1) /\ breaker'.age <= tripped'
    BY <1>1, <1>11, <2>1 DEF Tick
  <2>3. bucket' \in Bucket
    BY <1>1, <1>11 DEF Tick, Bucket
  <2>4. CallsKept(calls')
    <3>1. \A c \in Callers :
            LET f == [calls[c] EXCEPT !.waited =
                        IF calls[c].pc = "limiting" /\ @ <= MaxWait THEN @ + 1 ELSE @]
            IN  f \in Calls /\ f.pc = calls[c].pc /\ f.attempt = calls[c].attempt
      BY <1>1 DEF Calls
    <3> QED BY <1>1, <1>11, <3>1 DEF Tick, CallsKept
  <2> QED BY <2>1, <2>2, <2>3, <2>4 DEF Inv, TypeOK, Coherent, CallsKept
<1>12. CASE UNCHANGED vars
  BY <1>12 DEF vars, Inv, TypeOK, Coherent, CallsKept
<1> QED BY <1>3, <1>4, <1>5, <1>7, <1>8, <1>9, <1>10, <1>11, <1>12
        DEF Next, Scheduled

\* The invariant holds throughout.
THEOREM Inductive == Spec => []Inv
  BY InitInv, NextInv, PTL DEF Spec

\* Type correctness: no wait outlives its limit, no retry its attempts.
THEOREM TypeCorrect == Spec => []TypeOK
<1>1. Inv => TypeOK
  BY DEF Inv
<1> QED BY <1>1, Inductive, PTL

\* The counters of the breaker follow its state through late answers.
THEOREM BreakerStaysCoherent == Spec => []BreakerAddsUp
<1>1. Inv => BreakerAddsUp
  BY DEF Inv, Coherent, BreakerAddsUp
<1> QED BY <1>1, Inductive, PTL

\* An open breaker keeps calls from the model until recovery_timeout is over:
\* the last failure is at least as recent as the trip.
THEOREM OpenKeeps == Spec => OpenKeepsCallsAway
<1> DEFINE Away ==
      \A c \in Callers :
        calls[c].pc # "calling" /\ calls'[c].pc = "calling" /\ tripped <= RecoveryTime
          => breaker.state # "open"
<1>1. Inv /\ [Next]_vars => [Away]_vars
  <2> SUFFICES ASSUME Inv, Next, NEW c \in Callers, calls[c].pc # "calling",
                      calls'[c].pc = "calling", tripped <= RecoveryTime
               PROVE  breaker.state # "open"
    OBVIOUS
  <2>1. /\ calls \in [Callers -> Calls] /\ breaker.age <= tripped
        /\ RecoveryTime \in Nat /\ breaker.age \in Nat /\ tripped \in Nat
        /\ Idle.pc = "idle"
    BY BreakerParams DEF Inv, TypeOK, Breaker, Idle
  <2>2. ASSUME breaker.state = "open" PROVE Refuses(breaker)
    BY <2>1, <2>2 DEF Refuses
  <2>3. ASSUME NEW d \in Callers, NEW a, NEW w, Poll(d, a, w)
        PROVE  breaker.state # "open"
    BY <2>1, <2>2, <2>3 DEF Poll, Over
  <2>4. ASSUME NEW d \in Callers, Over(d) PROVE FALSE
    BY <2>1, <2>4 DEF Over
  <2>5. ASSUME NEW d \in Callers, TimesOut(d) PROVE FALSE
    BY <2>1, <2>4, <2>5 DEF TimesOut
  <2>6. ASSUME Tick PROVE FALSE
    BY <2>1, <2>6 DEF Tick, Calls
  <2> QED BY <2>3, <2>4, <2>5, <2>6
          DEF Next, Scheduled, Think, PollAgain, BackoffOver, Answered, ModelRaises, Cancelled
<1>2. Spec => [][Away]_vars
  BY <1>1, Inductive, PTL DEF Spec
<1> QED BY <1>2 DEF OpenKeepsCallsAway

---------------------------------------------------------------------------
(* Tick stops the age of the bucket at Capacity, which the clock of the    *)
(* code does not.  Nobody can tell: RateEnvelope, whose bucket goes on     *)
(* aging, speaks of this one too.                                          *)

\* The bucket of the code, as AgentThink keeps it: with its age stopped.
Saturated(b) ==
  [tokens |-> b.tokens, age |-> IF b.age < Capacity THEN b.age ELSE Capacity]

\* One tick of a bucket whose age stops, as in Tick.
Aged(b) == [b EXCEPT !.age = IF @ < Capacity THEN @ + 1 ELSE @]

\* A bucket that has aged as far as its capacity is full.
LEMMA FullByThen ==
  ASSUME NEW a \in Nat, a >= Capacity
  PROVE  a * Rate >= Capacity /\ Capacity * Rate >= Capacity
<1>1. Rate \in Nat /\ Rate - 1 \in Nat /\ Capacity \in Nat
  BY BucketParams
<1>2. \A n \in Nat : n * Rate >= n
  <2> SUFFICES ASSUME NEW n \in Nat PROVE n * Rate >= n
    OBVIOUS
  <2>1. n * (Rate - 1) \in Nat /\ n * Rate = n * (Rate - 1) + n
    BY <1>1
  <2> QED BY <2>1
<1>3. a * Rate \in Nat /\ Capacity * Rate \in Nat
  BY <1>1
<1> QED BY <1>1, <1>2, <1>3

\* The saturated bucket starts like the other, ages like it, and answers and
\* charges every acquire() like it, whatever is asked for.
THEOREM SaturationUnseen ==
  ASSUME NEW b \in Bucket
  PROVE  /\ Saturated(b) \in Bucket
         /\ Saturated(NewBucket) = NewBucket
         /\ Saturated([b EXCEPT !.age = @ + 1]) = Aged(Saturated(b))
         /\ Refilled(Saturated(b)) = Refilled(b)
         /\ \A n \in Nat : /\ Has(Saturated(b), n) <=> Has(b, n)
                          /\ Taken(Saturated(b), n) = Taken(b, n)
                          /\ Saturated(Taken(b, n)) = Taken(b, n)
<1> DEFINE s == Saturated(b)
<1>1. /\ b.tokens \in 0..Capacity /\ b.tokens \in Nat /\ b.age \in Nat
      /\ Capacity \in Nat \ {0} /\ Rate \in Nat
      /\ b = [tokens |-> b.tokens, age |-> b.age]
  BY BucketParams DEF Bucket
<1>2. s \in Bucket
  BY <1>1 DEF Saturated, Bucket
<1>3. Saturated(NewBucket) = NewBucket
  BY <1>1 DEF Saturated, NewBucket
<1>4. Saturated([b EXCEPT !.age = @ + 1]) = Aged(s)
  BY <1>1 DEF Saturated, Aged
<1>5. Refilled(s) = Refilled(b)
  <2>1. CASE b.age < Capacity
    BY <1>1, <2>1 DEF Saturated, Refilled
  <2>2. CASE b.age >= Capacity
    <3>1. /\ b.age * Rate \in Nat /\ Capacity * Rate \in Nat
          /\ b.age * Rate >= Capacity /\ Capacity * Rate >= Capacity
      BY <1>1, <2>2, FullByThen
    <3>2. s.tokens = b.tokens /\ s.age = Capacity
      BY <1>1, <2>2 DEF Saturated
    <3>3. /\ ~(s.tokens + s.age * Rate < Capacity)
          /\ ~(b.tokens + b.age * Rate < Capacity)
      BY <1>1, <3>1, <3>2
    <3> QED BY <3>3 DEF Refilled
  <2> QED BY <1>1, <2>1, <2>2
<1>6. ASSUME NEW n \in Nat
      PROVE  /\ Has(s, n) <=> Has(b, n)
             /\ Taken(s, n) = Taken(b, n)
             /\ Saturated(Taken(b, n)) = Taken(b, n)
  <2>1. Taken(b, n) = [tokens |-> Refilled(b).tokens - n, age |-> 0]
    BY DEF Taken, Refilled
  <2>2. Has(s, n) <=> Has(b, n)
    BY <1>5 DEF Has
  <2>3. Taken(s, n) = Taken(b, n)
    BY <1>5 DEF Taken
  <2>4. Saturated(Taken(b, n)) = Taken(b, n)
    BY <1>1, <2>1 DEF Saturated
  <2> QED BY <2>2, <2>3, <2>4
<1> QED BY <1>2, <1>3, <1>4, <1>5, <1>6

\* A Tick ages the bucket like that.
LEMMA TickAges == Tick => bucket' = Aged(bucket)
  BY DEF Tick, Aged
===========================================================================
