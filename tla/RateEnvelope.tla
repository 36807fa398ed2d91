--------------------------- MODULE RateEnvelope ---------------------------
(***************************************************************************)
(* What the rate limiter promises: over any interval a bucket grants no    *)
(* more than its capacity and what flows in meanwhile.  The interval is a  *)
(* history: Observe begins one at any moment, between any two calls.       *)
(***************************************************************************)
EXTENDS TokenBucket

CONSTANTS
  MaxTokens,  \* bound: tokens asked for in one acquire()
  MaxElapsed  \* bound: ticks in an interval

ASSUME EnvelopeParams == MaxTokens \in Nat /\ MaxElapsed \in Nat

VARIABLES
  bucket,   \* the TokenBucket
  granted,  \* history: tokens granted in the interval
  elapsed   \* history: ticks since the interval began

vars == <<bucket, granted, elapsed>>

Init ==
  /\ bucket = NewBucket
  /\ granted = 0
  /\ elapsed = 0

\* acquire(n) -> True
Acquire(n) ==
  /\ Has(bucket, n)
  /\ bucket' = Taken(bucket, n)
  /\ granted' = granted + n
  /\ UNCHANGED elapsed

\* mutant: a refusal gives the bucket what flowed in, and the time as well.
RefuseKeepingTime(n) ==
  /\ ~Has(bucket, n)
  /\ bucket' = [Refilled(bucket) EXCEPT !.age = bucket.age]
  /\ UNCHANGED <<granted, elapsed>>

\* acquire(n) -> False
Refuse(n) ==
  /\ ~Has(bucket, n)
  /\ bucket' = Refilled(bucket)
  /\ UNCHANGED <<granted, elapsed>>

Tick ==
  /\ elapsed < MaxElapsed
  /\ bucket' = [bucket EXCEPT !.age = @ + 1]
  /\ elapsed' = elapsed + 1
  /\ UNCHANGED granted

\* An interval begins now.
Observe ==
  /\ granted' = 0
  /\ elapsed' = 0
  /\ bucket.age <= MaxElapsed
  /\ UNCHANGED bucket

Next ==
  \/ \E n \in 1..MaxTokens : Acquire(n) \/ Refuse(n)
  \/ Tick
  \/ Observe

Spec == Init /\ [][Next]_vars

\* Every variable has its type.
TypeOK == bucket \in Bucket /\ granted \in Nat /\ elapsed \in Nat

\* acquire() grants no more than capacity + rate * time in any interval, also
\* after long idle times and through refusals, which refill the bucket too.
Envelope == granted <= Capacity + Rate * elapsed
===========================================================================
