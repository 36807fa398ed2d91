------------------------ MODULE RateEnvelopeProofs ------------------------
(***************************************************************************)
(* The bound of the token bucket, for every rate, capacity and interval.   *)
(***************************************************************************)
EXTENDS RateEnvelope, TLAPS

\* What was granted and what is left came in before the last refill: with the
\* interval or within it.  Before the first acquire of the interval nothing
\* was granted.
Balance ==
  IF bucket.age <= elapsed
  THEN granted + bucket.tokens <= Capacity + Rate * (elapsed - bucket.age)
  ELSE granted = 0

Inv == TypeOK /\ Balance

\* Multiplying by the rate distributes over what has passed.
LEMMA FlowSplits ==
  ASSUME NEW a \in Nat, NEW t \in Nat, a <= t
  PROVE  /\ Rate * (t - a) + a * Rate = Rate * t
         /\ Rate * t \in Nat /\ Rate * a \in Nat /\ Rate * (t - a) \in Nat
  BY BucketParams

\* A refill keeps the bucket typed and what it holds accounted for.
LEMMA RefillKeeps ==
  ASSUME Inv
  PROVE  LET r == Refilled(bucket) IN
         /\ r \in Bucket /\ r.age = 0 /\ r.tokens \in Nat
         /\ granted + r.tokens <= Capacity + Rate * elapsed
<1> DEFINE b == bucket  level == b.tokens + b.age * Rate  r == Refilled(bucket)
<1>1. /\ b.tokens \in Nat /\ b.tokens <= Capacity /\ b.age \in Nat
      /\ elapsed \in Nat /\ granted \in Nat /\ Capacity \in Nat
  BY BucketParams DEF Inv, TypeOK, Bucket
<1>2. b.age * Rate \in Nat /\ level \in Nat
  BY <1>1, BucketParams
<1>3. /\ r = [tokens |-> IF level < Capacity THEN level ELSE Capacity, age |-> 0]
      /\ r \in Bucket /\ r.age = 0 /\ r.tokens \in Nat
      /\ r.tokens <= level /\ r.tokens <= Capacity
  BY <1>1, <1>2 DEF Refilled, Bucket
<1>4. CASE b.age <= elapsed
  <2>1. /\ granted + b.tokens <= Capacity + Rate * (elapsed - b.age)
        /\ Rate * (elapsed - b.age) \in Nat
        /\ Rate * (elapsed - b.age) + b.age * Rate = Rate * elapsed
    BY <1>1, <1>4, FlowSplits DEF Inv, Balance
  <2> QED BY <1>1, <1>2, <1>3, <2>1
<1>5. CASE b.age > elapsed
  <2>1. granted = 0 /\ Rate * elapsed \in Nat
    BY <1>1, <1>5, BucketParams DEF Inv, Balance
  <2> QED BY <1>1, <1>3, <2>1
<1> QED BY <1>1, <1>4, <1>5

\* The balance holds from the start, when the bucket is full,
LEMMA InitInv == Init => Inv
  BY BucketParams DEF Init, NewBucket, Inv, TypeOK, Balance, Bucket

\* and every call, tick and begin of an interval keeps it.
LEMMA NextInv == Inv /\ [Next]_vars => Inv'
<1> SUFFICES ASSUME Inv, [Next]_vars PROVE Inv'
  OBVIOUS
<1> DEFINE r == Refilled(bucket)
<1>1. /\ r \in Bucket /\ r.age = 0 /\ r.tokens \in Nat
      /\ granted + r.tokens <= Capacity + Rate * elapsed
      /\ elapsed \in Nat /\ granted \in Nat /\ Rate * elapsed \in Nat
      /\ Capacity \in Nat
  BY RefillKeeps, BucketParams DEF Inv, TypeOK
<1> HIDE DEF r
<1>2. ASSUME NEW n \in 1..MaxTokens, Acquire(n) PROVE Inv'
  <2>1. /\ r.tokens >= n /\ granted' = granted + n /\ elapsed' = elapsed
        /\ bucket' = [r EXCEPT !.tokens = @ - n] /\ n \in Nat
    BY <1>2, EnvelopeParams DEF Acquire, Has, Taken, r
  <2>2. bucket' \in Bucket /\ bucket'.age = 0 /\ bucket'.tokens = r.tokens - n
    BY <1>1, <2>1 DEF Bucket
  <2>3. granted' + bucket'.tokens = granted + r.tokens
    BY <1>1, <2>1, <2>2
  <2> QED BY <1>1, <2>1, <2>2, <2>3 DEF Inv, TypeOK, Balance
<1>3. ASSUME NEW n \in 1..MaxTokens, Refuse(n) PROVE Inv'
  <2>1. bucket' = r /\ granted' = granted /\ elapsed' = elapsed
    BY <1>3 DEF Refuse, r
  <2> QED BY <1>1, <2>1 DEF Inv, TypeOK, Balance
<1>4. CASE Tick
  <2>1. /\ bucket'.age = bucket.age + 1 /\ bucket'.tokens = bucket.tokens
        /\ bucket' \in Bucket /\ elapsed' = elapsed + 1 /\ granted' = granted
        /\ bucket.age \in Nat
    BY <1>4 DEF Tick, Inv, TypeOK, Bucket
  <2>2. elapsed' - bucket'.age = elapsed - bucket.age
    BY <1>1, <2>1
  <2> QED BY <1>1, <2>1, <2>2 DEF Inv, TypeOK, Balance
<1>5. CASE Observe
  <2>1. /\ bucket' = bucket /\ granted' = 0 /\ elapsed' = 0 /\ bucket \in Bucket
        /\ bucket.age \in Nat /\ bucket.tokens <= Capacity /\ bucket.tokens \in Nat
    BY <1>5, BucketParams DEF Observe, Inv, TypeOK, Bucket
  <2>2. Rate * 0 = 0
    BY BucketParams
  <2> QED BY <1>1, <2>1, <2>2 DEF Inv, TypeOK, Balance
<1>6. CASE UNCHANGED vars
  BY <1>6 DEF vars, Inv, TypeOK, Balance
<1> QED BY <1>2, <1>3, <1>4, <1>5, <1>6 DEF Next

\* In any interval, whatever is asked for and refused in it, no more than the
\* capacity and the rate times its length is granted.
THEOREM BoundedGrants == Spec => []Envelope
<1>1. ASSUME Inv PROVE Envelope
  <2>1. /\ Refilled(bucket).tokens \in Nat
        /\ granted + Refilled(bucket).tokens <= Capacity + Rate * elapsed
    BY <1>1, RefillKeeps
  <2>2. granted \in Nat /\ Rate * elapsed \in Nat /\ Capacity \in Nat
    BY <1>1, BucketParams DEF Inv, TypeOK
  <2> QED BY <2>1, <2>2 DEF Envelope
<1> QED BY <1>1, InitInv, NextInv, PTL DEF Spec
===========================================================================
