---------------------------- MODULE TokenBucket ----------------------------
(***************************************************************************)
(* TokenBucket (utils/rate_limiter.py) as operators on a record            *)
(*   tokens  self.tokens                                                   *)
(*   age     ticks since self.last_refill                                  *)
(* Time and tokens are whole multiples of a small unit.  The lock is never *)
(* held across a suspension, so acquire() is one step.                     *)
(***************************************************************************)
EXTENDS Integers

CONSTANTS Rate,     \* tokens per tick
          Capacity

ASSUME BucketParams == Rate \in Nat \ {0} /\ Capacity \in Nat \ {0}

Bucket == [tokens : 0..Capacity, age : Nat]

NewBucket == [tokens |-> Capacity, age |-> 0]

\* What has flowed in since the last acquire(), up to the capacity.
Refilled(b) ==
  LET level == b.tokens + b.age * Rate
  IN  [tokens |-> IF level < Capacity THEN level ELSE Capacity, age |-> 0]

\* acquire(n) answers True,
Has(b, n) == Refilled(b).tokens >= n

\* and then leaves the bucket like this; otherwise it is only refilled.
Taken(b, n) == [Refilled(b) EXCEPT !.tokens = @ - n]
===========================================================================
