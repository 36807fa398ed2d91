-------------------------- MODULE CircuitBreaker --------------------------
(***************************************************************************)
(* CircuitBreaker (utils/circuit_breaker.py) as operators on a record      *)
(*   state     self.state                                                  *)
(*   failures  self.failure_count                                          *)
(*   probes    self.half_open_calls                                        *)
(*   age       ticks since self.last_failure_time; what matters is whether *)
(*             it exceeds recovery_timeout, so it stops one beyond         *)
(* Its lock is never held across a suspension.                             *)
(***************************************************************************)
EXTENDS Integers

CONSTANTS FailureThreshold, RecoveryTime, HalfOpenMax

ASSUME BreakerParams ==
  /\ FailureThreshold \in Nat \ {0}
  /\ RecoveryTime \in Nat
  /\ HalfOpenMax \in Nat \ {0}

Breaker ==
  [state : {"closed", "open", "half_open"}, failures : Nat, probes : Nat,
   age : 0..(RecoveryTime + 1)]

\* last_failure_time = 0.0 is long ago.
NewBreaker ==
  [state |-> "closed", failures |-> 0, probes |-> 0, age |-> RecoveryTime + 1]

\* call() raises CircuitOpenError.
Refuses(b) == b.state = "open" /\ b.age <= RecoveryTime

\* call() goes on to the function; an open breaker turns half-open.
Admitted(b) ==
  IF b.state = "open" THEN [b EXCEPT !.state = "half_open", !.probes = 0] ELSE b

\* mutant: the breaker closes with the failures it opened with.
SucceededKeepingCount(b) ==
  CASE b.state = "half_open" -> [b EXCEPT !.state = "closed", !.probes = 0]
    [] b.state = "closed"    -> [b EXCEPT !.failures = IF @ > 0 THEN @ - 1 ELSE 0]
    [] b.state = "open"      -> b

\* _record_success.
Succeeded(b) ==
  CASE b.state = "half_open" ->
         [b EXCEPT !.state = "closed", !.failures = 0, !.probes = 0]
    [] b.state = "closed"    -> [b EXCEPT !.failures = IF @ > 0 THEN @ - 1 ELSE 0]
    [] b.state = "open"      -> b

\* What a failure does to the state and the counters.
CountFailure(b) ==
  CASE b.state = "half_open" ->
         [b EXCEPT !.probes = @ + 1,
                   !.state = IF b.probes + 1 >= HalfOpenMax THEN "open" ELSE @]
    [] b.state = "closed"    ->
         [b EXCEPT !.failures = @ + 1,
                   !.state = IF b.failures + 1 >= FailureThreshold THEN "open" ELSE @]
    [] b.state = "open"      -> b

\* mutant: the time of a failure is noted only while the breaker is closed.
FailedClosedOnly(b) ==
  [CountFailure(b) EXCEPT !.age = IF b.state = "closed" THEN 0 ELSE @]

\* _record_failure.
Failed(b) == [CountFailure(b) EXCEPT !.age = 0]

\* One tick of time.monotonic().
Older(b) == [b EXCEPT !.age = IF @ <= RecoveryTime THEN @ + 1 ELSE @]
===========================================================================
