---------------------------- MODULE AgentThink ----------------------------
(***************************************************************************)
(* BaseAgent.think (agents/base.py) under concurrent callers: the retry    *)
(* decorator around the rate limiter, the circuit breaker and a call to    *)
(* the language model with a timeout.  All callers of an agent share its   *)
(* bucket and its breaker.                                                 *)
(*                                                                         *)
(* An action is what a caller does between two suspension points.  A tick  *)
(* is the unit in which max_wait and recovery_timeout are measured; polls, *)
(* answers, timeouts and the sleeps between attempts happen at any time.   *)
(***************************************************************************)
EXTENDS CircuitBreaker, TokenBucket

CONSTANTS
  Callers,      \* tasks that think with this agent
  MaxAttempts,  \* max_attempts of @retry
  MaxWait       \* max_wait of wait_and_acquire

ASSUME ThinkParams == MaxAttempts \in Nat \ {0} /\ MaxWait \in Nat

VARIABLES
  calls,    \* caller -> where its think is
  breaker,  \* self._circuit_breaker
  bucket,   \* the bucket of this agent in self._rate_limiter
  tripped   \* history: ticks since the breaker last opened, up to RecoveryTime + 1

vars == <<calls, breaker, bucket, tripped>>

Calls ==
  [pc : {"idle",      \* not thinking
         "limiting",  \* asyncio.sleep(0.1) of wait_and_acquire
         "calling",   \* in wait_for(self._client.generate(...))
         "backoff"},  \* asyncio.sleep between two attempts
   attempt : 0..MaxAttempts,
   waited : 0..(MaxWait + 1)]  \* ticks since wait_and_acquire began

Idle == [pc |-> "idle", attempt |-> 0, waited |-> 0]

Init ==
  /\ calls = [c \in Callers |-> Idle]
  /\ breaker = NewBreaker
  /\ bucket = NewBucket
  /\ tripped = RecoveryTime + 1

Opens == breaker.state # "open" /\ breaker'.state = "open"

\* think returns or raises: CircuitOpenError becomes an empty answer,
\* RateLimitExceeded and other errors are raised and not retried.
Over(c) == calls' = [calls EXCEPT ![c] = Idle]

\* A poll of the limiter, in the given attempt, waited ticks after the first
\* one; with a token the caller goes on to the breaker and the model.
Poll(c, attempt, waited) ==
  \/ /\ ~Has(bucket, 1)
     /\ bucket' = Refilled(bucket)
     /\ IF waited > MaxWait
        THEN Over(c)
        ELSE calls' = [calls EXCEPT ![c] = [pc |-> "limiting", attempt |-> attempt,
                                            waited |-> waited]]
     /\ UNCHANGED breaker
  \/ /\ Has(bucket, 1)
     /\ bucket' = Taken(bucket, 1)
     /\ IF Refuses(breaker)
        THEN Over(c) /\ UNCHANGED breaker
        ELSE /\ calls' = [calls EXCEPT ![c] = [pc |-> "calling", attempt |-> attempt,
                                               waited |-> 0]]
             /\ breaker' = Admitted(breaker)

Think(c) ==
  /\ calls[c].pc = "idle"
  /\ Poll(c, 1, 0)
  /\ UNCHANGED tripped

PollAgain(c) ==
  /\ calls[c].pc = "limiting"
  /\ Poll(c, calls[c].attempt, calls[c].waited)
  /\ UNCHANGED tripped

\* The model answers.
Answered(c) ==
  /\ calls[c].pc = "calling"
  /\ breaker' = Succeeded(breaker)
  /\ Over(c)
  /\ UNCHANGED <<bucket, tripped>>

\* The breaker's record of a failure, which may open it.
RecordFailure ==
  /\ breaker' = Failed(breaker)
  /\ tripped' = IF Opens THEN 0 ELSE tripped

\* The model raises: only LLMTimeoutError is retried.
ModelRaises(c) ==
  /\ calls[c].pc = "calling"
  /\ RecordFailure
  /\ Over(c)
  /\ UNCHANGED bucket

\* mutant: a timed out call is tried again for as long as it takes.
TimesOutForever(c) ==
  /\ calls[c].pc = "calling"
  /\ RecordFailure
  /\ calls' = [calls EXCEPT ![c].pc = "backoff", ![c].attempt = 0]
  /\ UNCHANGED bucket

\* mutant: one attempt more than max_attempts.
TimesOutOnceMore(c) ==
  /\ calls[c].pc = "calling"
  /\ RecordFailure
  /\ IF calls[c].attempt <= MaxAttempts
     THEN calls' = [calls EXCEPT ![c].pc = "backoff"]
     ELSE Over(c)
  /\ UNCHANGED bucket

\* asyncio.TimeoutError becomes LLMTimeoutError, which the decorator catches.
TimesOut(c) ==
  /\ calls[c].pc = "calling"
  /\ RecordFailure
  /\ IF calls[c].attempt < MaxAttempts
     THEN calls' = [calls EXCEPT ![c].pc = "backoff"]
     ELSE Over(c)
  /\ UNCHANGED bucket

BackoffOver(c) ==
  /\ calls[c].pc = "backoff"
  /\ Poll(c, calls[c].attempt + 1, 0)
  /\ UNCHANGED tripped

\* The task is cancelled while it is suspended: CancelledError is not an
\* Exception, so neither the breaker nor the decorator takes notice.
Cancelled(c) ==
  /\ calls[c].pc # "idle"
  /\ Over(c)
  /\ UNCHANGED <<breaker, bucket, tripped>>

\* time.monotonic() advances; ages stop where they make no difference.
Tick ==
  /\ breaker' = Older(breaker)
  /\ bucket' = [bucket EXCEPT !.age = IF @ < Capacity THEN @ + 1 ELSE @]
  /\ calls' = [c \in Callers |->
                 [calls[c] EXCEPT !.waited =
                    IF calls[c].pc = "limiting" /\ @ <= MaxWait THEN @ + 1 ELSE @]]
  /\ tripped' = IF tripped <= RecoveryTime THEN tripped + 1 ELSE tripped

\* What the event loop does by itself: polls, timeouts and ends of sleeps.
Scheduled(c) == PollAgain(c) \/ TimesOut(c) \/ BackoffOver(c)

Next ==
  \/ Tick
  \/ \E c \in Callers :
       Scheduled(c) \/ Think(c) \/ Answered(c) \/ ModelRaises(c) \/ Cancelled(c)

Spec == Init /\ [][Next]_vars

\* The model need not answer and nobody need think.
FairSpec == Spec /\ WF_vars(Tick) /\ \A c \in Callers : WF_vars(Scheduled(c))

---------------------------------------------------------------------------
(* Properties.                                                             *)

\* Every variable has its type; no think has more attempts than @retry allows.
TypeOK ==
  /\ calls \in [Callers -> Calls]
  /\ breaker \in Breaker
  /\ bucket \in Bucket
  /\ tripped \in 0..(RecoveryTime + 1)

\* The counters of the breaker follow its state through late answers of calls
\* it admitted in an earlier state: it is closed as long as fewer failures are
\* counted than the threshold, and half-open for fewer probes than allowed.
BreakerAddsUp ==
  /\ breaker.state = "closed" <=> breaker.failures < FailureThreshold
  /\ breaker.state = "half_open" => breaker.probes < HalfOpenMax

\* Once the breaker has opened, no call to the model begins before
\* recovery_timeout is over, whatever calls from before still report.
OpenKeepsCallsAway ==
  [][\A c \in Callers :
       calls[c].pc # "calling" /\ calls'[c].pc = "calling" /\ tripped <= RecoveryTime
         => breaker.state # "open"]_vars

\* Every think ends, although the model may never answer and the bucket may
\* stay empty: by the wait limit, the timeouts and the number of attempts.
EveryThinkEnds == \A c \in Callers : calls[c].pc # "idle" ~> calls[c].pc = "idle"
===========================================================================
