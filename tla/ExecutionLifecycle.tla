------------------------ MODULE ExecutionLifecycle ------------------------
(***************************************************************************)
(* What WorkflowExecutor promises about an execution, whatever happens     *)
(* inside it: it begins once, ends once with one final status, is counted  *)
(* accordingly, and at most once, after the end, leaves a record of that   *)
(* status behind.  WorkflowEngine implements this specification.           *)
(***************************************************************************)
EXTENDS Naturals

CONSTANT Exec

VARIABLES
  life,    \* where each execution is
  stored,  \* the record each one left
  counts   \* what get_metrics answers

vars == <<life, stored, counts>>

Final == {"completed", "failed", "cancelled"}

Init ==
  /\ life = [e \in Exec |-> "absent"]
  /\ stored = [e \in Exec |-> "none"]
  /\ counts = [executed |-> 0, succeeded |-> 0, failed |-> 0, cancelled |-> 0]

Count(c, status) ==
  CASE status = "completed" -> [c EXCEPT !.succeeded = @ + 1]
    [] status = "failed"    -> [c EXCEPT !.failed = @ + 1]
    [] status = "cancelled" -> [c EXCEPT !.cancelled = @ + 1]
    [] status = "active"    -> c

\* An execution begins; one that cannot run any node fails on the spot.
Begin(d, status) ==
  /\ life[d] = "absent"
  /\ status \in {"active", "failed"}
  /\ life' = [life EXCEPT ![d] = status]
  /\ counts' = Count([counts EXCEPT !.executed = @ + 1], status)

End(e, status) ==
  /\ life[e] = "active"
  /\ status \in Final
  /\ life' = [life EXCEPT ![e] = status]
  /\ counts' = Count(counts, status)
  /\ UNCHANGED stored

Record(e) ==
  /\ life[e] \in Final
  /\ stored[e] = "none"
  /\ stored' = [stored EXCEPT ![e] = life[e]]

Next ==
  \E e \in Exec :
    \/ \E status \in Final : End(e, status)
    \/ Record(e) /\ UNCHANGED <<life, counts>>
    \/ \E status \in {"active", "failed"} :
         /\ Begin(e, status)
         /\ \/ UNCHANGED stored
            \/ \E prev \in Exec : Record(prev)

Spec == Init /\ [][Next]_vars
===========================================================================
