---------------------------- MODULE DefinitionRun ----------------------------
(***************************************************************************)
(* What a workflow definition in JSON means: it runs from its start node   *)
(* along the temp_ids its nodes give as next_node and on_error.            *)
(* WorkflowBuilder implements this, with one thing that does not work: the *)
(* branch a condition names in its config leads nowhere.                   *)
(***************************************************************************)
EXTENDS Naturals

CONSTANTS None, Nowhere

VARIABLES
  definition,
  spot,     \* the temp_id the run has come to
  errors,   \* an error is recorded
  outcome

vars == <<definition, spot, errors, outcome>>

Nodes(d) == 1 .. d.count
Named(d, t) == {i \in Nodes(d) : d.node[i].temp = t}

\* No two nodes have the same temp_id.
Distinct(d) == \A i, j \in Nodes(d) :
  d.node[i].temp = d.node[j].temp /\ d.node[i].temp # None => i = j

\* Where a link leads: None ends the run.
Place(d, t) == IF t = None \/ Named(d, t) # {} THEN t ELSE Nowhere

Init == spot = None /\ ~errors /\ outcome = "new"

Start ==
  /\ outcome = "new"
  /\ definition.start # None /\ Named(definition, definition.start) # {}
  /\ outcome' = "running" /\ spot' = definition.start
  /\ UNCHANGED <<definition, errors>>

Reject ==
  /\ outcome = "new"
  /\ definition.start = None \/ Named(definition, definition.start) = {}
  /\ outcome' = "rejected"
  /\ UNCHANGED <<definition, spot, errors>>

\* A node that succeeds is followed by its next_node; a condition by its branch, if it
\* has one; a node that fails by its on_error.
Follow(i) ==
  LET n == definition.node[i] IN
  /\ outcome = "running" /\ spot # None /\ n.temp = spot
  /\ \/ spot' = Place(definition, n.next) /\ UNCHANGED errors
     \/ spot' = Place(definition, n.error) /\ errors' = TRUE
     \/ /\ n.kind = "condition" /\ {n.yes, n.no} # {None}
        /\ spot' = Nowhere /\ UNCHANGED errors
  /\ UNCHANGED <<definition, outcome>>

Complete ==
  /\ outcome = "running" /\ spot = None /\ ~errors
  /\ outcome' = "completed"
  /\ UNCHANGED <<definition, spot, errors>>

\* After an error, nowhere, or at the iteration limit.
Fail ==
  /\ outcome = "running"
  /\ outcome' = "failed" /\ errors' = TRUE
  /\ UNCHANGED <<definition, spot>>

\* Two nodes with the same temp_id: no meaning is claimed.
Ambiguous == ~Distinct(definition) /\ UNCHANGED definition

Next == \/ Start \/ Reject \/ Complete \/ Fail \/ Ambiguous
        \/ \E i \in Nodes(definition) : Follow(i)

Spec == Init /\ [][Next]_vars
=============================================================================
