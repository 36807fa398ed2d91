--------------------------- MODULE WorkflowBuilder ---------------------------
(***************************************************************************)
(* create_workflow_from_json (core/workflow_manager.py), and the way the   *)
(* executor goes through the nodes it has built (core/workflow_engine.py). *)
(* What a node does is left to WorkflowEngine, except a condition, which   *)
(* is evaluated: its field is rendered to a text first.                    *)
(*                                                                         *)
(* The ids of the nodes, uuids in the code, are their positions.  A link   *)
(* the builder does not resolve still holds a temp_id.                     *)
(***************************************************************************)
EXTENDS Naturals

CONSTANTS
  Temps,         \* temp_ids
  Definitions,   \* workflow definitions
  Tests,         \* conditions: a field's value, an operator and a config value
  None, Nowhere,
  MaxIterations  \* max_iterations

NodeData == [temp : Temps \cup {None}, kind : {"call", "condition"},
             next : Temps \cup {None}, error : Temps \cup {None},
             yes : Temps \cup {None}, no : Temps \cup {None}]  \* true_node, false_node

Operators == {"equals", "not_equals", "greater_than", "less_than", "contains", "not_empty", "empty"}
Types == {"str", "int", "list", "none"}

ASSUME BuilderParams ==
  /\ Temps \cap Nat = {} /\ None \notin Temps \cup Nat /\ Nowhere \notin Temps \cup Nat \cup {None}
  /\ \A d \in Definitions : /\ d.count \in Nat /\ d.start \in Temps \cup {None}
                            /\ d.node \in [1 .. d.count -> NodeData]
  /\ Definitions # {} /\ Tests # {}
  /\ MaxIterations \in Nat \ {0}

VARIABLES
  definition, test,  \* what is built, and what its conditions test
  workflow,          \* the nodes with their links
  at,                \* current_node_id
  iteration,
  errors,            \* context["errors"] is not empty
  met,               \* the last condition_met
  outcome

vars == <<definition, test, workflow, at, iteration, errors, met, outcome>>

Nodes(d) == 1 .. d.count
Named(d, t) == {i \in Nodes(d) : d.node[i].temp = t}

Init ==
  /\ definition \in Definitions
  /\ test \in IF \E i \in Nodes(definition) : definition.node[i].kind = "condition"
             THEN Tests ELSE {CHOOSE t \in Tests : TRUE}
  /\ workflow = <<>> /\ at = None /\ iteration = 0
  /\ errors = FALSE /\ met = None /\ outcome = "new"

-----------------------------------------------------------------------------
(* create_workflow_from_json *)

Largest(S) == CHOOSE i \in S : \A j \in S : j <= i

\* node_map: of several nodes with one temp_id the last.
NodeMap(d, t) == Largest(Named(d, t))
Known(d, t) == t # None /\ Named(d, t) # {}

\* mutant: names are left as they are
Unlinked(d, i, link) == d.node[i][link]

\* The second loop writes the resolved link of every node to the last one with the same
\* temp_id; what has no temp_id, or names no node, stays as given.
Linked(d, i, link) ==
  LET t == d.node[i].temp
      writers == {j \in Named(d, t) : Known(d, d.node[j][link])}
  IN IF t # None /\ i = NodeMap(d, t) /\ writers # {}
     THEN NodeMap(d, d.node[Largest(writers)][link])
     ELSE d.node[i][link]

\* The branches of a condition are part of its config, which is not looked into.
Build(d) == [i \in Nodes(d) |-> [kind |-> d.node[i].kind,
                                next |-> Linked(d, i, "next"), error |-> Linked(d, i, "error"),
                                yes |-> d.node[i].yes, no |-> d.node[i].no]]

Create ==
  /\ outcome = "new" /\ Known(definition, definition.start)
  /\ workflow' = Build(definition)
  /\ at' = NodeMap(definition, definition.start)
  /\ outcome' = "running"
  /\ UNCHANGED <<definition, test, iteration, errors, met>>

\* ValueError: no nodes, no start_node, or one that names no node.
Reject ==
  /\ outcome = "new" /\ ~Known(definition, definition.start)
  /\ outcome' = "rejected"
  /\ UNCHANGED <<definition, test, workflow, at, iteration, errors, met>>

-----------------------------------------------------------------------------
(* _execute_condition *)

\* mutant: the value itself, not its text
RenderedAsIs(v) == v

\* template_engine.render: str() of a value, json.dumps of a list, and '' of None.
Rendered(v) == [type |-> "str", text |-> IF v.type = "none" THEN "" ELSE v.text]

Numbers == [t \in {"0", "5", "57"} |-> IF t = "0" THEN 0 ELSE IF t = "5" THEN 5 ELSE 57]

\* Values as the texts str() makes of them: that of an int or a list is not empty, and
\* that of a list is no number.
PyValues == {v \in [type : Types, text : STRING] :
               /\ v.type \in {"int", "list"} => v.text # ""
               /\ v.type = "list" => v.text \notin DOMAIN Numbers}

ASSUME TestsTyped ==
  \A t \in Tests : t.op \in Operators /\ {t.field, t.value} \subseteq PyValues

Float(v) == v.type \in {"str", "int"} /\ v.text \in DOMAIN Numbers

\* The texts of the instance: "57" contains "5", all contain "".
Contains(text, part) == part \in {"", text} \/ <<text, part>> = <<"57", "5">>

Falsy(v) == v.type = "none" \/ <<v.type, v.text>> \in {<<"str", "">>, <<"int", "0">>, <<"list", "[]">>}

\* What Python makes of a test.
Compare(op, a, b) ==
  CASE op = "equals" -> a = b
    [] op = "not_equals" -> a # b
    [] op = "greater_than" -> Float(a) /\ Float(b) /\ Numbers[a.text] > Numbers[b.text]
    [] op = "less_than" -> Float(a) /\ Float(b) /\ Numbers[a.text] < Numbers[b.text]
    [] op = "contains" -> {a.type, b.type} = {"str"} /\ Contains(a.text, b.text)
    [] op = "not_empty" -> ~Falsy(a)
    [] op = "empty" -> Falsy(a)

Evaluate(t) == Compare(t.op, Rendered(t.field), t.value)

-----------------------------------------------------------------------------
(* execute_workflow *)

Visiting(i) == outcome = "running" /\ iteration < MaxIterations /\ at = i

Succeed(i) ==
  /\ Visiting(i) /\ workflow[i].kind = "call"
  /\ at' = workflow[i].next /\ iteration' = iteration + 1
  /\ UNCHANGED <<definition, test, workflow, errors, met, outcome>>

\* mutant: the error is not recorded
FailSilently(i) ==
  /\ Visiting(i)
  /\ at' = workflow[i].error /\ iteration' = iteration + 1
  /\ UNCHANGED <<definition, test, workflow, errors, met, outcome>>

\* A call that failed in its last attempt, or a condition without a field.
FailNode(i) ==
  /\ Visiting(i)
  /\ at' = workflow[i].error /\ iteration' = iteration + 1 /\ errors' = TRUE
  /\ UNCHANGED <<definition, test, workflow, met, outcome>>

Branch(i) ==
  /\ Visiting(i) /\ workflow[i].kind = "condition"
  /\ met' = Evaluate(test)
  /\ LET branch == IF met' THEN workflow[i].yes ELSE workflow[i].no IN
     at' = IF branch # None THEN branch ELSE workflow[i].next
  /\ iteration' = iteration + 1
  /\ UNCHANGED <<definition, test, workflow, errors, outcome>>

\* "Node ... not found": only the ids are looked up.
NotFound ==
  /\ outcome = "running" /\ iteration < MaxIterations /\ at # None
  /\ at \notin Nodes(definition)
  /\ errors' = TRUE /\ outcome' = "failed"
  /\ UNCHANGED <<definition, test, workflow, at, iteration, met>>

Finish ==
  /\ outcome = "running" /\ (at = None \/ iteration >= MaxIterations)
  /\ errors' = (errors \/ iteration >= MaxIterations)
  /\ outcome' = IF errors' THEN "failed" ELSE "completed"
  /\ UNCHANGED <<definition, test, workflow, at, iteration, met>>

Next ==
  \/ Create
  \/ Reject
  \/ \E i \in Nodes(definition) : Succeed(i)
  \/ \E i \in Nodes(definition) : FailNode(i)
  \/ \E i \in Nodes(definition) : Branch(i)
  \/ NotFound
  \/ Finish

Spec == Init /\ [][Next]_vars

-----------------------------------------------------------------------------
(* Properties *)

\* A workflow runs along the temp_ids of its definition, whatever the order and the
\* repetitions of its links, until it takes a named branch of a condition.
Meaning == INSTANCE DefinitionRun WITH
  spot <- IF at \in Nodes(definition) THEN definition.node[at].temp
          ELSE IF at = None THEN None ELSE Nowhere
ImplementsDefinitionRun == Meaning!Spec

\* A condition compares texts: on a text, and for numbers by size, it does what it says;
\* equality with a number never holds, and an empty list and 0 count as not empty.
ConditionsSeeTexts == met # None =>
  LET plain == Compare(test.op, test.field, test.value) IN
  /\ test.field.type = "str" \/ test.op \in {"greater_than", "less_than"} => met = plain
  /\ test.op \in {"equals", "not_equals"} /\ test.value.type # "str" =>
       met = (test.op = "not_equals")
  /\ test.op \in {"empty", "not_empty"} =>
       (met # plain <=> test.field.type \in {"int", "list"} /\ Falsy(test.field))
=============================================================================
