------------------------ MODULE WorkflowBuilderProofs ------------------------
(***************************************************************************)
(* WorkflowBuilder implements DefinitionRun for any set of definitions and *)
(* any iteration limit.  The work is in the links: in a definition whose   *)
(* temp_ids are distinct a built link leads where the given one says.      *)
(***************************************************************************)
EXTENDS WorkflowBuilder, TLAPS

Spot == IF at \in Nodes(definition) THEN definition.node[at].temp
        ELSE IF at = None THEN None ELSE Nowhere

\* Where current_node_id stands, seen from the definition.
SpotOf(d, x) == IF x \in Nodes(d) THEN d.node[x].temp ELSE IF x = None THEN None ELSE Nowhere

Inv ==
  /\ definition \in Definitions /\ errors \in BOOLEAN
  /\ outcome = "new" => at = None /\ errors = FALSE
  /\ outcome = "running" =>
       /\ workflow = Build(definition)
       /\ at \in Nodes(definition) \cup Temps \cup {None}
       /\ at \in Nodes(definition) => definition.node[at].temp \in Temps

\* Nothing is said of the definitions whose temp_ids are not distinct.
DistinctInv == Meaning!Distinct(definition) => Inv

\* Nodes, temp_ids and None are told apart, and the data of a node is typed.
LEMMA DefinitionTypes ==
  ASSUME NEW d \in Definitions
  PROVE  /\ d.count \in Nat /\ Nodes(d) \subseteq Nat /\ d.start \in Temps \cup {None}
         /\ \A i \in Nodes(d) : d.node[i] \in NodeData
         /\ None \notin Nodes(d) /\ None \notin Temps /\ Nowhere \notin Temps \cup {None}
         /\ \A t \in Temps : t \notin Nodes(d)
BY BuilderParams DEF Nodes

\* With distinct temp_ids node_map is the node of that name.
LEMMA NodeMapNames ==
  ASSUME NEW d \in Definitions, Meaning!Distinct(d), NEW i \in Nodes(d), d.node[i].temp # None
  PROVE  Named(d, d.node[i].temp) = {i} /\ NodeMap(d, d.node[i].temp) = i
<1>1. i \in Nat
  BY DefinitionTypes
<1>2. Named(d, d.node[i].temp) = {i}
  BY DEF Meaning!Distinct, Meaning!Nodes, Named, Nodes
<1>3. i \in {i} /\ \A j \in {i} : j <= i
  BY <1>1
<1>4. Largest({i}) = i
  BY <1>3 DEF Largest
<1> QED BY <1>2, <1>4 DEF NodeMap

\* A known temp_id leads to its node.
LEMMA KnownLeads ==
  ASSUME NEW d \in Definitions, Meaning!Distinct(d), NEW t, Known(d, t)
  PROVE  /\ NodeMap(d, t) \in Nodes(d) /\ d.node[NodeMap(d, t)].temp = t
         /\ t \in Temps /\ SpotOf(d, NodeMap(d, t)) = t
<1>1. PICK i \in Nodes(d) : d.node[i].temp = t
  BY DEF Known, Named
<1>2. NodeMap(d, t) = i
  BY <1>1, NodeMapNames DEF Known
<1>3. t \in Temps
  BY <1>1, DefinitionTypes DEF NodeData, Known
<1> QED BY <1>1, <1>2, <1>3 DEF SpotOf

\* The heart of it: a link of a node with a temp_id leads to the place its name stands for.
LEMMA LinksLead ==
  ASSUME NEW d \in Definitions, Meaning!Distinct(d), NEW i \in Nodes(d),
         d.node[i].temp \in Temps, NEW link \in {"next", "error"}
  PROVE  /\ Linked(d, i, link) \in Nodes(d) \cup Temps \cup {None}
         /\ Linked(d, i, link) \in Nodes(d) => d.node[Linked(d, i, link)].temp \in Temps
         /\ SpotOf(d, Linked(d, i, link)) = Meaning!Place(d, d.node[i][link])
<1> DEFINE raw == d.node[i][link]
           writers == {j \in Named(d, d.node[i].temp) : Known(d, d.node[j][link])}
<1>1. raw \in Temps \cup {None} /\ d.node[i].temp # None
  BY DefinitionTypes DEF NodeData
<1>2. Named(d, d.node[i].temp) = {i} /\ NodeMap(d, d.node[i].temp) = i
  BY <1>1, NodeMapNames
<1>3. Linked(d, i, link) = IF writers # {} THEN NodeMap(d, d.node[Largest(writers)][link]) ELSE raw
  BY <1>1, <1>2 DEF Linked
<1>4. CASE Known(d, raw)
  <2>1. writers = {i}
    BY <1>2, <1>4
  <2>2. Largest(writers) = i
    BY <1>2, <2>1 DEF NodeMap
  <2>3. Linked(d, i, link) = NodeMap(d, raw)
    BY <1>3, <2>1, <2>2
  <2>4. Meaning!Place(d, raw) = raw
    BY <1>4 DEF Known, Named, Nodes, Meaning!Place, Meaning!Named, Meaning!Nodes
  <2> QED BY <1>4, <2>3, <2>4, KnownLeads
<1>5. CASE ~Known(d, raw)
  <2>1. Linked(d, i, link) = raw
    BY <1>2, <1>3, <1>5
  <2>2. SpotOf(d, raw) = IF raw = None THEN None ELSE Nowhere
    BY <1>1, DefinitionTypes DEF SpotOf
  <2>3. Meaning!Place(d, raw) = IF raw = None THEN None ELSE Nowhere
    BY <1>5 DEF Known, Named, Nodes, Meaning!Place, Meaning!Named, Meaning!Nodes
  <2> QED BY <1>1, <2>1, <2>2, <2>3, DefinitionTypes
<1> QED BY <1>4, <1>5

\* A link of the workflow is that of the definition.
LEMMA Built ==
  ASSUME NEW d, NEW i \in Nodes(d)
  PROVE  /\ Build(d)[i].next = Linked(d, i, "next") /\ Build(d)[i].error = Linked(d, i, "error")
         /\ Build(d)[i].kind = d.node[i].kind
         /\ Build(d)[i].yes = d.node[i].yes /\ Build(d)[i].no = d.node[i].no
BY DEF Build

\* The branch of a condition is a temp_id or None, and no node.
LEMMA BranchLeads ==
  ASSUME NEW d \in Definitions, NEW b \in Temps
  PROVE  SpotOf(d, b) = Nowhere
BY DefinitionTypes DEF SpotOf

-----------------------------------------------------------------------------
\* Where a visited node leaves the run.
LEMMA StepInv ==
  ASSUME Inv, Meaning!Distinct(definition), Next
  PROVE  Inv'
<1> USE DEF Inv
<1>1. CASE Create
  <2>1. at' \in Nodes(definition) /\ definition.node[at'].temp \in Temps
    BY <1>1, KnownLeads DEF Create
  <2> QED BY <1>1, <2>1 DEF Create
<1>2. CASE Reject
  BY <1>2 DEF Reject
<1>3. ASSUME NEW i \in Nodes(definition), Succeed(i) \/ FailNode(i)
      PROVE  Inv'
  <2>1. workflow[i].next = Linked(definition, i, "next")
        /\ workflow[i].error = Linked(definition, i, "error")
    BY <1>3, Built DEF Succeed, FailNode, Visiting
  <2>2. at' = Linked(definition, i, "next") \/ at' = Linked(definition, i, "error")
    BY <1>3, <2>1 DEF Succeed, FailNode
  <2>3. definition.node[i].temp \in Temps /\ outcome = "running"
    BY <1>3 DEF Succeed, FailNode, Visiting
  <2>4. /\ at' \in Nodes(definition) \cup Temps \cup {None}
        /\ at' \in Nodes(definition) => definition.node[at'].temp \in Temps
    BY <2>2, <2>3, LinksLead
  <2> QED BY <1>3, <2>3, <2>4 DEF Succeed, FailNode
<1>4. ASSUME NEW i \in Nodes(definition), Branch(i)
      PROVE  Inv'
  <2>1. /\ workflow[i].next = Linked(definition, i, "next")
        /\ workflow[i].yes = definition.node[i].yes /\ workflow[i].no = definition.node[i].no
    BY <1>4, Built DEF Branch, Visiting
  <2>2. {definition.node[i].yes, definition.node[i].no} \subseteq Temps \cup {None}
    BY DefinitionTypes DEF NodeData
  <2>3. at' \in Temps \/ at' = Linked(definition, i, "next")
    BY <1>4, <2>1, <2>2 DEF Branch
  <2>4. definition.node[i].temp \in Temps /\ outcome = "running"
    BY <1>4 DEF Branch, Visiting
  <2>5. /\ at' \in Nodes(definition) \cup Temps \cup {None}
        /\ at' \in Nodes(definition) => definition.node[at'].temp \in Temps
    BY <2>3, <2>4, LinksLead, DefinitionTypes
  <2> QED BY <1>4, <2>4, <2>5 DEF Branch
<1>5. CASE NotFound \/ Finish
  BY <1>5 DEF NotFound, Finish
<1> QED BY <1>1, <1>2, <1>3, <1>4, <1>5 DEF Next

\* Every step is one of DefinitionRun's.
LEMMA StepImplements ==
  ASSUME Inv, Meaning!Distinct(definition), Next
  PROVE  Meaning!Next
<1> USE DEF Inv
<1>0. UNCHANGED definition
  BY DEF Next, Create, Reject, Succeed, FailNode, Branch, NotFound, Finish
<1>1. Spot = SpotOf(definition, at) /\ Spot' = SpotOf(definition, at')
  BY <1>0 DEF Spot, SpotOf
<1>2. CASE Create
  <2>1. Spot' = definition.start /\ definition.start # None
    BY <1>1, <1>2, KnownLeads DEF Create, Known
  <2>2. Meaning!Start
    BY <1>2, <2>1 DEF Meaning!Start, Meaning!Named, Meaning!Nodes, Create, Known, Named, Nodes, Spot
  <2> QED BY <2>2 DEF Meaning!Next
<1>3. CASE Reject
  <2>1. Meaning!Reject
    BY <1>1, <1>3 DEF Meaning!Reject, Meaning!Named, Meaning!Nodes, Reject, Known, Named, Nodes, Spot
  <2> QED BY <2>1 DEF Meaning!Next
<1>4. ASSUME NEW i \in Nodes(definition), Visiting(i)
      PROVE  /\ outcome = "running" /\ workflow = Build(definition)
             /\ Spot = definition.node[i].temp /\ Spot \in Temps /\ Spot # None
             /\ \A link \in {"next", "error"} :
                  SpotOf(definition, Linked(definition, i, link))
                    = Meaning!Place(definition, definition.node[i][link])
  <2>1. outcome = "running" /\ at = i /\ Spot = definition.node[i].temp /\ Spot \in Temps
    BY <1>4 DEF Visiting, Spot
  <2> QED BY <2>1, LinksLead, DefinitionTypes
<1>5. ASSUME NEW i \in Nodes(definition), Succeed(i)
      PROVE  Meaning!Follow(i)
  <2>1. Visiting(i) /\ at' = workflow[i].next /\ UNCHANGED <<errors, outcome>>
    BY <1>5 DEF Succeed
  <2>2. Spot' = Meaning!Place(definition, definition.node[i].next)
    BY <1>1, <1>4, <2>1, Built
  <2> QED BY <1>0, <1>4, <2>1, <2>2 DEF Meaning!Follow, Spot
<1>6. ASSUME NEW i \in Nodes(definition), FailNode(i)
      PROVE  Meaning!Follow(i)
  <2>1. Visiting(i) /\ at' = workflow[i].error /\ errors' = TRUE /\ UNCHANGED outcome
    BY <1>6 DEF FailNode
  <2>2. Spot' = Meaning!Place(definition, definition.node[i].error)
    BY <1>1, <1>4, <2>1, Built
  <2> QED BY <1>0, <1>4, <2>1, <2>2 DEF Meaning!Follow, Spot
<1>7. ASSUME NEW i \in Nodes(definition), Branch(i)
      PROVE  Meaning!Follow(i)
  <2> DEFINE n == definition.node[i]
             branch == IF met' THEN n.yes ELSE n.no
  <2>1. Visiting(i) /\ UNCHANGED <<errors, outcome>>
    BY <1>7 DEF Branch
  <2>2. /\ workflow[i].yes = n.yes /\ workflow[i].no = n.no /\ workflow[i].kind = n.kind
        /\ workflow[i].next = Linked(definition, i, "next")
    BY <1>4, <2>1, Built
  <2>3. n.kind = "condition" /\ at' = IF branch # None THEN branch ELSE Linked(definition, i, "next")
    BY <1>7, <2>2 DEF Branch
  <2>4. {n.yes, n.no} \subseteq Temps \cup {None}
    BY DefinitionTypes DEF NodeData
  <2>5. CASE branch = None
    <3>1. Spot' = Meaning!Place(definition, n.next)
      BY <1>1, <1>4, <2>1, <2>3, <2>5
    <3> QED BY <1>0, <1>4, <2>1, <3>1 DEF Meaning!Follow, Spot
  <2>6. CASE branch # None
    <3>1. Spot' = Nowhere
      BY <1>1, <2>3, <2>4, <2>6, BranchLeads
    <3>2. {n.yes, n.no} # {None}
      BY <2>6
    <3> QED BY <1>0, <1>4, <2>1, <2>3, <3>1, <3>2 DEF Meaning!Follow, Spot
  <2> QED BY <2>5, <2>6
<1>8. CASE NotFound
  <2>1. Meaning!Fail
    BY <1>1, <1>8 DEF NotFound, Meaning!Fail, Spot
  <2> QED BY <2>1 DEF Meaning!Next
<1>9. CASE Finish
  <2>1. UNCHANGED <<definition, Spot>> /\ outcome = "running"
    BY <1>1, <1>9 DEF Finish
  <2>2. CASE errors' = TRUE
    <3>1. Meaning!Fail
      BY <1>9, <2>1, <2>2 DEF Finish, Meaning!Fail, Spot
    <3> QED BY <3>1 DEF Meaning!Next
  <2>3. CASE errors' = FALSE
    <3>1. errors = FALSE /\ at = None /\ outcome' = "completed"
      BY <1>9, <2>3 DEF Finish
    <3>2. Spot = None
      BY <3>1, DefinitionTypes DEF Spot
    <3>3. Meaning!Complete
      BY <2>1, <2>3, <3>1, <3>2 DEF Meaning!Complete, Spot
    <3> QED BY <3>3 DEF Meaning!Next
  <2> QED BY <1>9, <2>2, <2>3 DEF Finish
<1>10. (\E i \in Nodes(definition) : Meaning!Follow(i)) => Meaning!Next
  BY DEF Meaning!Next, Meaning!Nodes, Nodes
<1> QED BY <1>2, <1>3, <1>5, <1>6, <1>7, <1>8, <1>9, <1>10 DEF Next

-----------------------------------------------------------------------------
\* A run starts at the start node's temp_id and goes from temp_id to temp_id as the links
\* of the definition say (create_workflow_from_json, execute_workflow), for any set of
\* definitions, those with repeated temp_ids excepted, and any max_iterations.
THEOREM BuilderImplementsDefinitionRun == Spec => ImplementsDefinitionRun
<1>1. Init => DistinctInv /\ Meaning!Init
  BY DefinitionTypes DEF Init, DistinctInv, Inv, Meaning!Init
<1>2. DistinctInv /\ [Next]_vars => DistinctInv'
  <2> SUFFICES ASSUME DistinctInv, [Next]_vars, Meaning!Distinct(definition)'
               PROVE  Inv'
    BY DEF DistinctInv
  <2>1. UNCHANGED definition
    BY DEF Next, Create, Reject, Succeed, FailNode, Branch, NotFound, Finish, vars
  <2>2. Meaning!Distinct(definition) /\ Inv
    BY <2>1 DEF DistinctInv, Meaning!Distinct, Meaning!Nodes
  <2>3. CASE Next
    BY <2>2, <2>3, StepInv
  <2>4. CASE UNCHANGED vars
    BY <2>2, <2>4 DEF Inv, vars
  <2> QED BY <2>3, <2>4
<1>3. DistinctInv /\ [Next]_vars => [Meaning!Next]_(Meaning!vars)
  <2> SUFFICES ASSUME DistinctInv, [Next]_vars
               PROVE  [Meaning!Next]_(Meaning!vars)
    OBVIOUS
  <2>1. CASE UNCHANGED vars
    BY <2>1 DEF vars, Meaning!vars, Nodes
  <2>2. CASE Next /\ Meaning!Distinct(definition)
    BY <2>2, StepImplements DEF DistinctInv
  <2>3. CASE Next /\ ~Meaning!Distinct(definition)
    <3>1. UNCHANGED definition
      BY <2>3 DEF Next, Create, Reject, Succeed, FailNode, Branch, NotFound, Finish
    <3> QED BY <2>3, <3>1 DEF Meaning!Ambiguous, Meaning!Next
  <2> QED BY <2>1, <2>2, <2>3
<1> QED BY <1>1, <1>2, <1>3, PTL DEF Spec, ImplementsDefinitionRun, Meaning!Spec

-----------------------------------------------------------------------------
\* The template engine renders to a string.
LEMMA RenderedIsText ==
  ASSUME NEW v
  PROVE  /\ Rendered(v).type = "str"
         /\ Rendered(v).text = IF v.type = "none" THEN "" ELSE v.text
BY DEF Rendered

\* What _execute_condition makes of any test, for any values.
LEMMA EvaluateSees ==
  ASSUME NEW t \in Tests
  PROVE  LET plain == Compare(t.op, t.field, t.value)  seen == Evaluate(t) IN
         /\ t.field.type = "str" \/ t.op \in {"greater_than", "less_than"} => seen = plain
         /\ t.op \in {"equals", "not_equals"} /\ t.value.type # "str" =>
              seen = (t.op = "not_equals")
         /\ t.op \in {"empty", "not_empty"} =>
              (seen # plain <=> t.field.type \in {"int", "list"} /\ Falsy(t.field))
<1> DEFINE a == t.field
           r == Rendered(a)
<1>1. t.op \in Operators /\ a \in PyValues /\ t.value \in PyValues
  BY TestsTyped
<1>2. /\ r = [type |-> "str", text |-> IF a.type = "none" THEN "" ELSE a.text]
      /\ a = [type |-> a.type, text |-> a.text]
      /\ a.type \in Types
      /\ a.type \in {"int", "list"} => a.text # ""
      /\ a.type = "list" => a.text \notin DOMAIN Numbers
  BY <1>1 DEF Rendered, PyValues
<1>3. "" \notin DOMAIN Numbers
  BY DEF Numbers
<1>4. a.type = "str" => r = a
  BY <1>2
<1>5. Float(r) = Float(a) /\ (Float(a) => r.text = a.text)
  <2> HIDE DEF a
  <2>1. /\ r.type = "str"
        /\ r.text = IF a.type = "none" THEN "" ELSE a.text
    BY RenderedIsText
  <2> HIDE DEF r
  <2>2. Float(a) <=> a.type \in {"str", "int"} /\ a.text \in DOMAIN Numbers
    BY DEF Float
  <2>3. Float(r) <=> r.text \in DOMAIN Numbers
    BY <2>1 DEF Float
  <2>4. CASE a.type = "none"
    BY <1>3, <2>1, <2>2, <2>3, <2>4 DEF Float
  <2>5. CASE a.type = "list"
    BY <1>2, <2>1, <2>2, <2>3, <2>5 DEF Float
  <2>6. CASE a.type \in {"str", "int"}
    BY <2>1, <2>2, <2>3, <2>6 DEF Float
  <2> QED BY <1>2, <2>4, <2>5, <2>6 DEF Types
<1>6. r.type # t.value.type => r # t.value
  OBVIOUS
<1>7. Falsy(r) # Falsy(a) <=> a.type \in {"int", "list"} /\ Falsy(a)
  <2> HIDE DEF a
  <2>1. /\ r.type = "str"
        /\ r.text = IF a.type = "none" THEN "" ELSE a.text
    BY RenderedIsText
  <2> HIDE DEF r
  <2>2. Falsy(r) <=> r.text = ""
    BY <2>1 DEF Falsy
  <2>3. a.type = "none" => Falsy(a)
    BY DEF Falsy
  <2>5. a.type \in {"int", "list"} => a.text # ""
    BY <1>2
  <2>4. a.type = "str" => (Falsy(a) <=> a.text = "")
    BY DEF Falsy
  <2>6. a.type \in {"str", "int", "list", "none"}
    BY <1>2 DEF Types
  <2>7. Falsy(r) \in BOOLEAN /\ Falsy(a) \in BOOLEAN
    BY DEF Falsy
  <2> HIDE DEF r
  <2> QED BY <2>1, <2>2, <2>3, <2>4, <2>5, <2>6, <2>7
<1>8. t.op \in {"greater_than", "less_than"} =>
        Compare(t.op, r, t.value) = Compare(t.op, a, t.value)
  BY <1>5 DEF Compare
<1>9. t.op \in {"equals", "not_equals"} /\ t.value.type # "str" =>
        Compare(t.op, r, t.value) = (t.op = "not_equals")
  <2>1. r.type = "str"
    BY RenderedIsText
  <2>2. t.value.type # "str" => r # t.value
    BY <1>6, <2>1
  <2> HIDE DEF r
  <2> QED BY <2>2 DEF Compare
<1>10. t.op \in {"empty", "not_empty"} =>
         (Compare(t.op, r, t.value) # Compare(t.op, a, t.value) <=> Falsy(r) # Falsy(a))
  BY DEF Compare, Falsy
<1> QED BY <1>4, <1>7, <1>8, <1>9, <1>10 DEF Evaluate

\* What a condition has found is what the one test of the run says.
MetInv == test \in Tests /\ (met # None => met = Evaluate(test))

\* A condition sees the text of its field and not the field (_execute_condition), for any
\* set of definitions, repeated temp_ids included, and any values that have a str().
THEOREM ConditionsAlwaysSeeTexts == Spec => []ConditionsSeeTexts
<1>1. Init => MetInv
  BY BuilderParams DEF Init, MetInv
<1>2. MetInv /\ [Next]_vars => MetInv'
  BY DEF MetInv, Next, Create, Reject, Succeed, FailNode, Branch, NotFound, Finish, vars
<1>3. MetInv => ConditionsSeeTexts
  BY EvaluateSees DEF MetInv, ConditionsSeeTexts
<1> QED BY <1>1, <1>2, <1>3, PTL DEF Spec
=============================================================================
