-------------------------- MODULE MCWorkflowBuilder --------------------------
(***************************************************************************)
(* WorkflowBuilder on all definitions of up to two nodes that only call,   *)
(* and on conditions followed by a call, with every test on a few values.  *)
(***************************************************************************)
EXTENDS WorkflowBuilder

CONSTANTS a, b

Optional == {a, b, None}
Empty == {[count |-> 0, start |-> a, node |-> <<>>]}

Call(t, n, e) == [temp |-> t, kind |-> "call", next |-> n, error |-> e, yes |-> None, no |-> None]
Calls == {Call(t, n, e) : t, n, e \in Optional}
Conditions == {[Call(a, n, None) EXCEPT !.kind = "condition", !.yes = y, !.no = z] :
                 n, y, z \in {b, None}}

MCDefinitions ==
  Empty
  \cup [count : {1}, start : Optional, node : [1 .. 1 -> Calls]]
  \cup [count : {2}, start : {a}, node : [1 .. 2 -> Calls]]
  \cup {[count |-> 2, start |-> a, node |-> <<c, Call(b, None, None)>>] : c \in Conditions}

Value(type, texts) == [type : {type}, text : texts]
Fields == Value("str", {"", "0", "5", "57", "[]"}) \cup Value("int", {"0", "5"})
            \cup Value("list", {"[]", "[5]"}) \cup Value("none", {"None"})
Values == Value("str", {"", "5", "57"}) \cup Value("int", {"0", "5"}) \cup Value("none", {"None"})

MCTests == [op : Operators, field : Fields, value : Values]
=============================================================================
