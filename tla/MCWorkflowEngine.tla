------------------------- MODULE MCWorkflowEngine -------------------------
(***************************************************************************)
(* Instances of WorkflowEngine for TLC.  "Steps" has one execution at a    *)
(* time walk a graph with every kind of node, a retry, a cycle, a dangling *)
(* link and error links.  "Loops" has several executions whose loop nodes  *)
(* run a sub-workflow, competing for few permits.                          *)
(***************************************************************************)
EXTENDS WorkflowEngine

Node(kind, next, onError, retry) ==
  [kind |-> kind, next |-> next, onError |-> onError, yes |-> next, no |-> next,
   retry |-> retry, sub |-> "missing", items |-> 0, subMax |-> 1]

Branch(yes, no, onError) ==
  [Node("condition", NoNode, onError, 0) EXCEPT !.yes = yes, !.no = no]

LoopOver(sub, items, retry, subMax) ==
  [Node("loop", NoNode, NoNode, retry)
     EXCEPT !.sub = sub, !.items = items, !.subMax = subMax]

Flow(start, maxIter, nodes) ==
  [start |-> start, maxIter |-> maxIter, nodes |-> nodes]

StepFlows ==
  [graph |-> Flow("a", 4,
     [a |-> Node("call", "b", "d", 1),
      b |-> Branch("a", "c", "d"),
      c |-> Node("stop", NoNode, NoNode, 0),
      d |-> Node("throw", NoNode, "gone", 0)]),
   line |-> Flow("a", 3, [a |-> Node("call", "b", "b", 0), b |-> Node("call", NoNode, NoNode, 0)]),
   empty |-> Flow(NoNode, 1, [a |-> Node("stop", NoNode, NoNode, 0)])]

\* As many iterations as the workflow has nodes in a row.
TightFlows ==
  [line |-> Flow("a", 2, [a |-> Node("call", "b", NoNode, 0), b |-> Node("call", NoNode, NoNode, 0)])]

LoopFlows ==
  [outer |-> Flow("l", 2, [l |-> LoopOver("inner", 2, 1, 2)]),
   inner |-> Flow("a", 2, [a |-> Node("call", NoNode, NoNode, 0)])]

\* Two loops of one iteration each can hold both permits their iterations need.
LiveFlows ==
  [outer |-> Flow("l", 2, [l |-> LoopOver("inner", 1, 0, 2)]),
   inner |-> Flow("a", 2, [a |-> Node("call", NoNode, NoNode, 0)])]

\* Executions that spend their time getting and giving back permits, some of them
\* for the iterations of others.
PermitFlows ==
  [outer |-> Flow("l", 2, [l |-> LoopOver("leaf", 2, 0, 2)]),
   leaf |-> Flow("a", 2, [a |-> Node("stop", NoNode, NoNode, 0)])]

AllNodeIds == {"a", "b", "c", "d", "l", "gone", "none"}
===========================================================================
