--------------------------- MODULE DefinitionStore ---------------------------
(***************************************************************************)
(* What WorkflowDatabase promises about workflow definitions: an id has no *)
(* definition, or the one that was saved last as a whole, or has been      *)
(* deleted for good.  WorkflowStore implements this.                       *)
(***************************************************************************)
CONSTANTS Ids, Defs, Absent, Deleted

VARIABLE def  \* id -> its definition

Init == def = [i \in Ids |-> Absent]

Save(i, d) == def[i] # Deleted /\ def' = [def EXCEPT ![i] = d]

Delete(i) == def[i] \in Defs /\ def' = [def EXCEPT ![i] = Deleted]

Next == \E i \in Ids : Delete(i) \/ \E d \in Defs : Save(i, d)

Spec == Init /\ [][Next]_def
=============================================================================
