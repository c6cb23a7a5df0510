--------------------------- MODULE MCTaskScheduler ---------------------------
(* Values for the model checker: a task, one that depends on it and is less  *)
(* urgent, and (with three tasks) one between them that is more urgent: it   *)
(* depends on the first, and the less urgent one on both.                    *)
EXTENDS TaskScheduler

CONSTANTS parent, child, hasty

MCDeps == [t \in Tasks |-> CASE t = parent -> {}
                             [] t = hasty  -> {parent}
                             [] t = child  -> Tasks \ {child}]

MCPriority == [t \in Tasks |-> CASE t = child -> 2 [] t = parent -> 3 [] t = hasty -> 4]
=============================================================================
