---------------------------- MODULE MCMessageBus ----------------------------
(* Values for the model checker: the message sent first or last may be the  *)
(* most urgent, and two of the requests share a correlation id.             *)
EXTENDS MessageBus

CONSTANTS m1, m2, urgent, r1, r2, r3, h1, h2, h3, k1, k2

MCPriority == [m \in Msgs |-> IF m = urgent THEN 4 ELSE 2]

HandlerSymmetry == Permutations(Handlers)

MCCorrelation == [r \in Requests |-> IF r = r3 THEN k2 ELSE k1]
=============================================================================
