----------------------------- MODULE MCJobEngine -----------------------------
(* Values for the model checker: three jobs, of which two share a priority  *)
(* and the one that is submitted last may be the most urgent.               *)
EXTENDS JobEngine

CONSTANTS lowA, lowB, high, s1, s2

MCPriority == [j \in Jobs |-> IF j = high THEN 3 ELSE 1]
=============================================================================
