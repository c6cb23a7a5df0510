------------------------------ MODULE JobService ------------------------------
(***************************************************************************)
(* What the job engine promises to the callers of IJobEngine, without      *)
(* queue entries, abort controllers, bus or promises: a job is accepted    *)
(* only while the service is open, begins when one of Limit slots is free  *)
(* and no more urgent job waits, begins at most once, ends in one final    *)
(* status, and keeps its slot from its beginning until after its end.      *)
(***************************************************************************)
EXTENDS Integers, FiniteSets

CONSTANTS Jobs, Priority, Limit

VARIABLES
    accepting,  \* the service accepts jobs
    status,     \* JobStatus of every job
    slots       \* jobs that hold a slot

vars == <<accepting, status, slots>>

Final == {"COMPLETED", "FAILED", "CANCELLED"}

Init ==
    /\ accepting = FALSE
    /\ status = [j \in Jobs |-> "PENDING"]
    /\ slots = {}

OpenOrClose ==
    /\ accepting' = ~accepting
    /\ UNCHANGED <<status, slots>>

Accept(j) ==
    /\ accepting
    /\ status[j] = "PENDING"
    /\ status' = [status EXCEPT ![j] = "QUEUED"]
    /\ UNCHANGED <<accepting, slots>>

Withdraw(j) ==
    /\ status[j] = "QUEUED"
    /\ status' = [status EXCEPT ![j] = "CANCELLED"]
    /\ UNCHANGED <<accepting, slots>>

\* A closed service may still begin a job: the engine's loop does not look
\* at the state again between two jobs.
Begin(j) ==
    /\ status[j] = "QUEUED"
    /\ \A k \in Jobs : status[k] = "QUEUED" => Priority[k] <= Priority[j]
    /\ Cardinality(slots) < Limit
    /\ status' = [status EXCEPT ![j] = "RUNNING"]
    /\ slots' = slots \cup {j}
    /\ UNCHANGED accepting

End(j) ==
    /\ status[j] = "RUNNING"
    /\ \E st \in Final : status' = [status EXCEPT ![j] = st]
    /\ UNCHANGED <<accepting, slots>>

Release(j) ==
    /\ j \in slots
    /\ status[j] \in Final
    /\ slots' = slots \ {j}
    /\ UNCHANGED <<accepting, status>>

Next ==
    \/ OpenOrClose
    \/ \E j \in Jobs : \/ Accept(j) \/ Withdraw(j) \/ Begin(j)
                       \/ End(j) \/ Release(j)

Spec == Init /\ [][Next]_vars

\* A job that began ends and gives its slot back.
FairSpec == Spec /\ \A j \in Jobs : WF_vars(End(j)) /\ WF_vars(Release(j))
=============================================================================
