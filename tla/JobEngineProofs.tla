--------------------------- MODULE JobEngineProofs ---------------------------
(***************************************************************************)
(* Machine-checked proofs about JobEngine, for every number of jobs,       *)
(* submissions and stop() calls and every value of the flags, except where *)
(* a theorem assumes that no job object is submitted twice.                *)
(***************************************************************************)
EXTENDS JobEngine, FiniteSetTheorems, TLAPS

Used(e) == pc[e] # "unused"

\* An entry is used exactly when its number was given, and has a job then.
EntriesGiven ==
    \A e \in Entries : /\ Used(e) <=> e < nextSeq
                       /\ Used(e) => jobOf[e] \in Jobs

-----------------------------------------------------------------------------
(* Type correctness.                                                       *)

LEMMA InitTyped == Init => TypeOK /\ EntriesGiven
<1> SUFFICES ASSUME Init
             PROVE  TypeOK /\ EntriesGiven
  OBVIOUS
<1>1. userCode \in BOOLEAN /\ unhandled \in BOOLEAN
  BY Zenon DEF Init
<1>. QED
  BY <1>1, LimitAssumption
     DEF Init, TypeOK, EntriesGiven, Entries, Used

LEMMA NextTyped == TypeOK /\ EntriesGiven /\ [Next]_vars => TypeOK' /\ EntriesGiven'
<1> SUFFICES ASSUME TypeOK, EntriesGiven, [Next]_vars
             PROVE  TypeOK' /\ EntriesGiven'
  OBVIOUS
<1> USE LimitAssumption, NoneAssumption
<1> USE DEF TypeOK, EntriesGiven, Used, Running, Final,
            vars, engineVars, entryVars, jobVars, loopVars
<1>1. CASE Start
  <2>1. userCode' \in BOOLEAN /\ unhandled' \in BOOLEAN
    BY <1>1, Zenon DEF Start
  <2>. QED
    BY <1>1, <2>1 DEF Start
<1>2. ASSUME NEW s \in Stoppers, StopAgain(s) \/ Stop(s) \/ StopContinues(s)
      PROVE  TypeOK' /\ EntriesGiven'
  BY <1>2 DEF StopAgain, Stop, StopContinues
<1>3. ASSUME NEW j \in Jobs, Submit(j)
      PROVE  TypeOK' /\ EntriesGiven'
  BY <1>3 DEF Submit, Mutable, Entries
<1>4. ASSUME NEW j \in Jobs, CancelActive(j) \/ CancelQueued(j)
      PROVE  TypeOK' /\ EntriesGiven'
  BY <1>4 DEF CancelActive, CancelQueued, TakenOut, Queue, Mutable
<1>5. ASSUME NEW e \in Entries, SubmitPublished(e)
      PROVE  TypeOK' /\ EntriesGiven'
  <2>1. userCode' \in BOOLEAN /\ unhandled' \in BOOLEAN
    BY <1>5, Zenon DEF SubmitPublished, ProcessQueue
  <2>. QED
    BY <1>5, <2>1 DEF SubmitPublished, ProcessQueue
<1>6. ASSUME NEW e \in Entries, StartedPublished(e) \/ BodySettles(e)
      PROVE  TypeOK' /\ EntriesGiven'
  BY <1>6 DEF StartedPublished, BodySettles, Catch, Advance
<1>7. ASSUME NEW e \in Entries, Finally(e)
      PROVE  TypeOK' /\ EntriesGiven'
  <2>1. userCode' \in BOOLEAN
    BY <1>7, Zenon DEF Finally, ProcessQueue
  <2>2. unhandled' \in BOOLEAN
    BY <1>7, Zenon DEF Finally
  <2>. QED
    BY <1>7, <2>1, <2>2 DEF Finally, ProcessQueue
<1>8. CASE LoopEnds
  BY <1>8 DEF LoopEnds
<1>9. ASSUME NEW e \in Entries, Dequeue(e)
      PROVE  TypeOK' /\ EntriesGiven'
  BY <1>9 DEF Dequeue, Advance, Mutable, IsHead, Queue
<1>10. CASE UNCHANGED vars
  BY <1>10
<1>. QED
  BY <1>1, <1>2, <1>3, <1>4, <1>5, <1>6, <1>7, <1>8, <1>9, <1>10
     DEF Next, Callers, Continuations, Loop

\* Every variable keeps its type, and every entry in the queue or beyond it
\* has a job, whatever the callers do.
THEOREM TypeCorrect == Spec => [](TypeOK /\ EntriesGiven)
<1>1. Init => TypeOK /\ EntriesGiven
  BY InitTyped
<1>2. TypeOK /\ EntriesGiven /\ [Next]_vars => TypeOK' /\ EntriesGiven'
  BY NextTyped
<1>. QED
  BY <1>1, <1>2, PTL DEF Spec

-----------------------------------------------------------------------------
(* A final status is final.                                                *)

LEMMA FinalStep ==
  TypeOK /\ [Next]_vars =>
      \A j \in Jobs : status[j] \in Final => status'[j] = status[j]
<1> SUFFICES ASSUME TypeOK, [Next]_vars, NEW j \in Jobs, status[j] \in Final
             PROVE  status'[j] = status[j]
  OBVIOUS
<1> USE DEF TypeOK, Mutable, Advance, vars, engineVars, entryVars, jobVars, loopVars
<1>1. CASE Start \/ LoopEnds \/ UNCHANGED vars
  BY <1>1 DEF Start, LoopEnds
<1>2. ASSUME NEW s \in Stoppers, StopAgain(s) \/ Stop(s) \/ StopContinues(s)
      PROVE  status'[j] = status[j]
  BY <1>2 DEF StopAgain, Stop, StopContinues
<1>3. ASSUME NEW k \in Jobs, Submit(k) \/ CancelActive(k) \/ CancelQueued(k)
      PROVE  status'[j] = status[j]
  BY <1>3 DEF Submit, CancelActive, CancelQueued
<1>4. ASSUME NEW e \in Entries, \/ SubmitPublished(e) \/ StartedPublished(e)
                                \/ BodySettles(e) \/ Finally(e) \/ Dequeue(e)
      PROVE  status'[j] = status[j]
  BY <1>4 DEF SubmitPublished, StartedPublished, BodySettles, Finally, Dequeue, Catch
<1>. QED
  BY <1>1, <1>2, <1>3, <1>4 DEF Next, Callers, Continuations, Loop

\* A job's final status never changes, even when the job object is submitted
\* again while it is queued or running.
THEOREM FinalForever == Spec => FinalIsForever
  BY TypeCorrect, FinalStep, PTL DEF Spec, FinalIsForever

-----------------------------------------------------------------------------
(* No overtaking.                                                          *)

Begun(e) == pc[e] \in Running \cup {"done"}

LEMMA BegunStep ==
  ASSUME TypeOK, EntriesGiven, [Next]_vars, NEW e \in Entries
  PROVE  /\ jobOf'[e] # jobOf[e] => pc[e] = "unused" /\ e = nextSeq
         /\ pc'[e] = "queued" => pc[e] = "queued" \/ e = nextSeq
         /\ Begun(e)' => Begun(e) \/ Dequeue(e)
<1> USE DEF TypeOK, EntriesGiven, Used, Begun, Running, Advance,
            vars, engineVars, entryVars, jobVars, loopVars
<1>1. CASE Start \/ LoopEnds \/ UNCHANGED vars
  BY <1>1 DEF Start, LoopEnds
<1>2. ASSUME NEW s \in Stoppers, StopAgain(s) \/ Stop(s) \/ StopContinues(s)
      PROVE  pc' = pc /\ jobOf' = jobOf
  BY <1>2 DEF StopAgain, Stop, StopContinues
<1>3. ASSUME NEW j \in Jobs, Submit(j)
      PROVE  /\ jobOf'[e] # jobOf[e] => pc[e] = "unused" /\ e = nextSeq
             /\ pc'[e] = "queued" => pc[e] = "queued" \/ e = nextSeq
             /\ Begun(e)' => Begun(e)
  BY <1>3, LimitAssumption DEF Submit, Entries
<1>4. ASSUME NEW j \in Jobs, CancelActive(j) \/ CancelQueued(j)
      PROVE  /\ jobOf' = jobOf
             /\ pc'[e] = "queued" => pc[e] = "queued"
             /\ Begun(e)' => Begun(e)
  BY <1>4 DEF CancelActive, CancelQueued, TakenOut, Queue
<1>5. ASSUME NEW f \in Entries, \/ SubmitPublished(f) \/ StartedPublished(f)
                                \/ BodySettles(f) \/ Finally(f)
      PROVE  /\ jobOf' = jobOf
             /\ pc'[e] = "queued" => pc[e] = "queued"
             /\ Begun(e)' => Begun(e)
  BY <1>5 DEF SubmitPublished, StartedPublished, BodySettles, Finally, Catch
<1>6. ASSUME NEW f \in Entries, Dequeue(f)
      PROVE  /\ jobOf' = jobOf
             /\ pc'[e] = "queued" => pc[e] = "queued"
             /\ Begun(e)' => Begun(e) \/ e = f
  BY <1>6 DEF Dequeue
<1>. QED
  BY <1>1, <1>2, <1>3, <1>4, <1>5, <1>6 DEF Next, Callers, Continuations, Loop

LEMMA OvertakingStep ==
  TypeOK /\ EntriesGiven /\ NoOvertaking /\ [Next]_vars => NoOvertaking'
<1> SUFFICES ASSUME TypeOK, EntriesGiven, NoOvertaking, [Next]_vars,
                    NEW e \in Entries, NEW f \in Entries,
                    pc'[e] = "queued", Begun(f)',
                    Priority[jobOf'[f]] <= Priority[jobOf'[e]]
             PROVE  f < e
  BY DEF NoOvertaking, Begun
<1>1. jobOf'[f] = jobOf[f] /\ f < nextSeq /\ Used(f)
  BY BegunStep DEF Dequeue, IsHead, Queue, EntriesGiven, Used, Begun, Running
<1>2. CASE e = nextSeq
  BY <1>1, <1>2 DEF Entries
<1>3. CASE e # nextSeq
  <2>1. pc[e] = "queued" /\ jobOf'[e] = jobOf[e]
    BY <1>3, BegunStep
  <2>2. CASE Begun(f)
    BY <2>1, <2>2, <1>1 DEF NoOvertaking, Begun
  <2>3. CASE Dequeue(f)
    <3>1. e # f
      BY <2>3 DEF Dequeue, Advance, TypeOK
    <3>2. Precedes(f, e)
      BY <2>1, <2>3, <3>1 DEF Dequeue, IsHead, Queue
    <3>3. jobOf[e] \in Jobs /\ jobOf[f] \in Jobs
      BY <1>1, <2>1 DEF EntriesGiven, Used
    <3>. QED
      BY <3>2, <3>3, <1>1, <2>1, JobsAssumption DEF Precedes, Entries
  <2>. QED
    BY <2>2, <2>3, BegunStep
<1>. QED
  BY <1>2, <1>3

\* Of two entries of which the earlier is at least as urgent, the later never
\* begins while the earlier one is in the queue.
THEOREM NobodyOvertakes == Spec => []NoOvertaking
<1>1. Init => NoOvertaking
  BY DEF Init, NoOvertaking, Entries
<1>2. TypeOK /\ EntriesGiven /\ NoOvertaking /\ [Next]_vars => NoOvertaking'
  BY OvertakingStep
<1>. QED
  BY <1>1, <1>2, TypeCorrect, PTL DEF Spec

-----------------------------------------------------------------------------
(* One place, and the concurrency limit, when no job object is submitted   *)
(* twice.  The inductive invariant says how the progress of an entry fixes *)
(* the status of its job and the collections the job is in.                *)

\* What the progress of entry e says of its job.
EntryFixesJob ==
    \A e \in Entries :
        LET j == jobOf[e]
        IN  /\ pc[e] = "queued" => status[j] = "QUEUED"
            /\ pc[e] \in {"starting", "body"} => status[j] = "RUNNING"
            /\ pc[e] \in {"publishing", "removed", "done"} => status[j] \in Final
            /\ pc[e] # "rejected"
            /\ e \in Live <=> Used(e) /\ active[j] = e
            /\ pc[e] \in {"removed", "done"} <=> Used(e) /\ j \in history

\* A job and its only entry.
OneEntry ==
    /\ \A e, f \in Entries : Used(e) /\ Used(f) /\ jobOf[e] = jobOf[f] => e = f
    /\ \A j \in Jobs :
          \/ status[j] = "PENDING" /\ active[j] = None /\ j \notin history
             /\ \A e \in Entries : jobOf[e] # j
          \/ status[j] # "PENDING" /\ \E e \in Entries : Used(e) /\ jobOf[e] = j
    /\ \A j \in Jobs : active[j] # None => active[j] \in Live /\ jobOf[active[j]] = j

SlotsBounded == Cardinality(ActiveJobs) <= MaxConcurrency

Once == TypeOK /\ EntriesGiven /\ EntryFixesJob /\ OneEntry /\ SlotsBounded

LEMMA InitOnce == Init => Once
<1> SUFFICES ASSUME Init
             PROVE  Once
  OBVIOUS
<1>1. TypeOK /\ EntriesGiven
  BY InitTyped
<1>2. EntryFixesJob
  BY DEF Init, EntryFixesJob, Live, Running, Used
<1>3. OneEntry
  BY NoneAssumption DEF Init, OneEntry, Used
<1>4. SlotsBounded
  <2>1. ActiveJobs = {}
    BY DEF Init, ActiveJobs
  <2>. QED
    BY <2>1, FS_EmptySet, LimitAssumption DEF SlotsBounded
<1>. QED
  BY <1>1, <1>2, <1>3, <1>4 DEF Once

\* Steps that move no entry and change no collection.
LEMMA QuietOnce ==
  ASSUME Once, TypeOK', EntriesGiven', UNCHANGED <<nextSeq, jobOf, pc, jobVars>>
  PROVE  Once'
<1> USE DEF Once, jobVars
<1>1. EntryFixesJob'
  BY DEF EntryFixesJob, Used, Live
<1>2. OneEntry'
  BY DEF OneEntry, Used, Live
<1>3. SlotsBounded'
  BY DEF SlotsBounded, ActiveJobs
<1>. QED
  BY <1>1, <1>2, <1>3

LEMMA SubmitOnce ==
  ASSUME ~Resubmission, Once, TypeOK', EntriesGiven', NEW j \in Jobs, Submit(j)
  PROVE  Once'
<1> USE LimitAssumption, NoneAssumption
    DEF Once, Submit, TypeOK, EntriesGiven, Used, Mutable, Final
<1>1. nextSeq \in Entries /\ ~Used(nextSeq) /\ status[j] = "PENDING"
  BY DEF Entries
<1>2. /\ active[j] = None /\ j \notin history
      /\ \A e \in Entries : jobOf[e] # j
  BY <1>1 DEF OneEntry
<1>3. Live' = Live
  BY <1>1 DEF Live, Running
<1>4. EntryFixesJob'
  BY <1>1, <1>2, <1>3 DEF EntryFixesJob
<1>5. OneEntry'
  <2>1. (\A e, f \in Entries : Used(e) /\ Used(f) /\ jobOf[e] = jobOf[f] => e = f)'
    BY <1>1, <1>2 DEF OneEntry
  <2>2. ASSUME NEW k \in Jobs, k # j
        PROVE  \/ (status[k] = "PENDING" /\ active[k] = None /\ k \notin history
                   /\ \A e \in Entries : jobOf[e] # k)'
               \/ (status[k] # "PENDING" /\ \E e \in Entries : Used(e) /\ jobOf[e] = k)'
    BY <1>1, <2>2 DEF OneEntry
  <2>3. (status[j] # "PENDING" /\ \E e \in Entries : Used(e) /\ jobOf[e] = j)'
    BY <1>1
  <2>4. (\A k \in Jobs : active[k] # None => active[k] \in Live /\ jobOf[active[k]] = k)'
    BY <1>1, <1>3 DEF OneEntry, Live, Running
  <2>. QED
    BY <2>1, <2>2, <2>3, <2>4 DEF OneEntry
<1>6. SlotsBounded'
  BY DEF SlotsBounded, ActiveJobs
<1>. QED
  BY <1>4, <1>5, <1>6

LEMMA CancelOnce ==
  ASSUME Once, TypeOK', EntriesGiven', NEW j \in Jobs, CancelQueued(j)
  PROVE  Once'
<1> USE NoneAssumption DEF Once, CancelQueued, TypeOK, EntriesGiven, Used, TakenOut, Queue
<1>1. PICK e \in Queue : jobOf[e] = j
  OBVIOUS
<1>2. /\ pc' = [pc EXCEPT ![e] = "removed"]
      /\ status[j] = "QUEUED"
  <2>1. \A f \in Entries : f \in Queue /\ jobOf[f] = j <=> f = e
    BY <1>1 DEF OneEntry
  <2>2. \A f \in Entries : pc'[f] = IF f = e THEN "removed" ELSE pc[f]
    BY <2>1
  <2>3. pc' = [pc EXCEPT ![e] = "removed"]
    BY <2>2
  <2>4. status[j] = "QUEUED"
    BY <1>1 DEF EntryFixesJob
  <2>. QED
    BY <2>3, <2>4
<1>3. /\ status' = [status EXCEPT ![j] = "CANCELLED"]
      /\ history' = history \cup {j}
  BY <1>2 DEF Mutable, Final
<1>4. Live' = Live
  BY <1>1, <1>2 DEF Live, Running
<1>5. EntryFixesJob'
  BY <1>1, <1>2, <1>3, <1>4 DEF EntryFixesJob, OneEntry, Final
<1>6. OneEntry'
  BY <1>1, <1>2, <1>3, <1>4 DEF OneEntry
<1>7. SlotsBounded'
  BY DEF SlotsBounded, ActiveJobs
<1>. QED
  BY <1>5, <1>6, <1>7

\* Steps of an execution that keep it live: its job's status follows.
LEMMA AdvanceOnce ==
  ASSUME Once, TypeOK', EntriesGiven', NEW e \in Entries,
         UNCHANGED <<nextSeq, jobOf, active, history>>,
         NEW p \in {"body", "publishing"}, e \in Live,
         pc' = [pc EXCEPT ![e] = p],
         NEW st, p = "body" => st = "RUNNING", p = "publishing" => st \in Final,
         status' = [status EXCEPT ![jobOf[e]] = st]
  PROVE  Once'
<1> USE NoneAssumption DEF Once, TypeOK, EntriesGiven, Used
<1>1. Live' = Live /\ Used(e) /\ jobOf[e] \in Jobs
  BY DEF Live, Running
<1>2. EntryFixesJob'
  BY <1>1 DEF EntryFixesJob, OneEntry, Live, Running
<1>3. OneEntry'
  BY <1>1 DEF OneEntry, Final
<1>4. SlotsBounded'
  BY DEF SlotsBounded, ActiveJobs
<1>. QED
  BY <1>2, <1>3, <1>4

LEMMA ActiveFinite == TypeOK => IsFiniteSet(ActiveJobs) /\ Cardinality(ActiveJobs) \in Nat
  BY JobsAssumption, FS_Subset, FS_CardinalityType DEF ActiveJobs

LEMMA DequeueOnce ==
  ASSUME Once, TypeOK', EntriesGiven', NEW e \in Entries, Dequeue(e)
  PROVE  Once'
<1> DEFINE j == jobOf[e]
<1> USE NoneAssumption DEF Once, TypeOK, EntriesGiven, Used
<1>1. pc[e] = "queued" /\ j \in Jobs /\ status[j] = "QUEUED"
  BY DEF Dequeue, IsHead, Queue, EntryFixesJob
<1>2. active[j] = None
  BY <1>1 DEF OneEntry, Live, Running
<1>3. /\ active' = [active EXCEPT ![j] = e]
      /\ status' = [status EXCEPT ![j] = "RUNNING"]
      /\ pc' = [pc EXCEPT ![e] = "starting"]
      /\ UNCHANGED <<nextSeq, jobOf, history>>
  BY <1>1 DEF Dequeue, Advance, Mutable, Final
<1>4. Live' = Live \cup {e}
  BY <1>1, <1>3 DEF Live, Running
<1>5. EntryFixesJob'
  BY <1>1, <1>3, <1>4 DEF EntryFixesJob, OneEntry, Final
<1>6. OneEntry'
  BY <1>1, <1>3, <1>4 DEF OneEntry
<1>7. SlotsBounded'
  <2>1. ActiveJobs' = ActiveJobs \cup {j}
    BY <1>1, <1>3, JobsAssumption DEF ActiveJobs, Entries
  <2>2. j \notin ActiveJobs
    BY <1>2 DEF ActiveJobs
  <2>3. Cardinality(ActiveJobs') = Cardinality(ActiveJobs) + 1
    BY <2>1, <2>2, ActiveFinite, FS_AddElement
  <2>4. Cardinality(ActiveJobs) < MaxConcurrency
    BY DEF Dequeue, SlotFree
  <2>. QED
    BY <2>3, <2>4, ActiveFinite, LimitAssumption DEF SlotsBounded
<1>. QED
  BY <1>5, <1>6, <1>7

LEMMA FinallyOnce ==
  ASSUME Once, TypeOK', EntriesGiven', NEW e \in Entries, Finally(e)
  PROVE  Once'
<1> DEFINE j == jobOf[e]
<1> USE NoneAssumption DEF Once, TypeOK, EntriesGiven, Used
<1>1. pc[e] = "publishing" /\ e \in Live /\ j \in Jobs /\ active[j] = e /\ status[j] \in Final
  BY DEF Finally, EntryFixesJob, Live, Running
<1>2. /\ active' = [active EXCEPT ![j] = None]
      /\ history' = history \cup {j}
      /\ pc' = [pc EXCEPT ![e] = "done"]
      /\ UNCHANGED <<nextSeq, jobOf, status>>
  BY DEF Finally
<1>3. Live' = Live \ {e}
  BY <1>1, <1>2 DEF Live, Running
<1>4. EntryFixesJob'
  <2>1. ASSUME NEW f \in Entries, f # e, Used(f)
        PROVE  jobOf[f] \in Jobs /\ jobOf[f] # j
    BY <1>1, <2>1 DEF OneEntry, Live, Running
  <2>2. e \in Entries /\ pc'[e] = "done" /\ e \notin Live'
        /\ active'[j] = None /\ j \in history' /\ e # None
    BY <1>1, <1>2, <1>3 DEF Entries
  <2>3. ASSUME NEW f \in Entries, f # e, Used(f)
        PROVE  /\ pc'[f] = pc[f] /\ (f \in Live' <=> f \in Live)
               /\ active'[jobOf[f]] = active[jobOf[f]]
               /\ (jobOf[f] \in history' <=> jobOf[f] \in history)
    BY <1>1, <1>2, <1>3, <2>1, <2>3
  <2>4. ASSUME NEW f \in Entries, ~Used(f)
        PROVE  pc'[f] = "unused" /\ f \notin Live'
    BY <1>1, <1>2, <1>3, <2>4 DEF Live, Running
  <2>. QED
    BY <1>1, <1>2, <2>2, <2>3, <2>4 DEF EntryFixesJob
<1>5. OneEntry'
  BY <1>1, <1>2, <1>3 DEF OneEntry, Final
<1>6. SlotsBounded'
  <2>1. ActiveJobs' \subseteq ActiveJobs
    BY <1>2 DEF ActiveJobs
  <2>2. Cardinality(ActiveJobs') <= Cardinality(ActiveJobs) /\ Cardinality(ActiveJobs') \in Nat
    BY <2>1, ActiveFinite, FS_Subset, FS_CardinalityType
  <2>. QED
    BY <2>2, ActiveFinite, LimitAssumption DEF SlotsBounded
<1>. QED
  BY <1>4, <1>5, <1>6

LEMMA NextOnce == ~Resubmission /\ Once /\ [Next]_vars => Once'
<1> SUFFICES ASSUME ~Resubmission, Once, [Next]_vars
             PROVE  Once'
  OBVIOUS
<1>0. TypeOK' /\ EntriesGiven'
  BY NextTyped DEF Once
<1>1. CASE Start \/ LoopEnds \/ UNCHANGED vars
  BY <1>0, <1>1, QuietOnce
     DEF Start, LoopEnds, vars, engineVars, entryVars, jobVars, loopVars
<1>2. ASSUME NEW s \in Stoppers, StopAgain(s) \/ Stop(s) \/ StopContinues(s)
      PROVE  Once'
  BY <1>0, <1>2, QuietOnce DEF StopAgain, Stop, StopContinues, entryVars
<1>3. ASSUME NEW j \in Jobs, Submit(j) \/ CancelQueued(j)
      PROVE  Once'
  BY <1>0, <1>3, SubmitOnce, CancelOnce
<1>4. ASSUME NEW j \in Jobs, CancelActive(j)
      PROVE  Once'
  BY <1>0, <1>4, QuietOnce DEF CancelActive
<1>5. ASSUME NEW e \in Entries, SubmitPublished(e)
      PROVE  Once'
  BY <1>0, <1>5, QuietOnce DEF SubmitPublished
<1>6. ASSUME NEW e \in Entries, StartedPublished(e) \/ BodySettles(e)
      PROVE  Once'
  <2>1. e \in Live /\ jobOf[e] \in Jobs /\ status[jobOf[e]] = "RUNNING" /\ Mutable(jobOf[e])
    BY <1>6 DEF StartedPublished, BodySettles, Once, EntryFixesJob, Live, Running,
                EntriesGiven, Used, Mutable, Final
  <2>2. /\ UNCHANGED <<nextSeq, jobOf, active, history>>
        /\ \/ pc' = [pc EXCEPT ![e] = "body"] /\ status' = status
           \/ /\ pc' = [pc EXCEPT ![e] = "publishing"]
              /\ \E st \in Final : status' = [status EXCEPT ![jobOf[e]] = st]
    BY <1>6, <2>1 DEF StartedPublished, BodySettles, Catch, Advance, Final
  <2>3. CASE pc' = [pc EXCEPT ![e] = "body"] /\ status' = status
    <3>1. status' = [status EXCEPT ![jobOf[e]] = "RUNNING"]
      BY <2>1, <2>3 DEF Once, TypeOK
    <3>. QED
      BY <1>0, <2>1, <2>2, <2>3, <3>1, AdvanceOnce
  <2>4. CASE /\ pc' = [pc EXCEPT ![e] = "publishing"]
             /\ \E st \in Final : status' = [status EXCEPT ![jobOf[e]] = st]
    <3>1. PICK st \in Final : status' = [status EXCEPT ![jobOf[e]] = st]
      BY <2>4
    <3>. QED
      BY <1>0, <2>1, <2>2, <2>4, <3>1, AdvanceOnce
  <2>. QED
    BY <2>2, <2>3, <2>4
<1>7. ASSUME NEW e \in Entries, Finally(e) \/ Dequeue(e)
      PROVE  Once'
  BY <1>0, <1>7, FinallyOnce, DequeueOnce
<1>. QED
  BY <1>1, <1>2, <1>3, <1>4, <1>5, <1>6, <1>7 DEF Next, Callers, Continuations, Loop

LEMMA OnceInvariant == ASSUME ~Resubmission PROVE Spec => []Once
<1>1. Init => Once
  BY InitOnce
<1>2. Once /\ [Next]_vars => Once'
  BY NextOnce
<1>. QED
  BY <1>1, <1>2, PTL DEF Spec

\* get() and snapshot() see every submitted job in exactly one collection,
\* with the status that belongs there.
THEOREM JobsInOnePlace == ASSUME ~Resubmission PROVE Spec => []OnePlace
<1>1. Once => OnePlace
  <2> SUFFICES ASSUME Once, NEW j \in Jobs
               PROVE  /\ status[j] = "QUEUED" <=> \E e \in Queue : jobOf[e] = j
                      /\ status[j] = "RUNNING" => active[j] # None
                      /\ j \in history <=> status[j] \in Final /\ active[j] = None
    BY DEF OnePlace, Once, OneEntry, EntryFixesJob, Queue, Live, Used, Running
  <2> USE NoneAssumption DEF Once, TypeOK, EntriesGiven, EntryFixesJob, Used
  <2>1. CASE status[j] = "PENDING"
    BY <2>1 DEF OneEntry, Queue, Final
  <2>2. CASE \E e \in Entries : Used(e) /\ jobOf[e] = j
    <3>1. PICK e \in Entries : Used(e) /\ jobOf[e] = j
      BY <2>2
    <3>2. e # None
      BY DEF Entries
    <3>. QED
      BY <3>1, <3>2 DEF OneEntry, Queue, Live, Running, Final
  <2>. QED
    BY <2>1, <2>2 DEF OneEntry
<1>. QED
  BY <1>1, OnceInvariant, PTL

\* No more than maxConcurrency executions are ever between their beginning
\* and their finally clause.
THEOREM LimitKept == ASSUME ~Resubmission PROVE Spec => []ConcurrencyLimit
<1>1. Once => ConcurrencyLimit
  <2> SUFFICES ASSUME Once PROVE Cardinality(Live) <= MaxConcurrency
    BY DEF ConcurrencyLimit
  <2> DEFINE f == [e \in Live |-> jobOf[e]]
  <2>1. \A e \in Live : jobOf[e] \in ActiveJobs
    BY NoneAssumption DEF Once, TypeOK, EntriesGiven, EntryFixesJob, ActiveJobs,
                          Live, Entries, Used
  <2>2. \A e, d \in Live : jobOf[e] = jobOf[d] => e = d
    BY DEF Once, OneEntry, EntryFixesJob, Live, Used, Running
  <2>3. f \in Injection(Live, ActiveJobs)
    BY <2>1, <2>2 DEF Injection, IsInjective
  <2>4. /\ IsFiniteSet(Live) /\ Cardinality(Live) <= Cardinality(ActiveJobs)
        /\ Cardinality(Live) \in Nat
    BY <2>3, ActiveFinite, FS_Injection, FS_CardinalityType DEF Once
  <2>. QED
    BY <2>4, ActiveFinite, LimitAssumption DEF Once, SlotsBounded
<1>. QED
  BY <1>1, OnceInvariant, PTL

-----------------------------------------------------------------------------
(* An abort is honoured.                                                   *)

AbortedLive == aborted \subseteq Live

LEMMA AbortedLiveStep == Once /\ AbortedLive /\ [Next]_vars => AbortedLive'
<1> SUFFICES ASSUME Once, AbortedLive, [Next]_vars
             PROVE  AbortedLive'
  OBVIOUS
<1> USE DEF Once, TypeOK, AbortedLive, Live, Running, Advance,
            vars, engineVars, entryVars, jobVars, loopVars
<1>1. CASE Start \/ LoopEnds \/ UNCHANGED vars
  BY <1>1 DEF Start, LoopEnds
<1>2. ASSUME NEW s \in Stoppers, StopAgain(s) \/ Stop(s) \/ StopContinues(s)
      PROVE  AbortedLive'
  BY <1>2 DEF StopAgain, Stop, StopContinues
<1>3. ASSUME NEW j \in Jobs, CancelActive(j)
      PROVE  AbortedLive'
  BY <1>3 DEF CancelActive, OneEntry
<1>4. ASSUME NEW j \in Jobs, Submit(j) \/ CancelQueued(j)
      PROVE  AbortedLive'
  BY <1>4 DEF Submit, CancelQueued, TakenOut, Queue, EntriesGiven, Used
<1>5. ASSUME NEW e \in Entries, \/ SubmitPublished(e) \/ StartedPublished(e)
                                \/ BodySettles(e) \/ Finally(e) \/ Dequeue(e)
      PROVE  AbortedLive'
  BY <1>5 DEF SubmitPublished, StartedPublished, BodySettles, Finally, Dequeue, Catch
<1>. QED
  BY <1>1, <1>2, <1>3, <1>4, <1>5 DEF Next, Callers, Continuations, Loop

LEMMA AbortStep ==
  ASSUME Once, AbortedLive, ~Resubmission, [Next]_vars, NEW e \in aborted
  PROVE  /\ pc[e] = "starting" => pc'[e] # "body"
         /\ status[jobOf[e]] = "RUNNING" => status'[jobOf[e]] \in {"RUNNING", "CANCELLED"}
<1> DEFINE j == jobOf[e]
           Goal == /\ pc[e] = "starting" => pc'[e] # "body"
                   /\ status[j] = "RUNNING" => status'[j] \in {"RUNNING", "CANCELLED"}
<1> USE DEF Once, TypeOK, EntriesGiven, Used,
            vars, engineVars, entryVars, jobVars, loopVars
<1>0. e \in Entries /\ e \in Live /\ j \in Jobs
  BY DEF AbortedLive, Live, Running
<1>1. CASE Start \/ LoopEnds \/ UNCHANGED vars
  BY <1>1 DEF Start, LoopEnds
<1>2. ASSUME NEW s \in Stoppers, StopAgain(s) \/ Stop(s) \/ StopContinues(s)
      PROVE  Goal
  BY <1>2 DEF StopAgain, Stop, StopContinues
<1>3. ASSUME NEW k \in Jobs, Submit(k) \/ CancelActive(k) \/ CancelQueued(k)
      PROVE  Goal
  BY <1>0, <1>3 DEF Submit, CancelActive, CancelQueued, TakenOut, Queue, Mutable
<1>4. ASSUME NEW d \in Entries, StartedPublished(d) \/ BodySettles(d)
      PROVE  Goal
  <2>1. CASE d = e
    BY <1>0, <1>4, <2>1 DEF StartedPublished, BodySettles, AbortSeen, Catch, Advance
  <2>2. CASE d # e
    <3>1. jobOf[d] # j
      BY <1>0, <1>4, <2>2 DEF StartedPublished, BodySettles, OneEntry, Live, Running
    <3>2. status'[j] = status[j] /\ pc'[e] = pc[e]
      BY <1>0, <1>4, <2>2, <3>1 DEF StartedPublished, BodySettles, Catch, Advance
    <3>. QED
      BY <3>2
  <2>. QED
    BY <2>1, <2>2
<1>5. ASSUME NEW d \in Entries, SubmitPublished(d) \/ Finally(d) \/ Dequeue(d)
      PROVE  Goal
  BY <1>0, <1>5 DEF SubmitPublished, Finally, Dequeue, Advance
<1>. QED
  BY <1>1, <1>2, <1>3, <1>4, <1>5 DEF Next, Callers, Continuations, Loop

\* An abort that arrives at any await of a running job keeps the job's
\* function from being entered, and leaves the job no end but CANCELLED.
THEOREM AbortHonoured == ASSUME ~Resubmission PROVE Spec => AbortIsHonoured
<1>1. Init => AbortedLive
  BY DEF Init, AbortedLive
<1>2. Once /\ AbortedLive /\ [Next]_vars => AbortedLive'
  BY AbortedLiveStep
<1>3. Once /\ AbortedLive /\ [Next]_vars =>
        \A e \in aborted :
            /\ pc[e] = "starting" => pc'[e] # "body"
            /\ status[jobOf[e]] = "RUNNING" =>
                  status'[jobOf[e]] \in {"RUNNING", "CANCELLED"}
  BY AbortStep
<1>. QED
  BY <1>1, <1>2, <1>3, OnceInvariant, PTL DEF Spec, AbortIsHonoured

-----------------------------------------------------------------------------
(* A stopped engine is idle.                                               *)

\* What holds around a shutdown when start() waits for stop(): a subscriber
\* inside the loop runs while a job is active, at most one stop() waits, for an
\* active job, and once it is resolved nothing can begin before it goes on.
Shutdown ==
    /\ loops \in {0, 1}
    /\ loops = 1 /\ userCode => ActiveJobs # {}
    /\ state = "stopped" => ActiveJobs = {} /\ loops = 0
    /\ \A s \in Stoppers :
          /\ stops[s] \in {"waiting", "resolved"} => state = "stopping" /\ resolver = s
          /\ stops[s] = "waiting" => ActiveJobs # {}
          /\ stops[s] = "resolved" => ActiveJobs = {} /\ loops = 0

LEMMA ShutdownStep ==
  ~Restart /\ TypeOK /\ EntriesGiven /\ Shutdown /\ [Next]_vars => Shutdown'
<1> SUFFICES ASSUME ~Restart, TypeOK, EntriesGiven, Shutdown, [Next]_vars
             PROVE  Shutdown'
  OBVIOUS
<1> USE NoneAssumption DEF TypeOK, Shutdown, vars, engineVars, entryVars, jobVars, loopVars
<1>1. CASE Start
  BY <1>1 DEF Start, ActiveJobs
<1>2. ASSUME NEW s \in Stoppers, StopAgain(s) \/ Stop(s) \/ StopContinues(s)
      PROVE  Shutdown'
  BY <1>2 DEF StopAgain, Stop, StopContinues, MustWait, CallersRun, EngineIdle, ActiveJobs
<1>3. ASSUME NEW j \in Jobs, Submit(j) \/ CancelActive(j) \/ CancelQueued(j)
      PROVE  Shutdown'
  BY <1>3 DEF Submit, CancelActive, CancelQueued, ActiveJobs
<1>4. ASSUME NEW e \in Entries, SubmitPublished(e)
      PROVE  Shutdown'
  BY <1>4 DEF SubmitPublished, ProcessQueue, EngineIdle, ActiveJobs
<1>5. ASSUME NEW e \in Entries, StartedPublished(e) \/ BodySettles(e)
      PROVE  Shutdown'
  <2>1. UNCHANGED <<state, resolver, stops, active, loops, userCode>>
    BY <1>5 DEF StartedPublished, BodySettles
  <2>. QED
    BY <2>1 DEF ActiveJobs
<1>6. ASSUME NEW e \in Entries, Finally(e)
      PROVE  Shutdown'
  <2>1. ActiveJobs' = ActiveJobs \ {jobOf[e]}
    BY <1>6 DEF Finally, ActiveJobs
  <2>. QED
    BY <1>6, <2>1 DEF Finally, LastActive, ProcessQueue, EngineIdle
<1>7. CASE LoopEnds
  BY <1>7 DEF LoopEnds, ActiveJobs
<1>8. ASSUME NEW e \in Entries, Dequeue(e)
      PROVE  Shutdown'
  <2>1. jobOf[e] \in Jobs
    BY <1>8 DEF Dequeue, IsHead, Queue, EntriesGiven, Used
  <2>2. jobOf[e] \in ActiveJobs'
    BY <1>8, <2>1 DEF Dequeue, ActiveJobs, Entries
  <2>3. loops = 1 /\ UNCHANGED <<loops, state, stops, resolver>>
    BY <1>8 DEF Dequeue
  <2>. QED
    BY <2>2, <2>3
<1>9. CASE UNCHANGED vars
  BY <1>9 DEF ActiveJobs
<1>. QED
  BY <1>1, <1>2, <1>3, <1>4, <1>5, <1>6, <1>7, <1>8, <1>9
     DEF Next, Callers, Continuations, Loop

\* When callers wait for stop() before they call start(), no execution is
\* left in a stopped engine and a stop() that waits has an execution to wait
\* for, whatever subscribers do inside the loop.
THEOREM StoppedEngineIsIdle ==
  ASSUME ~Resubmission, ~Restart PROVE Spec => []StoppedIsIdle
<1>1. Init => Shutdown
  BY NoneAssumption DEF Init, Shutdown, ActiveJobs
<1>2. TypeOK /\ EntriesGiven /\ Shutdown /\ [Next]_vars => Shutdown'
  BY ShutdownStep
<1>3. Once /\ Shutdown => StoppedIsIdle
  <2> SUFFICES ASSUME Once, Shutdown
               PROVE  StoppedIsIdle
    OBVIOUS
  <2>1. ASSUME NEW j \in ActiveJobs PROVE active[j] \in Live
    BY <2>1 DEF Once, OneEntry, ActiveJobs
  <2>2. Live # {} => ActiveJobs # {}
    BY NoneAssumption DEF Once, EntryFixesJob, EntriesGiven, Used, ActiveJobs, Live, Entries
  <2>. QED
    BY <2>1, <2>2 DEF Shutdown, StoppedIsIdle
<1>. QED
  BY <1>1, <1>2, <1>3, TypeCorrect, OnceInvariant, PTL DEF Spec

-----------------------------------------------------------------------------
(* Wake-ups and rejections.                                                *)

\* Once an entry's submit() is over, it stays among those that threw for as long
\* as it is queued.
LEMMA WakerStep ==
    TypeOK /\ BacklogHasWaker /\ [Next]_vars => BacklogHasWaker'
<1> SUFFICES ASSUME TypeOK, BacklogHasWaker, [Next]_vars
             PROVE  BacklogHasWaker'
  OBVIOUS
<1> USE DEF BacklogHasWaker, SlotFree, ActiveJobs
<1>0. loops \in Nat
  BY DEF TypeOK
<1>1. ASSUME UNCHANGED <<state, active, loops, submitting>>, Queue' \subseteq Queue,
             thrown \cap Queue' \subseteq thrown'
      PROVE  BacklogHasWaker'
  BY <1>1
<1>2. ASSUME loops' = loops + 1 PROVE BacklogHasWaker'
  BY <1>0, <1>2
<1>3. ASSUME state' # "running" PROVE BacklogHasWaker'
  BY <1>3
<1>4. CASE Start
  BY <1>2, <1>4 DEF Start
<1>5. ASSUME NEW s \in Stoppers, StopAgain(s) \/ Stop(s) \/ StopContinues(s)
      PROVE  BacklogHasWaker'
  BY <1>3, <1>5 DEF StopAgain, Stop, StopContinues
<1>6. ASSUME NEW j \in Jobs, Submit(j)
      PROVE  BacklogHasWaker'
  <2>1. Queue' \subseteq Queue \cup {nextSeq}
    BY <1>6 DEF Submit, Queue, TypeOK
  <2>. QED
    BY <1>6, <2>1 DEF Submit, engineVars, loopVars
<1>7. ASSUME NEW j \in Jobs, CancelActive(j) \/ CancelQueued(j)
      PROVE  BacklogHasWaker'
  <2>1. Queue' \subseteq Queue /\ thrown \cap Queue' \subseteq thrown'
    BY <1>7 DEF CancelActive, CancelQueued, TakenOut, Queue
  <2>. QED
    BY <1>1, <1>7, <2>1 DEF CancelActive, CancelQueued, engineVars, jobVars, loopVars
<1>8. ASSUME NEW e \in Entries, SubmitPublished(e)
      PROVE  BacklogHasWaker'
  <2>1. CASE ProcessQueue
    BY <1>2, <1>3, <1>8, <2>1 DEF SubmitPublished, ProcessQueue, engineVars
  <2>2. CASE thrown' = thrown \cup (Queue \cap {e}) /\ UNCHANGED loopVars
    <3>1. Queue' = Queue
      BY <1>8 DEF SubmitPublished, Queue
    <3>. QED
      BY <1>8, <2>2, <3>1 DEF SubmitPublished, engineVars, jobVars, loopVars
  <2>. QED
    BY <1>8, <2>1, <2>2 DEF SubmitPublished
<1>9. ASSUME NEW e \in Entries, StartedPublished(e) \/ BodySettles(e)
      PROVE  BacklogHasWaker'
  <2>1. Queue' \subseteq Queue
    BY <1>9 DEF StartedPublished, BodySettles, Catch, Advance, Queue, TypeOK
  <2>. QED
    BY <1>1, <1>9, <2>1 DEF StartedPublished, BodySettles, engineVars, loopVars
<1>10. ASSUME NEW e \in Entries, Finally(e)
       PROVE  BacklogHasWaker'
  BY <1>2, <1>3, <1>10 DEF Finally, ProcessQueue
<1>11. CASE LoopEnds
  BY <1>11 DEF LoopEnds, engineVars, entryVars, jobVars, Queue
<1>12. ASSUME NEW e \in Entries, Dequeue(e)
       PROVE  BacklogHasWaker'
  BY <1>0, <1>12 DEF Dequeue
<1>13. CASE UNCHANGED vars
  BY <1>1, <1>13 DEF vars, engineVars, entryVars, jobVars, loopVars, Queue
<1>. QED
  BY <1>4, <1>5, <1>6, <1>7, <1>8, <1>9, <1>10, <1>11, <1>12, <1>13
     DEF Next, Callers, Continuations, Loop

\* No wake-up is lost, whatever the bus refuses, whenever start() and stop() are
\* called and however often a job is submitted: a running engine with a free slot
\* that is not in its loop has queued only jobs whose submit() has yet to call
\* _processQueue or has thrown.
THEOREM NoWakeUpIsLost == Spec => []BacklogHasWaker
<1>1. Init => BacklogHasWaker
  BY DEF Init, BacklogHasWaker
<1>2. TypeOK /\ EntriesGiven /\ BacklogHasWaker /\ [Next]_vars => BacklogHasWaker'
  BY WakerStep
<1>. QED
  BY <1>1, <1>2, TypeCorrect, PTL DEF Spec

\* When no job object is submitted twice, no execution rejects: whatever is
\* cancelled, and whenever, Job.ensureMutable never throws in an executor.
THEOREM NothingRejects ==
  ASSUME ~Resubmission, ~BusMayThrow PROVE Spec => []NoUnhandledRejection
<1>1. Init => NoUnhandledRejection
  BY DEF Init, NoUnhandledRejection
<1>2. Once /\ NoUnhandledRejection /\ [Next]_vars => NoUnhandledRejection'
  <2> SUFFICES ASSUME Once, ~unhandled, [Next]_vars PROVE ~unhandled'
    BY DEF NoUnhandledRejection
  <2>1. ASSUME NEW e \in Entries, Finally(e) PROVE ~unhandled'
    <3>1. pc[e] # "rejected"
      BY DEF Once, EntryFixesJob
    <3>. QED
      BY <2>1, <3>1, Zenon DEF Finally
  <2>2. ASSUME UNCHANGED unhandled PROVE ~unhandled'
    BY <2>2
  <2>. QED
    BY <2>1, <2>2
       DEF Next, Callers, Continuations, Loop, vars, Start, StopAgain, Stop, StopContinues,
           Submit, CancelActive, CancelQueued, SubmitPublished, StartedPublished, BodySettles,
           LoopEnds, Dequeue
<1>. QED
  BY <1>1, <1>2, OnceInvariant, PTL DEF Spec

-----------------------------------------------------------------------------
(* The engine implements JobService.                                       *)

LEMMA ServiceStep == Once /\ ~Resubmission /\ [Next]_vars => [Service!Next]_(Service!vars)
<1> SUFFICES ASSUME Once, ~Resubmission, [Next]_vars
             PROVE  Service!Next \/ UNCHANGED Service!vars
  OBVIOUS
<1> USE NoneAssumption
    DEF Once, TypeOK, EntriesGiven, Used, Final,
        vars, engineVars, entryVars, jobVars, loopVars, Service!vars, Service!Final
<1>1. CASE Start
  BY <1>1 DEF Start, ActiveJobs, Service!Next, Service!OpenOrClose
<1>2. ASSUME NEW s \in Stoppers, StopAgain(s) \/ Stop(s) \/ StopContinues(s)
      PROVE  Service!Next \/ UNCHANGED Service!vars
  <2>1. ActiveJobs' = ActiveJobs /\ status' = status
    BY <1>2 DEF StopAgain, Stop, StopContinues, ActiveJobs
  <2>2. (state' = "running") = (state = "running") \/ (state' = "running") = ~(state = "running")
    OBVIOUS
  <2>. QED
    BY <2>1, <2>2 DEF Service!Next, Service!OpenOrClose
<1>3. ASSUME NEW j \in Jobs, Submit(j)
      PROVE  Service!Next
  BY <1>3 DEF Submit, Mutable, ActiveJobs, Service!Next, Service!Accept
<1>4. ASSUME NEW j \in Jobs, CancelQueued(j)
      PROVE  Service!Next
  <2>1. status[j] = "QUEUED"
    BY <1>4 DEF CancelQueued, EntryFixesJob, Queue
  <2>. QED
    BY <1>4, <2>1 DEF CancelQueued, Mutable, ActiveJobs, Service!Next, Service!Withdraw
<1>5. ASSUME NEW j \in Jobs, CancelActive(j)
      PROVE  UNCHANGED Service!vars
  BY <1>5 DEF CancelActive, ActiveJobs
<1>6. ASSUME NEW e \in Entries, SubmitPublished(e)
      PROVE  UNCHANGED Service!vars
  BY <1>6 DEF SubmitPublished, ActiveJobs
<1>7. ASSUME NEW e \in Entries, StartedPublished(e) \/ BodySettles(e)
      PROVE  Service!Next \/ UNCHANGED Service!vars
  <2>1. jobOf[e] \in Jobs /\ status[jobOf[e]] = "RUNNING"
    BY <1>7 DEF StartedPublished, BodySettles, EntryFixesJob
  <2>2. /\ UNCHANGED <<state, ActiveJobs>>
        /\ \/ UNCHANGED status
           \/ \E st \in Final : status' = [status EXCEPT ![jobOf[e]] = st]
    BY <1>7, <2>1 DEF StartedPublished, BodySettles, Catch, Advance, Mutable, ActiveJobs
  <2>. QED
    BY <2>1, <2>2 DEF Service!Next, Service!End
<1>8. ASSUME NEW e \in Entries, Finally(e)
      PROVE  Service!Next
  <2>1. jobOf[e] \in ActiveJobs /\ status[jobOf[e]] \in Final /\ jobOf[e] \in Jobs
    BY <1>8 DEF Finally, EntryFixesJob, Live, Running, ActiveJobs, Entries
  <2>2. ActiveJobs' = ActiveJobs \ {jobOf[e]} /\ UNCHANGED <<state, status>>
    BY <1>8 DEF Finally, ActiveJobs
  <2>. QED
    BY <2>1, <2>2 DEF Service!Next, Service!Release
<1>9. CASE LoopEnds \/ UNCHANGED vars
  BY <1>9 DEF LoopEnds, ActiveJobs
<1>10. ASSUME NEW e \in Entries, Dequeue(e)
       PROVE  Service!Next
  <2>1. jobOf[e] \in Jobs /\ status[jobOf[e]] = "QUEUED"
    BY <1>10 DEF Dequeue, IsHead, Queue, EntryFixesJob
  <2>2. /\ status' = [status EXCEPT ![jobOf[e]] = "RUNNING"]
        /\ state' = state
        /\ Cardinality(ActiveJobs) < MaxConcurrency
    BY <1>10, <2>1 DEF Dequeue, Advance, Mutable, SlotFree
  <2>3. ActiveJobs' = ActiveJobs \cup {jobOf[e]}
    BY <1>10, <2>1 DEF Dequeue, ActiveJobs, Entries
  <2>4. ASSUME NEW k \in Jobs, status[k] = "QUEUED"
        PROVE  Priority[k] <= Priority[jobOf[e]]
    <3>1. PICK f \in Queue : jobOf[f] = k
      BY <2>4 DEF OneEntry, EntryFixesJob, Queue, Live, Running
    <3>2. f = e \/ Precedes(e, f)
      BY <1>10, <3>1 DEF Dequeue, IsHead
    <3>. QED
      BY <3>1, <3>2, <2>1, JobsAssumption DEF Precedes
  <2>5. Service!Begin(jobOf[e])
    <3>1. Service!Cardinality(ActiveJobs) = Cardinality(ActiveJobs)
      BY DEF Service!Cardinality, Cardinality, Service!IsFiniteSet, IsFiniteSet
    <3>. QED
      BY <2>1, <2>2, <2>3, <2>4, <3>1 DEF Service!Begin
  <2>. QED
    BY <2>1, <2>5 DEF Service!Next
<1>. QED
  BY <1>1, <1>2, <1>3, <1>4, <1>5, <1>6, <1>7, <1>8, <1>9, <1>10
     DEF Next, Callers, Continuations, Loop

\* Every behaviour of the engine is one of JobService: with queue entries,
\* abort signals and promises hidden, jobs are accepted, begin in order of
\* urgency in a bounded number of slots, and end once.
THEOREM EngineImplementsService == ASSUME ~Resubmission PROVE Spec => ImplementsService
<1>1. Init => Service!Init
  BY DEF Init, ActiveJobs, Service!Init
<1>2. Once /\ [Next]_vars => [Service!Next]_(Service!vars)
  BY ServiceStep
<1>. QED
  BY <1>1, <1>2, OnceInvariant, PTL DEF Spec, ImplementsService, Service!Spec
=============================================================================
