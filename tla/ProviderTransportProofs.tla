----------------------- MODULE ProviderTransportProofs -----------------------
(***************************************************************************)
(* Proofs about the transport, for any calls, ids and retries.             *)
(*                                                                         *)
(* CancelFinds is inductive with the phases a call may be in (PhasesFit): the *)
(* retries of a call count up before it waits, a stream never retries, and *)
(* a call that has begun has an id.  The argument for the first half: a    *)
(* call loses its entry only to itself, when it settles, to a cancel, or   *)
(* to a call of the same id.                                               *)
(***************************************************************************)
EXTENDS ProviderTransport, FiniteSetTheorems, TLAPS

PhasesFit ==
    \A c \in Calls :
        /\ phase[c] = "idle" => attempt[c] = 0 /\ id[c] = None
        /\ phase[c] # "idle" => id[c] \in Ids
        /\ phase[c] = "waiting" => attempt[c] > 0
        /\ phase[c] \in {"waiting", "refused"} => c \in Executes
        /\ c \in Streams => attempt[c] = 0

Inv == TypeOK /\ PhasesFit /\ TimeoutCovers /\ CancelFinds

StepOf(c) ==
    \/ Begin(c) \/ TimerFires(c)
    \/ c \in Executes /\ (Answered(c) \/ Succeeds(c) \/ Caught(c) \/ CaughtAbort(c) \/ Resends(c))
    \/ c \in Streams /\ (OpenFails(c) \/ Opens(c) \/ Yields(c) \/ Resumed(c) \/ Drained(c) \/ ReadFails(c))

LEMMA StepsOfCalls == Next <=> (\E c \in Calls : StepOf(c)) \/ (\E i \in Ids : Cancel(i))
  BY DEF Next, StepOf, Calls

-----------------------------------------------------------------------------
LEMMA InitInv == Init => Inv
  <1> SUFFICES ASSUME Init PROVE Inv
    OBVIOUS
  <1> USE BoundsAssumption, CallsAssumption DEF Init
  <1>1. TypeOK
    BY DEF TypeOK, Phases
  <1>2. PhasesFit /\ TimeoutCovers
    BY DEF PhasesFit, TimeoutCovers, Unanswered
  <1>3. CancelFinds
    BY DEF CancelFinds, Entered, Cancellable, Unanswered
  <1> QED BY <1>1, <1>2, <1>3 DEF Inv

\* What a call does to the phases and to the retries is its own affair.
LEMMA OwnPhase ==
    ASSUME TypeOK, NEW c \in Calls, StepOf(c)
    PROVE  \A d \in Calls \ {c} : /\ phase'[d] = phase[d] /\ attempt'[d] = attempt[d]
                                  /\ id'[d] = id[d]
  <1> USE DEF TypeOK, Goes, Fails, Retries, counts
  <1>1. CASE Begin(c) \/ TimerFires(c)
    BY <1>1 DEF Begin, TimerFires
  <1>2. CASE Answered(c) \/ Succeeds(c) \/ Caught(c) \/ CaughtAbort(c) \/ Resends(c)
    BY <1>2 DEF Answered, Succeeds, Caught, CaughtAbort, Resends
  <1>3. CASE OpenFails(c) \/ Opens(c) \/ Yields(c) \/ Resumed(c) \/ Drained(c) \/ ReadFails(c)
    BY <1>3 DEF OpenFails, Opens, Yields, Resumed, Drained, ReadFails
  <1> QED BY <1>1, <1>2, <1>3 DEF StepOf

LEMMA TypeStep == ASSUME TypeOK, PhasesFit, [Next]_vars PROVE TypeOK'
  <1> USE BoundsAssumption DEF TypeOK, counts, Goes
  <1>1. CASE UNCHANGED vars
    BY <1>1 DEF vars
  <1>2. ASSUME NEW i \in Ids, Cancel(i) PROVE TypeOK'
    BY <1>2 DEF Cancel
  <1>3. ASSUME NEW c \in Calls, StepOf(c) PROVE TypeOK'
    <2>1. phase' \in [Calls -> Phases]
      <3> USE DEF Phases, Over, Fails, Retries
      <3>1. \/ phase' = phase
            \/ \E p \in Phases : phase' = [phase EXCEPT ![c] = p]
        <4>1. CASE Begin(c) \/ TimerFires(c)
          BY <4>1 DEF Begin, TimerFires
        <4>2. CASE Answered(c) \/ Succeeds(c) \/ Caught(c) \/ CaughtAbort(c) \/ Resends(c)
          BY <4>2 DEF Answered, Succeeds, Caught, CaughtAbort, Resends
        <4>3. CASE OpenFails(c) \/ Opens(c) \/ Yields(c) \/ Resumed(c) \/ Drained(c) \/ ReadFails(c)
          BY <4>3 DEF OpenFails, Opens, Yields, Resumed, Drained, ReadFails
        <4> QED BY <1>3, <4>1, <4>2, <4>3 DEF StepOf
      <3> HIDE DEF Phases
      <3> QED BY <3>1
    <2>0. Free(c) => table' \in [Ids -> Calls \cup {None}]
      BY DEF Free
    <2> USE <2>0, <2>1 DEF Settled, ClearTimer, Fails, Retries
    <2>2. CASE Begin(c) \/ TimerFires(c)
      BY <2>2 DEF Begin, TimerFires
    <2>3. CASE Answered(c)
      <3>1. attempt' \in [Calls -> 0..MaxRetries]
        BY <2>3 DEF Answered
      <3> QED BY <2>3, <3>1 DEF Answered
    <2>9. CASE CaughtAbort(c)
      BY <2>9 DEF CaughtAbort
    <2>4. CASE Succeeds(c) \/ Resends(c)
      BY <2>4 DEF Succeeds, Resends
    <2>5. CASE Caught(c)
      BY <2>5 DEF Caught
    <2>6. CASE OpenFails(c)
      <3>0. failedCount' = failedCount + 1
        BY <2>6, Zenon DEF OpenFails
      <3>1. failedCount' \in Nat
        BY <3>0
      <3>2. timer' \subseteq Calls /\ table' \in [Ids -> Calls \cup {None}]
        BY <2>6 DEF OpenFails
      <3>3. UNCHANGED <<id, attempt, aborted, chunks, successfulCount>>
        BY <2>6 DEF OpenFails
      <3> QED BY <3>1, <3>2, <3>3
    <2>7. CASE Opens(c) \/ Resumed(c) \/ Drained(c) \/ ReadFails(c)
      BY <2>7 DEF Opens, Resumed, Drained, ReadFails
    <2>8. CASE Yields(c)
      BY <2>8 DEF Yields
    <2> QED BY <1>3, <2>2, <2>3, <2>4, <2>5, <2>6, <2>7, <2>8, <2>9 DEF StepOf
  <1> QED BY <1>1, <1>2, <1>3, StepsOfCalls

\* A call that does not begin keeps what cancel() finds, if it gives up its entry
\* just when it can no longer be cancelled.
LEMMA Finding ==
    ASSUME TypeOK, PhasesFit, CancelFinds, NEW c \in Calls, StepOf(c), id' = id,
           aborted \subseteq aborted',
           Cancellable(c)' => Cancellable(c) /\ table' = table,
           Free(c) \/ (table' = table /\ (Entered(c) => Entered(c)'))
    PROVE  CancelFinds'
  <1> USE CallsAssumption
  <1>1. \A d \in Calls \ {c} : /\ Cancellable(d)' <=> Cancellable(d)
                               /\ Entered(d)' <=> Entered(d)
    BY OwnPhase DEF Entered, Cancellable, Unanswered
  <1>2. \A d \in Calls : Shares(d)' <=> Shares(d)
    BY DEF Shares
  <1>3. ASSUME NEW d \in Calls, Cancellable(d)'
        PROVE  table'[id[d]] = d \/ d \in aborted' \/ Shares(d)
    <2>1. CASE d = c
      BY <1>3, <2>1 DEF CancelFinds
    <2>2. CASE d # c /\ id[d] = id[c]
      BY <2>2 DEF Shares
    <2>3. CASE d # c /\ id[d] # id[c]
      <3>1. id[d] \in Ids
        BY <1>1, <1>3, <2>3 DEF Cancellable, Unanswered, PhasesFit
      <3>2. table'[id[d]] = table[id[d]]
        BY <2>3, <3>1 DEF Free, TypeOK
      <3> QED BY <1>1, <1>3, <2>3, <3>2 DEF CancelFinds
    <2> QED BY <2>1, <2>2, <2>3
  <1>4. ASSUME NEW i \in Ids, NEW d \in Calls, table'[i] = d
        PROVE  id[d] = i /\ Entered(d)'
    <2>1. table[i] = d
      BY <1>4 DEF Free, TypeOK
    <2>2. id[d] = i /\ Entered(d)
      BY <2>1 DEF CancelFinds
    <2>3. CASE d = c
      <3>1. ~Free(c)
        BY <1>4, <2>2, <2>3 DEF Free, TypeOK
      <3> QED BY <2>2, <2>3, <3>1
    <2>4. CASE d # c
      BY <1>1, <2>2, <2>4
    <2> QED BY <2>3, <2>4
  <1>5. \A i \in Ids : table'[i] # None => id'[table'[i]] = i /\ table'[i] \in Calls
    <2>1. \A i \in Ids : table'[i] \in Calls \cup {None}
      BY DEF Free, TypeOK
    <2> QED BY <1>4, <2>1
  <1>6. \A d \in Calls : Cancellable(d)' => table'[id'[d]] = d \/ d \in aborted' \/ Shares(d)'
    BY <1>2, <1>3
  <1> QED BY <1>4, <1>5, <1>6 DEF CancelFinds, Entered, Cancellable, Unanswered

-----------------------------------------------------------------------------
\* A step of a call that has begun already.
GoesOn(c) ==
    \/ TimerFires(c)
    \/ c \in Executes /\ (Answered(c) \/ Succeeds(c) \/ Caught(c) \/ CaughtAbort(c) \/ Resends(c))
    \/ c \in Streams /\ (OpenFails(c) \/ Opens(c) \/ Yields(c) \/ Resumed(c) \/ Drained(c) \/ ReadFails(c))

\* What such a step does to the timer, the table and the call itself.
LEMMA Effects ==
    ASSUME TypeOK, PhasesFit, TimeoutCovers, NEW c \in Calls, GoesOn(c)
    PROVE  /\ id' = id /\ aborted \subseteq aborted' /\ timer' \subseteq timer
           /\ timer \ {c} \subseteq timer'
           /\ Unanswered(c)' => c \in timer' \cup aborted'
           /\ Free(c) \/ (table' = table /\ (Entered(c) => Entered(c)'))
           /\ Cancellable(c)' => Cancellable(c) /\ table' = table
           /\ c \in timer' => Unanswered(c)' \/ phase'[c] = "unsent"
           /\ phase[c] # "idle" /\ phase'[c] # "idle"
           /\ phase'[c] = "waiting" => attempt'[c] > 0
           /\ phase'[c] \in {"waiting", "refused"} => c \in Executes
           /\ c \in Streams => attempt'[c] = 0
  <1> USE CallsAssumption, BoundsAssumption
      DEF TypeOK, PhasesFit, TimeoutCovers, Entered, Cancellable, Unanswered, counts
  <1>1. CASE TimerFires(c)
    BY <1>1 DEF TimerFires
  <1> USE DEF Settled, ClearTimer, Goes, Fails, Retries
  <1>2. CASE c \in Executes /\ Answered(c)
    BY <1>2 DEF Answered
  <1>3. CASE c \in Executes /\ Succeeds(c)
    BY <1>3 DEF Succeeds
  <1>4. CASE c \in Executes /\ Caught(c)
    BY <1>4 DEF Caught
  <1>5. CASE c \in Executes /\ CaughtAbort(c)
    BY <1>5 DEF CaughtAbort
  <1>6. CASE c \in Executes /\ Resends(c)
    BY <1>6 DEF Resends
  <1>7. CASE c \in Streams /\ OpenFails(c)
    BY <1>7 DEF OpenFails
  <1>8. CASE c \in Streams /\ Opens(c)
    BY <1>8 DEF Opens
  <1>9. CASE c \in Streams /\ Yields(c)
    BY <1>9 DEF Yields
  <1>10. CASE c \in Streams /\ Resumed(c)
    BY <1>10 DEF Resumed
  <1>11. CASE c \in Streams /\ (Drained(c) \/ ReadFails(c))
    BY <1>11 DEF Drained, ReadFails
  <1> QED BY <1>1, <1>2, <1>3, <1>4, <1>5, <1>6, <1>7, <1>8, <1>9, <1>10, <1>11 DEF GoesOn

\* Every step keeps the invariant.
LEMMA StepInv == ASSUME Inv, [Next]_vars PROVE Inv'
  <1> TypeOK' /\ TypeOK /\ PhasesFit /\ TimeoutCovers /\ CancelFinds
    BY TypeStep DEF Inv
  <1> SUFFICES PhasesFit' /\ TimeoutCovers' /\ CancelFinds'
    BY DEF Inv
  <1> USE CallsAssumption
  <1>1. CASE UNCHANGED vars
    BY <1>1 DEF vars, PhasesFit, TimeoutCovers, CancelFinds, Entered, Cancellable, Unanswered, Shares
  <1>2. ASSUME NEW i \in Ids, Cancel(i) PROVE PhasesFit' /\ TimeoutCovers' /\ CancelFinds'
    <2>1. /\ UNCHANGED <<phase, id, attempt, timer>>
          /\ aborted' = aborted \cup {table[i]} /\ table' = [table EXCEPT ![i] = None]
      BY <1>2 DEF Cancel
    <2>2. PhasesFit' /\ TimeoutCovers'
      BY <2>1 DEF PhasesFit, TimeoutCovers, Unanswered
    <2>3. \A c \in Calls : /\ Cancellable(c)' <=> Cancellable(c)
                           /\ Entered(c)' <=> Entered(c)
                           /\ Shares(c)' <=> Shares(c)
                           /\ Cancellable(c) => id[c] \in Ids
      BY <2>1 DEF Entered, Cancellable, Unanswered, Shares, PhasesFit
    <2>4. ASSUME NEW c \in Calls, Cancellable(c)
          PROVE  table'[id[c]] = c \/ c \in aborted' \/ Shares(c)
      BY <2>1, <2>3, <2>4 DEF CancelFinds, TypeOK
    <2>5. ASSUME NEW j \in Ids, table'[j] # None
          PROVE  table'[j] = table[j]
      BY <2>1, <2>5 DEF TypeOK
    <2>6. CancelFinds'
      BY <2>1, <2>3, <2>4, <2>5 DEF CancelFinds, TypeOK, Entered, Cancellable, Unanswered
    <2> QED BY <2>2, <2>6
  <1>3. ASSUME NEW c \in Calls, Begin(c) PROVE PhasesFit' /\ TimeoutCovers' /\ CancelFinds'
    <2>1. PICK i \in Ids : /\ id' = [id EXCEPT ![c] = i] /\ table' = [table EXCEPT ![i] = c]
                          /\ phase[c] = "idle"
                          /\ \E p \in {"fetching", "unsent"} : phase' = [phase EXCEPT ![c] = p]
                          /\ timer' = timer \cup {c} /\ attempt' = attempt /\ aborted' = aborted
      BY <1>3 DEF Begin, Goes
    <2>2. /\ phase'[c] \in {"fetching", "unsent"} /\ id'[c] = i /\ attempt'[c] = 0
          /\ \A d \in Calls \ {c} : phase'[d] = phase[d] /\ id'[d] = id[d] /\ attempt'[d] = attempt[d]
      BY <2>1 DEF TypeOK, PhasesFit
    <2>3. PhasesFit'
      BY <2>2 DEF PhasesFit
    <2>4. /\ Entered(c)' /\ ~Cancellable(c) /\ id[c] = None
          /\ Unanswered(c)' \/ phase'[c] = "unsent"
      <3>1. phase'[c] = "fetching" => Unanswered(c)' /\ Cancellable(c)'
        BY <2>2 DEF Cancellable, Unanswered
      <3>2. Entered(c)' /\ (Unanswered(c)' \/ phase'[c] = "unsent")
        BY <2>2, <3>1 DEF Entered
      <3>3. ~Cancellable(c) /\ id[c] = None
        BY <2>1 DEF Cancellable, Unanswered, PhasesFit
      <3> QED BY <3>2, <3>3
    <2>10. ASSUME NEW d \in Calls, d # c
           PROVE  /\ Cancellable(d)' <=> Cancellable(d)
                  /\ Entered(d)' <=> Entered(d)
                  /\ Unanswered(d)' <=> Unanswered(d)
      <3>1. phase'[d] = phase[d] /\ attempt'[d] = attempt[d]
        BY <2>2, <2>10
      <3> QED BY <3>1 DEF Entered, Cancellable, Unanswered
    <2>5. TimeoutCovers'
      BY <2>1, <2>2, <2>4, <2>10 DEF TimeoutCovers, TypeOK, Unanswered
    <2>6. ASSUME NEW d \in Calls, Cancellable(d)'
          PROVE  table'[id'[d]] = d \/ d \in aborted' \/ Shares(d)'
      <3>1. CASE d = c
        BY <2>1, <2>2, <3>1 DEF TypeOK
      <3>2. CASE d # c /\ id[d] = i
        BY <2>2, <3>2 DEF Shares
      <3>3. CASE d # c /\ id[d] # i
        <4>1. Cancellable(d) /\ id[d] \in Ids
          BY <2>2, <2>6, <3>3 DEF Cancellable, Unanswered, PhasesFit
        <4>2. table'[id'[d]] = table[id[d]]
          BY <2>1, <2>2, <3>3, <4>1 DEF TypeOK
        <4>3. Shares(d) => Shares(d)'
          BY <2>2, <2>4, <3>3, <4>1 DEF Shares
        <4> QED BY <2>1, <3>3, <4>1, <4>2, <4>3 DEF CancelFinds
      <3> QED BY <3>1, <3>2, <3>3
    <2>7. ASSUME NEW j \in Ids, NEW d \in Calls, table'[j] = d
          PROVE  id'[d] = j /\ Entered(d)'
      <3>1. CASE j = i
        BY <2>1, <2>2, <2>4, <2>7, <3>1 DEF TypeOK
      <3>2. CASE j # i
        <4>1. table[j] = d /\ Entered(d) /\ id[d] = j
          BY <2>1, <2>7, <3>2 DEF TypeOK, CancelFinds
        <4> QED BY <2>2, <2>4, <2>10, <4>1 DEF Entered, Cancellable, Unanswered
      <3> QED BY <3>1, <3>2
    <2>8. \A j \in Ids : table'[j] # None => table'[j] \in Calls
      BY DEF TypeOK
    <2>9. CancelFinds'
      BY <2>6, <2>7, <2>8 DEF CancelFinds, Entered, Cancellable, Unanswered
    <2> QED BY <2>3, <2>5, <2>9
  <1>4. ASSUME NEW c \in Calls, GoesOn(c) PROVE PhasesFit' /\ TimeoutCovers' /\ CancelFinds'
    <2>1. StepOf(c)
      BY <1>4 DEF StepOf, GoesOn
    <2>2. CancelFinds'
      BY <1>4, <2>1, Effects, Finding
    <2>3. PhasesFit'
      BY <1>4, <2>1, Effects, OwnPhase DEF PhasesFit
    <2>4. TimeoutCovers'
      BY <1>4, <2>1, Effects, OwnPhase DEF TimeoutCovers, Unanswered, TypeOK
    <2> QED BY <2>2, <2>3, <2>4
  <1> QED BY <1>1, <1>2, <1>3, <1>4, StepsOfCalls DEF StepOf, GoesOn

-----------------------------------------------------------------------------
(* The count of failures                                                    *)

LEMMA CountedFailedFinite == IsFiniteSet(CountedFailed)
  <1>1. IsFiniteSet(Calls)
    BY CallsAssumption, FS_Union DEF Calls
  <1> QED BY <1>1, FS_Subset DEF CountedFailed

\* A call is counted just when it enters the set of the calls that have failed.
LEMMA CountedStep ==
    ASSUME TypeOK, FailedOnce, [Next]_vars
    PROVE  FailedOnce'
  <1> USE CallsAssumption DEF TypeOK
  <1>1. ASSUME CountedFailed' = CountedFailed, failedCount' = failedCount PROVE FailedOnce'
    BY <1>1 DEF FailedOnce
  <1>2. ASSUME NEW c \in Calls, c \notin CountedFailed, CountedFailed' = CountedFailed \cup {c},
               failedCount' = failedCount + 1
        PROVE  FailedOnce'
    <2>1. Cardinality(CountedFailed \cup {c}) = Cardinality(CountedFailed) + 1
      BY <1>2, CountedFailedFinite, FS_AddElement
    <2> QED BY <1>2, <2>1 DEF FailedOnce
  <1>3. CASE UNCHANGED vars
    BY <1>1, <1>3 DEF vars, CountedFailed
  <1>4. ASSUME NEW i \in Ids, Cancel(i) PROVE FailedOnce'
    BY <1>1, <1>4 DEF Cancel, CountedFailed, counts
  <1>5. ASSUME NEW c \in Calls, StepOf(c) PROVE FailedOnce'
    <2>1. CASE \/ Begin(c) \/ TimerFires(c)
               \/ c \in Executes /\ (Answered(c) \/ Succeeds(c) \/ CaughtAbort(c) \/ Resends(c))
               \/ c \in Streams /\ (Opens(c) \/ Yields(c) \/ Resumed(c) \/ Drained(c))
      <3>1. failedCount' = failedCount
        BY <2>1 DEF Begin, TimerFires, Answered, Succeeds, CaughtAbort, Resends, Opens,
                    Yields, Resumed, Drained, counts
      <3>2. \/ phase' = phase
            \/ \E p : /\ phase' = [phase EXCEPT ![c] = p]
                     /\ p # "failed" /\ (p = "timed out" => c \in Executes)
                     /\ phase[c] \notin {"failed", "timed out"}
        <4> USE DEF Goes, Retries
        <4>1. CASE Begin(c) \/ TimerFires(c)
          BY <4>1 DEF Begin, TimerFires
        <4>2. CASE c \in Executes /\ (Answered(c) \/ Succeeds(c))
          BY <4>2 DEF Answered, Succeeds
        <4>3. CASE c \in Executes /\ (CaughtAbort(c) \/ Resends(c))
          BY <4>3 DEF CaughtAbort, Resends
        <4>4. CASE c \in Streams /\ (Opens(c) \/ Yields(c) \/ Resumed(c) \/ Drained(c))
          BY <4>4 DEF Opens, Yields, Resumed, Drained
        <4> QED BY <2>1, <4>1, <4>2, <4>3, <4>4
      <3>3. CountedFailed' = CountedFailed
        BY <3>2 DEF CountedFailed
      <3> QED BY <1>1, <3>1, <3>3
    <2>2. CASE c \in Executes /\ Caught(c)
      <3>1. CASE Retries(c) /\ UNCHANGED failedCount
        <4>1. CountedFailed' = CountedFailed
          BY <2>2, <3>1 DEF Caught, Retries, Goes, CountedFailed
        <4> QED BY <1>1, <3>1, <4>1
      <3>2. CASE Fails(c, "failed")
        <4>0. phase' = [phase EXCEPT ![c] = "failed"] /\ phase[c] \notin {"failed", "timed out"}
          BY <2>2, <3>2 DEF Caught, Fails, Goes
        <4>1. CountedFailed' = CountedFailed \cup {c} /\ c \notin CountedFailed
          BY <4>0 DEF CountedFailed
        <4> QED BY <1>2, <3>2, <4>1 DEF Fails
      <3> QED BY <2>2, <3>1, <3>2 DEF Caught
    <2>3. CASE c \in Streams /\ (OpenFails(c) \/ ReadFails(c))
      <3>1. PICK p \in {"failed", "timed out"} : Fails(c, p)
        BY <2>3 DEF OpenFails, ReadFails
      <3>2. phase[c] \in {"fetching", "reading"}
        BY <2>3 DEF OpenFails, ReadFails
      <3>3. CountedFailed' = CountedFailed \cup {c} /\ c \notin CountedFailed
        BY <2>3, <3>1, <3>2 DEF Fails, Goes, CountedFailed
      <3> QED BY <1>2, <3>1, <3>3 DEF Fails
    <2> QED BY <1>5, <2>1, <2>2, <2>3 DEF StepOf
  <1> QED BY <1>3, <1>4, <1>5, StepsOfCalls

-----------------------------------------------------------------------------
\* The variables have their types: no request is retried more often than it allows.
THEOREM TypeCorrect == Spec => []TypeOK
  <1>1. Inv => TypeOK
    BY DEF Inv
  <1> QED BY <1>1, InitInv, StepInv, PTL DEF Spec

\* cancel() finds whatever waits for its first answer or streams, under any reuse of
\* ids, except what shares its id with another call; and it finds nothing else.
THEOREM CancelIsSound == Spec => []CancelFinds
  <1>1. Inv => CancelFinds
    BY DEF Inv
  <1> QED BY <1>1, InitInv, StepInv, PTL DEF Spec

\* While a request waits for its first answer its timeout is set, has fired, or a
\* cancel has come; a timer never outlives the first attempt.
THEOREM TimeoutsCover == Spec => []TimeoutCovers
  <1>1. Inv => TimeoutCovers
    BY DEF Inv
  <1> QED BY <1>1, InitInv, StepInv, PTL DEF Spec

\* health() counts each failed call once, with any number of retries, and no
\* execute() that was aborted.
THEOREM FailuresAreCountedOnce == Spec => []FailedOnce
  <1>1. Init => FailedOnce
    <2> SUFFICES ASSUME Init PROVE FailedOnce
      OBVIOUS
    <2>1. CountedFailed = {}
      BY DEF Init, CountedFailed
    <2> QED BY <2>1, FS_EmptySet DEF Init, FailedOnce
  <1>2. TypeOK /\ FailedOnce /\ [Next]_vars => FailedOnce'
    BY CountedStep
  <1> QED BY <1>1, <1>2, TypeCorrect, PTL DEF Spec
===============================================================================
