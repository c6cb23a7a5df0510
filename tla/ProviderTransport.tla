-------------------------- MODULE ProviderTransport --------------------------
(***************************************************************************)
(* The HTTP transport of packages/core/src/providers/transport: execute()  *)
(* with its timeout and retries, stream(), cancel(), and the counts that   *)
(* health() reports.                                                       *)
(*                                                                         *)
(* The table _activeRequests holds the abort controller of a request under *)
(* its id.  Ids are the caller's; the provider adapters make them from the *)
(* time in milliseconds, so calls of one millisecond share one.  Timer and *)
(* table entry cover the first attempt of execute() only: neither a retry  *)
(* nor its delay nor the reading of a body has a timeout or can be         *)
(* cancelled.                                                              *)
(*                                                                         *)
(* A controller is named by its call.  Requests and bodies are left out;   *)
(* the HTTP status is one of ok, busy (429 or 503) and refused.            *)
(***************************************************************************)
EXTENDS Naturals, FiniteSets

CONSTANTS
    Executes,    \* calls of execute()
    Streams,     \* calls of stream(), from the consumer's first next()
    Ids,         \* request ids
    MaxRetries,  \* the retries a request allows
    MaxChunks,   \* bound: chunks a stream yields
    None

Calls == Executes \cup Streams

ASSUME CallsAssumption ==
    /\ IsFiniteSet(Executes) /\ IsFiniteSet(Streams) /\ Executes \cap Streams = {}
    /\ None \notin Calls /\ None \notin Ids
ASSUME BoundsAssumption == MaxRetries \in Nat /\ MaxChunks \in Nat

VARIABLES
    phase,    \* where a call is, or how it has ended
    id,       \* its request id
    attempt,  \* retries of a call so far
    chunks,   \* chunks counted for a stream so far
    timer,    \* calls whose timeout is set
    aborted,  \* calls whose controller is aborted
    table,    \* _activeRequests: the call whose controller is under an id
    successfulCount, failedCount

vars == <<phase, id, attempt, chunks, timer, aborted, table,
          successfulCount, failedCount>>
counts == <<successfulCount, failedCount, chunks>>

Over == {"succeeded", "failed", "timed out", "abandoned", "unsent"}
Phases == Over \cup {"idle", "fetching", "refused", "reading", "waiting", "yielded"}

TypeOK ==
    /\ phase \in [Calls -> Phases]
    /\ id \in [Calls -> Ids \cup {None}]
    /\ attempt \in [Calls -> 0..MaxRetries]
    /\ chunks \in [Calls -> 0..MaxChunks]
    /\ timer \subseteq Calls /\ aborted \subseteq Calls
    /\ table \in [Ids -> Calls \cup {None}]
    /\ successfulCount \in Nat /\ failedCount \in Nat

Init ==
    /\ phase = [c \in Calls |-> "idle"]
    /\ id = [c \in Calls |-> None]
    /\ attempt = [c \in Calls |-> 0]
    /\ chunks = [c \in Calls |-> 0]
    /\ timer = {} /\ aborted = {}
    /\ table = [i \in Ids |-> None]
    /\ successfulCount = 0 /\ failedCount = 0

-----------------------------------------------------------------------------
(* A definition named X_Y is a mutation of X, a plausible bug; no action    *)
(* uses it.                                                                 *)

Goes(c, p) == phase' = [phase EXCEPT ![c] = p]

Free_Retried(c) ==
    table' = IF phase'[c] = "waiting" THEN table ELSE [table EXCEPT ![id[c]] = None]

\* The id is freed, whosever controller it names by now.
Free(c) == table' = [table EXCEPT ![id[c]] = None]

ClearTimer_All(c) == timer' = {}

ClearTimer(c) == timer' = timer \ {c}

Settled(c) == ClearTimer(c) /\ Free(c)

Fails_Retried(c, p) ==
    Goes(c, p) /\ failedCount' = failedCount + 1 + attempt[c]

Fails(c, p) == Goes(c, p) /\ failedCount' = failedCount + 1

\* stream() turns the body into JSON outside any try: when that throws, the call is
\* over, and its timer and its entry are left behind.
Begin(c) ==
    /\ phase[c] = "idle"
    /\ Goes(c, "fetching") \/ (c \in Streams /\ Goes(c, "unsent"))
    /\ \E i \in Ids :
          /\ id' = [id EXCEPT ![c] = i]
          /\ table' = [table EXCEPT ![i] = c]
    /\ timer' = timer \cup {c}
    /\ UNCHANGED <<attempt, aborted, counts>>

\* The timer aborts the controller; the entry is left to whoever awaits.
TimerFires(c) ==
    /\ c \in timer
    /\ timer' = timer \ {c} /\ aborted' = aborted \cup {c}
    /\ UNCHANGED <<phase, id, attempt, table, counts>>

Cancel(i) ==
    /\ table[i] # None
    /\ aborted' = aborted \cup {table[i]}
    /\ table' = [table EXCEPT ![i] = None]
    /\ UNCHANGED <<phase, id, attempt, timer, counts>>

-----------------------------------------------------------------------------
(* execute()                                                                *)

Retries(c) ==
    /\ attempt[c] < MaxRetries
    /\ attempt' = [attempt EXCEPT ![c] = @ + 1]
    /\ Goes(c, "waiting")

\* The response is there: an abort that comes now is too late for the fetch.
Answered(c) ==
    /\ phase[c] = "fetching"
    /\ \/ Goes(c, "reading") /\ UNCHANGED attempt
       \/ Goes(c, "refused") /\ UNCHANGED attempt
       \/ Retries(c)
    /\ Settled(c)
    /\ UNCHANGED <<id, aborted, counts>>

Succeeds(c) ==
    /\ phase[c] = "reading" /\ Goes(c, "succeeded")
    /\ successfulCount' = successfulCount + 1
    /\ UNCHANGED <<id, attempt, timer, aborted, table, chunks, failedCount>>

\* The catch clause.  The fetch has failed, the body could not be read, or the
\* status was not ok: whatever is no abort is retried.
Caught(c) ==
    /\ phase[c] \in {"fetching", "reading", "refused"}
    /\ \/ Retries(c) /\ UNCHANGED failedCount
       \/ attempt[c] = MaxRetries /\ Fails(c, "failed") /\ UNCHANGED attempt
    /\ Settled(c)
    /\ UNCHANGED <<id, aborted, chunks, successfulCount>>

\* An abort is an answer of its own, and no failure to health().
CaughtAbort(c) ==
    /\ phase[c] \in {"fetching", "reading", "refused"} /\ c \in aborted
    /\ Goes(c, "timed out")
    /\ Settled(c)
    /\ UNCHANGED <<id, attempt, aborted, counts>>

\* The delay is over and the request sent again.
Resends(c) ==
    /\ phase[c] = "waiting" /\ Goes(c, "fetching")
    /\ UNCHANGED <<id, attempt, timer, aborted, table, counts>>

-----------------------------------------------------------------------------
(* stream()                                                                 *)

\* The fetch has failed or was aborted, the status is not ok, or there is no body.
OpenFails(s) ==
    /\ phase[s] = "fetching"
    /\ Fails(s, "failed") \/ (s \in aborted /\ Fails(s, "timed out"))
    /\ Settled(s)
    /\ UNCHANGED <<id, attempt, aborted, chunks, successfulCount>>

\* From now on there is no timeout.
Opens(s) ==
    /\ phase[s] = "fetching" /\ Goes(s, "reading")
    /\ ClearTimer(s)
    /\ UNCHANGED <<id, attempt, aborted, table, counts>>

\* A line is handed to the consumer; the one left in the buffer at the end is
\* not counted.
Yields(s) ==
    /\ phase[s] = "reading" /\ Goes(s, "yielded")
    /\ \/ /\ chunks[s] < MaxChunks
          /\ chunks' = [chunks EXCEPT ![s] = @ + 1]
          /\ successfulCount' = successfulCount + 1
       \/ UNCHANGED <<chunks, successfulCount>>
    /\ UNCHANGED <<id, attempt, timer, aborted, table, failedCount>>

\* The consumer asks for more, or gives up: the finally clause.
Resumed(s) ==
    /\ phase[s] = "yielded"
    /\ \/ Goes(s, "reading") /\ UNCHANGED table
       \/ Goes(s, "abandoned") /\ Free(s)
    /\ UNCHANGED <<id, attempt, timer, aborted, counts>>

Drained(s) ==
    /\ phase[s] = "reading" /\ Goes(s, "succeeded")
    /\ Free(s)
    /\ UNCHANGED <<id, attempt, timer, aborted, counts>>

ReadFails(s) ==
    /\ phase[s] = "reading" /\ Fails(s, "failed")
    /\ Free(s)
    /\ UNCHANGED <<id, attempt, timer, aborted, chunks, successfulCount>>

-----------------------------------------------------------------------------
Next ==
    \/ \E c \in Calls : Begin(c) \/ TimerFires(c)
    \/ \E i \in Ids : Cancel(i)
    \/ \E c \in Executes : \/ Answered(c) \/ Succeeds(c) \/ Caught(c)
                           \/ CaughtAbort(c) \/ Resends(c)
    \/ \E s \in Streams : \/ OpenFails(s) \/ Opens(s) \/ Yields(s)
                          \/ Resumed(s) \/ Drained(s) \/ ReadFails(s)

Spec == Init /\ [][Next]_vars

\* Timers fire, an aborted fetch or read rejects, a delay ends.  Nothing is asked
\* of the network or of the consumer of a stream.
Fairness ==
    /\ \A c \in Calls : WF_vars(TimerFires(c))
    /\ \A c \in Executes : WF_vars(CaughtAbort(c)) /\ WF_vars(Resends(c))
    /\ \A s \in Streams :
          WF_vars(s \in aborted /\ (OpenFails(s) \/ ReadFails(s)))

FairSpec == Spec /\ Fairness

-----------------------------------------------------------------------------
(* Properties                                                               *)

\* A call that waits for its first answer.
Unanswered(c) == phase[c] = "fetching" /\ attempt[c] = 0

\* A call that cancel() is meant to find.
Cancellable(c) ==
    \/ Unanswered(c)
    \/ c \in Streams /\ phase[c] \in {"reading", "yielded"}

Shares(c) == \E d \in Calls \ {c} : id[d] = id[c]

\* A call whose controller may be in the table.
Entered(c) == Cancellable(c) \/ phase[c] = "unsent"

\* cancel() finds every request that waits for its first answer and every stream
\* that is not over, unless it has been aborted already or its id was given to
\* another call too; what it finds is such a request, under the request's id, or
\* what is left of a stream that could not be sent.
CancelFinds ==
    /\ \A c \in Calls : Cancellable(c) => \/ table[id[c]] = c
                                          \/ c \in aborted
                                          \/ Shares(c)
    /\ \A i \in Ids : table[i] # None => id[table[i]] = i /\ Entered(table[i])

\* While a call waits for its first answer its timeout is set or has fired or a
\* cancel has come, and at no other time is it set, but for a stream never sent.
TimeoutCovers ==
    \A c \in Calls : /\ c \in timer => Unanswered(c) \/ phase[c] = "unsent"
                     /\ Unanswered(c) => c \in timer \cup aborted

\* A call whose timeout has something to stop, or is all that is left of it.
Timed(c) == Unanswered(c) \/ (c \in timer /\ phase[c] = "unsent")

\* The timeout stops what waits for a first answer, whether a cancel can reach it
\* or not, and never anything later; an aborted call ends unless its consumer holds
\* it; and the timer a stream that was not sent has left behind goes off.
StopsInTime ==
    \A c \in Calls : /\ [](c \in timer => Unanswered(c) \/ phase[c] = "unsent")
                     /\ Timed(c) ~> ~Timed(c)
                     /\ c \in aborted ~> phase[c] \in Over \cup {"yielded"}

\* The calls that health() counts as failed.
CountedFailed ==
    {c \in Calls : phase[c] = "failed" \/ (c \in Streams /\ phase[c] = "timed out")}

\* health() counts each failed call once, however often it was retried, and an
\* aborted stream, but no aborted execute() and no stream it could not send.
FailedOnce == failedCount = Cardinality(CountedFailed)
===============================================================================
