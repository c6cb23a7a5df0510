----------------------------- MODULE MessageBus -----------------------------
(***************************************************************************)
(* The message bus of packages/core/src/messagebus: MessageBus with its    *)
(* MessageDispatcher, MessageQueue and DeadLetterQueue, for one queue (the *)
(* queues share nothing but the dead letters and the request table).       *)
(*                                                                         *)
(* publish, send, subscribe and the callback that drains a queue run       *)
(* without awaiting anything, but they call handlers, and a handler may    *)
(* use the bus, or throw, before its first await: the loops of publish and *)
(* of the drain are therefore taken one handler at a time (variable loop), *)
(* and handlers act between two iterations.  Everything else happens when  *)
(* no loop is running: a handler settles, a timer fires, a caller calls.   *)
(***************************************************************************)
EXTENDS Integers, SequencesExt

CONSTANTS
    Msgs,          \* messages, each handed to the bus at most once
    Requests,      \* the messages handed over by request()
    PriorityOf,    \* [Msgs -> 1..4], MessagePriority
    CorrelationOf, \* [Requests -> correlation ids], options.correlationId
    Timed,         \* the requests with options.timeout > 0
    Handlers,      \* subscriptions, each made at most once (random ids)
    MaxRetries,    \* retryPolicy.maxRetries
    None

ASSUME MessagesAssumption == /\ Requests \subseteq Msgs
                             /\ Timed \subseteq Requests
                             /\ PriorityOf \in [Msgs -> 1..4]
                             /\ DOMAIN CorrelationOf = Requests
ASSUME RetriesAssumption == MaxRetries \in Nat
ASSUME NoMessageAssumption == None \notin Msgs \cup Handlers

VARIABLES
    subs,       \* keys of _subscriptions, in the order of insertion
    used,       \* subscriptions ever made
    queue,      \* MessageQueue._envelopes
    dispatches, \* every dispatch: its current envelope and its handler
    abandoned,  \* dispatches that have rejected without ending their envelope
    dlq,        \* DeadLetterQueue._records, as indices of dispatches
    drains,     \* setTimeout(0) callbacks of subscribe, in firing order
    loop,       \* the loop that is running: publish, drain or none
    turn,       \* _subscriberIndices of the queue
    caller,     \* what became of the promise of request()
    resolver,   \* _resolvers: correlation id -> request
    failing,    \* requests whose send() has rejected: the catch is due
    sent        \* history: messages in the order the bus took them

requestVars == <<caller, resolver, failing>>
queueVars   == <<queue, dispatches, dlq>>
subVars     == <<subs, used, drains>>
sendVars    == <<turn, sent>>
vars == <<requestVars, queueVars, subVars, sendVars, loop, abandoned>>

Correlations == {CorrelationOf[r] : r \in Requests}
States   == {"CREATED", "QUEUED", "PROCESSING", "COMPLETED", "FAILED",
             "DEAD_LETTER"}
Envelope == [msg : Msgs, at : Nat, state : States, tries : 0 .. MaxRetries + 1]
NoLoop   == [kind |-> "none", msg |-> None, rest |-> <<>>, running |-> 0]

TypeOK ==
    /\ subs \in Seq(Handlers) /\ drains \in Seq(Handlers)
    /\ used \subseteq Handlers
    /\ queue \in Seq(Envelope)
    /\ turn \in Nat
    /\ dispatches \in Seq([env : Envelope, handler : Handlers])
    /\ abandoned \subseteq DOMAIN dispatches
    /\ dlq \in Seq(DOMAIN dispatches)
    /\ loop \in [kind : {"none", "publish", "drain"}, msg : Msgs \cup {None},
                 rest : Seq(Handlers), running : {0} \cup DOMAIN dispatches]
    /\ caller \in [Requests -> {"idle", "pending", "resolved", "rejected"}]
    /\ failing \subseteq Requests
    /\ resolver \in [Correlations -> Requests \cup {None}]
    /\ sent \in Seq(Msgs)

Init ==
    /\ subs = <<>> /\ used = {} /\ drains = <<>>
    /\ queue = <<>>
    /\ dispatches = <<>> /\ abandoned = {} /\ dlq = <<>>
    /\ loop = NoLoop
    /\ turn = 0 /\ sent = <<>>
    /\ caller = [r \in Requests |-> "idle"]
    /\ resolver = [k \in Correlations |-> None] /\ failing = {}

-----------------------------------------------------------------------------
(* Queues and envelopes                                                     *)

Precedes_Fifo(e, f) == e.at < f.at

\* MessageQueue.sort: by priority, then by time stamp ...
Precedes(e, f) ==
    \/ PriorityOf[e.msg] > PriorityOf[f.msg]
    \/ PriorityOf[e.msg] = PriorityOf[f.msg] /\ e.at < f.at

\* ... and stable: Array.prototype.sort keeps ties in place.
Sorted(q) ==
    LET Earlier(i, j) == \/ Precedes(q[i], q[j])
                         \/ ~Precedes(q[j], q[i]) /\ i < j
        Rank(j) == Cardinality({i \in DOMAIN q : Earlier(i, j)}) + 1
    IN  [k \in DOMAIN q |-> q[CHOOSE j \in DOMAIN q : Rank(j) = k]]

Enqueue(e) == Sorted(Append(queue, e))

\* createEnvelope.  Time is the number of messages the bus has taken: it does
\* not pass while a publish fans out, unless a handler sends in between.
Created(m, t) == [msg |-> m, at |-> t, state |-> "CREATED", tries |-> 0]

\* transitionState: which state may follow which; any other pair throws.
Transitions ==
    UNION {{"CREATED"} \X {"QUEUED", "PROCESSING"},
           {"QUEUED"} \X {"PROCESSING"},
           {"PROCESSING"} \X {"COMPLETED", "FAILED", "DEAD_LETTER"},
           {"FAILED"} \X {"QUEUED", "PROCESSING", "DEAD_LETTER"}}

Allowed_QueuedFirst(from, to) ==
    <<from, to>> \in Transitions \ {<<"CREATED", "PROCESSING">>}

Allowed(from, to) == <<from, to>> \in Transitions

Moved_CountsRetry(e, st) ==
    [e EXCEPT !.state = st, !.tries = IF st \in {"FAILED", "QUEUED"}
                                      THEN @ + 1 ELSE @]

\* transitionState: the next envelope.
Moved(e, st) ==
    [e EXCEPT !.state = st, !.tries = IF st = "FAILED" THEN @ + 1 ELSE @]

Record_KeepsDeadLetters(q, e) ==
    LET i == SelectInSeq(q, LAMBDA f : f.msg = e.msg)
    IN  IF i = 0 THEN q
        ELSE IF e.state = "COMPLETED" THEN RemoveAt(q, i)
        ELSE [q EXCEPT ![i] = e]

\* transitionState: the first entry with the message's id is removed when the
\* dispatch has ended, and overwritten otherwise.
Record(q, e) ==
    LET i == SelectInSeq(q, LAMBDA f : f.msg = e.msg)
    IN  IF i = 0 THEN q
        ELSE IF e.state \in {"COMPLETED", "DEAD_LETTER"} THEN RemoveAt(q, i)
        ELSE [q EXCEPT ![i] = e]

\* MessageDispatcher.dispatch, up to the handler's first await, of an envelope
\* and with a queue q: the handler is called unless the transition throws,
\* an exception every caller of dispatch swallows.
Dispatch(q, e, h) ==
    LET next == Moved(e, "PROCESSING")
    IN  IF Allowed(e.state, "PROCESSING")
        THEN /\ queue' = Record(q, next)
             /\ dispatches' = Append(dispatches, [env |-> next, handler |-> h])
        ELSE /\ queue' = q
             /\ UNCHANGED dispatches

\* The dispatch that has just been made, if one was made.
Latest == IF dispatches' = dispatches THEN 0 ELSE Len(dispatches')

-----------------------------------------------------------------------------
(* Subscriptions                                                            *)

\* Handlers may use the bus while a loop waits for them to return; callers may
\* use it, timers fire and handlers settle when no loop is running.
Idle    == loop.kind = "none"
CanCall == Idle \/ loop.running # 0

DrainNeeded_Many == Len(queue) > 1

\* subscribe: q && q.size > 0
DrainNeeded == queue # <<>>

Subscribe(h) ==
    /\ CanCall /\ h \notin used
    /\ subs' = Append(subs, h)
    /\ used' = used \cup {h}
    /\ drains' = IF DrainNeeded THEN Append(drains, h) ELSE drains
    /\ UNCHANGED <<queueVars, abandoned, requestVars, turn, sent, loop>>

Unsubscribe(h) ==
    /\ CanCall
    /\ \E i \in DOMAIN subs : subs[i] = h /\ subs' = RemoveAt(subs, i)
    /\ UNCHANGED <<queueVars, abandoned, requestVars, used, drains, turn, sent, loop>>

\* The callback of subscribe: it drains the queue to its own handler.
DrainStarts ==
    /\ Idle /\ failing = {} /\ drains # <<>>
    /\ drains' = Tail(drains)
    /\ loop' = IF queue = <<>> THEN NoLoop
               ELSE [NoLoop EXCEPT !.kind = "drain", !.rest = <<Head(drains)>>]
    /\ UNCHANGED <<queueVars, abandoned, requestVars, sendVars, subs, used>>

DrainNext ==
    /\ loop.kind = "drain" /\ queue # <<>>
    /\ Dispatch(Tail(queue), Head(queue), Head(loop.rest))
    /\ loop' = [loop EXCEPT !.running = Latest]
    /\ UNCHANGED <<requestVars, subVars, sendVars, abandoned, dlq>>

DrainEnds ==
    /\ loop.kind = "drain" /\ queue = <<>>
    /\ loop' = NoLoop
    /\ UNCHANGED <<queueVars, abandoned, requestVars, subVars, sendVars>>

-----------------------------------------------------------------------------
(* Publishing and sending                                                   *)

Taken == ToSet(sent)

\* Nobody is subscribed: the envelope waits for a subscriber.
Deposit(m) ==
    /\ queue' = Enqueue(Created(m, Len(sent')))
    /\ UNCHANGED <<dispatches, dlq>>

\* publish reads the subscriptions once, before its loop.  (A handler's own
\* publish is modelled where no loop of publish is left half-way.)
Publish(m) ==
    /\ m \notin Taken \cup Requests
    /\ sent' = Append(sent, m)
    /\ \/ CanCall /\ subs = <<>> /\ Deposit(m) /\ UNCHANGED loop
       \/ /\ Idle /\ subs # <<>>
          /\ loop' = [kind |-> "publish", msg |-> m, rest |-> subs, running |-> 0]
          /\ UNCHANGED queueVars
    /\ UNCHANGED <<requestVars, subVars, turn, abandoned>>

PublishNext ==
    /\ loop.kind = "publish"
    /\ LET e == Created(loop.msg, Len(sent))
       IN  Dispatch(Enqueue(e), e, Head(loop.rest))
    /\ loop' = IF Len(loop.rest) = 1 THEN NoLoop
               ELSE [loop EXCEPT !.rest = Tail(@), !.running = Latest]
    /\ UNCHANGED <<requestVars, subVars, sendVars, abandoned, dlq>>

\* send: to the next subscriber in turn.
SendOne(m) ==
    /\ m \notin Taken
    /\ sent' = Append(sent, m)
    /\ \/ subs = <<>> /\ Deposit(m) /\ UNCHANGED turn
       \/ /\ subs # <<>>
          /\ LET pick == IF turn >= Len(subs) THEN 0 ELSE turn
                 e    == Created(m, Len(sent'))
             IN  /\ Dispatch(Enqueue(e), e, subs[pick + 1])
                 /\ turn' = pick + 1
          /\ UNCHANGED dlq
    /\ UNCHANGED <<subVars, loop, abandoned>>

Send(m) == CanCall /\ m \notin Requests /\ SendOne(m) /\ UNCHANGED requestVars

-----------------------------------------------------------------------------
(* The end of a handler's call: MessageDispatcher.dispatch after its await  *)

\* A handler has been called with the envelope of d and not settled yet.
Working(d) == dispatches[d].env.state = "PROCESSING" /\ d \notin abandoned

HandlerReturns(d) ==
    /\ Working(d) /\ Idle
    /\ LET e == Moved(dispatches[d].env, "COMPLETED")
       IN  /\ queue' = Record(queue, e)
           /\ dispatches' = [dispatches EXCEPT ![d].env = e]
    /\ UNCHANGED <<requestVars, subVars, sendVars, loop, abandoned, dlq>>

MayRetry_Fewer(tries) == tries < MaxRetries

\* dispatch: retriesAttempted <= maxRetries
MayRetry(tries) == tries <= MaxRetries

\* The handler of d is running.  In a loop it is the one the loop waits for, or
\* the one that handler has itself called by sending, before its first await.
InHandler(d) ==
    /\ Working(d)
    /\ \/ Idle
       \/ loop.running # 0 /\ d \in {loop.running, Len(dispatches)}

Unwatched(d) == loop' = IF d = loop.running THEN [loop EXCEPT !.running = 0] ELSE loop

\* The promise of the handler rejects, or the handler throws: FAILED, and then
\* either a retry timer or the dead letter queue.
HandlerThrows(d) ==
    /\ InHandler(d)
    /\ LET failed == Moved(dispatches[d].env, "FAILED")
           dead   == Moved(failed, "DEAD_LETTER")
       IN  IF MayRetry(failed.tries)
           THEN /\ queue' = Record(queue, failed)
                /\ dispatches' = [dispatches EXCEPT ![d].env = failed]
                /\ UNCHANGED dlq
           ELSE /\ queue' = Record(Record(queue, failed), dead)
                /\ dispatches' = [dispatches EXCEPT ![d].env = dead]
                /\ dlq' = Append(dlq, d)
    /\ Unwatched(d)
    /\ UNCHANGED <<requestVars, subVars, sendVars, abandoned>>

\* The handler rejects or throws without an error (null or undefined): the catch
\* clause reads its message, throws itself, and whoever called dispatch swallows
\* that.  The envelope stays PROCESSING for ever.
HandlerThrowsNothing(d) ==
    /\ InHandler(d)
    /\ abandoned' = abandoned \cup {d}
    /\ Unwatched(d)
    /\ UNCHANGED <<requestVars, subVars, sendVars, queue, dispatches, dlq>>

RetryPossible_InQueue(d) ==
    /\ dispatches[d].env.state = "FAILED"
    /\ \E i \in DOMAIN queue : queue[i].msg = dispatches[d].env.msg

\* A timer is set, and finds its envelope in the closure, not in the queue.
RetryPossible(d) == dispatches[d].env.state = "FAILED"

\* The timer of a failed dispatch: QUEUED, then dispatched again at once.
RetryTimer(d) ==
    /\ RetryPossible(d)
    /\ Idle /\ failing = {}
    /\ LET queued == Moved(dispatches[d].env, "QUEUED")
           again  == Moved(queued, "PROCESSING")
       IN  /\ queue' = Record(Record(queue, queued), again)
           /\ dispatches' = [dispatches EXCEPT ![d].env = again]
    /\ UNCHANGED <<requestVars, subVars, sendVars, loop, abandoned, dlq>>

-----------------------------------------------------------------------------
(* Requests and replies                                                     *)

Register(r) == resolver' = [resolver EXCEPT ![CorrelationOf[r]] = r]
Forget(r)   == resolver' = [resolver EXCEPT ![CorrelationOf[r]] = None]

Request(r) ==
    /\ CanCall /\ caller[r] = "idle"
    /\ caller' = [caller EXCEPT ![r] = "pending"]
    /\ Register(r)
    /\ SendOne(r)
    /\ UNCHANGED failing

\* request() of a message send() rejects: registered until the catch runs.
InvalidRequest(r) ==
    /\ CanCall /\ caller[r] = "idle"
    /\ caller' = [caller EXCEPT ![r] = "pending"]
    /\ Register(r)
    /\ failing' = failing \cup {r}
    /\ UNCHANGED <<queueVars, abandoned, subVars, sendVars, loop>>

Rejected(r) ==
    caller' = [caller EXCEPT ![r] = IF @ = "pending" THEN "rejected" ELSE @]

RequestFails(r) ==
    /\ Idle /\ r \in failing
    /\ failing' = failing \ {r}
    /\ Forget(r) /\ Rejected(r)
    /\ UNCHANGED <<queueVars, abandoned, subVars, sendVars, loop>>

TimerArmed_WhileRegistered(r) ==
    caller[r] = "pending" /\ resolver[CorrelationOf[r]] = r

\* reply clears the timer of the request it resolves, and of no other.
TimerArmed(r) == caller[r] = "pending"

Timeout(r) ==
    /\ Idle /\ failing = {} /\ r \in Timed /\ TimerArmed(r)
    /\ Forget(r) /\ Rejected(r)
    /\ UNCHANGED <<queueVars, abandoned, subVars, sendVars, loop, failing>>

Answered_Keeps(k) == resolver

\* reply: the resolver is used once.
Answered(k) == [resolver EXCEPT ![k] = None]

\* reply(), by anybody who knows a correlation id: a handler at work, one that has
\* long ended, a caller outside.  Where no resolver is registered it throws and
\* changes nothing.
Reply(k) ==
    /\ CanCall /\ resolver[k] # None
    /\ resolver' = Answered(k)
    /\ caller' = [caller EXCEPT ![resolver[k]] =
                    IF @ = "pending" THEN "resolved" ELSE @]
    /\ UNCHANGED <<queueVars, abandoned, subVars, sendVars, loop, failing>>

-----------------------------------------------------------------------------
Loop == DrainNext \/ DrainEnds \/ PublishNext

HandlerSettles(d) == HandlerReturns(d) \/ HandlerThrows(d) \/ HandlerThrowsNothing(d)

Next ==
    \/ \E h \in Handlers : Subscribe(h) \/ Unsubscribe(h)
    \/ \E m \in Msgs : Publish(m) \/ Send(m)
    \/ \E r \in Requests : Request(r) \/ InvalidRequest(r)
    \/ \E r \in Requests : RequestFails(r) \/ Timeout(r)
    \/ \E d \in DOMAIN dispatches : HandlerSettles(d) \/ RetryTimer(d)
    \/ \E k \in Correlations : Reply(k)
    \/ DrainStarts
    \/ Loop

Spec == Init /\ [][Next]_vars

\* Loops and promise continuations go on, timers fire, and the handlers of the
\* application settle (the dispatcher sets them no time limit).
Fairness ==
    /\ WF_vars(Loop)
    /\ WF_vars(DrainStarts)
    /\ WF_vars(\E d \in DOMAIN dispatches : HandlerSettles(d))
    /\ WF_vars(\E d \in DOMAIN dispatches : RetryTimer(d))
    /\ WF_vars(\E r \in Requests : RequestFails(r))
    /\ \A r \in Requests : WF_vars(Timeout(r))

FairSpec == Spec /\ Fairness

-----------------------------------------------------------------------------
(* Properties                                                               *)

DispatchesOf(m) == {d \in DOMAIN dispatches : dispatches[d].env.msg = m}
Ended(d)        == dispatches[d].env.state \in {"COMPLETED", "DEAD_LETTER"}
Live(m)         == {d \in DispatchesOf(m) : ~Ended(d)}
Copies(m)       == {i \in DOMAIN queue : queue[i].msg = m}
Waiting(m)      == DispatchesOf(m) = {} /\ Copies(m) # {}

\* The fan-out copies of a publish share one id and transitionState removes
\* whichever comes first; retries and drains work on copies that have left the
\* queue.  Still the queue never keeps a copy of a message beyond those that
\* wait for their first subscriber or have a dispatch that has not ended: no later
\* subscriber receives what was completed or given up as a dead letter.
NoGhostEntries ==
    \A m \in Msgs : \/ Cardinality(Copies(m)) <= Cardinality(Live(m))
                    \/ DispatchesOf(m) = {} /\ Cardinality(Copies(m)) = 1

\* A message the bus took is never lost, although draining throws entries away
\* when their dispatch throws: it waits, is being fanned out, or some handler
\* has been called with it.
NothingLost ==
    \A m \in Taken : \/ Waiting(m)
                     \/ DispatchesOf(m) # {}
                     \/ loop.kind = "publish" /\ loop.msg = m

\* A message that waits while somebody is subscribed has a drain to come, no
\* matter in which order subscribe, unsubscribe, publish and drains took place:
\* nothing else would ever look at it.
BacklogHasDrain ==
    \A m \in Msgs : Waiting(m) /\ subs # <<>> =>
        drains # <<>> \/ loop.kind = "drain"

\* The dead letters are exactly the dispatches that were given up, each recorded
\* once, after the first attempt and MaxRetries retries.
DeadLettersEarned ==
    /\ \A d \in DOMAIN dispatches : dispatches[d].env.state = "DEAD_LETTER" <=>
                                    d \in ToSet(dlq)
    /\ \A i, j \in DOMAIN dlq : dlq[i] = dlq[j] => i = j
    /\ \A i \in DOMAIN dlq : dispatches[dlq[i]].env.tries = MaxRetries + 1

SentBefore(m, n) ==
    \E i, j \in DOMAIN sent : i < j /\ sent[i] = m /\ sent[j] = n

\* Messages that waited for a subscriber are delivered by priority, and in the
\* order they were sent among equals, whatever the bus did in between.
BacklogInOrder ==
    [][\A m, n \in Msgs :
          Waiting(m) /\ ~Waiting(m)' /\ Waiting(n)' =>
             \/ PriorityOf[m] > PriorityOf[n]
             \/ PriorityOf[m] = PriorityOf[n] /\ ~SentBefore(n, m)]_vars

\* The request table holds pending requests only, and a pending request is found
\* there by a reply until its timer fires, unless its caller chose a correlation
\* id that some other request has used.
RequestTable ==
    /\ \A k \in Correlations :
          resolver[k] # None => caller[resolver[k]] = "pending"
    /\ \A r \in Requests :
          /\ caller[r] = "pending"
          /\ \A q \in Requests \ {r} :
                CorrelationOf[q] = CorrelationOf[r] => caller[q] = "idle"
          => resolver[CorrelationOf[r]] = r

\* What the test of publish states of its two subscribers: where no handler
\* fails, a subscriber receives a message once.
ReceivedOnce ==
    (\A d \in DOMAIN dispatches : dispatches[d].env.tries = 0) =>
        \A d, e \in DOMAIN dispatches :
            /\ dispatches[d].env.msg = dispatches[e].env.msg
            /\ dispatches[d].handler = dispatches[e].handler
            => d = e

-----------------------------------------------------------------------------
(* What the bus promises                                                    *)

Owed(m) == IF loop.kind = "publish" /\ loop.msg = m THEN ToSet(loop.rest) ELSE {}

Call(d) == [msg     |-> d.env.msg,   handler |-> d.handler,
            state   |-> d.env.state, tries   |-> d.env.tries]

Backlog == {m \in Msgs : Waiting(m)}
Debts   == [m \in Msgs |-> Owed(m)]
Calls   == [d \in DOMAIN dispatches |-> Call(dispatches[d])]

Service == INSTANCE BusService WITH
    members <- ToSet(subs), joined <- used, taken <- sent, waiting <- Backlog,
    owed <- Debts, calls <- Calls, stuck <- abandoned, dead <- dlq, promise <- caller

\* The bus is a BusService: whatever subscriptions, drains, retries and shared ids
\* do to the queue, what waits is served in order, a published message is brought
\* to each subscriber and nothing that has ended to anybody, every call that fails
\* with an error gets all its retries, and a request settles once, by a reply or by
\* its timeout, and never by a reply that came after that.
ImplementsService == Service!Spec

\* Every dispatch of a message ends, in success or in the dead letter queue, even
\* if a drain has taken its entry from the queue meanwhile, unless its handler
\* rejects without an error: such a dispatch neither ends nor is tried again.
DispatchesEnd ==
    \A m \in Msgs : Live(m) \ abandoned # {} ~> Live(m) \subseteq abandoned

\* A message that waits while somebody is subscribed is delivered.
BacklogDelivered == \A m \in Msgs : Waiting(m) /\ subs # <<>> ~> ~Waiting(m)

\* A request with a timeout settles, even when another request with the same
\* correlation id takes its place in the table.
RequestsSettle ==
    \A r \in Timed : caller[r] = "pending" ~> caller[r] # "pending"

=============================================================================
