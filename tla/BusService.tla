------------------------------ MODULE BusService ------------------------------
(***************************************************************************)
(* What the message bus promises to those who send and to those who        *)
(* subscribe, without queue, copies, drains or resolvers.  A message is    *)
(* taken once.  If nobody is subscribed it waits, and is then brought to   *)
(* one subscriber, urgent messages first and older ones before younger     *)
(* ones.  Otherwise a sent message is brought to one subscriber and a      *)
(* published one to each, once.  Beyond that a message is brought to       *)
(* somebody only while a call with it has not ended.  A call ends in       *)
(* success, or as a dead letter after all its retries; one that is given   *)
(* up without an error never ends and is not retried.  The promise of a    *)
(* request settles once.                                                   *)
(***************************************************************************)
EXTENDS Integers, SequencesExt

CONSTANTS Msgs, Requests, PriorityOf, Timed, Handlers, MaxRetries

VARIABLES
    members, \* who is subscribed
    joined,  \* who ever was
    taken,   \* the messages the bus took, in order
    waiting, \* those that found nobody subscribed and wait
    owed,    \* to whom a published message is still to be brought
    calls,   \* the calls of handlers, in the order they began
    stuck,   \* calls that were given up without an error
    dead,    \* the dead letters, as places in calls
    promise  \* of every request: idle, pending, resolved, rejected

vars == <<members, joined, taken, waiting, owed, calls, stuck, dead, promise>>

Init ==
    /\ members = {} /\ joined = {}
    /\ taken = <<>> /\ waiting = {} /\ owed = [m \in Msgs |-> {}]
    /\ calls = <<>> /\ stuck = {} /\ dead = <<>>
    /\ promise = [r \in Requests |-> "idle"]

Begin(m, h, t) ==
    calls' = Append(calls, [msg |-> m, handler |-> h, state |-> "PROCESSING", tries |-> t])

Becomes(c, s, t) == calls' = [calls EXCEPT ![c].state = s, ![c].tries = t]

\* A call with m that has not ended.
UnderWay(m) ==
    \E c \in DOMAIN calls : calls[c].msg = m /\ calls[c].state \in {"PROCESSING", "FAILED"}

-----------------------------------------------------------------------------
Join(h) ==
    /\ h \notin joined
    /\ members' = members \cup {h} /\ joined' = joined \cup {h}
    /\ UNCHANGED <<taken, waiting, owed, calls, stuck, dead, promise>>

Leave(h) ==
    /\ h \in members /\ members' = members \ {h}
    /\ UNCHANGED <<joined, taken, waiting, owed, calls, stuck, dead, promise>>

Take(m) == m \notin ToSet(taken) /\ taken' = Append(taken, m)

Wait(m) ==
    /\ members = {} /\ waiting' = waiting \cup {m}
    /\ UNCHANGED <<owed, calls>>

ToOne(m) ==
    /\ \E h \in members : Begin(m, h, 0)
    /\ UNCHANGED <<waiting, owed>>

ToAll(m) ==
    /\ members # {} /\ owed' = [owed EXCEPT ![m] = members]
    /\ UNCHANGED <<waiting, calls>>

Publish(m) ==
    /\ m \notin Requests /\ Take(m) /\ (Wait(m) \/ ToAll(m))
    /\ UNCHANGED <<members, joined, stuck, dead, promise>>

Send(m) ==
    /\ m \notin Requests /\ Take(m) /\ (Wait(m) \/ ToOne(m))
    /\ UNCHANGED <<members, joined, stuck, dead, promise>>

Promises(r, s) == promise' = [promise EXCEPT ![r] = s]

Ask(r) ==
    /\ promise[r] = "idle" /\ Promises(r, "pending")
    /\ Take(r) /\ (Wait(r) \/ ToOne(r))
    /\ UNCHANGED <<members, joined, stuck, dead>>

\* A request that is not sent.
AskInVain(r) ==
    /\ promise[r] = "idle" /\ Promises(r, "pending")
    /\ UNCHANGED <<members, joined, taken, waiting, owed, calls, stuck, dead>>

-----------------------------------------------------------------------------
Before(m, n) == \E i, j \in DOMAIN taken : i < j /\ taken[i] = m /\ taken[j] = n

InFront(m) ==
    \A n \in waiting \ {m} : \/ PriorityOf[m] > PriorityOf[n]
                             \/ PriorityOf[m] = PriorityOf[n] /\ ~Before(n, m)

\* A message that waited, to one that has subscribed since.
Serve(m, h) ==
    /\ m \in waiting /\ InFront(m) /\ h \in joined
    /\ Begin(m, h, 0) /\ waiting' = waiting \ {m}
    /\ UNCHANGED <<members, joined, taken, owed, stuck, dead, promise>>

Offer(m, h) ==
    /\ h \in owed[m]
    /\ Begin(m, h, 0) /\ owed' = [owed EXCEPT ![m] = @ \ {h}]
    /\ UNCHANGED <<members, joined, taken, waiting, stuck, dead, promise>>

\* Again, with all its retries or with what calls before have left of them.
BringAgain(m, h) ==
    /\ UnderWay(m) /\ h \in joined
    /\ \E t \in 0 .. MaxRetries : Begin(m, h, t)
    /\ UNCHANGED <<members, joined, taken, waiting, owed, stuck, dead, promise>>

-----------------------------------------------------------------------------
AtWork(c) == calls[c].state = "PROCESSING" /\ c \notin stuck

Succeed(c) ==
    /\ AtWork(c) /\ Becomes(c, "COMPLETED", calls[c].tries)
    /\ UNCHANGED <<members, joined, taken, waiting, owed, stuck, dead, promise>>

Fail(c) ==
    LET t == calls[c].tries + 1
    IN  /\ AtWork(c)
        /\ \/ t <= MaxRetries /\ Becomes(c, "FAILED", t) /\ UNCHANGED dead
           \/ t = MaxRetries + 1 /\ Becomes(c, "DEAD_LETTER", t) /\ dead' = Append(dead, c)
        /\ UNCHANGED <<members, joined, taken, waiting, owed, stuck, promise>>

GiveUp(c) ==
    /\ AtWork(c) /\ stuck' = stuck \cup {c}
    /\ UNCHANGED <<members, joined, taken, waiting, owed, calls, dead, promise>>

Retry(c) ==
    /\ calls[c].state = "FAILED" /\ Becomes(c, "PROCESSING", calls[c].tries)
    /\ UNCHANGED <<members, joined, taken, waiting, owed, stuck, dead, promise>>

\* Anybody replies, at any time, as long as the request waits.
Resolve(r) ==
    /\ promise[r] = "pending" /\ Promises(r, "resolved")
    /\ UNCHANGED <<members, joined, taken, waiting, owed, calls, stuck, dead>>

\* Its time is up, or it was never sent.
Reject(r) ==
    /\ promise[r] = "pending" /\ Promises(r, "rejected")
    /\ r \in Timed \/ r \notin ToSet(taken)
    /\ UNCHANGED <<members, joined, taken, waiting, owed, calls, stuck, dead>>

Next ==
    \/ \E h \in Handlers : Join(h) \/ Leave(h)
    \/ \E m \in Msgs : Publish(m) \/ Send(m)
    \/ \E m \in Msgs, h \in Handlers : Serve(m, h) \/ Offer(m, h) \/ BringAgain(m, h)
    \/ \E c \in DOMAIN calls : Succeed(c) \/ Fail(c) \/ GiveUp(c) \/ Retry(c)
    \/ \E r \in Requests : Ask(r) \/ AskInVain(r) \/ Resolve(r) \/ Reject(r)

Spec == Init /\ [][Next]_vars
=============================================================================
