--------------------------- MODULE BusServiceProofs ---------------------------
(***************************************************************************)
(* The message bus implements BusService, for any messages, requests,      *)
(* subscriptions and retries.                                              *)
(*                                                                         *)
(* What the queue holds matters to the service only for the messages that  *)
(* wait (BacklogStep): a step changes them by depositing a message or by   *)
(* draining one.  AudienceInv adds what the service says of subscribers:   *)
(* nobody is subscribed or called by one publish twice, and whoever is     *)
(* called has subscribed; RequestInv, that a request whose send() was      *)
(* rejected is not sent.                                                   *)
(***************************************************************************)
EXTENDS MessageBusProofs

Once(s) == \A i, j \in DOMAIN s : s[i] = s[j] => i = j

AudienceInv ==
    /\ Once(subs) /\ Once(loop.rest)
    /\ ToSet(subs) \subseteq used /\ ToSet(drains) \subseteq used
    /\ ToSet(loop.rest) \subseteq used

RequestInv ==
    /\ \A r \in Requests : caller[r] = "idle" => r \notin Taken
    /\ \A r \in failing : r \notin Taken

\* An entry that no dispatch has written has all its retries.
FreshInv == \A i \in DOMAIN queue : queue[i].state = "CREATED" => queue[i].tries = 0

ServiceInv == /\ Inv /\ TableInv /\ GhostInv /\ OrderInv
              /\ AudienceInv /\ RequestInv /\ FreshInv

-----------------------------------------------------------------------------
(* Sequences of handlers                                                    *)

LEMMA AppendSet ==
    ASSUME NEW S, NEW s \in Seq(S), NEW x \in S
    PROVE  /\ ToSet(Append(s, x)) = ToSet(s) \cup {x}
           /\ Once(s) /\ x \notin ToSet(s) => Once(Append(s, x))
  <1> DEFINE t == Append(s, x)
  <1>1. /\ t \in Seq(S) /\ Len(t) = Len(s) + 1
        /\ \A i \in 1 .. Len(s) : t[i] = s[i]
        /\ t[Len(s) + 1] = x
    BY AppendProperties
  <1>2. /\ Len(s) \in Nat /\ DOMAIN s = 1 .. Len(s) /\ DOMAIN t = 1 .. Len(s) + 1
    BY <1>1, LenProperties
  <1> HIDE DEF t
  <1>3. DOMAIN t = DOMAIN s \cup {Len(s) + 1} /\ Len(s) + 1 \notin DOMAIN s
    BY <1>2
  <1>4. ToSet(t) = ToSet(s) \cup {x}
    BY <1>1, <1>2, <1>3 DEF ToSet
  <1>5. ASSUME Once(s), x \notin ToSet(s) PROVE Once(t)
    BY <1>1, <1>2, <1>3, <1>5 DEF Once, ToSet
  <1> QED BY <1>4, <1>5 DEF t

LEMMA RemoveSet ==
    ASSUME NEW S, NEW s \in Seq(S), NEW k \in DOMAIN s, Once(s)
    PROVE  ToSet(RemoveAt(s, k)) = ToSet(s) \ {s[k]} /\ Once(RemoveAt(s, k))
  <1> DEFINE t == RemoveAt(s, k)
  <1>1. /\ t \in Seq(S) /\ Len(t) = Len(s) - 1
        /\ \A i \in 1 .. Len(s) - 1 : t[i] = IF i < k THEN s[i] ELSE s[i + 1]
    BY RemovedEffect
  <1>2. /\ Len(s) \in Nat /\ DOMAIN s = 1 .. Len(s) /\ DOMAIN t = 1 .. Len(s) - 1
        /\ k \in 1 .. Len(s)
    BY <1>1, LenProperties
  <1> HIDE DEF t
  <1>3. \A i \in DOMAIN t : \E j \in DOMAIN s : j # k /\ t[i] = s[j]
    <2> TAKE i \in DOMAIN t
    <2>1. CASE i < k
      BY <1>1, <1>2, <2>1
    <2>2. CASE ~(i < k)
      <3>1. i + 1 \in DOMAIN s /\ i + 1 # k
        BY <1>2, <2>2
      <3> QED BY <1>1, <1>2, <2>2, <3>1
    <2> QED BY <2>1, <2>2
  <1>4. \A j \in DOMAIN s : j # k => \E i \in DOMAIN t : t[i] = s[j]
    <2> TAKE j \in DOMAIN s
    <2>1. CASE j < k
      <3>1. j \in DOMAIN t
        BY <1>2, <2>1
      <3> QED BY <1>1, <1>2, <2>1, <3>1
    <2>2. CASE j > k
      <3>1. j - 1 \in DOMAIN t /\ ~(j - 1 < k) /\ (j - 1) + 1 = j
        BY <1>2, <2>2
      <3> QED BY <1>1, <1>2, <3>1
    <2> QED BY <1>2, <2>1, <2>2
  <1>5. ToSet(t) = ToSet(s) \ {s[k]}
    BY <1>3, <1>4 DEF ToSet, Once
  <1>6. ASSUME NEW i \in DOMAIN t, NEW j \in DOMAIN t, i < j PROVE t[i] # t[j]
    <2>1. /\ i \in DOMAIN s /\ j \in DOMAIN s /\ i + 1 \in DOMAIN s /\ j + 1 \in DOMAIN s
          /\ i \in Int /\ j \in Int
      BY <1>2
    <2>2. /\ t[i] = IF i < k THEN s[i] ELSE s[i + 1]
          /\ t[j] = IF j < k THEN s[j] ELSE s[j + 1]
      BY <1>1, <1>2
    <2>3. i # j /\ i # j + 1 /\ i + 1 # j + 1 /\ (~(i < k) => ~(j < k))
      BY <1>2, <1>6, <2>1
    <2> QED BY <2>1, <2>2, <2>3 DEF Once
  <1>7. Once(t)
    <2>1. \A i, j \in DOMAIN t : i < j \/ j < i \/ i = j
      BY <1>2
    <2> QED BY <1>6, <2>1 DEF Once
  <1> QED BY <1>5, <1>7 DEF t

LEMMA TailSet ==
    ASSUME NEW S, NEW s \in Seq(S), s # <<>>
    PROVE  /\ Head(s) \in ToSet(s) /\ ToSet(Tail(s)) \subseteq ToSet(s)
           /\ Once(s) => ToSet(Tail(s)) = ToSet(s) \ {Head(s)} /\ Once(Tail(s))
           /\ Len(s) = 1 => ToSet(s) = {Head(s)}
  <1> DEFINE t == Tail(s)
  <1>1. Len(s) \in Nat /\ Len(s) > 0 /\ DOMAIN s = 1 .. Len(s) /\ Head(s) = s[1]
    BY EmptySeq, LenProperties
  <1>2. /\ t \in Seq(S) /\ Len(t) = Len(s) - 1
        /\ \A i \in 1 .. Len(t) : t[i] = s[i + 1]
    BY HeadTailProperties
  <1>3. DOMAIN t = 1 .. Len(s) - 1
    BY <1>2, LenProperties
  <1> HIDE DEF t
  <1>4. \A i \in DOMAIN t : i + 1 \in DOMAIN s /\ i + 1 # 1 /\ t[i] = s[i + 1]
    BY <1>1, <1>2, <1>3
  <1>5. \A j \in DOMAIN s : j # 1 => j - 1 \in DOMAIN t /\ t[j - 1] = s[j]
    <2> TAKE j \in DOMAIN s
    <2> HAVE j # 1
    <2>1. j - 1 \in DOMAIN t /\ (j - 1) + 1 = j
      BY <1>1, <1>3
    <2> QED BY <1>4, <2>1
  <1>6. 1 \in DOMAIN s
    BY <1>1
  <1>7. Head(s) \in ToSet(s) /\ ToSet(t) \subseteq ToSet(s)
    BY <1>1, <1>4, <1>6 DEF ToSet
  <1>8. ASSUME Once(s) PROVE ToSet(t) = ToSet(s) \ {Head(s)} /\ Once(t)
    <2>1. ToSet(t) = ToSet(s) \ {Head(s)}
      BY <1>1, <1>4, <1>5, <1>6, <1>8 DEF ToSet, Once
    <2>2. \A i, j \in DOMAIN t : i + 1 = j + 1 => i = j
      BY <1>3
    <2> QED BY <1>4, <1>8, <2>1, <2>2 DEF Once
  <1>9. Len(s) = 1 => ToSet(s) = {Head(s)}
    BY <1>1 DEF ToSet
  <1> QED BY <1>7, <1>8, <1>9 DEF t

-----------------------------------------------------------------------------
(* The invariants                                                           *)

LEMMA AudienceStep == ASSUME Inv, AudienceInv, Next PROVE AudienceInv'
  <1>1. /\ subs \in Seq(Handlers) /\ drains \in Seq(Handlers) /\ loop.rest \in Seq(Handlers)
        /\ used \subseteq Handlers
    BY DEF Inv, TypeOK
  <1>2. ToSet(<<>>) = {} /\ Once(<<>>)
    BY EmptySeq DEF ToSet, Once
  <1>3. ASSUME UNCHANGED subVars, loop'.rest = loop.rest PROVE AudienceInv'
    BY <1>3 DEF AudienceInv, subVars
  <1>4. ASSUME NEW h \in Handlers, Subscribe(h) PROVE AudienceInv'
    <2>1. /\ subs' = Append(subs, h) /\ used' = used \cup {h} /\ loop' = loop
          /\ h \notin used /\ (drains' = Append(drains, h) \/ drains' = drains)
      BY <1>4 DEF Subscribe
    <2>2. ToSet(subs') = ToSet(subs) \cup {h} /\ Once(subs')
      BY <1>1, <2>1, AppendSet DEF AudienceInv
    <2>3. ToSet(drains') \subseteq ToSet(drains) \cup {h}
      BY <1>1, <2>1, AppendSet
    <2> QED BY <2>1, <2>2, <2>3 DEF AudienceInv
  <1>5. ASSUME NEW h \in Handlers, Unsubscribe(h) PROVE AudienceInv'
    <2>1. PICK i \in DOMAIN subs : subs' = RemoveAt(subs, i)
      BY <1>5 DEF Unsubscribe
    <2>2. ToSet(subs') \subseteq ToSet(subs) /\ Once(subs')
      BY <1>1, <2>1, RemoveSet DEF AudienceInv
    <2>3. drains' = drains /\ used' = used /\ loop' = loop
      BY <1>5 DEF Unsubscribe
    <2> QED BY <2>2, <2>3 DEF AudienceInv
  <1>6. ASSUME NEW m \in Msgs, Publish(m) PROVE AudienceInv'
    <2>1. UNCHANGED subVars /\ (loop' = loop \/ loop'.rest = subs)
      BY <1>6 DEF Publish
    <2> QED BY <2>1 DEF AudienceInv, subVars
  <1>7. ASSUME NEW m \in Msgs, SendOne(m) PROVE AudienceInv'
    BY <1>3, <1>7 DEF SendOne
  <1>8. ASSUME NEW r \in Requests, InvalidRequest(r) \/ RequestFails(r) \/ Timeout(r)
        PROVE  AudienceInv'
    BY <1>3, <1>8 DEF InvalidRequest, RequestFails, Timeout
  <1>9. ASSUME NEW d \in DOMAIN dispatches,
               HandlerSettles(d) \/ RetryTimer(d)
        PROVE  AudienceInv'
    <2>1. UNCHANGED subVars /\ (loop' = loop \/ loop' = [loop EXCEPT !.running = 0])
      BY <1>9 DEF HandlerSettles, HandlerReturns, HandlerThrows, HandlerThrowsNothing,
                   Unwatched, RetryTimer
    <2>2. loop'.rest = loop.rest
      BY <2>1 DEF Inv, TypeOK
    <2> QED BY <1>3, <2>1, <2>2
  <1>12. ASSUME NEW k \in Correlations, Reply(k) PROVE AudienceInv'
    BY <1>3, <1>12 DEF Reply
  <1>10. CASE DrainStarts
    <2>1. /\ drains # <<>> /\ drains' = Tail(drains) /\ subs' = subs /\ used' = used
          /\ loop'.rest = <<>> \/ loop'.rest = <<Head(drains)>>
      BY <1>10 DEF DrainStarts, NoLoop
    <2>2. Head(drains) \in used /\ ToSet(drains') \subseteq used
      BY <1>1, <2>1, TailSet DEF AudienceInv
    <2>3. ToSet(loop'.rest) \subseteq used /\ Once(loop'.rest)
      BY <1>2, <2>1, <2>2 DEF ToSet, Once
    <2> QED BY <2>1, <2>2, <2>3 DEF AudienceInv
  <1>11. CASE Loop
    <2>1. /\ UNCHANGED subVars
          /\ \/ loop'.rest = loop.rest \/ loop'.rest = <<>>
             \/ loop'.rest = Tail(loop.rest) /\ loop.rest # <<>>
      <3>1. CASE DrainNext
        BY <3>1 DEF DrainNext, Inv, TypeOK
      <3>2. CASE DrainEnds
        BY <3>2 DEF DrainEnds, NoLoop
      <3>3. CASE PublishNext
        BY <3>3 DEF PublishNext, NoLoop, Inv, TypeOK, LoopFit
      <3> QED BY <1>11, <3>1, <3>2, <3>3 DEF Loop
    <2>2. loop.rest # <<>> => ToSet(Tail(loop.rest)) \subseteq used /\ Once(Tail(loop.rest))
      BY <1>1, TailSet DEF AudienceInv
    <2> QED BY <1>2, <2>1, <2>2 DEF AudienceInv, subVars
  <1> QED BY <1>4, <1>5, <1>6, <1>7, <1>8, <1>9, <1>10, <1>11, <1>12,
          MessagesAssumption
          DEF Next, Send, Request

LEMMA RequestStep == ASSUME Inv, TableInv, RequestInv, Next PROVE RequestInv'
  <1>1. /\ sent \in Seq(Msgs) /\ failing \subseteq Requests
        /\ caller \in [Requests -> {"idle", "pending", "resolved", "rejected"}]
    BY DEF Inv, TypeOK
  <1>2. ASSUME UNCHANGED sent PROVE Taken' = Taken
    BY <1>2 DEF Taken
  <1>3. ASSUME NEW m \in Msgs, m \notin Taken, sent' = Append(sent, m)
        PROVE  Taken' = Taken \cup {m}
    BY <1>1, <1>3, TakenGrows DEF Takes
  <1>4. ASSUME UNCHANGED sent, UNCHANGED requestVars PROVE RequestInv'
    BY <1>2, <1>4 DEF RequestInv, requestVars
  <1>5. ASSUME NEW h \in Handlers, Subscribe(h) \/ Unsubscribe(h) PROVE RequestInv'
    BY <1>4, <1>5 DEF Subscribe, Unsubscribe
  <1>6. ASSUME NEW m \in Msgs, Publish(m) \/ Send(m) PROVE RequestInv'
    <2>1. m \notin Requests /\ m \notin Taken /\ sent' = Append(sent, m) /\ UNCHANGED requestVars
      BY <1>6 DEF Publish, Send, SendOne
    <2>2. Taken' = Taken \cup {m}
      BY <1>3, <2>1
    <2> QED BY <1>1, <2>1, <2>2 DEF RequestInv, requestVars
  <1>7. ASSUME NEW r \in Requests, Request(r) PROVE RequestInv'
    <2>1. /\ r \in Msgs /\ r \notin Taken /\ sent' = Append(sent, r)
          /\ caller[r] = "idle" /\ caller' = [caller EXCEPT ![r] = "pending"]
          /\ failing' = failing
      BY <1>7, MessagesAssumption DEF Request, SendOne
    <2>2. Taken' = Taken \cup {r} /\ r \notin failing
      BY <1>3, <2>1 DEF TableInv
    <2> QED BY <1>1, <2>1, <2>2 DEF RequestInv
  <1>8. ASSUME NEW r \in Requests, InvalidRequest(r) PROVE RequestInv'
    <2>1. /\ UNCHANGED sent /\ caller[r] = "idle" /\ caller' = [caller EXCEPT ![r] = "pending"]
          /\ failing' = failing \cup {r}
      BY <1>8 DEF InvalidRequest, sendVars
    <2> QED BY <1>1, <1>2, <2>1 DEF RequestInv
  <1>9. ASSUME NEW r \in Requests, RequestFails(r) \/ Timeout(r) PROVE RequestInv'
    <2>1. UNCHANGED sent /\ Rejected(r) /\ failing' \subseteq failing
      BY <1>9 DEF RequestFails, Timeout, sendVars
    <2>2. \A q \in Requests : caller'[q] = "idle" => caller[q] = "idle"
      BY <1>1, <2>1 DEF Rejected
    <2> QED BY <1>2, <2>1, <2>2 DEF RequestInv
  <1>10. ASSUME NEW k \in Correlations, Reply(k) PROVE RequestInv'
    <2>1. UNCHANGED sent /\ failing' = failing
          /\ \E r : caller' = [caller EXCEPT ![r] = IF @ = "pending" THEN "resolved" ELSE @]
      BY <1>10 DEF Reply, sendVars
    <2>2. \A q \in Requests : caller'[q] = "idle" => caller[q] = "idle"
      BY <1>1, <2>1
    <2> QED BY <1>2, <2>1, <2>2 DEF RequestInv
  <1>11. ASSUME NEW d \in DOMAIN dispatches, HandlerSettles(d) \/ RetryTimer(d)
         PROVE  RequestInv'
    BY <1>4, <1>11 DEF HandlerSettles, HandlerReturns, HandlerThrows, HandlerThrowsNothing,
                       RetryTimer, sendVars
  <1>12. CASE DrainStarts \/ Loop
    BY <1>4, <1>12 DEF DrainStarts, Loop, DrainNext, DrainEnds, PublishNext, sendVars
  <1> QED BY <1>5, <1>6, <1>7, <1>8, <1>9, <1>10, <1>11, <1>12 DEF Next

LEMMA FreshStep == ASSUME CoreType, CoreFit, CoreStep, FreshInv PROVE FreshInv'
  <1> DEFINE Fresh(e) == e.state = "CREATED" => e.tries = 0
  <1>1. \A i \in DOMAIN queue : Fresh(queue[i])
    BY DEF FreshInv
  <1>2. ASSUME NEW E, QueueFrom(E), \A e \in E : Fresh(e)
        PROVE  \A k \in DOMAIN queue' : Fresh(queue'[k])
    BY <1>1, <1>2 DEF QueueFrom
  <1>3. Len(sent') \in Nat
    BY DispatchesGrow, LenProperties
  <1>4. ASSUME Silent PROVE FreshInv'
    BY <1>4 DEF Silent, queueVars, FreshInv
  <1>5. ASSUME NEW m \in Msgs, Deposits(m) PROVE \A k \in DOMAIN queue' : Fresh(queue'[k])
    BY <1>2, <1>3, <1>5, CreatedForm DEF Deposits
  <1>6. ASSUME NEW h \in Handlers, Drains(h) PROVE \A k \in DOMAIN queue' : Fresh(queue'[k])
    <2> DEFINE e == Moved(queue[1], "PROCESSING")
    <2>1. e.state = "PROCESSING"
      BY <1>6, Written DEF Drains
    <2>2. QueueFrom({e}) \/ QueueFrom({})
      BY <1>6 DEF Drains
    <2> HIDE DEF e
    <2> QED BY <1>2, <2>1, <2>2
  <1>7. ASSUME NEW m \in Msgs, NEW h \in Handlers, Offers(m, h)
        PROVE  \A k \in DOMAIN queue' : Fresh(queue'[k])
    <2> DEFINE c == Created(m, Len(sent'))  e == Moved(c, "PROCESSING")
    <2>1. c.tries = 0 /\ e.state = "PROCESSING"
      BY <1>3, CreatedForm, Written
    <2>2. QueueFrom({c, e})
      BY <1>7 DEF Offers
    <2> HIDE DEF c, e
    <2> QED BY <1>2, <2>1, <2>2
  <1>8. ASSUME NEW d \in DOMAIN dispatches, Settles(d)
        PROVE  \A k \in DOMAIN queue' : Fresh(queue'[k])
    <2>1. PICK e \in Envelope : Becomes(d, e) /\ e.state # "CREATED"
      BY <1>8, Written
    <2>2. QueueFrom({e}) \/ QueueFrom({})
      BY <2>1 DEF Becomes
    <2> QED BY <1>2, <2>1, <2>2
  <1> QED BY <1>4, <1>5, <1>6, <1>7, <1>8 DEF CoreStep, FreshInv

LEMMA ServiceInvHolds == Spec => []ServiceInv
  <1>1. Init => AudienceInv /\ RequestInv /\ FreshInv
    <2> SUFFICES ASSUME Init PROVE AudienceInv /\ RequestInv /\ FreshInv
      OBVIOUS
    <2>1. subs = <<>> /\ drains = <<>> /\ loop.rest = <<>> /\ queue = <<>> /\ sent = <<>>
          /\ failing = {}
      BY DEF Init, NoLoop
    <2>2. DOMAIN <<>> = {}
      OBVIOUS
    <2> QED BY <2>1, <2>2 DEF AudienceInv, RequestInv, FreshInv, Once, ToSet, Taken
  <1>2. Inv /\ TableInv /\ AudienceInv /\ RequestInv /\ FreshInv /\ [Next]_vars
           => (AudienceInv /\ RequestInv /\ FreshInv)'
    <2> SUFFICES ASSUME Inv, TableInv, AudienceInv, RequestInv, FreshInv, [Next]_vars
                 PROVE  AudienceInv' /\ RequestInv' /\ FreshInv'
      OBVIOUS
    <2>1. CASE Next
      BY <2>1, AudienceStep, RequestStep, FreshStep, InvStep
    <2>2. CASE UNCHANGED vars
      BY <2>2 DEF vars, subVars, queueVars, requestVars, sendVars, AudienceInv, RequestInv,
                  FreshInv, Taken
    <2> QED BY <2>1, <2>2
  <1> QED BY <1>1, <1>2, InvHolds, GhostsHold, OrderHolds, PTL DEF Spec, ServiceInv

-----------------------------------------------------------------------------
(* The messages that wait, and the calls                                    *)

LEMMA BacklogForm ==
    ASSUME CoreType, queue' \in Seq(Envelope), NEW m \in Msgs
    PROVE  /\ m \in Backlog <=> m \notin Started /\ NumberOf(queue, m) # 0
           /\ m \in Backlog' <=> m \notin Started' /\ NumberOf(queue', m) # 0
  <1>1. m \in Backlog <=> m \notin Started /\ PlacesOf(queue, m) # {}
    BY DEF Backlog, Waiting, Started, Copies, PlacesOf
  <1>2. m \in Backlog' <=> m \notin Started' /\ PlacesOf(queue', m) # {}
    BY DEF Backlog, Waiting, Started, Copies, PlacesOf
  <1> QED BY <1>1, <1>2, CountType DEF CoreType

LEMMA StepsChange ==
    ASSUME CoreType
    PROVE  /\ \A m \in Msgs : Takes(m) => sent' # sent
           /\ \A e \in Envelope, h \in Handlers : Begins(e, h) => dispatches' # dispatches
  <1>1. ASSUME NEW m \in Msgs, Takes(m) PROVE sent' # sent
    BY <1>1, TakesEffect
  <1>2. ASSUME NEW e \in Envelope, NEW h \in Handlers, Begins(e, h)
        PROVE  dispatches' # dispatches
    BY <1>2, BeginsEffect
  <1> QED BY <1>1, <1>2

\* What becomes of the messages that wait.
LEMMA BacklogStep ==
    ASSUME CoreType, CoreFit, CoreStep, GhostInv, queue' \in Seq(Envelope)
    PROVE  /\ UNCHANGED <<queue, dispatches>> => Backlog' = Backlog
           /\ \A m \in Msgs : Deposits(m) => Backlog' = Backlog \cup {m}
           /\ \A h \in Handlers : Drains(h) => Backlog' = Backlog \ {queue[1].msg}
           /\ \A m \in Msgs, h \in Handlers : Offers(m, h) => Backlog' = Backlog
           /\ \A d \in DOMAIN dispatches : Settles(d) => Backlog' = Backlog
  <1>0. /\ Backlog \subseteq Msgs /\ Backlog' \subseteq Msgs
        /\ \A m \in Msgs : /\ m \in Backlog <=> m \notin Started /\ NumberOf(queue, m) # 0
                           /\ m \in Backlog' <=> m \notin Started' /\ NumberOf(queue', m) # 0
                           /\ NumberOf(queue, m) \in Nat
    BY BacklogForm, CountType DEF CoreType, Backlog
  <1>1. \A m \in Msgs : m \in Backlog /\ m \notin Backlog' => LessOf(m)
    BY <1>0, CopiesAreCounted, FirstOut
  <1>2. \A m \in Msgs : m \notin Backlog /\ m \in Backlog' => Deposits(m)
    BY <1>0, CopiesStay, DispatchesGrow
  <1>3. ASSUME UNCHANGED <<queue, dispatches>> PROVE Backlog' = Backlog
    BY <1>3 DEF Backlog, Waiting, DispatchesOf, Copies
  <1>4. ASSUME NEW m \in Msgs, Deposits(m) PROVE Backlog' = Backlog \cup {m}
    <2>1. Started' = Started /\ MoreOf(m) /\ m \notin Taken
      BY <1>4 DEF Deposits, Started, DispatchesOf, Takes
    <2>2. m \notin Started /\ NumberOf(queue', m) = NumberOf(queue, m) + 1
      BY <2>1, NothingUntaken DEF MoreOf
    <2>3. \A n \in Msgs : n # m => NumberOf(queue', n) = NumberOf(queue, n)
      BY <1>0, <2>1 DEF MoreOf
    <2>4. m \in Backlog'
      BY <1>0, <2>1, <2>2
    <2>5. \A n \in Msgs : n # m => (n \in Backlog' <=> n \in Backlog)
      BY <1>0, <2>1, <2>3
    <2> QED BY <1>0, <2>4, <2>5
  <1>5. ASSUME NEW h \in Handlers, Drains(h) PROVE Backlog' = Backlog \ {queue[1].msg}
    <2> DEFINE m == queue[1].msg
    <2>1. m \in Msgs /\ LessOf(m) /\ UNCHANGED sent
      BY <1>5, Written, EnvelopeForm DEF Drains
    <2>2. \A n \in Msgs : ~Deposits(n)
      BY <2>1, StepsChange DEF Deposits
    <2>3. m \in Started'
      <3>1. CASE Allowed(queue[1].state, "PROCESSING")
        <4>1. Moved(queue[1], "PROCESSING") \in Envelope /\ Moved(queue[1], "PROCESSING").msg = m
          BY <1>5, Written DEF Drains
        <4>2. Begins(Moved(queue[1], "PROCESSING"), h)
          BY <1>5, <3>1 DEF Drains
        <4> HIDE DEF m
        <4> QED BY <4>1, <4>2, BeginsStarts
      <3>2. CASE ~Allowed(queue[1].state, "PROCESSING")
        <4>1. queue[1].state # "CREATED" /\ Fits(queue[1], Taken, Started)
          BY <1>5, <3>2, FirstDispatch, Written DEF Drains
        <4> QED BY <4>1, DispatchesGrow DEF Fits
      <3> QED BY <3>1, <3>2
    <2>4. \A n \in Msgs : n # m => ~LessOf(n) \/ NumberOf(queue', n) = NumberOf(queue, n)
      BY <1>0, <2>1 DEF LessOf
    <2> HIDE DEF m
    <2>5. \A n \in Msgs : n # m => ~LessOf(n)
      BY <1>0, <2>1, <2>4 DEF LessOf
    <2>6. \A n \in Msgs : n # m => (n \in Backlog' <=> n \in Backlog)
      BY <1>1, <1>2, <2>2, <2>5
    <2>7. Backlog' = Backlog \ {m}
      BY <1>0, <2>3, <2>6
    <2> QED BY <2>7 DEF m
  <1>6. ASSUME NEW m \in Msgs, NEW h \in Handlers, Offers(m, h) PROVE Backlog' = Backlog
    <2>1. \A n \in Msgs : ~LessOf(n)
      BY <1>0, <1>6 DEF Offers, MoreOf, LessOf
    <2>2. \A n \in Msgs : ~Deposits(n)
      <3> DEFINE e == Moved(Created(m, Len(sent')), "PROCESSING")
      <3>1. e \in Envelope /\ Begins(e, h)
        BY <1>6, Written, DispatchesGrow, LenProperties DEF Offers
      <3> HIDE DEF e
      <3> QED BY <3>1, StepsChange DEF Deposits
    <2> QED BY <1>0, <1>1, <1>2, <2>1, <2>2
  <1>7. ASSUME NEW d \in DOMAIN dispatches, Settles(d) PROVE Backlog' = Backlog
    <2>1. PICK e \in Envelope : Becomes(d, e) /\ e.msg = dispatches[d].env.msg
      BY <1>7, Written
    <2>2. e.msg \in Started
      BY <2>1, EnvelopeForm DEF Started, DispatchesOf
    <2>3. \A n \in Msgs : n # e.msg => ~LessOf(n)
      BY <1>0, <2>1 DEF Becomes, LessOf
    <2>4. \A n \in Msgs : ~Deposits(n)
      BY <2>1, StepsChange DEF Deposits, Becomes
    <2>5. e.msg \notin Backlog /\ e.msg \notin Backlog'
      BY <1>0, <2>2, DispatchesGrow
    <2> QED BY <1>0, <1>1, <1>2, <2>3, <2>4, <2>5
  <1> QED BY <1>3, <1>4, <1>5, <1>6, <1>7

CallType == [msg : Msgs, handler : Handlers, state : States, tries : 0 .. MaxRetries + 1]

CallsOf(s) == [d \in DOMAIN s |-> Call(s[d])]

LEMMA CallsForm ==
    ASSUME NEW s \in Seq(DispatchType)
    PROVE  /\ CallsOf(s) \in Seq(CallType) /\ Len(CallsOf(s)) = Len(s)
           /\ DOMAIN CallsOf(s) = DOMAIN s
           /\ \A d \in DOMAIN s : CallsOf(s)[d] = Call(s[d]) /\ Call(s[d]) \in CallType
  <1>1. \A d \in DOMAIN s : Call(s[d]) \in CallType
    <2> TAKE d \in DOMAIN s
    <2>1. s[d] \in DispatchType
      BY LenProperties
    <2>2. s[d].env \in Envelope /\ s[d].handler \in Handlers
      BY <2>1 DEF DispatchType
    <2> QED BY <2>2, EnvelopeForm DEF Call, CallType
  <1>2. Len(s) \in Nat /\ DOMAIN s = 1 .. Len(s)
    BY LenProperties
  <1>3. CallsOf(s) \in [1 .. Len(s) -> CallType]
    BY <1>1, <1>2 DEF CallsOf
  <1>4. CallsOf(s) \in Seq(CallType)
    BY <1>2, <1>3, SeqDef
  <1>5. Len(CallsOf(s)) = Len(s)
    BY <1>2, <1>3, <1>4, LenProperties
  <1> QED BY <1>1, <1>2, <1>3, <1>4, <1>5 DEF CallsOf

LEMMA CallRecord ==
    ASSUME NEW c \in CallType
    PROVE  c = [msg |-> c.msg, handler |-> c.handler, state |-> c.state, tries |-> c.tries]
  BY DEF CallType

LEMMA CallMoves ==
    ASSUME NEW c \in CallType, NEW s \in States, NEW t \in 0 .. MaxRetries + 1
    PROVE  [c EXCEPT !.state = s, !.tries = t]
              = [msg |-> c.msg, handler |-> c.handler, state |-> s, tries |-> t]
  <1> DEFINE x == [c EXCEPT !.state = s, !.tries = t]
  <1>1. x \in CallType /\ x.msg = c.msg /\ x.handler = c.handler /\ x.state = s /\ x.tries = t
    BY DEF CallType
  <1> HIDE DEF x
  <1>2. x = [msg |-> c.msg, handler |-> c.handler, state |-> s, tries |-> t]
    BY <1>1, CallRecord
  <1> QED BY <1>2 DEF x

LEMMA CallsBegin ==
    ASSUME CoreType, NEW e \in Envelope, NEW h \in Handlers, Begins(e, h)
    PROVE  Calls' = Append(Calls, [msg |-> e.msg, handler |-> h,
                                   state |-> e.state, tries |-> e.tries])
  <1> DEFINE x == [env |-> e, handler |-> h]
             y == [msg |-> e.msg, handler |-> h, state |-> e.state, tries |-> e.tries]
             n == Len(dispatches)
  <1>1. x \in DispatchType /\ Call(x) = y
    BY DEF DispatchType, Call
  <1>2. dispatches \in Seq(DispatchType) /\ dispatches' = Append(dispatches, x)
    BY DEF CoreType, Begins
  <1> HIDE DEF x, y
  <1>3. /\ dispatches' \in Seq(DispatchType) /\ Len(dispatches') = n + 1 /\ n \in Nat
        /\ \A i \in 1 .. n : dispatches'[i] = dispatches[i]
        /\ dispatches'[n + 1] = x
        /\ DOMAIN dispatches = 1 .. n /\ DOMAIN dispatches' = 1 .. n + 1
    BY <1>1, <1>2, AppendProperties, LenProperties
  <1>4. Calls = CallsOf(dispatches) /\ Calls' = CallsOf(dispatches')
    BY DEF Calls, CallsOf
  <1>5. /\ Calls \in Seq(CallType) /\ Len(Calls) = n
        /\ \A i \in 1 .. n : Calls[i] = Call(dispatches[i])
    BY <1>2, <1>3, <1>4, CallsForm
  <1>6. /\ Calls' \in Seq(CallType) /\ Len(Calls') = n + 1
        /\ \A i \in 1 .. n + 1 : Calls'[i] = Call(dispatches'[i])
        /\ Call(dispatches'[n + 1]) \in CallType
    <2>1. n + 1 \in DOMAIN dispatches'
      BY <1>3
    <2> QED BY <1>3, <1>4, <2>1, CallsForm
  <1>7. y \in CallType
    BY <1>1, <1>3, <1>6
  <1> DEFINE z == Append(Calls, y)
  <1>8. /\ z \in Seq(CallType) /\ Len(z) = n + 1 /\ z[n + 1] = y
        /\ \A i \in 1 .. n : z[i] = Calls[i]
    BY <1>5, <1>7, AppendProperties
  <1> HIDE DEF z, n
  <1>9. \A i \in 1 .. n + 1 : Calls'[i] = z[i]
    <2> TAKE i \in 1 .. n + 1
    <2>1. CASE i \in 1 .. n
      BY <1>3, <1>5, <1>6, <1>8, <2>1
    <2>2. CASE i = n + 1
      BY <1>1, <1>3, <1>6, <1>8, <2>2
    <2> QED BY <1>3, <2>1, <2>2
  <1>10. Calls' = z
    BY <1>6, <1>8, <1>9, SeqEqual
  <1> QED BY <1>10 DEF y, z

LEMMA CallsBecome ==
    ASSUME CoreType, NEW d \in DOMAIN dispatches, NEW e \in Envelope, Becomes(d, e),
           e.msg = dispatches[d].env.msg
    PROVE  /\ d \in DOMAIN Calls
           /\ Calls[d].state = dispatches[d].env.state
           /\ Calls[d].tries = dispatches[d].env.tries
           /\ Service!Becomes(d, e.state, e.tries)
  <1>1. dispatches \in Seq(DispatchType) /\ dispatches' = [dispatches EXCEPT ![d].env = e]
    BY DEF CoreType, Becomes
  <1>2. Calls = [c \in DOMAIN dispatches |-> Call(dispatches[c])]
    BY DEF Calls
  <1>3. Calls' = [c \in DOMAIN dispatches |-> Call(dispatches'[c])]
    BY <1>1 DEF Calls
  <1>4. \A c \in DOMAIN dispatches : c # d => dispatches'[c] = dispatches[c]
    BY <1>1
  <1>5. Call(dispatches'[d]) = [Call(dispatches[d]) EXCEPT !.state = e.state, !.tries = e.tries]
    <2>1. dispatches[d] \in DispatchType
      BY CoreElements
    <2>2. dispatches'[d].env = e /\ dispatches'[d].handler = dispatches[d].handler
      BY <1>1, <2>1 DEF DispatchType
    <2> DEFINE r == Call(dispatches[d])
    <2>3. r \in CallType /\ r.msg = e.msg /\ r.handler = dispatches[d].handler
      BY <1>1, CallsForm DEF Call
    <2>4. Call(dispatches'[d]) = [msg |-> r.msg, handler |-> r.handler,
                                  state |-> e.state, tries |-> e.tries]
      BY <2>2, <2>3 DEF Call
    <2> HIDE DEF r
    <2>5. [r EXCEPT !.state = e.state, !.tries = e.tries]
             = [msg |-> r.msg, handler |-> r.handler, state |-> e.state, tries |-> e.tries]
      BY <2>3, CallMoves, EnvelopeForm
    <2> QED BY <2>4, <2>5 DEF r
  <1>6. Calls[d] = Call(dispatches[d])
    BY <1>2
  <1>7. Calls' = [Calls EXCEPT ![d] = [Calls[d] EXCEPT !.state = e.state, !.tries = e.tries]]
    BY <1>2, <1>3, <1>4, <1>5, <1>6
  <1>8. Calls[d].state = dispatches[d].env.state /\ Calls[d].tries = dispatches[d].env.tries
    BY <1>6 DEF Call
  <1>9. d \in DOMAIN Calls
    BY <1>2
  <1>10. [Calls EXCEPT ![d] = [Calls[d] EXCEPT !.state = e.state, !.tries = e.tries]]
            = [Calls EXCEPT ![d].state = e.state, ![d].tries = e.tries]
    BY <1>9
  <1> QED BY <1>7, <1>8, <1>9, <1>10 DEF Service!Becomes

-----------------------------------------------------------------------------
(* The steps are those of the service                                       *)

Steady == UNCHANGED <<subs, used, sent, caller, abandoned>> /\ Debts' = Debts

\* What the lemmas on the steps above assume.
Ready == CoreType /\ CoreFit /\ CoreStep /\ GhostInv /\ queue' \in Seq(Envelope)

LEMMA StepIsReady == ASSUME ServiceInv, Next PROVE Ready
  BY StepIsCore, TypeParts DEF ServiceInv, Inv, Ready

LEMMA EndIsServed ==
    ASSUME Ready, NEW d \in DOMAIN dispatches, Settles(d), Steady,
           dispatches[d].env.state = "PROCESSING" => d \notin abandoned
    PROVE  Service!Next
  <1> DEFINE e == dispatches[d].env
             f == Moved(e, "FAILED")
             done == Moved(e, "COMPLETED")  dead == Moved(f, "DEAD_LETTER")
             again == Moved(e, "PROCESSING")
  <1>1. /\ Backlog' = Backlog /\ ToSet(subs)' = ToSet(subs)
        /\ UNCHANGED <<used, sent, caller, abandoned>> /\ Debts' = Debts
        /\ CoreType /\ CoreFit
        /\ e.state = "PROCESSING" => d \notin abandoned
    BY BacklogStep DEF Steady, Ready
  <1>2. /\ e \in Envelope /\ e.tries \in Int /\ MaxRetries \in Nat
        /\ e.state \in {"PROCESSING", "FAILED"} /\ e.tries <= MaxRetries
    <2>1. e \in Envelope /\ e.state \in {"PROCESSING", "FAILED"}
      BY <1>1, CoreElements DEF Settles
    <2> QED BY <1>1, <2>1, EnvelopeForm, RetriesAssumption DEF CoreFit
  <1>3. f \in Envelope /\ f.msg = e.msg /\ f.state = "FAILED" /\ f.tries = e.tries + 1
    BY <1>2, MovedForm DEF States
  <1>4. /\ done \in Envelope /\ done.msg = e.msg /\ done.state = "COMPLETED"
        /\ done.tries = e.tries
    BY <1>2, MovedForm DEF States
  <1>5. /\ again \in Envelope /\ again.msg = e.msg /\ again.state = "PROCESSING"
        /\ again.tries = e.tries
    BY <1>2, MovedForm DEF States
  <1> HIDE DEF f
  <1>6. /\ dead \in Envelope /\ dead.msg = e.msg /\ dead.state = "DEAD_LETTER"
        /\ dead.tries = e.tries + 1
    BY <1>3, MovedForm DEF States
  <1>7. d \in DOMAIN Calls
    BY DEF Calls
  <1> HIDE DEF done, again, dead
  <1>8. \A g \in Envelope : Becomes(d, g) /\ g.msg = e.msg =>
           /\ Calls[d].state = e.state /\ Calls[d].tries = e.tries
           /\ Service!Becomes(d, g.state, g.tries)
    BY <1>1, CallsBecome
  <1>9. \/ e.state = "PROCESSING" /\ Becomes(d, done) /\ UNCHANGED dlq
        \/ e.state = "PROCESSING" /\ f.tries <= MaxRetries /\ Becomes(d, f) /\ UNCHANGED dlq
        \/ /\ e.state = "PROCESSING" /\ ~(f.tries <= MaxRetries)
           /\ Becomes(d, dead) /\ dlq' = Append(dlq, d)
        \/ e.state = "FAILED" /\ Becomes(d, again) /\ UNCHANGED dlq
    BY DEF Settles, f, done, dead, again
  <1> HIDE DEF e
  <1>10. CASE e.state = "PROCESSING" /\ Becomes(d, done) /\ UNCHANGED dlq
    <2>1. Service!Succeed(d)
      BY <1>1, <1>4, <1>8, <1>10 DEF Service!Succeed, Service!AtWork
    <2> QED BY <1>7, <2>1 DEF Service!Next
  <1>11. CASE /\ e.state = "PROCESSING" /\ f.tries <= MaxRetries
              /\ Becomes(d, f) /\ UNCHANGED dlq
    <2>1. Service!Fail(d)
      BY <1>1, <1>3, <1>8, <1>11 DEF Service!Fail, Service!AtWork
    <2> QED BY <1>7, <2>1 DEF Service!Next
  <1>12. CASE /\ e.state = "PROCESSING" /\ ~(f.tries <= MaxRetries)
              /\ Becomes(d, dead) /\ dlq' = Append(dlq, d)
    <2>1. e.tries + 1 = MaxRetries + 1
      BY <1>2, <1>3, <1>12
    <2>2. Service!Fail(d)
      BY <1>1, <1>6, <1>8, <1>12, <2>1 DEF Service!Fail, Service!AtWork
    <2> QED BY <1>7, <2>2 DEF Service!Next
  <1>13. CASE e.state = "FAILED" /\ Becomes(d, again) /\ UNCHANGED dlq
    <2>1. Service!Retry(d)
      BY <1>1, <1>5, <1>8, <1>13 DEF Service!Retry
    <2> QED BY <1>7, <2>1 DEF Service!Next
  <1> QED BY <1>9, <1>10, <1>11, <1>12, <1>13

\* A message that has a copy in the queue after its first dispatch has a call
\* that has not ended.
LEMMA CopyIsUnderWay ==
    ASSUME CoreType, CoreFit, GhostInv, NEW m \in Msgs, m \in Started, NumberOf(queue, m) # 0
    PROVE  Service!UnderWay(m)
  <1>1. /\ NumberOf(queue, m) \in Nat /\ LiveNumber(m) \in Nat /\ IsFiniteSet(Live(m))
        /\ NumberOf(queue, m) <= LiveNumber(m)
    BY CountType, LiveType DEF CoreType, GhostInv, Bounded
  <1>2. LiveNumber(m) # 0
    BY <1>1
  <1>3. PICK d : d \in Live(m)
    BY <1>2, FS_EmptySet DEF LiveNumber
  <1>4. /\ d \in DOMAIN dispatches /\ dispatches[d].env.msg = m
        /\ dispatches[d].env.state \in {"PROCESSING", "FAILED"}
    BY <1>3 DEF Live, DispatchesOf, Ended, CoreFit
  <1>5. d \in DOMAIN Calls /\ Calls[d] = Call(dispatches[d])
    BY <1>4 DEF Calls
  <1>6. Calls[d].msg = m /\ Calls[d].state \in {"PROCESSING", "FAILED"}
    BY <1>4, <1>5 DEF Call
  <1> QED BY <1>5, <1>6 DEF Service!UnderWay

LEMMA BacklogOrder ==
    ASSUME Ready, OrderInv
    PROVE  \A m \in Backlog, n \in Backlog' : m \notin Backlog' =>
              \/ PriorityOf[m] > PriorityOf[n]
              \/ PriorityOf[m] = PriorityOf[n] /\ ~SentBefore(n, m)
  <1> TAKE m \in Backlog, n \in Backlog'
  <1> HAVE m \notin Backlog'
  <1>1. m \in Msgs /\ n \in Msgs /\ Waiting(m) /\ ~Waiting(m)' /\ Waiting(n)'
    BY DEF Backlog
  <1> QED BY <1>1, OrderedDelivery DEF Ready

\* An entry that is drained is the first call of a message that waited, or one
\* more of a message that is under way.
LEMMA DrainIsServed ==
    ASSUME ServiceInv, Ready, NEW h \in Handlers, h \in used, Drains(h), Steady
    PROVE  [Service!Next]_Service!vars
  <1> DEFINE q == queue[1]  m == q.msg  e == Moved(q, "PROCESSING")
  <1>1. /\ Backlog' = Backlog \ {m} /\ ToSet(subs)' = ToSet(subs)
        /\ UNCHANGED <<used, sent, caller, dlq, abandoned>> /\ Debts' = Debts
        /\ CoreType /\ CoreFit /\ GhostInv
    BY BacklogStep DEF Steady, Ready, Drains
  <1>2. /\ e \in Envelope /\ e.msg = m /\ e.state = "PROCESSING" /\ e.tries = q.tries
        /\ Fits(q, Taken, Started) /\ q \in Envelope /\ 1 \in DOMAIN queue
    BY <1>1, Written, TailEffect DEF Drains, CoreType
  <1>3. m \in Msgs /\ q.tries \in 0 .. MaxRetries
    BY <1>2, EnvelopeForm, RetriesAssumption DEF Fits
  <1>4. NumberOf(queue, m) # 0
    <2>1. PlacesOf(queue, m) # {}
      BY <1>2 DEF PlacesOf
    <2> QED BY <1>1, <2>1, CountType DEF CoreType
  <1>5. m \in Backlog <=> m \notin Started
    BY <1>1, <1>3, <1>4, BacklogForm DEF Ready
  <1>6. /\ Allowed(q.state, "PROCESSING") => Begins(e, h)
        /\ ~Allowed(q.state, "PROCESSING") => UNCHANGED dispatches
    BY DEF Drains
  <1>7. m \notin Started => q.state = "CREATED" /\ q.tries = 0
    BY <1>2 DEF Fits, ServiceInv, FreshInv
  <1> HIDE DEF e, q, m
  <1>8. ASSUME Allowed(q.state, "PROCESSING") PROVE Service!Begin(m, h, q.tries)
    BY <1>1, <1>2, <1>6, <1>8, CallsBegin DEF Service!Begin
  <1>9. CASE m \notin Started
    <2>1. Allowed(q.state, "PROCESSING")
      BY <1>7, <1>9, FirstDispatch
    <2>2. Service!Begin(m, h, 0)
      BY <1>7, <1>8, <1>9, <2>1
    <2>3. \A n \in Backlog \ {m} : \/ PriorityOf[m] > PriorityOf[n]
                                   \/ PriorityOf[m] = PriorityOf[n] /\ ~SentBefore(n, m)
      <3> TAKE n \in Backlog \ {m}
      <3>1. n \in Backlog' /\ m \in Backlog /\ m \notin Backlog'
        BY <1>1, <1>5, <1>9
      <3> QED BY <3>1, BacklogOrder DEF ServiceInv
    <2>4. Service!InFront(m)
      BY <2>3 DEF Service!InFront, Service!Before, SentBefore
    <2>5. Service!Serve(m, h)
      BY <1>1, <1>5, <1>9, <2>2, <2>4 DEF Service!Serve
    <2> QED BY <1>3, <2>5 DEF Service!Next
  <1>10. CASE m \in Started /\ Allowed(q.state, "PROCESSING")
    <2>1. Service!UnderWay(m)
      BY <1>1, <1>3, <1>4, <1>10, CopyIsUnderWay
    <2>2. Backlog' = Backlog
      BY <1>1, <1>5, <1>10
    <2>3. Service!BringAgain(m, h)
      BY <1>1, <1>3, <1>8, <1>10, <2>1, <2>2 DEF Service!BringAgain
    <2> QED BY <1>3, <2>3 DEF Service!Next
  <1>11. CASE m \in Started /\ ~Allowed(q.state, "PROCESSING")
    <2>1. Backlog' = Backlog /\ Calls' = Calls
      BY <1>1, <1>5, <1>6, <1>11 DEF Calls
    <2> QED BY <1>1, <2>1 DEF Service!vars
  <1> QED BY <1>9, <1>10, <1>11

LEMMA OfferBegins ==
    ASSUME Ready, NEW m \in Msgs, NEW h \in Handlers, Offers(m, h)
    PROVE  Service!Begin(m, h, 0) /\ Backlog' = Backlog /\ dlq' = dlq
  <1> DEFINE e == Moved(Created(m, Len(sent')), "PROCESSING")
  <1>1. e \in Envelope /\ e.msg = m /\ e.state = "PROCESSING" /\ e.tries = 0
    BY Written, DispatchesGrow, LenProperties DEF Ready
  <1>2. Begins(e, h) /\ dlq' = dlq
    BY DEF Offers
  <1> HIDE DEF e
  <1>3. Service!Begin(m, h, 0)
    BY <1>1, <1>2, CallsBegin DEF Ready, Service!Begin
  <1> QED BY <1>2, <1>3, BacklogStep DEF Ready

LEMMA DebtsStay ==
    ASSUME \/ loop'.kind = loop.kind /\ loop'.msg = loop.msg /\ loop'.rest = loop.rest
           \/ loop.kind # "publish" /\ loop'.kind # "publish"
    PROVE  Debts' = Debts
  <1>1. \A m : Owed(m)' = Owed(m)
    BY DEF Owed
  <1> QED BY <1>1 DEF Debts

LEMMA QuietStep ==
    ASSUME Ready, UNCHANGED <<queue, dispatches>>
    PROVE  Backlog' = Backlog /\ Calls' = Calls
  BY BacklogStep DEF Ready, Calls

LEMMA SendIsServed ==
    ASSUME ServiceInv, Ready, NEW m \in Msgs, SendOne(m)
    PROVE  /\ Service!Take(m)
           /\ Service!Wait(m) \/ Service!ToOne(m)
           /\ ToSet(subs)' = ToSet(subs) /\ UNCHANGED <<used, dlq, abandoned>>
  <1>1. /\ m \notin Taken /\ sent' = Append(sent, m)
        /\ UNCHANGED <<subs, used, loop, abandoned>>
    BY DEF SendOne, subVars
  <1>2. Debts' = Debts /\ ToSet(subs)' = ToSet(subs)
    BY <1>1, DebtsStay
  <1>3. Service!Take(m)
    BY <1>1 DEF Service!Take, Service!ToSet, Taken, ToSet
  <1>4. CASE Deposits(m)
    <2>1. Backlog' = Backlog \cup {m} /\ Calls' = Calls /\ dlq' = dlq
      BY <1>4, BacklogStep DEF Ready, Deposits, Calls
    <2>2. ToSet(subs) = {}
      BY <1>4, EmptySeq DEF Deposits, ToSet
    <2>3. Service!Wait(m)
      BY <1>2, <2>1, <2>2 DEF Service!Wait
    <2> QED BY <1>1, <1>2, <1>3, <2>1, <2>3
  <1>5. ASSUME NEW h \in Handlers, h \in ToSet(subs), Offers(m, h)
        PROVE  Service!ToOne(m) /\ dlq' = dlq
    <2>1. Service!Begin(m, h, 0) /\ Backlog' = Backlog /\ dlq' = dlq
      BY <1>5, OfferBegins
    <2> QED BY <1>2, <1>5, <2>1 DEF Service!ToOne
  <1> QED BY <1>1, <1>2, <1>3, <1>4, <1>5, SendOneEffect DEF ServiceInv, Inv

LEMMA PublishIsServed ==
    ASSUME ServiceInv, Ready, NEW m \in Msgs, Publish(m)
    PROVE  Service!Next
  <1>1. /\ m \notin Requests /\ m \notin Taken /\ sent' = Append(sent, m)
        /\ UNCHANGED <<subs, used, caller, dlq, abandoned>> /\ ToSet(subs)' = ToSet(subs)
    BY DEF Publish, requestVars, subVars, queueVars, Deposit
  <1>2. Service!Take(m)
    BY <1>1 DEF Service!Take, Service!ToSet, Taken, ToSet
  <1>3. CASE subs = <<>> /\ Deposit(m) /\ UNCHANGED loop
    <2>1. Takes(m)
      BY <1>1 DEF Takes
    <2>2. Deposits(m)
      BY <1>1, <1>3, <2>1, DepositEffect DEF ServiceInv, Inv
    <2>3. Backlog' = Backlog \cup {m} /\ Calls' = Calls
      BY <2>2, BacklogStep DEF Ready, Deposits, Calls
    <2>4. ToSet(subs) = {} /\ Debts' = Debts
      BY <1>3, EmptySeq, DebtsStay DEF ToSet
    <2>5. Service!Wait(m)
      BY <2>3, <2>4 DEF Service!Wait
    <2> QED BY <1>1, <1>2, <2>5 DEF Service!Publish, Service!Next
  <1>4. CASE /\ loop.kind = "none" /\ subs # <<>> /\ UNCHANGED queueVars
             /\ loop' = [kind |-> "publish", msg |-> m, rest |-> subs, running |-> 0]
    <2>1. Backlog' = Backlog /\ Calls' = Calls
      BY <1>4, QuietStep DEF queueVars
    <2>2. ToSet(subs) # {}
      <3>1. subs \in Seq(Handlers)
        BY DEF ServiceInv, Inv, TypeOK
      <3> QED BY <1>4, <3>1, TailSet
    <2>3. \A n : Owed(n) = {} /\ Owed(n)' = IF n = m THEN ToSet(subs) ELSE {}
      BY <1>4 DEF Owed
    <2>4. Debts' = [Debts EXCEPT ![m] = ToSet(subs)]
      BY <2>3 DEF Debts
    <2>5. Service!ToAll(m)
      BY <2>1, <2>2, <2>4 DEF Service!ToAll
    <2> QED BY <1>1, <1>2, <2>5 DEF Service!Publish, Service!Next
  <1> QED BY <1>3, <1>4 DEF Publish, Idle

LEMMA PublishNextIsServed ==
    ASSUME ServiceInv, Ready, PublishNext
    PROVE  Service!Next
  <1> DEFINE m == loop.msg  h == Head(loop.rest)
  <1>1. PICK n \in Msgs : n = m
    BY PublishNextOffers DEF ServiceInv, Inv
  <1>2. PICK g \in Handlers : g = h /\ Offers(n, g)
    BY <1>1, PublishNextOffers DEF ServiceInv, Inv
  <1>3. Service!Begin(n, g, 0) /\ Backlog' = Backlog /\ UNCHANGED dlq
    BY <1>2, OfferBegins
  <1>4. /\ UNCHANGED <<subs, used, sent, caller, abandoned>> /\ ToSet(subs)' = ToSet(subs)
        /\ loop.kind = "publish"
        /\ loop' = IF Len(loop.rest) = 1 THEN NoLoop
                   ELSE [loop EXCEPT !.rest = Tail(@), !.running = Latest]
    BY DEF PublishNext, requestVars, subVars, sendVars
  <1>5. /\ loop.rest \in Seq(Handlers) /\ loop.rest # <<>> /\ Once(loop.rest)
        /\ loop \in [kind : {"none", "publish", "drain"}, msg : Msgs \cup {None},
                     rest : Seq(Handlers), running : {0} \cup DOMAIN dispatches]
    BY <1>4 DEF ServiceInv, Inv, TypeOK, LoopFit, AudienceInv
  <1>6. /\ g \in ToSet(loop.rest)
        /\ ToSet(Tail(loop.rest)) = ToSet(loop.rest) \ {g}
        /\ Len(loop.rest) = 1 => ToSet(loop.rest) = {g}
    BY <1>2, <1>5, TailSet
  <1>7. \A k : /\ Owed(k) = IF k = n THEN ToSet(loop.rest) ELSE {}
               /\ Owed(k)' = IF k = n THEN ToSet(loop.rest) \ {g} ELSE {}
    <2>1. CASE Len(loop.rest) = 1
      BY <1>1, <1>4, <1>6, <2>1 DEF Owed, NoLoop
    <2>2. CASE Len(loop.rest) # 1
      <3>1. loop'.kind = "publish" /\ loop'.msg = loop.msg /\ loop'.rest = Tail(loop.rest)
        BY <1>4, <1>5, <2>2
      <3> QED BY <1>1, <1>4, <1>6, <3>1 DEF Owed
    <2> QED BY <2>1, <2>2
  <1>8. g \in Debts[n] /\ Debts' = [Debts EXCEPT ![n] = @ \ {g}]
    BY <1>6, <1>7 DEF Debts
  <1>9. Service!Offer(n, g)
    BY <1>3, <1>4, <1>8 DEF Service!Offer
  <1> QED BY <1>9 DEF Service!Next

LEMMA ServiceStep == ASSUME ServiceInv, Next PROVE [Service!Next]_Service!vars
  <1>0. Ready /\ Inv /\ AudienceInv /\ TableInv /\ RequestInv
    BY StepIsReady DEF ServiceInv
  <1>1. ASSUME NEW h \in Handlers, Subscribe(h) PROVE Service!Next
    <2>1. /\ h \notin used /\ subs' = Append(subs, h) /\ used' = used \cup {h}
          /\ UNCHANGED <<queueVars, requestVars, sent, loop, abandoned>>
      BY <1>1 DEF Subscribe
    <2>2. ToSet(subs)' = ToSet(subs) \cup {h}
      <3>1. subs \in Seq(Handlers)
        BY <1>0 DEF Inv, TypeOK
      <3> QED BY <2>1, <3>1, AppendSet
    <2>3. Backlog' = Backlog /\ Calls' = Calls /\ Debts' = Debts
      BY <1>0, <2>1, QuietStep, DebtsStay DEF queueVars
    <2>4. Service!Join(h)
      BY <2>1, <2>2, <2>3 DEF Service!Join, queueVars, requestVars
    <2> QED BY <2>4 DEF Service!Next
  <1>2. ASSUME NEW h \in Handlers, Unsubscribe(h) PROVE Service!Next
    <2>1. PICK i \in DOMAIN subs : subs[i] = h /\ subs' = RemoveAt(subs, i)
      BY <1>2 DEF Unsubscribe
    <2>2. UNCHANGED <<queueVars, requestVars, used, sent, loop, abandoned>>
      BY <1>2 DEF Unsubscribe
    <2>3. h \in ToSet(subs) /\ ToSet(subs)' = ToSet(subs) \ {h}
      <3>1. subs \in Seq(Handlers) /\ Once(subs)
        BY <1>0 DEF Inv, TypeOK, AudienceInv
      <3>2. ToSet(subs') = ToSet(subs) \ {h}
        BY <2>1, <3>1, RemoveSet
      <3> QED BY <2>1, <3>2 DEF ToSet
    <2>4. Backlog' = Backlog /\ Calls' = Calls /\ Debts' = Debts
      BY <1>0, <2>2, QuietStep, DebtsStay DEF queueVars
    <2>5. Service!Leave(h)
      BY <2>2, <2>3, <2>4 DEF Service!Leave, queueVars, requestVars
    <2> QED BY <2>5 DEF Service!Next
  <1>3. ASSUME NEW m \in Msgs, Publish(m) PROVE Service!Next
    BY <1>0, <1>3, PublishIsServed
  <1>4. ASSUME NEW m \in Msgs, Send(m) PROVE Service!Next
    <2>1. m \notin Requests /\ SendOne(m) /\ UNCHANGED caller
      BY <1>4 DEF Send, requestVars
    <2>2. Service!Send(m)
      BY <1>0, <2>1, SendIsServed DEF Service!Send
    <2> QED BY <2>2 DEF Service!Next
  <1>5. ASSUME NEW r \in Requests, Request(r) PROVE Service!Next
    <2>1. /\ r \in Msgs /\ SendOne(r) /\ caller[r] = "idle"
          /\ caller' = [caller EXCEPT ![r] = "pending"]
      BY <1>5, MessagesAssumption DEF Request
    <2>2. Service!Ask(r)
      BY <1>0, <2>1, SendIsServed DEF Service!Ask, Service!Promises
    <2> QED BY <2>2 DEF Service!Next
  <1>6. ASSUME NEW r \in Requests, InvalidRequest(r) PROVE Service!Next
    <2>1. /\ caller[r] = "idle" /\ caller' = [caller EXCEPT ![r] = "pending"]
          /\ UNCHANGED <<queueVars, subVars, sent, loop, abandoned>>
      BY <1>6 DEF InvalidRequest, sendVars
    <2>2. Backlog' = Backlog /\ Calls' = Calls /\ Debts' = Debts /\ ToSet(subs)' = ToSet(subs)
      BY <1>0, <2>1, QuietStep, DebtsStay DEF queueVars, subVars
    <2>3. Service!AskInVain(r)
      BY <2>1, <2>2 DEF Service!AskInVain, Service!Promises, queueVars, subVars
    <2> QED BY <2>3 DEF Service!Next
  <1>7. ASSUME NEW r \in Requests, RequestFails(r) \/ Timeout(r)
        PROVE  [Service!Next]_Service!vars
    <2>1. /\ Rejected(r)
          /\ r \in failing \/ r \in Timed
          /\ UNCHANGED <<queueVars, subVars, sent, loop, abandoned>>
      BY <1>7 DEF RequestFails, Timeout, sendVars
    <2>2. Backlog' = Backlog /\ Calls' = Calls /\ Debts' = Debts /\ ToSet(subs)' = ToSet(subs)
      BY <1>0, <2>1, QuietStep, DebtsStay DEF queueVars, subVars
    <2>3. CASE caller[r] = "pending"
      <3>1. caller' = [caller EXCEPT ![r] = "rejected"]
        BY <2>1, <2>3 DEF Rejected
      <3>2. r \in Timed \/ r \notin Service!ToSet(sent)
        BY <1>0, <2>1 DEF RequestInv, Taken, ToSet, Service!ToSet
      <3>3. Service!Reject(r)
        BY <2>1, <2>2, <2>3, <3>1, <3>2 DEF Service!Reject, Service!Promises, queueVars, subVars
      <3> QED BY <3>3 DEF Service!Next
    <2>4. CASE caller[r] # "pending"
      <3>1. caller' = caller
        <4>1. caller \in [Requests -> {"idle", "pending", "resolved", "rejected"}]
          BY <1>0 DEF Inv, TypeOK
        <4> QED BY <2>1, <2>4, <4>1 DEF Rejected
      <3> QED BY <2>1, <2>2, <3>1 DEF Service!vars, queueVars, subVars
    <2> QED BY <2>3, <2>4
  <1>8. ASSUME NEW d \in DOMAIN dispatches, HandlerReturns(d) \/ HandlerThrows(d) \/ RetryTimer(d)
        PROVE  Service!Next
    <2>1. /\ UNCHANGED <<requestVars, subVars, sent, abandoned>>
          /\ loop' = loop \/ loop' = [loop EXCEPT !.running = 0]
          /\ dispatches[d].env.state = "PROCESSING" => d \notin abandoned
      BY <1>8 DEF HandlerReturns, HandlerThrows, InHandler, Working, Unwatched, RetryTimer,
                  RetryPossible, sendVars
    <2>2. loop'.kind = loop.kind /\ loop'.msg = loop.msg /\ loop'.rest = loop.rest
      BY <1>0, <2>1 DEF Inv, TypeOK
    <2>3. Steady
      BY <2>1, <2>2, DebtsStay DEF Steady, requestVars, subVars
    <2> QED BY <1>0, <1>8, <2>1, <2>3, HandlerEnds, EndIsServed DEF Inv
  <1>13. ASSUME NEW d \in DOMAIN dispatches, HandlerThrowsNothing(d) PROVE Service!Next
    <2>1. /\ UNCHANGED <<requestVars, subVars, sent, queue, dispatches, dlq>>
          /\ loop' = loop \/ loop' = [loop EXCEPT !.running = 0]
          /\ dispatches[d].env.state = "PROCESSING" /\ d \notin abandoned
          /\ abandoned' = abandoned \cup {d}
      BY <1>13 DEF HandlerThrowsNothing, InHandler, Working, Unwatched, sendVars
    <2>2. loop'.kind = loop.kind /\ loop'.msg = loop.msg /\ loop'.rest = loop.rest
      BY <1>0, <2>1 DEF Inv, TypeOK
    <2>3. Backlog' = Backlog /\ Calls' = Calls /\ Debts' = Debts /\ ToSet(subs)' = ToSet(subs)
      BY <1>0, <2>1, <2>2, QuietStep, DebtsStay DEF subVars
    <2>4. d \in DOMAIN Calls /\ Calls[d].state = "PROCESSING"
      BY <2>1 DEF Calls, Call
    <2>5. Service!GiveUp(d)
      BY <2>1, <2>3, <2>4 DEF Service!GiveUp, Service!AtWork, requestVars, subVars
    <2> QED BY <2>4, <2>5 DEF Service!Next
  <1>9. ASSUME NEW k \in Correlations, Reply(k) PROVE Service!Next
    <2> DEFINE r == resolver[k]
    <2>1. /\ r # None
          /\ caller' = [caller EXCEPT ![r] = IF @ = "pending" THEN "resolved" ELSE @]
          /\ UNCHANGED <<queueVars, subVars, sent, loop, abandoned>>
      BY <1>9 DEF Reply, sendVars
    <2>2. caller[r] = "pending" /\ r \in Requests
      BY <1>0, <2>1 DEF TableInv, RequestTable, Inv, TypeOK
    <2>3. PICK q \in Requests : q = r
      BY <2>2
    <2>4. Backlog' = Backlog /\ Calls' = Calls /\ Debts' = Debts /\ ToSet(subs)' = ToSet(subs)
      BY <1>0, <2>1, QuietStep, DebtsStay DEF queueVars, subVars
    <2>5. caller' = [caller EXCEPT ![q] = "resolved"] /\ caller[q] = "pending"
      BY <2>1, <2>2, <2>3
    <2>6. UNCHANGED <<used, sent, dlq, abandoned>>
      BY <2>1 DEF queueVars, subVars
    <2> HIDE DEF r
    <2>7. Service!Resolve(q)
      BY <2>4, <2>5, <2>6 DEF Service!Resolve, Service!Promises
    <2> QED BY <2>7 DEF Service!Next
  <1>10. CASE DrainStarts \/ DrainEnds
    <2>1. /\ UNCHANGED <<queueVars, requestVars, sent, subs, used, abandoned>>
          /\ loop.kind # "publish" /\ loop'.kind # "publish"
      <3>1. CASE DrainStarts
        BY <3>1 DEF DrainStarts, NoLoop, Idle, sendVars
      <3>2. CASE DrainEnds
        BY <3>2 DEF DrainEnds, NoLoop, sendVars, subVars
      <3> QED BY <1>10, <3>1, <3>2
    <2>2. Backlog' = Backlog /\ Calls' = Calls /\ Debts' = Debts /\ ToSet(subs)' = ToSet(subs)
      BY <1>0, <2>1, QuietStep, DebtsStay DEF queueVars
    <2> QED BY <2>1, <2>2 DEF Service!vars, queueVars, requestVars
  <1>11. CASE DrainNext
    <2> DEFINE h == Head(loop.rest)
    <2>1. /\ UNCHANGED <<requestVars, subVars, sent, abandoned>> /\ loop.kind = "drain"
          /\ loop' = [loop EXCEPT !.running = Latest]
      BY <1>11 DEF DrainNext, sendVars
    <2>2. loop'.kind = loop.kind /\ loop'.msg = loop.msg /\ loop'.rest = loop.rest
      BY <1>0, <2>1 DEF Inv, TypeOK
    <2>3. Steady
      BY <2>1, <2>2, DebtsStay DEF Steady, requestVars, subVars
    <2>4. h \in Handlers /\ Drains(h)
      BY <1>0, <1>11, DrainNextDrains DEF Inv
    <2>5. h \in used
      <3>1. loop.rest \in Seq(Handlers) /\ loop.rest # <<>> /\ ToSet(loop.rest) \subseteq used
        BY <1>0, <2>1 DEF Inv, TypeOK, LoopFit, AudienceInv
      <3> QED BY <3>1, TailSet
    <2> QED BY <1>0, <2>3, <2>4, <2>5, DrainIsServed
  <1>12. CASE PublishNext
    BY <1>0, <1>12, PublishNextIsServed
  <1> QED BY <1>1, <1>2, <1>3, <1>4, <1>5, <1>6, <1>7, <1>8, <1>9, <1>10, <1>11, <1>12,
          <1>13
          DEF Next, Loop, HandlerSettles

\* The bus is a BusService, whoever subscribes, sends, replies, fails and retries
\* when, and whatever ids the callers choose.
THEOREM BusImplementsService == Spec => ImplementsService
  <1>1. Init => Service!Init
    <2> SUFFICES ASSUME Init PROVE Service!Init
      OBVIOUS
    <2>1. /\ subs = <<>> /\ used = {} /\ queue = <<>> /\ dispatches = <<>> /\ dlq = <<>>
          /\ abandoned = {} /\ sent = <<>> /\ loop.kind = "none" /\ caller = [r \in Requests |-> "idle"]
      BY DEF Init, NoLoop
    <2>2. ToSet(subs) = {} /\ Backlog = {} /\ Debts = [m \in Msgs |-> {}]
      BY <2>1 DEF ToSet, Backlog, Waiting, Copies, Debts, Owed
    <2>3. Calls = <<>>
      <3>1. dispatches \in Seq(DispatchType) /\ Len(dispatches) = 0
        BY <2>1, EmptySeq
      <3>2. CallsOf(dispatches) \in Seq(CallType) /\ Len(CallsOf(dispatches)) = 0
        BY <3>1, CallsForm
      <3>3. CallsOf(dispatches) = <<>>
        BY <3>2, EmptySeq
      <3> QED BY <3>3 DEF Calls, CallsOf
    <2> QED BY <2>1, <2>2, <2>3 DEF Service!Init
  <1>2. ServiceInv /\ [Next]_vars => [Service!Next]_Service!vars
    <2> SUFFICES ASSUME ServiceInv, [Next]_vars PROVE [Service!Next]_Service!vars
      OBVIOUS
    <2>1. CASE Next
      BY <2>1, ServiceStep
    <2>2. CASE UNCHANGED vars
      <3>1. UNCHANGED <<subs, used, sent, queue, dispatches, loop, dlq, caller, abandoned>>
        BY <2>2 DEF vars, subVars, sendVars, queueVars, requestVars
      <3>2. UNCHANGED <<ToSet(subs), Backlog, Debts, Calls>>
        BY <3>1 DEF Backlog, Waiting, DispatchesOf, Copies, Debts, Owed, Calls
      <3> QED BY <3>1, <3>2 DEF Service!vars
    <2> QED BY <2>1, <2>2
  <1> QED BY <1>1, <1>2, ServiceInvHolds, PTL DEF Spec, ImplementsService, Service!Spec
=============================================================================
