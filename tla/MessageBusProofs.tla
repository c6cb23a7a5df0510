-------------------------- MODULE MessageBusProofs --------------------------
(***************************************************************************)
(* Machine-checked proofs about MessageBus, for every number of messages,  *)
(* requests, subscriptions and retries.                                    *)
(*                                                                         *)
(* Every step is one of five, as far as the queue and the dispatches are   *)
(* concerned (CoreStep): it is silent, deposits an envelope, drains one,   *)
(* offers one to a handler, or settles a dispatch.  The queue is counted   *)
(* message by message (NumberOf), so that its order does not matter, and   *)
(* its order is kept apart (Ordered) from its contents.  The lemmas of the *)
(* first two sections say what sort and transitionState do to both; those  *)
(* of the third sort the actions into the five kinds; all the theorems are *)
(* then proved of the five kinds.                                          *)
(***************************************************************************)
EXTENDS MessageBus, SequenceTheorems, FiniteSetTheorems, WellFoundedInduction,
        TLAPS

-----------------------------------------------------------------------------
(* The queue                                                                *)

\* A set of positions has a least one.
LEMMA LeastPosition ==
    ASSUME NEW n \in Nat, NEW S \in SUBSET (1 .. n), S # {}
    PROVE  Min(S) \in S /\ \A i \in S : Min(S) <= i
  <1>1. S \subseteq Nat
    OBVIOUS
  <1>2. PICK i \in S : \A j \in S : ~(<<j, i>> \in OpToRel(<, Nat))
    BY <1>1, NatLessThanWellFounded, WFMin
  <1>3. \A j \in S : ~(j < i)
    BY <1>1, <1>2, Zenon DEF OpToRel
  <1>4. \A j \in S : i <= j
    BY <1>1, <1>3
  <1> QED BY <1>4 DEF Min

\* What sorting does: the envelopes are kept, in another order.
Earlier(q, i, j) == \/ Precedes(q[i], q[j])
                    \/ ~Precedes(q[j], q[i]) /\ i < j
Rank(q, j) == Cardinality({i \in DOMAIN q : Earlier(q, i, j)}) + 1

LEMMA PrecedesOrder ==
    ASSUME NEW q \in Seq(Envelope),
           NEW i \in DOMAIN q, NEW j \in DOMAIN q, NEW k \in DOMAIN q
    PROVE  /\ ~Earlier(q, i, i)
           /\ i # j => Earlier(q, i, j) \/ Earlier(q, j, i)
           /\ Earlier(q, i, j) /\ Earlier(q, j, k) => Earlier(q, i, k)
  <1>1. /\ q[i] \in Envelope /\ q[j] \in Envelope /\ q[k] \in Envelope
        /\ i \in Nat /\ j \in Nat /\ k \in Nat
    OBVIOUS
  <1> DEFINE P(e) == PriorityOf[e.msg]
  <1>2. \A e \in Envelope : P(e) \in Int /\ e.at \in Int
    <2> TAKE e \in Envelope
    <2>1. e.msg \in Msgs /\ e.at \in Nat
      BY DEF Envelope
    <2>2. PriorityOf[e.msg] \in 1 .. 4
      BY <2>1, MessagesAssumption
    <2> QED BY <2>1, <2>2
  <1>3. \A e, f \in Envelope : Precedes(e, f) <=> P(e) > P(f) \/ (P(e) = P(f) /\ e.at < f.at)
    BY DEF Precedes
  <1> HIDE DEF P
  <1> DEFINE a == P(q[i])  b == P(q[j])  c == P(q[k])
             x == q[i].at  y == q[j].at  z == q[k].at
  <1>4. a \in Int /\ b \in Int /\ c \in Int /\ x \in Int /\ y \in Int /\ z \in Int
    BY <1>1, <1>2
  <1>5. /\ Earlier(q, i, i) <=> \/ a > a \/ (a = a /\ x < x)
                                \/ ~(a > a \/ (a = a /\ x < x)) /\ i < i
        /\ Earlier(q, i, j) <=> \/ a > b \/ (a = b /\ x < y)
                                \/ ~(b > a \/ (b = a /\ y < x)) /\ i < j
        /\ Earlier(q, j, i) <=> \/ b > a \/ (b = a /\ y < x)
                                \/ ~(a > b \/ (a = b /\ x < y)) /\ j < i
        /\ Earlier(q, j, k) <=> \/ b > c \/ (b = c /\ y < z)
                                \/ ~(c > b \/ (c = b /\ z < y)) /\ j < k
        /\ Earlier(q, i, k) <=> \/ a > c \/ (a = c /\ x < z)
                                \/ ~(c > a \/ (c = a /\ z < x)) /\ i < k
    BY <1>1, <1>3 DEF Earlier
  <1> HIDE DEF a, b, c, x, y, z
  <1> QED BY <1>1, <1>4, <1>5

LEMMA RankIsBijection ==
    ASSUME NEW q \in Seq(Envelope)
    PROVE  /\ [j \in DOMAIN q |-> Rank(q, j)] \in Bijection(DOMAIN q, DOMAIN q)
           /\ \A i, j \in DOMAIN q : Earlier(q, i, j) => Rank(q, i) < Rank(q, j)
  <1> DEFINE D == DOMAIN q
             B(j) == {i \in D : Earlier(q, i, j)}
             r == [j \in D |-> Rank(q, j)]
  <1>1. PICK n \in Nat : D = 1 .. n
    BY LenProperties
  <1>2. IsFiniteSet(D) /\ Cardinality(D) = n
    BY <1>1, FS_Interval
  <1>3. \A j \in D : IsFiniteSet(B(j)) /\ Cardinality(B(j)) \in Nat
    BY <1>2, FS_Subset, FS_CardinalityType
  <1>4. \A j \in D : Cardinality(B(j)) < n
    <2> TAKE j \in D
    <2>1. j \notin B(j)
      BY PrecedesOrder
    <2>2. Cardinality(B(j)) <= Cardinality(D) /\ Cardinality(B(j)) # Cardinality(D)
      BY <1>2, <2>1, FS_Subset
    <2> HIDE DEF B, D
    <2> QED BY <1>2, <1>3, <2>2
  <1>5. \A i, j \in D : Earlier(q, i, j) => Rank(q, i) < Rank(q, j)
    <2> TAKE i, j \in D
    <2> HAVE Earlier(q, i, j)
    <2>1. B(i) \subseteq B(j) /\ i \in B(j) /\ i \notin B(i)
      BY PrecedesOrder
    <2>2. Cardinality(B(i)) <= Cardinality(B(j)) /\ Cardinality(B(i)) # Cardinality(B(j))
      BY <1>3, <2>1, FS_Subset
    <2>3. Rank(q, i) = Cardinality(B(i)) + 1 /\ Rank(q, j) = Cardinality(B(j)) + 1
      BY DEF Rank
    <2> HIDE DEF B, D
    <2> QED BY <1>3, <2>2, <2>3
  <1>6. r \in [D -> D]
    <2>1. \A j \in D : Rank(q, j) = Cardinality(B(j)) + 1
      BY DEF Rank
    <2> HIDE DEF B
    <2>2. \A j \in D : Rank(q, j) \in D
      BY <1>1, <1>3, <1>4, <2>1
    <2> QED BY <2>2
  <1>7. \A i, j \in D : i # j => r[i] # r[j]
    <2> TAKE i, j \in D
    <2> HAVE i # j
    <2>1. Earlier(q, i, j) \/ Earlier(q, j, i)
      BY PrecedesOrder
    <2>2. r[i] \in Int /\ r[j] \in Int
      BY <1>1, <1>6
    <2> QED BY <1>5, <2>1, <2>2
  <1>8. r \in Injection(D, D)
    BY <1>6, <1>7 DEF Injection, IsInjective
  <1>9. r \in Surjection(D, D)
    BY <1>2, <1>8, FS_Injection
  <1> QED BY <1>5, <1>8, <1>9 DEF Bijection

\* The envelopes of q, but for those of the messages in U, are in order.
Ordered(q, U) ==
    \A i, j \in DOMAIN q :
        i < j /\ q[i].msg \notin U /\ q[j].msg \notin U => ~Precedes(q[j], q[i])

LEMMA SortedEffect ==
    ASSUME NEW q \in Seq(Envelope)
    PROVE  /\ Sorted(q) \in Seq(Envelope)
           /\ DOMAIN Sorted(q) = DOMAIN q
           /\ \E p \in Bijection(DOMAIN q, DOMAIN q) :
                 \A j \in DOMAIN q : Sorted(q)[p[j]] = q[j]
           /\ \A U : Ordered(Sorted(q), U)
  <1> DEFINE D == DOMAIN q
             r == [j \in D |-> Rank(q, j)]
             pick(k) == CHOOSE j \in D : Rank(q, j) = k
  <1>1. r \in Bijection(D, D)
    BY RankIsBijection
  <1>2. /\ r \in [D -> D]
        /\ \A i, j \in D : r[i] = r[j] => i = j
        /\ \A k \in D : \E j \in D : r[j] = k
    BY <1>1 DEF Bijection, Injection, Surjection, IsInjective
  <1>3. Sorted(q) = [k \in D |-> q[pick(k)]]
    BY DEF Sorted, Rank, Earlier
  <1>4. \A k \in D : pick(k) \in D
    BY <1>2
  <1>5. \A j \in D : r[j] \in D /\ pick(r[j]) = j
    BY <1>2
  <1>6. \A j \in D : Sorted(q)[r[j]] = q[j]
    BY <1>3, <1>5
  <1>7. DOMAIN Sorted(q) = D /\ D = 1 .. Len(q) /\ Len(q) \in Nat
    BY <1>3, LenProperties
  <1>8. \A k \in D : Sorted(q)[k] \in Envelope
    <2> TAKE k \in D
    <2>1. Sorted(q)[k] = q[pick(k)] /\ pick(k) \in D
      BY <1>3, <1>4
    <2> HIDE DEF pick
    <2> QED BY <2>1
  <1>9. Sorted(q) \in Seq(Envelope)
    BY <1>3, <1>7, <1>8, SeqDef
  <1>10. ASSUME NEW k \in D, NEW l \in D, k < l
         PROVE  ~Precedes(Sorted(q)[l], Sorted(q)[k])
    <2>1. \A i, j \in D : Earlier(q, i, j) => r[i] < r[j]
      BY RankIsBijection
    <2>2. D \subseteq Int
      BY <1>7
    <2> HIDE DEF r, D
    <2>3. \A x \in D : \E i \in D : r[i] = x /\ Sorted(q)[x] = q[i]
      BY <1>2, <1>6
    <2>4. PICK i \in D : r[i] = k /\ Sorted(q)[k] = q[i]
      BY <2>3
    <2>5. PICK j \in D : r[j] = l /\ Sorted(q)[l] = q[j]
      BY <2>3
    <2>6. ~(r[j] < r[i])
      BY <1>10, <2>2, <2>4, <2>5
    <2>7. ~Earlier(q, j, i)
      BY <2>1, <2>6
    <2> QED BY <2>4, <2>5, <2>7 DEF Earlier
  <1>11. \A U : Ordered(Sorted(q), U)
    BY <1>7, <1>10 DEF Ordered
  <1> QED BY <1>1, <1>6, <1>7, <1>9, <1>11

LEMMA RemovedEffect ==
    ASSUME NEW S, NEW q \in Seq(S), NEW i \in DOMAIN q
    PROVE  /\ RemoveAt(q, i) \in Seq(S)
           /\ Len(RemoveAt(q, i)) = Len(q) - 1
           /\ \A k \in 1 .. Len(q) - 1 :
                 RemoveAt(q, i)[k] = IF k < i THEN q[k] ELSE q[k + 1]
  <1> DEFINE a == SubSeq(q, 1, i - 1)  b == SubSeq(q, i + 1, Len(q))
  <1>1. Len(q) \in Nat /\ i \in 1 .. Len(q) /\ \A k \in 1 .. Len(q) : q[k] \in S
    BY LenProperties, ElementOfSeq
  <1>2. /\ a \in Seq(S) /\ Len(a) = i - 1
        /\ \A k \in 1 .. i - 1 : a[k] = q[k]
    BY <1>1, SubSeqProperties
  <1>3. /\ b \in Seq(S) /\ Len(b) = Len(q) - i
        /\ \A k \in 1 .. Len(q) - i : b[k] = q[i + k]
    BY <1>1, SubSeqProperties
  <1>4. RemoveAt(q, i) = a \o b
    BY DEF RemoveAt
  <1> HIDE DEF a, b
  <1>5. /\ a \o b \in Seq(S) /\ Len(a \o b) = Len(q) - 1
        /\ \A k \in 1 .. Len(q) - 1 :
              (a \o b)[k] = IF k <= i - 1 THEN a[k] ELSE b[k - (i - 1)]
    <2>1. Len(a) + Len(b) = Len(q) - 1
      BY <1>1, <1>2, <1>3
    <2>2. /\ a \o b \in Seq(S) /\ Len(a \o b) = Len(a) + Len(b)
          /\ \A k \in 1 .. Len(a) + Len(b) :
                (a \o b)[k] = IF k <= Len(a) THEN a[k] ELSE b[k - Len(a)]
      BY <1>2, <1>3, ConcatProperties
    <2> QED BY <1>2, <2>1, <2>2
  <1>6. \A k \in 1 .. Len(q) - 1 : (a \o b)[k] = IF k < i THEN q[k] ELSE q[k + 1]
    <2> TAKE k \in 1 .. Len(q) - 1
    <2>1. CASE k < i
      <3>1. k \in 1 .. i - 1 /\ k <= i - 1
        BY <1>1, <2>1
      <3> QED BY <1>2, <1>5, <2>1, <3>1
    <2>2. CASE ~(k < i)
      <3>1. k - (i - 1) \in 1 .. Len(q) - i /\ ~(k <= i - 1) /\ i + (k - (i - 1)) = k + 1
        BY <1>1, <2>2
      <3> QED BY <1>3, <1>5, <2>2, <3>1
    <2> QED BY <2>1, <2>2
  <1> QED BY <1>4, <1>5, <1>6

\* The copies of a message in a queue, and their number.
PlacesOf(q, m) == {i \in DOMAIN q : q[i].msg = m}
NumberOf(q, m) == Cardinality(PlacesOf(q, m))

LEMMA CountType ==
    ASSUME NEW q \in Seq(Envelope), NEW m
    PROVE  /\ IsFiniteSet(PlacesOf(q, m))
           /\ NumberOf(q, m) \in Nat
           /\ NumberOf(q, m) = 0 <=> PlacesOf(q, m) = {}
  <1>1. IsFiniteSet(DOMAIN q)
    BY LenProperties, FS_Interval
  <1>2. PlacesOf(q, m) \subseteq DOMAIN q
    BY DEF PlacesOf
  <1>3. IsFiniteSet(PlacesOf(q, m))
    BY <1>1, <1>2, FS_Subset
  <1> QED BY <1>3, FS_CardinalityType, FS_EmptySet DEF NumberOf

LEMMA CountSorted ==
    ASSUME NEW q \in Seq(Envelope), NEW m
    PROVE  NumberOf(Sorted(q), m) = NumberOf(q, m)
  <1>1. PICK p \in Bijection(DOMAIN q, DOMAIN q) :
           \A j \in DOMAIN q : Sorted(q)[p[j]] = q[j]
    BY SortedEffect
  <1> DEFINE C == PlacesOf(q, m)  S == PlacesOf(Sorted(q), m)
             f == [j \in C |-> p[j]]
  <1>2. /\ \A j \in DOMAIN q : p[j] \in DOMAIN q
        /\ \A i, j \in DOMAIN q : p[i] = p[j] => i = j
        /\ \A k \in DOMAIN q : \E j \in DOMAIN q : p[j] = k
    BY DEF Bijection, Injection, Surjection, IsInjective
  <1>3. DOMAIN Sorted(q) = DOMAIN q
    BY SortedEffect
  <1>4. C \subseteq DOMAIN q /\ \A j \in DOMAIN q : j \in C <=> p[j] \in S
    BY <1>1, <1>2, <1>3 DEF PlacesOf
  <1>5. S \subseteq DOMAIN q
    BY <1>3 DEF PlacesOf
  <1> HIDE DEF C, S
  <1>6. f \in [C -> S]
    BY <1>2, <1>4
  <1>7. f \in Injection(C, S)
    BY <1>2, <1>4, <1>6 DEF Injection, IsInjective
  <1>8. f \in Surjection(C, S)
    BY <1>2, <1>4, <1>5, <1>6 DEF Surjection
  <1>9. ExistsBijection(C, S)
    BY <1>7, <1>8 DEF ExistsBijection, Bijection
  <1>10. IsFiniteSet(C)
    BY CountType DEF C
  <1>11. Cardinality(S) = Cardinality(C)
    BY <1>9, <1>10, FS_Bijection
  <1> QED BY <1>11 DEF NumberOf, C, S

LEMMA CountAppended ==
    ASSUME NEW q \in Seq(Envelope), NEW e \in Envelope, NEW m
    PROVE  NumberOf(Append(q, e), m) = NumberOf(q, m) + (IF e.msg = m THEN 1 ELSE 0)
  <1> DEFINE n == Len(q) + 1  C == PlacesOf(q, m)
  <1>1. /\ Len(q) \in Nat /\ DOMAIN q = 1 .. Len(q)
        /\ DOMAIN Append(q, e) = 1 .. n
        /\ \A i \in 1 .. Len(q) : Append(q, e)[i] = q[i]
        /\ Append(q, e)[n] = e
    BY LenProperties, AppendProperties
  <1>2. PlacesOf(Append(q, e), m) = IF e.msg = m THEN C \cup {n} ELSE C
    BY <1>1 DEF PlacesOf
  <1>3. n \notin C
    BY <1>1 DEF PlacesOf
  <1>4. IsFiniteSet(C)
    BY CountType
  <1> HIDE DEF C, n
  <1>5. Cardinality(C \cup {n}) = Cardinality(C) + 1
    BY <1>3, <1>4, FS_AddElement
  <1>6. NumberOf(q, m) = Cardinality(C) /\ NumberOf(q, m) \in Nat
    BY CountType DEF NumberOf, C
  <1> QED BY <1>2, <1>5, <1>6 DEF NumberOf

\* One entry less: the entries behind it move up.
LEMMA CountShifted ==
    ASSUME NEW q \in Seq(Envelope), NEW r \in Seq(Envelope),
           NEW i \in DOMAIN q, NEW m,
           Len(r) = Len(q) - 1,
           \A k \in 1 .. Len(q) - 1 : r[k] = IF k < i THEN q[k] ELSE q[k + 1]
    PROVE  NumberOf(r, m) = NumberOf(q, m) - (IF q[i].msg = m THEN 1 ELSE 0)
  <1> DEFINE C == PlacesOf(q, m) \ {i}  R == PlacesOf(r, m)
             f == [k \in R |-> IF k < i THEN k ELSE k + 1]
  <1>1. /\ Len(q) \in Nat /\ i \in 1 .. Len(q)
        /\ DOMAIN q = 1 .. Len(q) /\ DOMAIN r = 1 .. Len(q) - 1
    BY LenProperties
  <1>2. R \subseteq 1 .. Len(q) - 1 /\ C \subseteq 1 .. Len(q)
    BY <1>1 DEF PlacesOf
  <1>3. f \in [R -> C]
    BY <1>1 DEF PlacesOf
  <1>4. \A k \in C : \E j \in R : f[j] = k
    <2> TAKE k \in C
    <2>1. CASE k < i
      <3>1. k \in R
        BY <1>1, <1>2, <2>1 DEF PlacesOf
      <3> QED BY <2>1, <3>1
    <2>2. CASE ~(k < i)
      <3>1. k - 1 \in R /\ ~(k - 1 < i) /\ k - 1 + 1 = k
        BY <1>1, <1>2, <2>2 DEF PlacesOf
      <3> QED BY <3>1
    <2> QED BY <2>1, <2>2
  <1>5. \A j, k \in R : f[j] = f[k] => j = k
    BY <1>1, <1>2
  <1>6. f \in Bijection(R, C)
    BY <1>3, <1>4, <1>5 DEF Bijection, Injection, Surjection, IsInjective
  <1>7. IsFiniteSet(R) /\ IsFiniteSet(PlacesOf(q, m))
    BY CountType
  <1>8. Cardinality(C) = Cardinality(R)
    BY <1>6, <1>7, FS_Bijection DEF ExistsBijection
  <1>9. i \in PlacesOf(q, m) <=> q[i].msg = m
    BY DEF PlacesOf
  <1>10. Cardinality(C) = NumberOf(q, m) - (IF q[i].msg = m THEN 1 ELSE 0)
    <2>1. CASE q[i].msg = m
      <3>1. Cardinality(C) = Cardinality(PlacesOf(q, m)) - 1
        BY <1>7, <1>9, <2>1, FS_RemoveElement
      <3> QED BY <2>1, <3>1 DEF NumberOf
    <2>2. CASE q[i].msg # m
      <3>1. C = PlacesOf(q, m)
        BY <1>9, <2>2
      <3>2. NumberOf(q, m) = NumberOf(q, m) - 0
        BY CountType
      <3> QED BY <2>2, <3>1, <3>2 DEF NumberOf
    <2> QED BY <2>1, <2>2
  <1> QED BY <1>8, <1>10 DEF NumberOf

\* ... and the others stay in order.
LEMMA ShiftedOrder ==
    ASSUME NEW q \in Seq(Envelope), NEW i \in DOMAIN q, NEW r \in Seq(Envelope),
           Len(r) = Len(q) - 1,
           \A k \in 1 .. Len(q) - 1 : r[k] = IF k < i THEN q[k] ELSE q[k + 1]
    PROVE  \A U : Ordered(q, U) => Ordered(r, U)
  <1> SUFFICES ASSUME NEW U, Ordered(q, U), NEW k \in DOMAIN r, NEW l \in DOMAIN r, k < l,
                      r[k].msg \notin U, r[l].msg \notin U
               PROVE  ~Precedes(r[l], r[k])
    BY DEF Ordered
  <1> DEFINE at(x) == IF x < i THEN x ELSE x + 1
  <1>1. /\ Len(q) \in Nat /\ DOMAIN q = 1 .. Len(q) /\ DOMAIN r = 1 .. Len(q) - 1
        /\ i \in Nat /\ k \in Nat /\ l \in Nat
    BY LenProperties
  <1>2. at(k) \in DOMAIN q /\ at(l) \in DOMAIN q /\ at(k) < at(l)
    BY <1>1
  <1>3. r[k] = q[at(k)] /\ r[l] = q[at(l)]
    BY <1>1
  <1> HIDE DEF at
  <1> QED BY <1>2, <1>3 DEF Ordered

-----------------------------------------------------------------------------
(* transitionState                                                          *)

IsFinal(e) == e.state \in {"COMPLETED", "DEAD_LETTER"}

LEMMA RecordForm ==
    ASSUME NEW q \in Seq(Envelope), NEW e
    PROVE  LET S == PlacesOf(q, e.msg)
           IN  /\ S # {} => Min(S) \in S
               /\ Record(q, e) = IF S = {} THEN q
                                 ELSE IF IsFinal(e) THEN RemoveAt(q, Min(S))
                                 ELSE [q EXCEPT ![Min(S)] = e]
  <1> DEFINE S == PlacesOf(q, e.msg)
             i == IF S # {} THEN Min(S) ELSE 0
  <1>1. Len(q) \in Nat /\ DOMAIN q = 1 .. Len(q)
    BY LenProperties
  <1>2. S = {k \in 1 .. Len(q) : q[k].msg = e.msg}
    BY <1>1 DEF PlacesOf
  <1>3. S # {} => Min(S) \in S
    <2>1. S \in SUBSET (1 .. Len(q))
      BY <1>2
    <2> HIDE DEF S
    <2> QED BY <1>1, <2>1, LeastPosition
  <1>4. Record(q, e) = IF i = 0 THEN q
                       ELSE IF IsFinal(e) THEN RemoveAt(q, i)
                       ELSE [q EXCEPT ![i] = e]
    BY <1>2 DEF Record, SelectInSeq, IsFinal
  <1>5. S # {} => Min(S) # 0
    BY <1>2, <1>3
  <1> HIDE DEF S
  <1>6. Record(q, e) = IF S = {} THEN q
                       ELSE IF IsFinal(e) THEN RemoveAt(q, Min(S))
                       ELSE [q EXCEPT ![Min(S)] = e]
    <2>1. CASE S = {}
      BY <1>4, <2>1
    <2>2. CASE S # {}
      <3>1. i = Min(S) /\ i # 0
        BY <1>5, <2>2
      <3> HIDE DEF i
      <3> QED BY <1>4, <2>2, <3>1
    <2> QED BY <2>1, <2>2
  <1> QED BY <1>3, <1>6 DEF S

\* The queue after a transition holds what it held before, or the new envelope;
\* the copies of other messages stay, and one copy goes when a dispatch ends.
LEMMA RecordEffect ==
    ASSUME NEW q \in Seq(Envelope), NEW e \in Envelope
    PROVE  /\ Record(q, e) \in Seq(Envelope)
           /\ \A k \in DOMAIN Record(q, e) :
                 \/ Record(q, e)[k] = e /\ ~IsFinal(e)
                 \/ \E j \in DOMAIN q : Record(q, e)[k] = q[j]
           /\ \A m : NumberOf(Record(q, e), m) =
                        IF m = e.msg /\ IsFinal(e) /\ PlacesOf(q, m) # {}
                        THEN NumberOf(q, m) - 1 ELSE NumberOf(q, m)
           /\ \A U : Ordered(q, U) /\ e.msg \in U => Ordered(Record(q, e), U)
  <1> DEFINE S == PlacesOf(q, e.msg)  i == Min(S)
  <1>1. Len(q) \in Nat /\ DOMAIN q = 1 .. Len(q) /\ \A j \in DOMAIN q : q[j] \in Envelope
    BY LenProperties
  <1>2. CASE S = {}
    BY <1>2, RecordForm
  <1>3. CASE S # {} /\ IsFinal(e)
    <2>1. i \in DOMAIN q /\ q[i].msg = e.msg
      BY <1>3, RecordForm DEF PlacesOf
    <2>2. Record(q, e) = RemoveAt(q, i)
      BY <1>3, RecordForm
    <2> HIDE DEF S, i
    <2> DEFINE r == RemoveAt(q, i)
    <2>3. /\ r \in Seq(Envelope) /\ Len(r) = Len(q) - 1
          /\ \A k \in 1 .. Len(q) - 1 : r[k] = IF k < i THEN q[k] ELSE q[k + 1]
      BY <2>1, RemovedEffect
    <2> HIDE DEF r
    <2>4. DOMAIN r = 1 .. Len(q) - 1
      BY <2>3, LenProperties
    <2>5. \A k \in DOMAIN r : \E j \in DOMAIN q : r[k] = q[j]
      BY <1>1, <2>3, <2>4
    <2>6. \A m : NumberOf(r, m) = NumberOf(q, m) - (IF q[i].msg = m THEN 1 ELSE 0)
      BY <2>1, <2>3, CountShifted
    <2>7. \A m : NumberOf(r, m) = IF m = e.msg THEN NumberOf(q, m) - 1 ELSE NumberOf(q, m)
      BY <2>1, <2>6, CountType
    <2>8. Record(q, e) = r
      BY <2>2 DEF r
    <2>9. \A U : Ordered(q, U) => Ordered(r, U)
      BY <1>1, <2>1, <2>3, <2>4, ShiftedOrder
    <2> QED BY <1>3, <2>3, <2>5, <2>7, <2>8, <2>9 DEF S
  <1>4. CASE S # {} /\ ~IsFinal(e)
    <2>1. i \in DOMAIN q /\ q[i].msg = e.msg
      BY <1>4, RecordForm DEF PlacesOf
    <2>2. Record(q, e) = [q EXCEPT ![i] = e]
      BY <1>4, RecordForm
    <2> HIDE DEF S, i
    <2>3. [q EXCEPT ![i] = e] \in Seq(Envelope)
      BY <1>1, <2>1, ExceptSeq
    <2>4. \A m : PlacesOf([q EXCEPT ![i] = e], m) = PlacesOf(q, m)
      BY <2>1 DEF PlacesOf
    <2>5. \A k \in DOMAIN q : [q EXCEPT ![i] = e][k] = IF k = i THEN e ELSE q[k]
      OBVIOUS
    <2>6. ASSUME NEW U, Ordered(q, U), e.msg \in U PROVE Ordered([q EXCEPT ![i] = e], U)
      <3>1. DOMAIN [q EXCEPT ![i] = e] = DOMAIN q
        OBVIOUS
      <3> QED BY <2>1, <2>5, <2>6, <3>1 DEF Ordered
    <2> QED BY <1>4, <2>2, <2>3, <2>4, <2>5, <2>6 DEF NumberOf
  <1> QED BY <1>2, <1>3, <1>4

\* Two transitions of one envelope are recorded like the second alone.
LEMMA RecordTwice ==
    ASSUME NEW q \in Seq(Envelope), NEW e \in Envelope, NEW f \in Envelope,
           e.msg = f.msg, ~IsFinal(e)
    PROVE  Record(Record(q, e), f) = Record(q, f)
  <1> DEFINE S == PlacesOf(q, e.msg)  i == Min(S)  r == [q EXCEPT ![i] = e]
  <1>1. CASE S = {}
    BY <1>1, RecordForm
  <1>2. CASE S # {}
    <2>1. i \in DOMAIN q /\ q[i].msg = e.msg
      BY <1>2, RecordForm DEF PlacesOf
    <2>2. Record(q, e) = r
      BY <1>2, RecordForm
    <2>3. r \in Seq(Envelope)
      <3>1. i \in 1 .. Len(q)
        BY <2>1, LenProperties
      <3> HIDE DEF i
      <3> QED BY <3>1, ExceptSeq
    <2>4. PlacesOf(r, f.msg) = S
      BY <2>1 DEF PlacesOf
    <2>5. Record(r, f) = IF IsFinal(f) THEN RemoveAt(r, i) ELSE [r EXCEPT ![i] = f]
      BY <1>2, <2>3, <2>4, RecordForm
    <2>6. Record(q, f) = IF IsFinal(f) THEN RemoveAt(q, i) ELSE [q EXCEPT ![i] = f]
      BY <1>2, RecordForm
    <2> HIDE DEF S, i
    <2>7. [r EXCEPT ![i] = f] = [q EXCEPT ![i] = f]
      OBVIOUS
    <2>8. RemoveAt(r, i) = RemoveAt(q, i)
      <3> DEFINE a == RemoveAt(r, i)  b == RemoveAt(q, i)
      <3>1. Len(r) = Len(q) /\ i \in DOMAIN r
        BY <2>1, <2>3, ExceptSeq, LenProperties
      <3>2. /\ a \in Seq(Envelope) /\ Len(a) = Len(q) - 1
            /\ \A k \in 1 .. Len(q) - 1 : a[k] = IF k < i THEN r[k] ELSE r[k + 1]
        BY <2>3, <3>1, RemovedEffect
      <3>3. /\ b \in Seq(Envelope) /\ Len(b) = Len(q) - 1
            /\ \A k \in 1 .. Len(q) - 1 : b[k] = IF k < i THEN q[k] ELSE q[k + 1]
        BY <2>1, RemovedEffect
      <3>4. i \in Nat /\ Len(q) \in Nat /\ DOMAIN q = 1 .. Len(q)
        BY <2>1, LenProperties
      <3>5. \A j \in DOMAIN q \ {i} : r[j] = q[j]
        OBVIOUS
      <3> HIDE DEF r
      <3>6. \A k \in 1 .. Len(q) - 1 :
               IF k < i THEN k \in DOMAIN q \ {i} ELSE k + 1 \in DOMAIN q \ {i}
        BY <3>4
      <3> HIDE DEF a, b
      <3>7. \A k \in 1 .. Len(a) : a[k] = b[k]
        BY <3>2, <3>3, <3>5, <3>6
      <3>8. a = b
        BY <3>2, <3>3, <3>7, SeqEqual
      <3> QED BY <3>8 DEF a, b
    <2> QED BY <2>2, <2>5, <2>6, <2>7, <2>8
  <1> QED BY <1>1, <1>2

LEMMA EnqueueEffect ==
    ASSUME queue \in Seq(Envelope), NEW e \in Envelope
    PROVE  /\ Enqueue(e) \in Seq(Envelope)
           /\ \A k \in DOMAIN Enqueue(e) :
                 Enqueue(e)[k] = e \/ \E j \in DOMAIN queue : Enqueue(e)[k] = queue[j]
           /\ \A m : NumberOf(Enqueue(e), m) =
                        NumberOf(queue, m) + (IF e.msg = m THEN 1 ELSE 0)
           /\ \A U : Ordered(Enqueue(e), U)
  <1> DEFINE q == Append(queue, e)
  <1>1. /\ q \in Seq(Envelope)
        /\ \A k \in DOMAIN q : q[k] = e \/ \E j \in DOMAIN queue : q[k] = queue[j]
    <2>1. /\ q \in Seq(Envelope)
          /\ Len(q) = Len(queue) + 1
          /\ \A k \in 1 .. Len(queue) : q[k] = queue[k]
          /\ q[Len(queue) + 1] = e
      BY AppendProperties
    <2>2. DOMAIN queue = 1 .. Len(queue) /\ Len(queue) \in Nat
      BY LenProperties
    <2>3. DOMAIN q = 1 .. Len(queue) + 1
      BY <2>1, LenProperties
    <2> HIDE DEF q
    <2> QED BY <2>1, <2>2, <2>3
  <1>2. \A m : NumberOf(q, m) = NumberOf(queue, m) + (IF e.msg = m THEN 1 ELSE 0)
    BY CountAppended
  <1>3. Enqueue(e) = Sorted(q)
    BY DEF Enqueue
  <1> HIDE DEF q
  <1>4. PICK p \in Bijection(DOMAIN q, DOMAIN q) :
           \A j \in DOMAIN q : Sorted(q)[p[j]] = q[j]
    BY <1>1, SortedEffect
  <1>5. \A k \in DOMAIN q : \E j \in DOMAIN q : p[j] = k
    BY DEF Bijection, Surjection
  <1>6. DOMAIN Sorted(q) = DOMAIN q /\ Sorted(q) \in Seq(Envelope)
    BY <1>1, SortedEffect
  <1>7. \A k \in DOMAIN Sorted(q) : \E j \in DOMAIN q : Sorted(q)[k] = q[j]
    BY <1>4, <1>5, <1>6
  <1>8. \A m : NumberOf(Sorted(q), m) = NumberOf(q, m)
    BY <1>1, CountSorted
  <1>9. \A U : Ordered(Sorted(q), U)
    BY <1>1, SortedEffect
  <1> QED BY <1>1, <1>2, <1>3, <1>6, <1>7, <1>8, <1>9

LEMMA TailEffect ==
    ASSUME queue \in Seq(Envelope), queue # <<>>
    PROVE  /\ Tail(queue) \in Seq(Envelope)
           /\ 1 \in DOMAIN queue /\ Head(queue) = queue[1] /\ queue[1] \in Envelope
           /\ \A k \in DOMAIN Tail(queue) : \E j \in DOMAIN queue : Tail(queue)[k] = queue[j]
           /\ \A m : NumberOf(Tail(queue), m) =
                        NumberOf(queue, m) - (IF queue[1].msg = m THEN 1 ELSE 0)
           /\ \A U : Ordered(queue, U) => Ordered(Tail(queue), U)
  <1> DEFINE t == Tail(queue)
  <1>1. /\ Len(queue) \in Nat /\ Len(queue) # 0 /\ DOMAIN queue = 1 .. Len(queue)
        /\ 1 \in DOMAIN queue /\ Head(queue) = queue[1] /\ queue[1] \in Envelope
    BY LenProperties, EmptySeq
  <1>2. /\ t \in Seq(Envelope) /\ Len(t) = Len(queue) - 1
        /\ \A k \in 1 .. Len(t) : t[k] = queue[k + 1]
    BY HeadTailProperties
  <1> HIDE DEF t
  <1>3. DOMAIN t = 1 .. Len(queue) - 1
    BY <1>2, LenProperties
  <1>4. \A k \in 1 .. Len(queue) - 1 : t[k] = IF k < 1 THEN queue[k] ELSE queue[k + 1]
    BY <1>1, <1>2
  <1>5. \A m : NumberOf(t, m) = NumberOf(queue, m) - (IF queue[1].msg = m THEN 1 ELSE 0)
    BY <1>1, <1>2, <1>4, CountShifted
  <1>6. \A k \in DOMAIN t : \E j \in DOMAIN queue : t[k] = queue[j]
    <2> TAKE k \in DOMAIN t
    <2>1. k \in 1 .. Len(t) /\ k + 1 \in DOMAIN queue
      BY <1>1, <1>2, <1>3
    <2> QED BY <1>2, <2>1
  <1>7. \A U : Ordered(queue, U) => Ordered(t, U)
    BY <1>1, <1>2, <1>4, ShiftedOrder
  <1> QED BY <1>1, <1>2, <1>5, <1>6, <1>7 DEF t

-----------------------------------------------------------------------------
(* The steps, by what they do to the queue and to the dispatches           *)

DispatchType == [env : Envelope, handler : Handlers]
CoreType == /\ sent \in Seq(Msgs)
            /\ queue \in Seq(Envelope)
            /\ dispatches \in Seq(DispatchType)
            /\ dlq \in Seq(DOMAIN dispatches)

\* Every entry of the queue was there before, or is one of the envelopes E.
QueueFrom(E) ==
    \A k \in DOMAIN queue' :
        queue'[k] \in E \/ \E j \in DOMAIN queue : queue'[k] = queue[j]

SameNumbers == \A m : NumberOf(queue', m) = NumberOf(queue, m)
MoreOf(n)   == \A m : NumberOf(queue', m) =
                         NumberOf(queue, m) + (IF n = m THEN 1 ELSE 0)
LessOf(n)   == \A m : NumberOf(queue', m) =
                         NumberOf(queue, m) - (IF n = m THEN 1 ELSE 0)

\* The order of the envelopes stays, but for those of message m.
KeepsOrder(m) == \A U : Ordered(queue, U) /\ m \in U => Ordered(queue', U)

Takes(m)  == m \in Msgs \ Taken /\ sent' = Append(sent, m)
Begins(e, h) == dispatches' = Append(dispatches, [env |-> e, handler |-> h])

Silent ==
    /\ UNCHANGED queueVars
    /\ \/ UNCHANGED sent
       \/ \E m \in Msgs : Takes(m) /\ loop'.kind = "publish" /\ loop'.msg = m

Deposits(m) ==
    /\ Takes(m) /\ subs = <<>> /\ UNCHANGED subs
    /\ QueueFrom({Created(m, Len(sent'))}) /\ MoreOf(m)
    /\ \A U : Ordered(queue', U)
    /\ UNCHANGED <<dispatches, dlq>>

Drains(h) ==
    /\ queue # <<>> /\ LessOf(queue[1].msg) /\ KeepsOrder(queue[1].msg)
    /\ UNCHANGED <<sent, dlq>>
    /\ IF Allowed(queue[1].state, "PROCESSING")
       THEN LET e == Moved(queue[1], "PROCESSING") IN QueueFrom({e}) /\ Begins(e, h)
       ELSE QueueFrom({}) /\ UNCHANGED dispatches

Offers(m, h) ==
    /\ \/ Takes(m)
       \/ UNCHANGED sent /\ loop.kind = "publish" /\ m = loop.msg
    /\ LET c == Created(m, Len(sent'))
           e == Moved(c, "PROCESSING")
       IN  QueueFrom({c, e}) /\ Begins(e, h) /\ MoreOf(m) /\ KeepsOrder(m)
    /\ UNCHANGED dlq

\* The envelope of dispatch d becomes e.
Becomes(d, e) ==
    /\ dispatches' = [dispatches EXCEPT ![d].env = e]
    /\ QueueFrom(IF IsFinal(e) THEN {} ELSE {e})
    /\ \A m : NumberOf(queue', m) =
                 IF m = e.msg /\ IsFinal(e) /\ NumberOf(queue, m) # 0
                 THEN NumberOf(queue, m) - 1 ELSE NumberOf(queue, m)
    /\ UNCHANGED sent /\ KeepsOrder(e.msg)

Settles(d) ==
    LET e == dispatches[d].env
        f == Moved(e, "FAILED")
    IN  \/ /\ e.state = "PROCESSING"
           /\ Becomes(d, Moved(e, "COMPLETED")) /\ UNCHANGED dlq
        \/ /\ e.state = "PROCESSING" /\ f.tries <= MaxRetries
           /\ Becomes(d, f) /\ UNCHANGED dlq
        \/ /\ e.state = "PROCESSING" /\ ~(f.tries <= MaxRetries)
           /\ Becomes(d, Moved(f, "DEAD_LETTER")) /\ dlq' = Append(dlq, d)
        \/ /\ e.state = "FAILED"
           /\ Becomes(d, Moved(e, "PROCESSING")) /\ UNCHANGED dlq

CoreStep ==
    \/ Silent
    \/ \E m \in Msgs : Deposits(m)
    \/ \E h \in Handlers : Drains(h)
    \/ \E m \in Msgs, h \in Handlers : Offers(m, h)
    \/ \E d \in DOMAIN dispatches : Settles(d)

\* What is in the queue and among the dispatches fits.
Started == {m \in Msgs : DispatchesOf(m) # {}}

Fits(e, taken, started) ==
    /\ e.msg \in taken
    /\ e.state \in {"CREATED", "PROCESSING", "FAILED"}
    /\ e.tries <= MaxRetries
    /\ e.state # "CREATED" => e.msg \in started

CoreFit ==
    /\ \A i \in DOMAIN queue : Fits(queue[i], Taken, Started)
    /\ \A d \in DOMAIN dispatches :
          LET e == dispatches[d].env
          IN  /\ e.msg \in Taken
              /\ e.state \in {"PROCESSING", "COMPLETED", "FAILED", "DEAD_LETTER"}
              /\ IF e.state = "DEAD_LETTER" THEN e.tries = MaxRetries + 1
                                            ELSE e.tries <= MaxRetries

LoopFit ==
    /\ loop.kind # "none" => loop.rest # <<>>
    /\ loop.kind = "publish" => loop.msg \in Taken

LEMMA EnvelopeForm ==
    ASSUME NEW e \in Envelope
    PROVE  /\ e.msg \in Msgs /\ e.at \in Nat /\ e.state \in States
           /\ e.tries \in 0 .. MaxRetries + 1 /\ e.tries \in Int
  BY RetriesAssumption DEF Envelope

LEMMA MovedForm ==
    ASSUME NEW e \in Envelope, NEW st \in States, st = "FAILED" => e.tries <= MaxRetries
    PROVE  /\ Moved(e, st) \in Envelope
           /\ Moved(e, st).msg = e.msg /\ Moved(e, st).state = st
           /\ Moved(e, st).tries = IF st = "FAILED" THEN e.tries + 1 ELSE e.tries
  <1> DEFINE n == IF st = "FAILED" THEN e.tries + 1 ELSE e.tries
             T == 0 .. MaxRetries + 1
  <1>1. n \in T
    BY EnvelopeForm, RetriesAssumption
  <1>2. Moved(e, st) = [e EXCEPT !.state = st, !.tries = n]
    BY DEF Moved
  <1>3. e \in [msg : Msgs, at : Nat, state : States, tries : T]
    BY DEF Envelope
  <1> HIDE DEF n, T
  <1>4. /\ Moved(e, st) \in [msg : Msgs, at : Nat, state : States, tries : T]
        /\ Moved(e, st).msg = e.msg /\ Moved(e, st).state = st
        /\ Moved(e, st).tries = n
    BY <1>1, <1>2, <1>3
  <1> QED BY <1>4 DEF n, T, Envelope

LEMMA CreatedForm ==
    ASSUME NEW m \in Msgs, NEW t \in Nat
    PROVE  /\ Created(m, t) \in Envelope
           /\ Created(m, t).msg = m /\ Created(m, t).state = "CREATED"
           /\ Created(m, t).tries = 0
  BY RetriesAssumption DEF Created, Envelope, States

LEMMA FirstDispatch == Allowed("CREATED", "PROCESSING")
  BY DEF Allowed, Transitions

\* A dispatch of an envelope from the queue q.
LEMMA DispatchEffect ==
    ASSUME NEW q \in Seq(Envelope), NEW e \in Envelope, NEW h \in Handlers,
           Dispatch(q, e, h), Allowed(e.state, "PROCESSING")
    PROVE  /\ queue' \in Seq(Envelope)
           /\ \A k \in DOMAIN queue' : \/ queue'[k] = Moved(e, "PROCESSING")
                                       \/ \E j \in DOMAIN q : queue'[k] = q[j]
           /\ \A m : NumberOf(queue', m) = NumberOf(q, m)
           /\ Begins(Moved(e, "PROCESSING"), h)
           /\ \A U : Ordered(q, U) /\ e.msg \in U => Ordered(queue', U)
  <1> DEFINE f == Moved(e, "PROCESSING")
  <1>1. f \in Envelope /\ f.state = "PROCESSING" /\ f.msg = e.msg
    BY MovedForm DEF States
  <1>2. ~IsFinal(f)
    BY <1>1 DEF IsFinal
  <1>3. queue' = Record(q, f) /\ Begins(f, h)
    BY DEF Dispatch, Begins
  <1> HIDE DEF f
  <1>4. /\ queue' \in Seq(Envelope)
        /\ \A k \in DOMAIN queue' : queue'[k] = f \/ \E j \in DOMAIN q : queue'[k] = q[j]
        /\ \A m : NumberOf(queue', m) = NumberOf(q, m)
        /\ \A U : Ordered(q, U) /\ e.msg \in U => Ordered(queue', U)
    BY <1>1, <1>2, <1>3, RecordEffect
  <1> QED BY <1>3, <1>4 DEF f

LEMMA OfferEffect ==
    ASSUME queue \in Seq(Envelope), NEW m \in Msgs, NEW t \in Nat, NEW h \in Handlers,
           Dispatch(Enqueue(Created(m, t)), Created(m, t), h)
    PROVE  /\ queue' \in Seq(Envelope)
           /\ QueueFrom({Created(m, t), Moved(Created(m, t), "PROCESSING")})
           /\ MoreOf(m) /\ KeepsOrder(m)
           /\ Begins(Moved(Created(m, t), "PROCESSING"), h)
  <1> DEFINE c == Created(m, t)  q == Enqueue(c)
  <1>1. c \in Envelope /\ c.msg = m /\ Allowed(c.state, "PROCESSING")
    BY CreatedForm, FirstDispatch
  <1>2. Dispatch(q, c, h)
    OBVIOUS
  <1> HIDE DEF c
  <1>3. /\ q \in Seq(Envelope)
        /\ \A k \in DOMAIN q : q[k] = c \/ \E j \in DOMAIN queue : q[k] = queue[j]
        /\ \A n : NumberOf(q, n) = NumberOf(queue, n) + (IF m = n THEN 1 ELSE 0)
        /\ \A U : Ordered(q, U)
    BY <1>1, EnqueueEffect
  <1> HIDE DEF q
  <1>4. /\ queue' \in Seq(Envelope)
        /\ \A k \in DOMAIN queue' : \/ queue'[k] = Moved(c, "PROCESSING")
                                    \/ \E j \in DOMAIN q : queue'[k] = q[j]
        /\ \A n : NumberOf(queue', n) = NumberOf(q, n)
        /\ Begins(Moved(c, "PROCESSING"), h)
        /\ \A U : Ordered(q, U) /\ m \in U => Ordered(queue', U)
    BY <1>1, <1>2, <1>3, DispatchEffect
  <1>5. QueueFrom({c, Moved(c, "PROCESSING")})
    BY <1>3, <1>4 DEF QueueFrom
  <1>6. MoreOf(m)
    BY <1>3, <1>4 DEF MoreOf
  <1>7. KeepsOrder(m)
    BY <1>3, <1>4 DEF KeepsOrder
  <1> QED BY <1>4, <1>5, <1>6, <1>7 DEF c

LEMMA SettleEffect ==
    ASSUME queue \in Seq(Envelope), NEW d, NEW e \in Envelope, queue' = Record(queue, e),
           dispatches' = [dispatches EXCEPT ![d].env = e], UNCHANGED sent
    PROVE  queue' \in Seq(Envelope) /\ Becomes(d, e)
  <1>1. /\ queue' \in Seq(Envelope)
        /\ \A k \in DOMAIN queue' :
              \/ queue'[k] = e /\ ~IsFinal(e)
              \/ \E j \in DOMAIN queue : queue'[k] = queue[j]
        /\ \A m : NumberOf(queue', m) =
                     IF m = e.msg /\ IsFinal(e) /\ PlacesOf(queue, m) # {}
                     THEN NumberOf(queue, m) - 1 ELSE NumberOf(queue, m)
        /\ KeepsOrder(e.msg)
    BY RecordEffect DEF KeepsOrder
  <1>2. \A m : PlacesOf(queue, m) # {} <=> NumberOf(queue, m) # 0
    BY CountType
  <1>3. QueueFrom(IF IsFinal(e) THEN {} ELSE {e})
    BY <1>1 DEF QueueFrom
  <1>4. \A m : NumberOf(queue', m) =
               IF m = e.msg /\ IsFinal(e) /\ NumberOf(queue, m) # 0
               THEN NumberOf(queue, m) - 1 ELSE NumberOf(queue, m)
    BY <1>1, <1>2
  <1> QED BY <1>1, <1>3, <1>4 DEF Becomes

\* Who is called next: the first of the loop, or the subscription whose turn it is.
LEMMA NextHandler ==
    ASSUME TypeOK, LoopFit
    PROVE  /\ loop.kind # "none" => Head(loop.rest) \in Handlers
           /\ subs # <<>> => LET pick == IF turn >= Len(subs) THEN 0 ELSE turn
                             IN  /\ pick \in Nat /\ subs[pick + 1] \in Handlers
                                 /\ subs[pick + 1] \in ToSet(subs)
  <1>1. loop.rest \in Seq(Handlers) /\ subs \in Seq(Handlers) /\ turn \in Nat
    BY DEF TypeOK
  <1>2. loop.kind # "none" => Head(loop.rest) \in Handlers
    BY <1>1, HeadTailProperties DEF LoopFit
  <1>3. ASSUME subs # <<>>
        PROVE  LET pick == IF turn >= Len(subs) THEN 0 ELSE turn
               IN  /\ pick \in Nat /\ subs[pick + 1] \in Handlers
                   /\ subs[pick + 1] \in ToSet(subs)
    <2> DEFINE pick == IF turn >= Len(subs) THEN 0 ELSE turn
    <2>1. Len(subs) \in Nat /\ Len(subs) # 0
      BY <1>1, <1>3, EmptySeq
    <2>2. pick \in Nat /\ pick + 1 \in 1 .. Len(subs)
      BY <1>1, <2>1
    <2> HIDE DEF pick
    <2>3. subs[pick + 1] \in Handlers /\ subs[pick + 1] \in ToSet(subs)
      BY <1>1, <2>2, ElementOfSeq, LenProperties DEF ToSet
    <2> QED BY <2>2, <2>3 DEF pick
  <1> QED BY <1>2, <1>3

\* A message that nobody is subscribed to.
LEMMA DepositEffect ==
    ASSUME TypeOK, NEW m \in Msgs, Takes(m), Deposit(m), subs = <<>>, UNCHANGED subs
    PROVE  queue' \in Seq(Envelope) /\ Deposits(m)
  <1> DEFINE c == Created(m, Len(sent'))
  <1>1. queue \in Seq(Envelope) /\ sent \in Seq(Msgs)
    BY DEF TypeOK
  <1>2. Len(sent') \in Nat
    BY <1>1, AppendProperties, LenProperties DEF Takes
  <1>3. c \in Envelope /\ c.msg = m
    BY <1>2, CreatedForm
  <1>4. queue' = Enqueue(c) /\ UNCHANGED <<dispatches, dlq>>
    BY DEF Deposit
  <1> HIDE DEF c
  <1>5. queue' \in Seq(Envelope) /\ QueueFrom({c}) /\ MoreOf(m) /\ \A U : Ordered(queue', U)
    BY <1>1, <1>3, <1>4, EnqueueEffect DEF QueueFrom, MoreOf
  <1> QED BY <1>4, <1>5 DEF Deposits, c

\* A message is deposited, or goes to one of the subscribers.
LEMMA SendOneEffect ==
    ASSUME TypeOK, LoopFit, NEW m \in Msgs, SendOne(m)
    PROVE  /\ queue' \in Seq(Envelope) /\ turn' \in Nat
           /\ Deposits(m) \/ \E h \in Handlers : h \in ToSet(subs) /\ Offers(m, h)
  <1>1. queue \in Seq(Envelope) /\ turn \in Nat /\ sent \in Seq(Msgs) /\ subs \in Seq(Handlers)
    BY DEF TypeOK
  <1>2. Takes(m) /\ Len(sent') \in Nat /\ UNCHANGED subs
    BY <1>1, AppendProperties, LenProperties DEF SendOne, Takes, subVars
  <1>3. CASE subs = <<>> /\ Deposit(m) /\ UNCHANGED turn
    BY <1>1, <1>2, <1>3, DepositEffect
  <1>4. CASE subs # <<>>
    <2> DEFINE pick == IF turn >= Len(subs) THEN 0 ELSE turn
               e == Created(m, Len(sent'))
    <2>1. /\ Dispatch(Enqueue(e), e, subs[pick + 1])
          /\ turn' = pick + 1 /\ UNCHANGED dlq
      BY <1>4 DEF SendOne
    <2>2. pick \in Nat /\ subs[pick + 1] \in Handlers /\ subs[pick + 1] \in ToSet(subs)
      BY <1>4, NextHandler
    <2> HIDE DEF pick
    <2>3. queue' \in Seq(Envelope) /\ Offers(m, subs[pick + 1])
      BY <1>1, <1>2, <2>1, <2>2, OfferEffect DEF Offers
    <2> QED BY <2>1, <2>2, <2>3
  <1> QED BY <1>3, <1>4 DEF SendOne

LEMMA DispatchForm ==
    ASSUME TypeOK, NEW d \in DOMAIN dispatches
    PROVE  dispatches[d].env \in Envelope /\ dispatches[d].handler \in Handlers
  <1>1. dispatches \in Seq([env : Envelope, handler : Handlers])
    BY DEF TypeOK
  <1>2. dispatches[d] \in [env : Envelope, handler : Handlers]
    BY <1>1, ElementOfSeq, LenProperties
  <1> QED BY <1>2

LEMMA PublishNextOffers ==
    ASSUME TypeOK, LoopFit, PublishNext
    PROVE  /\ queue' \in Seq(Envelope) /\ loop.msg \in Msgs
           /\ Head(loop.rest) \in Handlers /\ Offers(loop.msg, Head(loop.rest))
  <1>1. queue \in Seq(Envelope) /\ sent \in Seq(Msgs)
    BY DEF TypeOK
  <1> DEFINE h == Head(loop.rest)  m == loop.msg
  <1>2. /\ loop.kind = "publish" /\ UNCHANGED <<sent, dlq>>
        /\ Dispatch(Enqueue(Created(m, Len(sent))), Created(m, Len(sent)), h)
    BY DEF PublishNext, sendVars
  <1>3. m \in Msgs /\ Len(sent) \in Nat /\ Len(sent') = Len(sent)
    BY <1>1, <1>2, LenProperties DEF LoopFit, Taken, ToSet
  <1>4. h \in Handlers
    BY <1>2, NextHandler
  <1> HIDE DEF h
  <1>5. queue' \in Seq(Envelope) /\ Offers(m, h)
    BY <1>1, <1>2, <1>3, <1>4, OfferEffect DEF Offers
  <1> QED BY <1>3, <1>4, <1>5 DEF h

LEMMA DrainNextDrains ==
    ASSUME TypeOK, LoopFit, DrainNext
    PROVE  /\ queue' \in Seq(Envelope)
           /\ Head(loop.rest) \in Handlers /\ Drains(Head(loop.rest))
  <1> DEFINE h == Head(loop.rest)  e == queue[1]  t == Tail(queue)
  <1>0. queue \in Seq(Envelope) /\ sent \in Seq(Msgs)
    BY DEF TypeOK
  <1>1. /\ queue # <<>> /\ Dispatch(t, Head(queue), h)
        /\ UNCHANGED <<sent, dlq>> /\ loop.kind # "none"
    BY DEF DrainNext, sendVars
  <1>2. /\ t \in Seq(Envelope) /\ Head(queue) = e /\ e \in Envelope
        /\ \A k \in DOMAIN t : \E j \in DOMAIN queue : t[k] = queue[j]
        /\ \A m : NumberOf(t, m) = NumberOf(queue, m) - (IF e.msg = m THEN 1 ELSE 0)
        /\ \A U : Ordered(queue, U) => Ordered(t, U)
    BY <1>0, <1>1, TailEffect
  <1>3. h \in Handlers
    BY <1>1, NextHandler
  <1> HIDE DEF h, e, t
  <1>4. CASE Allowed(e.state, "PROCESSING")
    <2> DEFINE f == Moved(e, "PROCESSING")
    <2>1. /\ queue' \in Seq(Envelope)
          /\ \A k \in DOMAIN queue' : queue'[k] = f \/ \E j \in DOMAIN t : queue'[k] = t[j]
          /\ \A m : NumberOf(queue', m) = NumberOf(t, m)
          /\ Begins(f, h)
          /\ \A U : Ordered(t, U) /\ e.msg \in U => Ordered(queue', U)
      BY <1>1, <1>2, <1>3, <1>4, DispatchEffect
    <2> HIDE DEF f
    <2>2. QueueFrom({f}) /\ LessOf(e.msg) /\ KeepsOrder(e.msg)
      BY <1>2, <2>1 DEF QueueFrom, LessOf, KeepsOrder
    <2>3. Drains(h)
      BY <1>1, <1>4, <2>1, <2>2 DEF Drains, e, f
    <2> QED BY <1>3, <2>1, <2>3 DEF h
  <1>5. CASE ~Allowed(e.state, "PROCESSING")
    <2>1. queue' = t /\ UNCHANGED dispatches
      BY <1>1, <1>2, <1>5 DEF Dispatch
    <2>2. QueueFrom({}) /\ LessOf(e.msg) /\ KeepsOrder(e.msg)
      BY <1>2, <2>1 DEF QueueFrom, LessOf, KeepsOrder
    <2>3. Drains(h)
      BY <1>1, <1>5, <2>1, <2>2 DEF Drains, e
    <2> QED BY <1>2, <1>3, <2>1, <2>3 DEF h
  <1> QED BY <1>4, <1>5

\* The end of a handler's call, and the timer of one that failed.
LEMMA HandlerEnds ==
    ASSUME TypeOK, CoreFit, NEW d \in DOMAIN dispatches,
           HandlerReturns(d) \/ HandlerThrows(d) \/ RetryTimer(d)
    PROVE  queue' \in Seq(Envelope) /\ Settles(d)
  <1> DEFINE e == dispatches[d].env
             done == Moved(e, "COMPLETED")  failed == Moved(e, "FAILED")
             dead == Moved(failed, "DEAD_LETTER")
             queued == Moved(e, "QUEUED")   again == Moved(queued, "PROCESSING")
  <1>0. queue \in Seq(Envelope)
    BY DEF TypeOK
  <1>1. e \in Envelope /\ e.tries \in Int /\ MaxRetries \in Nat
    BY DispatchForm, EnvelopeForm, RetriesAssumption
  <1>2. CASE HandlerReturns(d)
    <2>1. /\ e.state = "PROCESSING" /\ queue' = Record(queue, done)
          /\ dispatches' = [dispatches EXCEPT ![d].env = done] /\ UNCHANGED <<sent, dlq>>
      BY <1>2 DEF HandlerReturns, Working, sendVars
    <2>2. done \in Envelope
      BY <1>1, MovedForm DEF States
    <2> HIDE DEF done
    <2>3. queue' \in Seq(Envelope) /\ Becomes(d, done)
      BY <1>0, <2>1, <2>2, SettleEffect
    <2> QED BY <2>1, <2>3 DEF Settles, done
  <1>3. ASSUME e.state = "PROCESSING"
        PROVE  /\ failed \in Envelope /\ dead \in Envelope /\ failed.msg = dead.msg
               /\ failed.tries = e.tries + 1 /\ ~IsFinal(failed)
    <2>1. e.tries <= MaxRetries
      BY <1>3 DEF CoreFit
    <2>2. failed \in Envelope /\ failed.state = "FAILED" /\ failed.tries = e.tries + 1
      BY <1>1, <2>1, MovedForm DEF States
    <2> HIDE DEF failed
    <2> QED BY <2>2, MovedForm DEF States, IsFinal
  <1>4. CASE HandlerThrows(d) /\ failed.tries <= MaxRetries
    <2>1. /\ e.state = "PROCESSING" /\ queue' = Record(queue, failed)
          /\ dispatches' = [dispatches EXCEPT ![d].env = failed] /\ UNCHANGED <<sent, dlq>>
      BY <1>4 DEF HandlerThrows, InHandler, Working, MayRetry, sendVars
    <2>2. queue' \in Seq(Envelope) /\ Becomes(d, failed)
      BY <1>0, <1>3, <2>1, SettleEffect
    <2> QED BY <1>4, <2>1, <2>2 DEF Settles
  <1>5. CASE HandlerThrows(d) /\ ~(failed.tries <= MaxRetries)
    <2>1. /\ e.state = "PROCESSING" /\ queue' = Record(Record(queue, failed), dead)
          /\ dispatches' = [dispatches EXCEPT ![d].env = dead]
          /\ dlq' = Append(dlq, d) /\ UNCHANGED sent
      BY <1>5 DEF HandlerThrows, InHandler, Working, MayRetry, sendVars
    <2>2. queue' = Record(queue, dead)
      BY <1>0, <1>3, <2>1, RecordTwice
    <2>3. queue' \in Seq(Envelope) /\ Becomes(d, dead)
      BY <1>0, <1>3, <2>1, <2>2, SettleEffect
    <2> QED BY <1>5, <2>1, <2>3 DEF Settles
  <1>6. CASE RetryTimer(d)
    <2>1. /\ e.state = "FAILED" /\ queue' = Record(Record(queue, queued), again)
          /\ dispatches' = [dispatches EXCEPT ![d].env = again] /\ UNCHANGED <<sent, dlq>>
      BY <1>6 DEF RetryTimer, RetryPossible, sendVars
    <2>2. queued \in Envelope /\ queued.msg = e.msg /\ queued.state = "QUEUED"
      BY <1>1, MovedForm DEF States
    <2>3. again = Moved(e, "PROCESSING")
      BY <1>1 DEF Moved, Envelope
    <2> HIDE DEF queued
    <2>4. again \in Envelope /\ again.msg = queued.msg /\ ~IsFinal(queued)
      BY <2>2, MovedForm DEF States, IsFinal
    <2>5. queue' = Record(queue, again)
      BY <1>0, <2>1, <2>2, <2>4, RecordTwice
    <2> HIDE DEF again
    <2>6. queue' \in Seq(Envelope) /\ Becomes(d, again)
      BY <1>0, <2>1, <2>4, <2>5, SettleEffect
    <2> QED BY <2>1, <2>3, <2>6 DEF Settles
  <1> QED BY <1>2, <1>4, <1>5, <1>6

LEMMA StepIsCore ==
    ASSUME TypeOK, CoreFit, LoopFit, Next
    PROVE  queue' \in Seq(Envelope) /\ CoreStep
  <1>1. queue \in Seq(Envelope) /\ sent \in Seq(Msgs)
    BY DEF TypeOK
  <1>2. ASSUME Silent PROVE queue' \in Seq(Envelope) /\ CoreStep
    BY <1>1, <1>2 DEF CoreStep, Silent, queueVars
  <1>3. ASSUME NEW h \in Handlers, Subscribe(h) \/ Unsubscribe(h) PROVE Silent
    BY <1>3 DEF Subscribe, Unsubscribe, Silent
  <1>4. ASSUME NEW m \in Msgs, Publish(m) PROVE queue' \in Seq(Envelope) /\ CoreStep
    <2>1. Takes(m) /\ Len(sent') \in Nat
      BY <1>1, <1>4, AppendProperties, LenProperties DEF Publish, Takes
    <2>2. CASE UNCHANGED queueVars /\ loop'.kind = "publish" /\ loop'.msg = m
      BY <1>2, <2>1, <2>2 DEF Silent
    <2>3. CASE subs = <<>> /\ Deposit(m)
      BY <1>4, <2>1, <2>3, DepositEffect DEF CoreStep, Publish, subVars
    <2> QED BY <1>4, <2>2, <2>3 DEF Publish
  <1>5. ASSUME NEW m \in Msgs, SendOne(m) PROVE queue' \in Seq(Envelope) /\ CoreStep
    BY <1>5, SendOneEffect DEF CoreStep
  <1>6. ASSUME NEW r \in Requests, InvalidRequest(r) \/ RequestFails(r) \/ Timeout(r)
        PROVE  Silent
    BY <1>6 DEF InvalidRequest, RequestFails, Timeout, Silent, sendVars
  <1>7. ASSUME NEW k \in Correlations, Reply(k) PROVE Silent
    BY <1>7 DEF Reply, Silent, sendVars
  <1>8. ASSUME DrainStarts \/ DrainEnds PROVE Silent
    BY <1>8 DEF DrainStarts, DrainEnds, Silent, sendVars
  <1>9. ASSUME DrainNext PROVE queue' \in Seq(Envelope) /\ CoreStep
    BY <1>9, DrainNextDrains DEF CoreStep
  <1>10. ASSUME PublishNext PROVE queue' \in Seq(Envelope) /\ CoreStep
    BY <1>10, PublishNextOffers DEF CoreStep
  <1>11. ASSUME NEW d \in DOMAIN dispatches, HandlerReturns(d) \/ HandlerThrows(d) \/ RetryTimer(d)
         PROVE  queue' \in Seq(Envelope) /\ Settles(d)
    BY <1>11, HandlerEnds
  <1>17. ASSUME NEW d \in DOMAIN dispatches, HandlerThrowsNothing(d) PROVE Silent
    BY <1>17 DEF HandlerThrowsNothing, Silent, sendVars, queueVars
  <1>12. CASE \E h \in Handlers : Subscribe(h) \/ Unsubscribe(h)
    BY <1>2, <1>3, <1>12
  <1>13. CASE \E m \in Msgs : Publish(m) \/ Send(m)
    BY <1>4, <1>5, <1>13 DEF Send
  <1>14. CASE \E r \in Requests : Request(r) \/ InvalidRequest(r) \/ RequestFails(r) \/ Timeout(r)
    BY <1>2, <1>5, <1>6, <1>14, MessagesAssumption DEF Request
  <1>15. CASE \/ \E d \in DOMAIN dispatches : HandlerSettles(d) \/ RetryTimer(d)
              \/ \E k \in Correlations : Reply(k)
    BY <1>2, <1>7, <1>11, <1>15, <1>17 DEF CoreStep, HandlerSettles
  <1>16. CASE DrainStarts \/ Loop
    BY <1>2, <1>8, <1>9, <1>10, <1>16 DEF Loop
  <1> QED BY <1>12, <1>13, <1>14, <1>15, <1>16 DEF Next

-----------------------------------------------------------------------------
(* What such a step keeps                                                   *)

LEMMA CoreElements ==
    ASSUME CoreType
    PROVE  /\ \A d \in DOMAIN dispatches : /\ dispatches[d] \in DispatchType
                                          /\ dispatches[d].env \in Envelope
           /\ \A i \in DOMAIN queue : queue[i] \in Envelope
           /\ Taken \subseteq Msgs
           /\ Len(dispatches) \in Nat /\ DOMAIN dispatches = 1 .. Len(dispatches)
           /\ \A i \in DOMAIN dlq : dlq[i] \in DOMAIN dispatches
           /\ DOMAIN dlq = 1 .. Len(dlq) /\ Len(dlq) \in Nat
  <1>1. /\ \A d \in DOMAIN dispatches : dispatches[d] \in DispatchType
        /\ \A i \in DOMAIN queue : queue[i] \in Envelope
        /\ \A i \in DOMAIN sent : sent[i] \in Msgs
        /\ \A i \in DOMAIN dlq : dlq[i] \in DOMAIN dispatches
    BY ElementOfSeq, LenProperties DEF CoreType
  <1> QED BY <1>1, LenProperties DEF CoreType, DispatchType, Taken, ToSet

LEMMA TakenGrows ==
    ASSUME sent \in Seq(Msgs), UNCHANGED sent \/ \E m \in Msgs : Takes(m)
    PROVE  /\ sent' \in Seq(Msgs)
           /\ Taken \subseteq Taken'
           /\ \A m : Takes(m) => m \in Taken' /\ Taken' = Taken \cup {m}
           /\ UNCHANGED sent => Taken' = Taken
  <1>1. \A m \in Msgs : Takes(m) => /\ sent' \in Seq(Msgs)
                                    /\ Taken' = Taken \cup {m}
    <2> TAKE m \in Msgs
    <2> HAVE Takes(m)
    <2>1. /\ sent' \in Seq(Msgs) /\ Len(sent') = Len(sent) + 1
          /\ \A i \in 1 .. Len(sent) : sent'[i] = sent[i]
          /\ sent'[Len(sent) + 1] = m
      BY AppendProperties DEF Takes
    <2>2. Len(sent) \in Nat /\ DOMAIN sent = 1 .. Len(sent) /\ DOMAIN sent' = 1 .. Len(sent) + 1
      BY <2>1, LenProperties
    <2>3. \A x : /\ x \in Taken' <=> \E i \in 1 .. Len(sent) + 1 : x = sent'[i]
                 /\ x \in Taken <=> \E i \in 1 .. Len(sent) : x = sent[i]
      BY <2>2 DEF Taken, ToSet
    <2>4. \A x : x \in Taken' => x \in Taken \cup {m}
      BY <2>1, <2>2, <2>3
    <2>5. \A x : x \in Taken \cup {m} => x \in Taken'
      <3>1. /\ Len(sent) + 1 \in 1 .. Len(sent) + 1
            /\ 1 .. Len(sent) \subseteq 1 .. Len(sent) + 1
        BY <2>2
      <3> QED BY <2>1, <2>3, <3>1
    <2>6. Taken' = Taken \cup {m}
      BY <2>4, <2>5
    <2> QED BY <2>1, <2>6
  <1>2. UNCHANGED sent => Taken' = Taken
    BY DEF Taken
  <1> QED BY <1>1, <1>2 DEF Takes

LEMMA BeginsEffect ==
    ASSUME CoreType, NEW e \in Envelope, NEW h \in Handlers, Begins(e, h)
    PROVE  LET n == Len(dispatches) + 1
           IN  /\ dispatches' \in Seq(DispatchType)
               /\ DOMAIN dispatches' = DOMAIN dispatches \cup {n}
               /\ n \notin DOMAIN dispatches
               /\ \A d \in DOMAIN dispatches : dispatches'[d] = dispatches[d]
               /\ dispatches'[n].env = e
  <1> DEFINE x == [env |-> e, handler |-> h]  n == Len(dispatches) + 1
  <1>1. x \in DispatchType /\ x.env = e
    BY DEF DispatchType
  <1>2. dispatches \in Seq(DispatchType) /\ dispatches' = Append(dispatches, x)
    BY DEF CoreType, Begins
  <1> HIDE DEF x
  <1>3. /\ dispatches' \in Seq(DispatchType) /\ Len(dispatches') = Len(dispatches) + 1
        /\ \A i \in 1 .. Len(dispatches) : dispatches'[i] = dispatches[i]
        /\ dispatches'[n] = x
    BY <1>1, <1>2, AppendProperties
  <1>4. /\ Len(dispatches) \in Nat /\ DOMAIN dispatches = 1 .. Len(dispatches)
        /\ DOMAIN dispatches' = 1 .. n
    BY <1>2, <1>3, LenProperties
  <1> QED BY <1>1, <1>3, <1>4

LEMMA BecomesEffect ==
    ASSUME CoreType, NEW d \in DOMAIN dispatches, NEW e \in Envelope,
           dispatches' = [dispatches EXCEPT ![d].env = e]
    PROVE  /\ dispatches' \in Seq(DispatchType)
           /\ DOMAIN dispatches' = DOMAIN dispatches
           /\ dispatches'[d].env = e
           /\ \A c \in DOMAIN dispatches : c # d => dispatches'[c] = dispatches[c]
  <1> DEFINE x == [dispatches[d] EXCEPT !.env = e]
  <1>1. d \in 1 .. Len(dispatches) /\ dispatches[d] \in DispatchType
    BY CoreElements
  <1>2. x \in DispatchType /\ x.env = e
    BY <1>1 DEF DispatchType
  <1>3. dispatches' = [dispatches EXCEPT ![d] = x]
    OBVIOUS
  <1> HIDE DEF x
  <1>4. dispatches \in Seq(DispatchType)
    BY DEF CoreType
  <1>5. dispatches' \in Seq(DispatchType)
    BY <1>1, <1>2, <1>3, <1>4, ExceptSeq
  <1> QED BY <1>2, <1>3, <1>5

\* The envelopes the steps write.
LEMMA Written ==
    ASSUME CoreType, CoreFit
    PROVE  /\ \A m \in Msgs, t \in Nat :
                 LET e == Moved(Created(m, t), "PROCESSING")
                 IN  e \in Envelope /\ e.msg = m /\ e.state = "PROCESSING" /\ e.tries = 0
           /\ queue # <<>> =>
                 LET e == Moved(queue[1], "PROCESSING")
                 IN  /\ e \in Envelope /\ e.msg = queue[1].msg
                     /\ e.state = "PROCESSING" /\ e.tries = queue[1].tries
                     /\ Fits(queue[1], Taken, Started) /\ queue[1] \in Envelope
           /\ \A d \in DOMAIN dispatches :
                 Settles(d) =>
                    \E e \in Envelope :
                       /\ Becomes(d, e) /\ e.msg = dispatches[d].env.msg
                       /\ dispatches[d].env.state \in {"PROCESSING", "FAILED"}
                       /\ \/ /\ e.state \in {"PROCESSING", "COMPLETED", "FAILED"}
                             /\ e.tries <= MaxRetries /\ UNCHANGED dlq
                          \/ /\ e.state = "DEAD_LETTER" /\ e.tries = MaxRetries + 1
                             /\ dlq' = Append(dlq, d)
  <1>1. ASSUME NEW m \in Msgs, NEW t \in Nat
        PROVE  LET e == Moved(Created(m, t), "PROCESSING")
               IN  e \in Envelope /\ e.msg = m /\ e.state = "PROCESSING" /\ e.tries = 0
    <2>1. /\ Created(m, t) \in Envelope /\ Created(m, t).msg = m
          /\ Created(m, t).tries = 0
      BY CreatedForm
    <2> QED BY <2>1, MovedForm DEF States
  <1>2. ASSUME queue # <<>>
        PROVE  LET e == Moved(queue[1], "PROCESSING")
               IN  /\ e \in Envelope /\ e.msg = queue[1].msg
                   /\ e.state = "PROCESSING" /\ e.tries = queue[1].tries
                   /\ Fits(queue[1], Taken, Started) /\ queue[1] \in Envelope
    <2>1. 1 \in DOMAIN queue /\ queue[1] \in Envelope
      BY <1>2, TailEffect DEF CoreType
    <2> QED BY <2>1, MovedForm DEF States, CoreFit
  <1>3. ASSUME NEW d \in DOMAIN dispatches, Settles(d)
        PROVE  \E e \in Envelope :
                  /\ Becomes(d, e) /\ e.msg = dispatches[d].env.msg
                  /\ dispatches[d].env.state \in {"PROCESSING", "FAILED"}
                  /\ \/ /\ e.state \in {"PROCESSING", "COMPLETED", "FAILED"}
                        /\ e.tries <= MaxRetries /\ UNCHANGED dlq
                     \/ /\ e.state = "DEAD_LETTER" /\ e.tries = MaxRetries + 1
                        /\ dlq' = Append(dlq, d)
    <2> DEFINE e == dispatches[d].env
               f == Moved(e, "FAILED")
    <2>1. e \in Envelope /\ e.tries \in Int /\ MaxRetries \in Nat
      BY CoreElements, EnvelopeForm, RetriesAssumption
    <2>2. e.state \in {"PROCESSING", "FAILED"} => e.tries <= MaxRetries
      BY DEF CoreFit
    <2>3. e.state \in {"PROCESSING", "FAILED"}
      BY <1>3 DEF Settles
    <2>4. f \in Envelope /\ f.msg = e.msg /\ f.state = "FAILED" /\ f.tries = e.tries + 1
      BY <2>1, <2>2, <2>3, MovedForm DEF States
    <2> HIDE DEF e, f
    <2>5. LET g == Moved(e, "COMPLETED")
          IN  g \in Envelope /\ g.msg = e.msg /\ g.state = "COMPLETED" /\ g.tries = e.tries
      BY <2>1, MovedForm DEF States
    <2>6. LET g == Moved(e, "PROCESSING")
          IN  g \in Envelope /\ g.msg = e.msg /\ g.state = "PROCESSING" /\ g.tries = e.tries
      BY <2>1, MovedForm DEF States
    <2>7. LET g == Moved(f, "DEAD_LETTER")
          IN  g \in Envelope /\ g.msg = e.msg /\ g.state = "DEAD_LETTER" /\ g.tries = f.tries
      BY <2>4, MovedForm DEF States
    <2>8. \/ Becomes(d, Moved(e, "COMPLETED")) /\ UNCHANGED dlq
          \/ f.tries <= MaxRetries /\ Becomes(d, f) /\ UNCHANGED dlq
          \/ /\ ~(f.tries <= MaxRetries)
             /\ Becomes(d, Moved(f, "DEAD_LETTER")) /\ dlq' = Append(dlq, d)
          \/ Becomes(d, Moved(e, "PROCESSING")) /\ UNCHANGED dlq
      BY <1>3 DEF Settles, e, f
    <2>9. ~(f.tries <= MaxRetries) => f.tries = MaxRetries + 1
      BY <2>1, <2>2, <2>3, <2>4
    <2>10. CASE Becomes(d, Moved(e, "COMPLETED")) /\ UNCHANGED dlq
      BY <2>2, <2>3, <2>5, <2>10 DEF e
    <2>11. CASE f.tries <= MaxRetries /\ Becomes(d, f) /\ UNCHANGED dlq
      BY <2>3, <2>4, <2>11 DEF e
    <2>12. CASE /\ ~(f.tries <= MaxRetries)
                /\ Becomes(d, Moved(f, "DEAD_LETTER")) /\ dlq' = Append(dlq, d)
      BY <2>3, <2>7, <2>9, <2>12 DEF e
    <2>13. CASE Becomes(d, Moved(e, "PROCESSING")) /\ UNCHANGED dlq
      BY <2>2, <2>3, <2>6, <2>13 DEF e
    <2> QED BY <2>8, <2>10, <2>11, <2>12, <2>13
  <1> QED BY <1>1, <1>2, <1>3

\* A step leaves the dispatches alone, adds one, or settles one.
LEMMA DispatchesGrow ==
    ASSUME CoreType, CoreFit, CoreStep
    PROVE  /\ sent' \in Seq(Msgs) /\ Taken \subseteq Taken'
           /\ dispatches' \in Seq(DispatchType)
           /\ DOMAIN dispatches \subseteq DOMAIN dispatches'
           /\ \A d \in DOMAIN dispatches : dispatches'[d].env.msg = dispatches[d].env.msg
           /\ Started \subseteq Started'
  <1> DEFINE Goal == /\ sent' \in Seq(Msgs) /\ Taken \subseteq Taken'
                     /\ dispatches' \in Seq(DispatchType)
                     /\ DOMAIN dispatches \subseteq DOMAIN dispatches'
                     /\ \A d \in DOMAIN dispatches :
                           dispatches'[d].env.msg = dispatches[d].env.msg
  <1>0. sent \in Seq(Msgs) /\ dispatches \in Seq(DispatchType)
    BY DEF CoreType
  <1>1. ASSUME Silent PROVE Goal
    BY <1>0, <1>1, TakenGrows DEF Silent, queueVars
  <1>2. ASSUME NEW m \in Msgs, Deposits(m) PROVE Goal
    BY <1>0, <1>2, TakenGrows DEF Deposits
  <1>3. ASSUME NEW h \in Handlers, Drains(h) PROVE Goal
    <2>1. sent' \in Seq(Msgs) /\ Taken \subseteq Taken'
      BY <1>0, <1>3, TakenGrows DEF Drains
    <2>2. CASE UNCHANGED dispatches
      BY <1>0, <2>1, <2>2
    <2>3. CASE Begins(Moved(queue[1], "PROCESSING"), h)
      <3>1. Moved(queue[1], "PROCESSING") \in Envelope
        BY <1>3, Written DEF Drains
      <3> QED BY <2>1, <2>3, <3>1, BeginsEffect
    <2> QED BY <1>3, <2>2, <2>3 DEF Drains
  <1>4. ASSUME NEW m \in Msgs, NEW h \in Handlers, Offers(m, h) PROVE Goal
    <2>0. UNCHANGED sent \/ \E n \in Msgs : Takes(n)
      BY <1>4 DEF Offers
    <2>1. sent' \in Seq(Msgs) /\ Taken \subseteq Taken'
      BY <1>0, <2>0, TakenGrows
    <2>2. Moved(Created(m, Len(sent')), "PROCESSING") \in Envelope
      BY <2>1, Written, LenProperties
    <2> QED BY <1>4, <2>1, <2>2, BeginsEffect DEF Offers
  <1>5. ASSUME NEW d \in DOMAIN dispatches, Settles(d) PROVE Goal
    <2>1. PICK e \in Envelope : Becomes(d, e) /\ e.msg = dispatches[d].env.msg
      BY <1>5, Written
    <2>2. dispatches' = [dispatches EXCEPT ![d].env = e] /\ UNCHANGED sent
      BY <2>1 DEF Becomes
    <2>3. sent' \in Seq(Msgs) /\ Taken \subseteq Taken'
      BY <1>0, <2>2, TakenGrows
    <2> QED BY <2>1, <2>2, <2>3, BecomesEffect
  <1>6. Goal
    BY <1>1, <1>2, <1>3, <1>4, <1>5 DEF CoreStep
  <1>7. Started \subseteq Started'
    BY <1>6 DEF DispatchesOf, Started
  <1> QED BY <1>6, <1>7

LEMMA QueueFits ==
    ASSUME CoreType, CoreFit, CoreStep, NEW E, QueueFrom(E),
           \A e \in E : Fits(e, Taken', Started')
    PROVE  \A k \in DOMAIN queue' : Fits(queue'[k], Taken', Started')
  <1> TAKE k \in DOMAIN queue'
  <1>1. CASE queue'[k] \in E
    BY <1>1
  <1>2. ASSUME NEW j \in DOMAIN queue, queue'[k] = queue[j]
        PROVE  Fits(queue'[k], Taken', Started')
    <2>1. Fits(queue[j], Taken, Started)
      BY DEF CoreFit
    <2> QED BY <1>2, <2>1, DispatchesGrow DEF Fits
  <1> QED BY <1>1, <1>2 DEF QueueFrom

\* The dispatches that were given up and the dead letters.
DispatchFits(e, taken) ==
    /\ e.msg \in taken
    /\ e.state \in {"PROCESSING", "COMPLETED", "FAILED", "DEAD_LETTER"}
    /\ IF e.state = "DEAD_LETTER" THEN e.tries = MaxRetries + 1
                                  ELSE e.tries <= MaxRetries

LEMMA CoreKept ==
    ASSUME CoreType, CoreFit, CoreStep, LoopFit, queue' \in Seq(Envelope)
    PROVE  CoreType' /\ CoreFit'
  <1> DEFINE QFit == \A k \in DOMAIN queue' : Fits(queue'[k], Taken', Started')
             DFit == \A d \in DOMAIN dispatches' : DispatchFits(dispatches'[d].env, Taken')
             Goal == QFit /\ DFit /\ dlq' \in Seq(DOMAIN dispatches')
  <1>0. /\ \A d \in DOMAIN dispatches : DispatchFits(dispatches[d].env, Taken)
        /\ Taken \subseteq Taken'
        /\ \A d \in DOMAIN dispatches : DispatchFits(dispatches[d].env, Taken')
    BY DispatchesGrow DEF CoreFit, DispatchFits
  <1>1. dlq \in Seq(DOMAIN dispatches')
    BY DispatchesGrow, SeqMonotonic DEF CoreType
  <1>2. ASSUME Silent PROVE Goal
    <2>1. QueueFrom({})
      BY <1>2 DEF QueueFrom, Silent, queueVars
    <2>2. QFit
      BY <2>1, QueueFits
    <2> QED BY <1>0, <1>1, <1>2, <2>2 DEF Silent, queueVars
  <1>3. ASSUME NEW m \in Msgs, Deposits(m) PROVE Goal
    <2> DEFINE c == Created(m, Len(sent'))
    <2>1. m \in Taken'
      BY <1>3, TakenGrows DEF Deposits, CoreType
    <2>2. c.msg = m /\ c.state = "CREATED" /\ c.tries = 0
      BY CreatedForm, DispatchesGrow, LenProperties
    <2>3. QueueFrom({c}) /\ UNCHANGED <<dispatches, dlq>>
      BY <1>3 DEF Deposits
    <2> HIDE DEF c
    <2>4. Fits(c, Taken', Started')
      BY <2>1, <2>2, RetriesAssumption DEF Fits
    <2>5. QFit
      BY <2>3, <2>4, QueueFits
    <2> QED BY <1>0, <1>1, <2>3, <2>5
  <1>4. ASSUME NEW e \in Envelope, NEW h \in Handlers, Begins(e, h), e.state = "PROCESSING",
               e.msg \in Taken', e.tries <= MaxRetries
        PROVE  DFit /\ Fits(e, Taken', Started')
    <2> DEFINE n == Len(dispatches) + 1
    <2>1. /\ DOMAIN dispatches' = DOMAIN dispatches \cup {n}
          /\ \A d \in DOMAIN dispatches : dispatches'[d] = dispatches[d]
          /\ dispatches'[n].env = e
      BY <1>4, BeginsEffect
    <2> HIDE DEF n
    <2>2. DispatchFits(e, Taken')
      BY <1>4 DEF DispatchFits
    <2>3. DFit
      BY <1>0, <2>1, <2>2
    <2>4. e.msg \in Started'
      BY <1>4, <2>1, EnvelopeForm DEF Started, DispatchesOf
    <2> QED BY <1>4, <2>3, <2>4 DEF Fits
  <1>5. ASSUME NEW h \in Handlers, Drains(h) PROVE Goal
    <2> DEFINE e == Moved(queue[1], "PROCESSING")
    <2>1. /\ e \in Envelope /\ e.msg = queue[1].msg /\ e.state = "PROCESSING"
          /\ e.tries = queue[1].tries /\ Fits(queue[1], Taken, Started)
      BY <1>5, Written DEF Drains
    <2> HIDE DEF e
    <2>2. e.msg \in Taken' /\ e.tries <= MaxRetries
      BY <1>0, <2>1 DEF Fits
    <2>3. CASE QueueFrom({e}) /\ Begins(e, h)
      <3>1. DFit /\ Fits(e, Taken', Started')
        BY <1>4, <2>1, <2>2, <2>3
      <3>2. QFit
        BY <2>3, <3>1, QueueFits
      <3> QED BY <1>1, <1>5, <3>1, <3>2 DEF Drains
    <2>4. CASE QueueFrom({}) /\ UNCHANGED dispatches
      <3>1. QFit
        BY <2>4, QueueFits
      <3> QED BY <1>0, <1>1, <1>5, <2>4, <3>1 DEF Drains
    <2> QED BY <1>5, <2>3, <2>4 DEF Drains, e
  <1>6. ASSUME NEW m \in Msgs, NEW h \in Handlers, Offers(m, h) PROVE Goal
    <2> DEFINE c == Created(m, Len(sent'))  e == Moved(c, "PROCESSING")
    <2>1. m \in Taken'
      <3>1. CASE Takes(m)
        BY <3>1, TakenGrows DEF CoreType
      <3>2. CASE m \in Taken
        BY <3>2, DispatchesGrow
      <3> QED BY <1>6, <3>1, <3>2 DEF Offers, LoopFit
    <2>2. /\ c.msg = m /\ c.state = "CREATED" /\ c.tries = 0
          /\ e \in Envelope /\ e.msg = m /\ e.state = "PROCESSING" /\ e.tries = 0
      BY CreatedForm, Written, DispatchesGrow, LenProperties
    <2>3. QueueFrom({c, e}) /\ Begins(e, h) /\ UNCHANGED dlq
      BY <1>6 DEF Offers
    <2> HIDE DEF c, e
    <2>4. Fits(c, Taken', Started') /\ e.tries <= MaxRetries
      BY <2>1, <2>2, RetriesAssumption DEF Fits
    <2>5. DFit /\ Fits(e, Taken', Started')
      BY <1>4, <2>1, <2>2, <2>3, <2>4
    <2>6. QFit
      BY <2>3, <2>4, <2>5, QueueFits
    <2> QED BY <1>1, <2>3, <2>5, <2>6
  <1>7. ASSUME NEW d \in DOMAIN dispatches, Settles(d) PROVE Goal
    <2>1. PICK e \in Envelope :
             /\ Becomes(d, e) /\ e.msg = dispatches[d].env.msg
             /\ \/ /\ e.state \in {"PROCESSING", "COMPLETED", "FAILED"}
                   /\ e.tries <= MaxRetries /\ UNCHANGED dlq
                \/ /\ e.state = "DEAD_LETTER" /\ e.tries = MaxRetries + 1
                   /\ dlq' = Append(dlq, d)
      BY <1>7, Written
    <2>2. dispatches' = [dispatches EXCEPT ![d].env = e]
      BY <2>1 DEF Becomes
    <2>3. /\ DOMAIN dispatches' = DOMAIN dispatches /\ dispatches'[d].env = e
          /\ \A c \in DOMAIN dispatches : c # d => dispatches'[c] = dispatches[c]
      BY <2>2, BecomesEffect
    <2>4. e.msg \in Taken'
      BY <1>0, <2>1 DEF DispatchFits
    <2>5. DispatchFits(e, Taken')
      BY <2>1, <2>4, RetriesAssumption DEF DispatchFits
    <2>6. DFit
      BY <1>0, <2>3, <2>5
    <2>7. e.msg \in Started'
      BY <2>3, EnvelopeForm DEF Started, DispatchesOf
    <2>8. ~IsFinal(e) => Fits(e, Taken', Started')
      BY <2>1, <2>4, <2>7 DEF Fits, IsFinal
    <2>9. QFit
      <3>1. QueueFrom(IF IsFinal(e) THEN {} ELSE {e})
        BY <2>1 DEF Becomes
      <3> QED BY <2>8, <3>1, QueueFits
    <2>10. dlq' \in Seq(DOMAIN dispatches')
      BY <1>1, <2>1, <2>3, AppendProperties
    <2> QED BY <2>6, <2>9, <2>10
  <1>8. Goal
    BY <1>2, <1>3, <1>5, <1>6, <1>7 DEF CoreStep
  <1>9. CoreType'
    BY <1>8, DispatchesGrow DEF CoreType, Goal
  <1>10. CoreFit'
    BY <1>8 DEF CoreFit, DispatchFits, Goal
  <1> QED BY <1>9, <1>10

-----------------------------------------------------------------------------
(* Type correctness                                                         *)

SubsType == subs \in Seq(Handlers) /\ drains \in Seq(Handlers) /\ used \subseteq Handlers
LoopType ==
    loop \in [kind : {"none", "publish", "drain"}, msg : Msgs \cup {None},
             rest : Seq(Handlers), running : {0} \cup DOMAIN dispatches]
RequestType ==
    /\ caller \in [Requests -> {"idle", "pending", "resolved", "rejected"}]
    /\ failing \subseteq Requests
    /\ resolver \in [Correlations -> Requests \cup {None}]

LEMMA TypeParts ==
    TypeOK <=> /\ CoreType /\ SubsType /\ LoopType /\ RequestType
               /\ turn \in Nat /\ abandoned \subseteq DOMAIN dispatches
  BY DEF TypeOK, CoreType, DispatchType, SubsType, LoopType, RequestType

Inv == TypeOK /\ CoreFit /\ LoopFit

LEMMA InitInv == Init => Inv
  <1> SUFFICES ASSUME Init PROVE Inv
    OBVIOUS
  <1> USE DEF Init
  <1>1. TypeOK
    <2>1. CoreType /\ SubsType
      BY EmptySeq DEF CoreType, SubsType
    <2>2. LoopType
      BY EmptySeq DEF LoopType, NoLoop
    <2>3. RequestType /\ turn \in Nat /\ abandoned \subseteq DOMAIN dispatches
      BY DEF RequestType
    <2> QED BY <2>1, <2>2, <2>3, TypeParts
  <1>2. CoreFit
    BY DEF CoreFit
  <1>3. LoopFit
    BY DEF LoopFit, NoLoop
  <1> QED BY <1>1, <1>2, <1>3 DEF Inv

LEMMA CorrelationType == \A r \in Requests : CorrelationOf[r] \in Correlations
  BY DEF Correlations

LEMMA SubsStep == ASSUME Inv, Next PROVE SubsType'
  <1>1. SubsType
    BY TypeParts DEF Inv
  <1>2. CASE UNCHANGED subVars
    BY <1>1, <1>2 DEF SubsType, subVars
  <1>3. ASSUME NEW h \in Handlers, Subscribe(h) PROVE SubsType'
    BY <1>1, <1>3, AppendProperties DEF SubsType, Subscribe
  <1>4. ASSUME NEW h \in Handlers, Unsubscribe(h) PROVE SubsType'
    <2>1. PICK i \in DOMAIN subs : subs' = RemoveAt(subs, i)
      BY <1>4 DEF Unsubscribe
    <2>2. subs' \in Seq(Handlers)
      BY <1>1, <2>1, RemovedEffect DEF SubsType
    <2> QED BY <1>1, <1>4, <2>2 DEF SubsType, Unsubscribe
  <1>5. CASE DrainStarts
    BY <1>1, <1>5, HeadTailProperties DEF SubsType, DrainStarts
  <1>6. ASSUME NEW m \in Msgs, Publish(m) \/ SendOne(m) PROVE SubsType'
    BY <1>2, <1>6 DEF Publish, SendOne
  <1>7. ASSUME NEW r \in Requests, InvalidRequest(r) \/ RequestFails(r) \/ Timeout(r)
        PROVE  SubsType'
    BY <1>2, <1>7 DEF InvalidRequest, RequestFails, Timeout
  <1>8. ASSUME NEW d \in DOMAIN dispatches, HandlerSettles(d) \/ RetryTimer(d)
        PROVE  SubsType'
    BY <1>2, <1>8 DEF HandlerSettles, HandlerReturns, HandlerThrows, HandlerThrowsNothing,
                      RetryTimer
  <1>10. ASSUME NEW k \in Correlations, Reply(k) PROVE SubsType'
    BY <1>2, <1>10 DEF Reply
  <1>9. CASE Loop
    BY <1>2, <1>9 DEF Loop, DrainNext, DrainEnds, PublishNext
  <1> QED BY <1>3, <1>4, <1>5, <1>6, <1>7, <1>8, <1>9, <1>10, MessagesAssumption
          DEF Next, Send, Request

LEMMA LoopStep == ASSUME Inv, Next PROVE LoopType' /\ LoopFit'
  <1> DEFINE Type(l) == l \in [kind : {"none", "publish", "drain"}, msg : Msgs \cup {None},
                               rest : Seq(Handlers), running : {0} \cup DOMAIN dispatches']
             Fit(l) == /\ l.kind # "none" => l.rest # <<>>
                       /\ l.kind = "publish" => l.msg \in Taken'
             Good(l) == Type(l) /\ Fit(l)
  <1> SUFFICES Good(loop')
    BY DEF LoopType, LoopFit
  <1>1. CoreType /\ SubsType /\ LoopType /\ CoreFit /\ LoopFit /\ CoreStep
    BY StepIsCore, TypeParts DEF Inv
  <1>2. /\ DOMAIN dispatches \subseteq DOMAIN dispatches' /\ Taken \subseteq Taken'
        /\ dispatches' \in Seq(DispatchType)
    BY <1>1, DispatchesGrow
  <1>3. Good(loop)
    BY <1>1, <1>2 DEF LoopType, LoopFit
  <1>4. Good(NoLoop)
    BY EmptySeq DEF NoLoop
  <1>5. Latest \in {0} \cup DOMAIN dispatches'
    <2>1. CASE dispatches' = <<>>
      <3>1. dispatches = <<>>
        BY <1>1, <1>2, <2>1, EmptySeq, LenProperties DEF CoreType
      <3> QED BY <2>1, <3>1 DEF Latest
    <2>2. CASE dispatches' # <<>>
      <3>1. Len(dispatches') \in DOMAIN dispatches'
        BY <1>2, <2>2, EmptySeq, LenProperties
      <3> QED BY <3>1 DEF Latest
    <2> QED BY <2>1, <2>2
  <1>6. ASSUME UNCHANGED loop PROVE Good(loop')
    BY <1>3, <1>6
  <1>7. ASSUME NEW h \in Handlers, Subscribe(h) \/ Unsubscribe(h) PROVE Good(loop')
    BY <1>6, <1>7 DEF Subscribe, Unsubscribe
  <1>8. ASSUME NEW m \in Msgs, Publish(m) PROVE Good(loop')
    <2>1. CASE UNCHANGED loop
      BY <1>6, <2>1
    <2>2. CASE /\ subs # <<>>
               /\ loop' = [kind |-> "publish", msg |-> m, rest |-> subs, running |-> 0]
      <3>1. m \in Taken'
        BY <1>1, <1>8, TakenGrows DEF Publish, Takes, CoreType
      <3> QED BY <1>1, <2>2, <3>1 DEF SubsType
    <2> QED BY <1>8, <2>1, <2>2 DEF Publish
  <1>9. ASSUME NEW m \in Msgs, SendOne(m) PROVE Good(loop')
    BY <1>6, <1>9 DEF SendOne
  <1>10. ASSUME NEW r \in Requests, InvalidRequest(r) \/ RequestFails(r) \/ Timeout(r)
         PROVE  Good(loop')
    BY <1>6, <1>10 DEF InvalidRequest, RequestFails, Timeout
  <1>11. ASSUME NEW d \in DOMAIN dispatches, HandlerReturns(d) \/ RetryTimer(d)
         PROVE  Good(loop')
    BY <1>6, <1>11 DEF HandlerReturns, RetryTimer
  <1>17. ASSUME NEW k \in Correlations, Reply(k) PROVE Good(loop')
    BY <1>6, <1>17 DEF Reply
  <1>12. ASSUME NEW d \in DOMAIN dispatches, HandlerThrows(d) \/ HandlerThrowsNothing(d)
         PROVE  Good(loop')
    <2>1. loop' = loop \/ loop' = [loop EXCEPT !.running = 0]
      BY <1>12 DEF HandlerThrows, HandlerThrowsNothing, Unwatched
    <2> QED BY <1>3, <2>1
  <1>13. CASE DrainStarts
    <2>1. CASE loop' = NoLoop
      BY <1>4, <2>1
    <2>2. CASE loop' = [NoLoop EXCEPT !.kind = "drain", !.rest = <<Head(drains)>>]
      <3>1. Head(drains) \in Handlers
        BY <1>1, <1>13, HeadTailProperties DEF SubsType, DrainStarts
      <3>2. <<Head(drains)>> \in Seq(Handlers) /\ <<Head(drains)>> # <<>>
        BY <3>1
      <3> QED BY <2>2, <3>2 DEF NoLoop
    <2> QED BY <1>13, <2>1, <2>2 DEF DrainStarts
  <1>14. CASE DrainNext
    BY <1>3, <1>5, <1>14 DEF DrainNext
  <1>15. CASE DrainEnds
    BY <1>4, <1>15 DEF DrainEnds
  <1>16. CASE PublishNext
    <2>1. CASE loop' = NoLoop
      BY <1>4, <2>1
    <2>2. CASE /\ Len(loop.rest) # 1
               /\ loop' = [loop EXCEPT !.rest = Tail(@), !.running = Latest]
      <3>1. loop.rest \in Seq(Handlers) /\ loop.rest # <<>>
        BY <1>1, <1>16 DEF LoopType, LoopFit, PublishNext
      <3>2. Len(loop.rest) \in Nat \ {0}
        BY <3>1, EmptySeq
      <3>3. Tail(loop.rest) \in Seq(Handlers) /\ Len(Tail(loop.rest)) = Len(loop.rest) - 1
        BY <3>1, HeadTailProperties
      <3>4. Tail(loop.rest) # <<>>
        <4>1. Len(Tail(loop.rest)) # 0
          BY <2>2, <3>2, <3>3
        <4>2. Len(<<>>) = 0
          BY EmptySeq
        <4> QED BY <4>1, <4>2
      <3>5. loop.kind = "publish"
        BY <1>16 DEF PublishNext
      <3> QED BY <1>3, <1>5, <2>2, <3>3, <3>4, <3>5
    <2> QED BY <1>16, <2>1, <2>2 DEF PublishNext
  <1> HIDE DEF Good
  <1> QED BY <1>7, <1>8, <1>9, <1>10, <1>11, <1>12, <1>13, <1>14, <1>15, <1>16, <1>17,
          MessagesAssumption
          DEF Next, Send, Request, Loop, HandlerSettles

\* A dispatch that was given up is one that was made, and stays one.
LEMMA AbandonedStep == ASSUME Inv, Next PROVE abandoned' \subseteq DOMAIN dispatches'
  <1>1. DOMAIN dispatches \subseteq DOMAIN dispatches' /\ abandoned \subseteq DOMAIN dispatches
    BY StepIsCore, DispatchesGrow, TypeParts DEF Inv
  <1>2. ASSUME UNCHANGED abandoned PROVE abandoned' \subseteq DOMAIN dispatches'
    BY <1>1, <1>2
  <1>3. ASSUME NEW h \in Handlers, Subscribe(h) \/ Unsubscribe(h) PROVE UNCHANGED abandoned
    BY <1>3 DEF Subscribe, Unsubscribe
  <1>4. ASSUME NEW m \in Msgs, Publish(m) \/ SendOne(m) PROVE UNCHANGED abandoned
    BY <1>4 DEF Publish, SendOne
  <1>5. ASSUME NEW r \in Requests, InvalidRequest(r) \/ RequestFails(r) \/ Timeout(r)
        PROVE  UNCHANGED abandoned
    BY <1>5 DEF InvalidRequest, RequestFails, Timeout
  <1>6. ASSUME NEW d \in DOMAIN dispatches, HandlerSettles(d) \/ RetryTimer(d)
        PROVE  abandoned' \subseteq abandoned \cup {d}
    BY <1>6 DEF HandlerSettles, HandlerReturns, HandlerThrows, HandlerThrowsNothing, RetryTimer
  <1>7. ASSUME NEW k \in Correlations, Reply(k) PROVE UNCHANGED abandoned
    BY <1>7 DEF Reply
  <1>8. ASSUME DrainStarts \/ Loop PROVE UNCHANGED abandoned
    BY <1>8 DEF DrainStarts, Loop, DrainNext, DrainEnds, PublishNext
  <1> QED BY <1>1, <1>2, <1>3, <1>4, <1>5, <1>6, <1>7, <1>8, MessagesAssumption
          DEF Next, Send, Request

LEMMA TurnStep == ASSUME Inv, Next PROVE turn' \in Nat
  <1>1. turn \in Nat
    BY TypeParts DEF Inv
  <1>2. CASE UNCHANGED turn
    BY <1>1, <1>2
  <1>3. ASSUME NEW m \in Msgs, SendOne(m) PROVE turn' \in Nat
    BY <1>3, SendOneEffect DEF Inv
  <1>4. ASSUME NEW h \in Handlers, Subscribe(h) \/ Unsubscribe(h) PROVE turn' \in Nat
    BY <1>2, <1>4 DEF Subscribe, Unsubscribe
  <1>5. ASSUME NEW m \in Msgs, Publish(m) PROVE turn' \in Nat
    BY <1>2, <1>5 DEF Publish
  <1>6. ASSUME NEW r \in Requests, InvalidRequest(r) \/ RequestFails(r) \/ Timeout(r)
        PROVE  turn' \in Nat
    BY <1>2, <1>6 DEF InvalidRequest, RequestFails, Timeout, sendVars
  <1>7. ASSUME NEW d \in DOMAIN dispatches, HandlerSettles(d) \/ RetryTimer(d)
        PROVE  turn' \in Nat
    BY <1>2, <1>7 DEF HandlerSettles, HandlerReturns, HandlerThrows, HandlerThrowsNothing,
                      RetryTimer, sendVars
  <1>9. ASSUME NEW k \in Correlations, Reply(k) PROVE turn' \in Nat
    BY <1>2, <1>9 DEF Reply, sendVars
  <1>8. CASE DrainStarts \/ Loop
    BY <1>2, <1>8 DEF DrainStarts, Loop, DrainNext, DrainEnds, PublishNext, sendVars
  <1> QED BY <1>3, <1>4, <1>5, <1>6, <1>7, <1>8, <1>9, MessagesAssumption DEF Next, Send, Request

-----------------------------------------------------------------------------
(* The request table                                                        *)

\* A resolver is found under the correlation id of its own request, and a request
\* whose send() was rejected has been made.
TableInv ==
    /\ RequestTable
    /\ \A k \in Correlations : resolver[k] # None => CorrelationOf[resolver[k]] = k
    /\ \A r \in failing : caller[r] # "idle"

\* The steps, by what they do to the table.
TableStep ==
    \/ UNCHANGED requestVars
    \/ \E r \in Requests : /\ caller[r] = "idle"
                          /\ caller' = [caller EXCEPT ![r] = "pending"] /\ Register(r)
                          /\ failing' \in {failing, failing \cup {r}}
    \/ \E r \in Requests : /\ caller[r] # "idle" /\ Forget(r) /\ Rejected(r)
                          /\ failing' \in {failing, failing \ {r}}
    \/ \E k \in Correlations :
          /\ resolver[k] # None /\ resolver' = [resolver EXCEPT ![k] = None]
          /\ caller' = [caller EXCEPT ![resolver[k]] =
                          IF @ = "pending" THEN "resolved" ELSE @]
          /\ UNCHANGED failing

LEMMA StepOfTable == ASSUME TableInv, Next PROVE TableStep
  <1>1. ASSUME UNCHANGED requestVars PROVE TableStep
    BY <1>1 DEF TableStep
  <1>2. ASSUME NEW h \in Handlers, Subscribe(h) \/ Unsubscribe(h) PROVE TableStep
    BY <1>1, <1>2 DEF Subscribe, Unsubscribe
  <1>3. ASSUME NEW m \in Msgs, Publish(m) \/ Send(m) PROVE TableStep
    BY <1>1, <1>3 DEF Publish, Send
  <1>4. ASSUME NEW r \in Requests, Request(r) PROVE TableStep
    BY <1>4 DEF TableStep, Request
  <1>5. ASSUME NEW r \in Requests, InvalidRequest(r) PROVE TableStep
    BY <1>5 DEF TableStep, InvalidRequest
  <1>6. ASSUME NEW r \in Requests, RequestFails(r) PROVE TableStep
    BY <1>6 DEF TableStep, RequestFails, TableInv
  <1>7. ASSUME NEW r \in Requests, Timeout(r) PROVE TableStep
    <2>1. caller[r] # "idle" /\ Forget(r) /\ Rejected(r) /\ failing' = failing
      BY <1>7 DEF Timeout, TimerArmed
    <2> QED BY <2>1 DEF TableStep
  <1>8. ASSUME NEW d \in DOMAIN dispatches, HandlerSettles(d) \/ RetryTimer(d)
        PROVE  TableStep
    BY <1>1, <1>8 DEF HandlerSettles, HandlerReturns, HandlerThrows, HandlerThrowsNothing,
                      RetryTimer
  <1>9. ASSUME NEW k \in Correlations, Reply(k) PROVE TableStep
    <2>1. /\ resolver[k] # None
          /\ resolver' = [resolver EXCEPT ![k] = None]
          /\ caller' = [caller EXCEPT ![resolver[k]] =
                          IF @ = "pending" THEN "resolved" ELSE @]
          /\ UNCHANGED failing
      BY <1>9 DEF Reply, Answered
    <2> QED BY <2>1 DEF TableStep
  <1>10. CASE DrainStarts \/ Loop
    BY <1>1, <1>10 DEF DrainStarts, Loop, DrainNext, DrainEnds, PublishNext
  <1> QED BY <1>2, <1>3, <1>4, <1>5, <1>6, <1>7, <1>8, <1>9, <1>10 DEF Next

LEMMA TableKept == ASSUME RequestType, TableInv, TableStep PROVE RequestType' /\ TableInv'
  <1> USE NoMessageAssumption, MessagesAssumption, CorrelationType
  <1> DEFINE Goal == RequestType' /\ TableInv'
  <1>0. \A r \in Requests : r # None
    OBVIOUS
  <1>1. ASSUME UNCHANGED requestVars PROVE Goal
    BY <1>1 DEF requestVars, RequestType, TableInv, RequestTable
  <1>2. ASSUME NEW r \in Requests, caller[r] = "idle",
               caller' = [caller EXCEPT ![r] = "pending"], Register(r),
               failing' \in {failing, failing \cup {r}}
        PROVE  Goal
    <2>1. RequestType'
      BY <1>2 DEF RequestType, Register
    <2>2. \A k \in Correlations : resolver'[k] = IF k = CorrelationOf[r] THEN r ELSE resolver[k]
      BY <1>2 DEF RequestType, Register
    <2>3. \A q \in Requests : caller'[q] = IF q = r THEN "pending" ELSE caller[q]
      BY <1>2 DEF RequestType
    <2>4. /\ \A k \in Correlations : resolver[k] # None => resolver[k] \in Requests
          /\ failing \subseteq Requests
      BY DEF RequestType
    <2>5. TableInv'
      BY <1>2, <2>2, <2>3, <2>4 DEF TableInv, RequestTable
    <2> QED BY <2>1, <2>5
  <1>3. ASSUME NEW r \in Requests, caller[r] # "idle", Forget(r), Rejected(r),
               failing' \in {failing, failing \ {r}}
        PROVE  Goal
    <2>1. RequestType'
      BY <1>3 DEF RequestType, Forget, Rejected
    <2>2. \A k \in Correlations : resolver'[k] = IF k = CorrelationOf[r] THEN None ELSE resolver[k]
      BY <1>3 DEF RequestType, Forget
    <2>3. \A q \in Requests : caller'[q] = IF q = r /\ caller[q] = "pending"
                                          THEN "rejected" ELSE caller[q]
      BY <1>3 DEF RequestType, Rejected
    <2>4. /\ \A k \in Correlations : resolver[k] # None => resolver[k] \in Requests
          /\ failing \subseteq Requests
      BY DEF RequestType
    <2>5. TableInv'
      BY <1>3, <2>2, <2>3, <2>4 DEF TableInv, RequestTable
    <2> QED BY <2>1, <2>5
  <1>4. ASSUME NEW k \in Correlations, resolver[k] # None,
               resolver' = [resolver EXCEPT ![k] = None],
               caller' = [caller EXCEPT ![resolver[k]] =
                            IF @ = "pending" THEN "resolved" ELSE @],
               UNCHANGED failing
        PROVE  Goal
    <2> DEFINE r == resolver[k]
    <2>0. r \in Requests /\ caller[r] = "pending" /\ CorrelationOf[r] = k
      BY <1>4 DEF RequestType, TableInv, RequestTable
    <2>1. RequestType'
      BY <1>4 DEF RequestType
    <2>2. \A j \in Correlations : resolver'[j] = IF j = k THEN None ELSE resolver[j]
      BY <1>4 DEF RequestType
    <2>3. \A q \in Requests : caller'[q] = IF q = r THEN "resolved" ELSE caller[q]
      BY <1>4, <2>0 DEF RequestType
    <2>4. /\ \A j \in Correlations : resolver[j] # None => resolver[j] \in Requests
          /\ failing \subseteq Requests
      BY DEF RequestType
    <2> HIDE DEF r
    <2>5. TableInv'
      BY <1>4, <2>0, <2>2, <2>3, <2>4 DEF TableInv, RequestTable
    <2> QED BY <2>1, <2>5
  <1> QED BY <1>1, <1>2, <1>3, <1>4 DEF TableStep

-----------------------------------------------------------------------------
LEMMA InvStep ==
    ASSUME Inv, TableInv, Next
    PROVE  /\ Inv' /\ TableInv'
           /\ CoreType /\ CoreFit /\ CoreStep /\ queue' \in Seq(Envelope)
  <1>1. queue' \in Seq(Envelope) /\ CoreStep
    BY StepIsCore DEF Inv
  <1>2. CoreType' /\ CoreFit'
    BY <1>1, CoreKept, TypeParts DEF Inv
  <1>3. SubsType' /\ LoopType' /\ LoopFit' /\ turn' \in Nat
    BY SubsStep, LoopStep, TurnStep
  <1>4. RequestType' /\ TableInv'
    BY StepOfTable, TableKept, TypeParts DEF Inv
  <1>5. TypeOK'
    BY <1>2, <1>3, <1>4, AbandonedStep DEF TypeOK, CoreType, DispatchType, SubsType, LoopType, RequestType
  <1> QED BY <1>1, <1>2, <1>3, <1>4, <1>5, TypeParts DEF Inv

LEMMA InvHolds == Spec => [](Inv /\ TableInv)
  <1>1. Init => Inv /\ TableInv
    <2> SUFFICES ASSUME Init PROVE TableInv
      BY InitInv
    <2> QED BY DEF Init, TableInv, RequestTable
  <1>2. Inv /\ TableInv /\ [Next]_vars => (Inv /\ TableInv)'
    <2> SUFFICES ASSUME Inv, TableInv, [Next]_vars PROVE Inv' /\ TableInv'
      OBVIOUS
    <2>1. CASE Next
      BY <2>1, InvStep
    <2>2. CASE UNCHANGED vars
      BY <2>2 DEF vars, requestVars, queueVars, subVars, sendVars, Inv, TypeOK, CoreFit, Fits,
                  LoopFit, Taken, Started, DispatchesOf, TableInv, RequestTable
    <2> QED BY <2>1, <2>2
  <1> QED BY <1>1, <1>2, PTL DEF Spec

\* The variables hold what they are meant to hold: envelopes in states that
\* transitionState knows, dead letters that are dispatches, resolvers of requests.
THEOREM TypeCorrect == Spec => []TypeOK
  <1>1. Inv => TypeOK
    BY DEF Inv
  <1> QED BY <1>1, InvHolds, PTL

\* A pending request is found by a reply until its timer fires, unless its caller
\* chose a correlation id that some other request has used, whatever timers,
\* replies and rejected sends of other requests do to _resolvers.
THEOREM RequestsAreFound == Spec => []RequestTable
  <1>1. TableInv => RequestTable
    BY DEF TableInv
  <1> QED BY <1>1, InvHolds, PTL

-----------------------------------------------------------------------------
(* Dead letters                                                             *)

LEMMA DeadLettersStep ==
    ASSUME CoreType, CoreFit, CoreStep, DeadLettersEarned
    PROVE  DeadLettersEarned'
  <1> DEFINE Dead(d) == dispatches[d].env.state = "DEAD_LETTER"
             Goal == DeadLettersEarned'
  <1>0. /\ \A d \in DOMAIN dispatches : Dead(d) <=> \E i \in DOMAIN dlq : dlq[i] = d
        /\ \A i, j \in DOMAIN dlq : dlq[i] = dlq[j] => i = j
        /\ \A i \in DOMAIN dlq : /\ dispatches[dlq[i]].env.tries = MaxRetries + 1
                                /\ dlq[i] \in DOMAIN dispatches
    BY CoreElements DEF DeadLettersEarned, ToSet
  <1>1. ASSUME /\ \A d \in DOMAIN dispatches' : dispatches'[d].env.state = "DEAD_LETTER" <=>
                                              \E i \in DOMAIN dlq' : dlq'[i] = d
               /\ \A i, j \in DOMAIN dlq' : dlq'[i] = dlq'[j] => i = j
               /\ \A i \in DOMAIN dlq' : dispatches'[dlq'[i]].env.tries = MaxRetries + 1
        PROVE  Goal
    BY <1>1 DEF DeadLettersEarned, ToSet
  <1> HIDE DEF Goal
  <1>2. ASSUME UNCHANGED <<dispatches, dlq>> PROVE Goal
    BY <1>0, <1>1, <1>2
  <1>3. ASSUME NEW e \in Envelope, NEW h \in Handlers, Begins(e, h), e.state = "PROCESSING",
               UNCHANGED dlq
        PROVE  Goal
    <2> DEFINE n == Len(dispatches) + 1
    <2>1. /\ DOMAIN dispatches' = DOMAIN dispatches \cup {n} /\ n \notin DOMAIN dispatches
          /\ \A d \in DOMAIN dispatches : dispatches'[d] = dispatches[d]
          /\ dispatches'[n].env = e
      BY <1>3, BeginsEffect
    <2> HIDE DEF n
    <2> QED BY <1>0, <1>1, <1>3, <2>1
  <1>4. ASSUME Silent PROVE Goal
    BY <1>2, <1>4 DEF Silent, queueVars
  <1>5. ASSUME NEW m \in Msgs, Deposits(m) PROVE Goal
    BY <1>2, <1>5 DEF Deposits
  <1>6. ASSUME NEW h \in Handlers, Drains(h) PROVE Goal
    <2> DEFINE e == Moved(queue[1], "PROCESSING")
    <2>1. e \in Envelope /\ e.state = "PROCESSING"
      BY <1>6, Written DEF Drains
    <2>2. (Begins(e, h) \/ UNCHANGED dispatches) /\ UNCHANGED dlq
      BY <1>6 DEF Drains
    <2> HIDE DEF e
    <2> QED BY <1>2, <1>3, <2>1, <2>2
  <1>7. ASSUME NEW m \in Msgs, NEW h \in Handlers, Offers(m, h) PROVE Goal
    <2> DEFINE e == Moved(Created(m, Len(sent')), "PROCESSING")
    <2>1. e \in Envelope /\ e.state = "PROCESSING"
      BY Written, DispatchesGrow, LenProperties
    <2>2. Begins(e, h) /\ UNCHANGED dlq
      BY <1>7 DEF Offers
    <2> HIDE DEF e
    <2> QED BY <1>3, <2>1, <2>2
  <1>8. ASSUME NEW d \in DOMAIN dispatches, Settles(d) PROVE Goal
    <2>1. PICK e \in Envelope :
             /\ Becomes(d, e)
             /\ dispatches[d].env.state \in {"PROCESSING", "FAILED"}
             /\ \/ /\ e.state \in {"PROCESSING", "COMPLETED", "FAILED"} /\ UNCHANGED dlq
                \/ /\ e.state = "DEAD_LETTER" /\ e.tries = MaxRetries + 1
                   /\ dlq' = Append(dlq, d)
      BY <1>8, Written
    <2>2. dispatches' = [dispatches EXCEPT ![d].env = e]
      BY <2>1 DEF Becomes
    <2>3. /\ DOMAIN dispatches' = DOMAIN dispatches /\ dispatches'[d].env = e
          /\ \A c \in DOMAIN dispatches : c # d => dispatches'[c] = dispatches[c]
      BY <2>2, BecomesEffect
    <2>4. \A i \in DOMAIN dlq : dlq[i] # d
      BY <1>0, <2>1
    <2>5. CASE e.state # "DEAD_LETTER" /\ UNCHANGED dlq
      BY <1>0, <1>1, <2>3, <2>4, <2>5
    <2>6. CASE /\ e.state = "DEAD_LETTER" /\ e.tries = MaxRetries + 1
               /\ dlq' = Append(dlq, d)
      <3> DEFINE n == Len(dlq) + 1
      <3>1. /\ dlq' \in Seq(DOMAIN dispatches) /\ Len(dlq') = n /\ dlq'[n] = d
            /\ \A i \in 1 .. Len(dlq) : dlq'[i] = dlq[i]
        BY <2>6, AppendProperties DEF CoreType
      <3>2. /\ Len(dlq) \in Nat /\ DOMAIN dlq = 1 .. Len(dlq) /\ DOMAIN dlq' = 1 .. n
        BY <3>1, LenProperties DEF CoreType
      <3>3. /\ DOMAIN dlq' = DOMAIN dlq \cup {n} /\ n \notin DOMAIN dlq /\ dlq'[n] = d
            /\ \A i \in DOMAIN dlq : dlq'[i] = dlq[i]
        BY <3>1, <3>2
      <3> HIDE DEF n
      <3> QED BY <1>0, <1>1, <2>3, <2>4, <2>6, <3>3
    <2> QED BY <2>1, <2>5, <2>6
  <1> QED BY <1>4, <1>5, <1>6, <1>7, <1>8 DEF CoreStep, Goal

\* The dead letters are exactly the dispatches that were given up, each recorded
\* once, and after MaxRetries retries, whichever queue entry was lost meanwhile.
THEOREM DeadLettersAreEarned == Spec => []DeadLettersEarned
  <1>1. Init => DeadLettersEarned
    BY DEF Init, DeadLettersEarned, ToSet
  <1>2. Inv /\ TableInv /\ DeadLettersEarned /\ [Next]_vars => DeadLettersEarned'
    <2> SUFFICES ASSUME Inv, TableInv, DeadLettersEarned, [Next]_vars PROVE DeadLettersEarned'
      OBVIOUS
    <2>1. CASE Next
      BY <2>1, InvStep, DeadLettersStep
    <2>2. CASE UNCHANGED vars
      BY <2>2 DEF vars, queueVars, DeadLettersEarned, ToSet
    <2> QED BY <2>1, <2>2
  <1> QED BY <1>1, <1>2, InvHolds, PTL DEF Spec

-----------------------------------------------------------------------------
(* Nothing is lost                                                          *)

\* The loop of a publish goes on until it has dispatched its message.
LEMMA PublishGoesOn ==
    ASSUME LoopType, Next
    PROVE  /\ loop.kind = "publish" =>
                 PublishNext \/ (loop'.kind = "publish" /\ loop'.msg = loop.msg)
           /\ loop'.kind = "publish" =>
                 \/ loop.kind = "publish" /\ loop'.msg = loop.msg
                 \/ loop'.msg \notin Taken /\ UNCHANGED queueVars
  <1> DEFINE Goal == /\ loop.kind = "publish" =>
                            PublishNext \/ (loop'.kind = "publish" /\ loop'.msg = loop.msg)
                     /\ loop'.kind = "publish" =>
                            \/ loop.kind = "publish" /\ loop'.msg = loop.msg
                            \/ loop'.msg \notin Taken /\ UNCHANGED queueVars
  <1>1. ASSUME UNCHANGED loop PROVE Goal
    BY <1>1
  <1>2. ASSUME NEW h \in Handlers, Subscribe(h) \/ Unsubscribe(h) PROVE Goal
    BY <1>1, <1>2 DEF Subscribe, Unsubscribe
  <1>3. ASSUME NEW m \in Msgs, Publish(m) PROVE Goal
    BY <1>1, <1>3 DEF Publish, Idle
  <1>4. ASSUME NEW m \in Msgs, SendOne(m) PROVE Goal
    BY <1>1, <1>4 DEF SendOne
  <1>5. ASSUME NEW r \in Requests, InvalidRequest(r) \/ RequestFails(r) \/ Timeout(r)
        PROVE  Goal
    BY <1>1, <1>5 DEF InvalidRequest, RequestFails, Timeout
  <1>6. ASSUME NEW d \in DOMAIN dispatches, HandlerReturns(d) \/ RetryTimer(d)
        PROVE  Goal
    BY <1>1, <1>6 DEF HandlerReturns, RetryTimer
  <1>7. ASSUME NEW d \in DOMAIN dispatches, HandlerThrows(d) \/ HandlerThrowsNothing(d)
        PROVE  Goal
    BY <1>7 DEF HandlerThrows, HandlerThrowsNothing, Unwatched, LoopType
  <1>10. ASSUME NEW k \in Correlations, Reply(k) PROVE Goal
    BY <1>1, <1>10 DEF Reply
  <1>8. CASE DrainStarts
    BY <1>8 DEF DrainStarts, NoLoop, Idle
  <1>9. ASSUME Loop PROVE Goal
    <2>1. ASSUME PublishNext PROVE Goal
      BY <2>1 DEF PublishNext, NoLoop, LoopType
    <2>2. ASSUME DrainNext PROVE Goal
      BY <2>2 DEF DrainNext, LoopType
    <2>3. ASSUME DrainEnds PROVE Goal
      BY <2>3 DEF DrainEnds, NoLoop
    <2> QED BY <1>9, <2>1, <2>2, <2>3 DEF Loop
  <1> QED BY <1>2, <1>3, <1>4, <1>5, <1>6, <1>7, <1>8, <1>9, <1>10, MessagesAssumption
          DEF Next, Send, Request, HandlerSettles

\* What a step that begins a dispatch, or settles one, has to do with it.
LEMMA BeginsStarts ==
    ASSUME CoreType, NEW e \in Envelope, NEW h \in Handlers, Begins(e, h)
    PROVE  e.msg \in Started'
  BY BeginsEffect, EnvelopeForm DEF Started, DispatchesOf

LEMMA OffersStarts ==
    ASSUME CoreType, CoreFit, CoreStep, NEW m \in Msgs, NEW h \in Handlers, Offers(m, h)
    PROVE  m \in Started'
  <1> DEFINE e == Moved(Created(m, Len(sent')), "PROCESSING")
  <1>1. e \in Envelope /\ e.msg = m
    BY Written, DispatchesGrow, LenProperties
  <1>2. Begins(e, h)
    BY DEF Offers
  <1> HIDE DEF e
  <1> QED BY <1>1, <1>2, BeginsStarts

\* A step changes the number of copies of a message only if it takes it, if it
\* drains it, or if it has been dispatched.
LEMMA CopiesStay ==
    ASSUME CoreType, CoreFit, CoreStep, queue' \in Seq(Envelope), NEW m \in Msgs
    PROVE  \/ NumberOf(queue', m) = NumberOf(queue, m)
           \/ Deposits(m) /\ NumberOf(queue', m) = NumberOf(queue, m) + 1
           \/ m \in Started'
  <1> DEFINE Goal == \/ NumberOf(queue', m) = NumberOf(queue, m)
                     \/ Deposits(m) /\ NumberOf(queue', m) = NumberOf(queue, m) + 1
                     \/ m \in Started'
  <1>0. NumberOf(queue, m) \in Nat
    BY CountType DEF CoreType
  <1>1. ASSUME Silent PROVE Goal
    BY <1>1 DEF Silent, queueVars
  <1>2. ASSUME NEW n \in Msgs, Deposits(n) PROVE Goal
    <2>1. NumberOf(queue', m) = NumberOf(queue, m) + (IF n = m THEN 1 ELSE 0)
      BY <1>2 DEF Deposits, MoreOf
    <2>2. CASE n = m
      BY <1>2, <2>1, <2>2
    <2>3. CASE n # m
      BY <1>0, <2>1, <2>3
    <2> QED BY <2>2, <2>3
  <1>3. ASSUME NEW h \in Handlers, Drains(h) PROVE Goal
    <2>1. CASE queue[1].msg # m
      BY <1>0, <1>3, <2>1 DEF Drains, LessOf
    <2>2. CASE queue[1].msg = m
      <3>1. Fits(queue[1], Taken, Started) /\ queue[1] \in Envelope
        BY <1>3, Written DEF Drains
      <3>2. CASE Allowed(queue[1].state, "PROCESSING")
        <4> DEFINE e == Moved(queue[1], "PROCESSING")
        <4>1. e \in Envelope /\ e.msg = m
          BY <1>3, <2>2, Written DEF Drains
        <4>2. Begins(e, h)
          BY <1>3, <3>2 DEF Drains
        <4> HIDE DEF e
        <4> QED BY <4>1, <4>2, BeginsStarts
      <3>3. CASE ~Allowed(queue[1].state, "PROCESSING")
        <4>1. queue[1].state # "CREATED"
          BY <3>3, FirstDispatch
        <4> QED BY <2>2, <3>1, <4>1, DispatchesGrow DEF Fits
      <3> QED BY <3>2, <3>3
    <2> QED BY <2>1, <2>2
  <1>4. ASSUME NEW n \in Msgs, NEW h \in Handlers, Offers(n, h) PROVE Goal
    <2>1. CASE n = m
      BY <1>4, <2>1, OffersStarts
    <2>2. CASE n # m
      BY <1>0, <1>4, <2>2 DEF Offers, MoreOf
    <2> QED BY <2>1, <2>2
  <1>5. ASSUME NEW d \in DOMAIN dispatches, Settles(d) PROVE Goal
    <2>1. PICK e \in Envelope : Becomes(d, e) /\ e.msg = dispatches[d].env.msg
      BY <1>5, Written
    <2>2. CASE e.msg = m
      <3>1. m \in Started
        BY <2>1, <2>2 DEF Started, DispatchesOf
      <3> QED BY <3>1, DispatchesGrow
    <2>3. CASE e.msg # m
      BY <2>1, <2>3 DEF Becomes
    <2> QED BY <2>2, <2>3
  <1> QED BY <1>1, <1>2, <1>3, <1>4, <1>5 DEF CoreStep

LEMMA CopiesAreCounted ==
    ASSUME CoreType, NEW m \in Msgs
    PROVE  /\ NumberOf(queue, m) \in Nat
           /\ NumberOf(queue, m) = Cardinality(Copies(m))
           /\ NumberOf(queue, m) # 0 <=> Copies(m) # {}
           /\ m \in Started <=> DispatchesOf(m) # {}
           /\ Waiting(m) <=> m \notin Started /\ NumberOf(queue, m) # 0
  <1>1. Copies(m) = PlacesOf(queue, m)
    BY DEF Copies, PlacesOf
  <1> QED BY <1>1, CountType DEF NumberOf, Waiting, Started, CoreType

Held(m) == \/ NumberOf(queue, m) # 0
           \/ m \in Started
           \/ loop.kind = "publish" /\ loop.msg = m

HeldInv == \A m \in Taken : Held(m)

LEMMA HeldStep == ASSUME Inv, TableInv, HeldInv, Next PROVE HeldInv'
  <1>1. CoreType /\ CoreFit /\ CoreStep /\ queue' \in Seq(Envelope) /\ CoreType'
    BY InvStep, TypeParts DEF Inv, CoreType, TypeOK, DispatchType
  <1>2. ASSUME NEW m \in Taken' PROVE Held(m)'
    <2>1. m \in Msgs
      BY <1>1, <1>2, LenProperties DEF CoreType, Taken, ToSet
    <2>2. NumberOf(queue, m) \in Nat
      BY <1>1, <2>1, CopiesAreCounted
    <2>3. CASE m \in Started'
      BY <2>3 DEF Held
    <2>4. CASE Deposits(m)
      BY <2>2, <2>4 DEF Deposits, MoreOf, Held
    <2>5. CASE m \notin Started' /\ ~Deposits(m)
      <3>1. NumberOf(queue', m) = NumberOf(queue, m)
        BY <1>1, <2>1, <2>5, CopiesStay
      <3>2. CASE m \in Taken
        <4>1. CASE loop.kind = "publish" /\ loop.msg = m /\ PublishNext
          <5>1. m \in Started'
            BY <1>1, <2>1, <4>1, PublishNextOffers, OffersStarts DEF Inv
          <5> QED BY <2>5, <5>1
        <4>2. CASE loop.kind = "publish" /\ loop.msg = m /\ ~PublishNext
          BY <4>2, TypeParts, PublishGoesOn DEF Held, Inv
        <4>3. CASE m \in Started
          BY <1>1, <2>5, <4>3, DispatchesGrow
        <4>4. CASE NumberOf(queue, m) # 0
          BY <3>1, <4>4 DEF Held
        <4> QED BY <3>2, <4>1, <4>2, <4>3, <4>4 DEF HeldInv, Held
      <3>3. CASE m \notin Taken
        <4>1. \A n \in Msgs : Takes(n) => n = m
          BY <1>1, <1>2, <3>3, TakenGrows DEF CoreType
        <4>2. ~UNCHANGED sent
          BY <1>2, <3>3 DEF Taken
        <4>3. \A n \in Msgs : ~Deposits(n)
          BY <2>5, <4>1 DEF Deposits
        <4>4. \A n \in Msgs, h \in Handlers : ~Offers(n, h)
          <5> SUFFICES ASSUME NEW n \in Msgs, NEW h \in Handlers, Offers(n, h) PROVE FALSE
            OBVIOUS
          <5>1. Takes(n)
            BY <4>2 DEF Offers
          <5> QED BY <1>1, <2>5, <4>1, <5>1, OffersStarts
        <4>5. \A h \in Handlers : ~Drains(h)
          BY <4>2 DEF Drains
        <4>6. \A d \in DOMAIN dispatches : ~Settles(d)
          BY <4>2 DEF Settles, Becomes
        <4>7. Silent
          BY <1>1, <4>3, <4>4, <4>5, <4>6 DEF CoreStep
        <4> QED BY <4>1, <4>2, <4>7 DEF Silent, Held
      <3> QED BY <3>2, <3>3
    <2> QED BY <2>3, <2>4, <2>5
  <1> QED BY <1>2 DEF HeldInv

\* A message the bus took is never lost, although drains throw away the entries
\* whose dispatch throws.
THEOREM NothingIsLost == Spec => []NothingLost
  <1>1. Init => HeldInv
    BY DEF Init, HeldInv, Taken, ToSet
  <1>2. Inv /\ TableInv /\ HeldInv /\ [Next]_vars => HeldInv'
    <2> SUFFICES ASSUME Inv, TableInv, HeldInv, [Next]_vars PROVE HeldInv'
      OBVIOUS
    <2>1. CASE Next
      BY <2>1, HeldStep
    <2>2. CASE UNCHANGED vars
      BY <2>2 DEF vars, queueVars, sendVars, HeldInv, Held, Taken, Started, DispatchesOf
    <2> QED BY <2>1, <2>2
  <1>3. Inv /\ HeldInv => NothingLost
    <2> SUFFICES ASSUME Inv, HeldInv, NEW m \in Taken
                 PROVE  \/ Waiting(m) \/ DispatchesOf(m) # {}
                        \/ loop.kind = "publish" /\ loop.msg = m
      BY DEF NothingLost
    <2>1. CoreType
      BY TypeParts DEF Inv
    <2>2. m \in Msgs
      BY <2>1, CoreElements
    <2> QED BY <2>1, <2>2, CopiesAreCounted DEF HeldInv, Held
  <1> QED BY <1>1, <1>2, <1>3, InvHolds, PTL DEF Spec

-----------------------------------------------------------------------------
(* A backlog has a drain to come                                            *)

\* A drain goes on until the queue is empty, and a drain to come starts then.
LEMMA DrainsGoOn ==
    ASSUME LoopType, SubsType, Next, queue # <<>>,
           drains # <<>> \/ loop.kind = "drain"
    PROVE  drains' # <<>> \/ loop'.kind = "drain"
  <1> DEFINE Goal == drains' # <<>> \/ loop'.kind = "drain"
  <1>1. ASSUME UNCHANGED loop, UNCHANGED drains PROVE Goal
    BY <1>1
  <1>2. ASSUME NEW h \in Handlers, Subscribe(h) PROVE Goal
    <2>1. Append(drains, h) # <<>>
      BY AppendProperties DEF SubsType
    <2> QED BY <1>1, <1>2, <2>1 DEF Subscribe
  <1>3. ASSUME NEW h \in Handlers, Unsubscribe(h) PROVE Goal
    BY <1>1, <1>3 DEF Unsubscribe
  <1>4. ASSUME NEW m \in Msgs, Publish(m) PROVE Goal
    BY <1>4 DEF Publish, Idle, subVars
  <1>5. ASSUME NEW m \in Msgs, SendOne(m) PROVE Goal
    BY <1>1, <1>5 DEF SendOne, subVars
  <1>6. ASSUME NEW r \in Requests, InvalidRequest(r) \/ RequestFails(r) \/ Timeout(r)
        PROVE  Goal
    BY <1>1, <1>6 DEF InvalidRequest, RequestFails, Timeout, subVars
  <1>7. ASSUME NEW d \in DOMAIN dispatches, HandlerReturns(d) \/ RetryTimer(d)
        PROVE  Goal
    BY <1>1, <1>7 DEF HandlerReturns, RetryTimer, subVars
  <1>8. ASSUME NEW d \in DOMAIN dispatches, HandlerThrows(d) \/ HandlerThrowsNothing(d)
        PROVE  Goal
    BY <1>8 DEF HandlerThrows, HandlerThrowsNothing, Unwatched, subVars, LoopType
  <1>11. ASSUME NEW k \in Correlations, Reply(k) PROVE Goal
    BY <1>1, <1>11 DEF Reply, subVars
  <1>9. ASSUME DrainStarts PROVE Goal
    BY <1>9 DEF DrainStarts, NoLoop
  <1>10. ASSUME Loop PROVE Goal
    <2>1. ASSUME PublishNext PROVE Goal
      BY <2>1 DEF PublishNext, subVars
    <2>2. ASSUME DrainNext PROVE Goal
      BY <2>2 DEF DrainNext, LoopType
    <2>3. ASSUME DrainEnds PROVE Goal
      BY <2>3 DEF DrainEnds
    <2> QED BY <1>10, <2>1, <2>2, <2>3 DEF Loop
  <1> QED BY <1>2, <1>3, <1>4, <1>5, <1>6, <1>7, <1>8, <1>9, <1>10, <1>11, MessagesAssumption
          DEF Next, Send, Request, HandlerSettles

\* The first subscription to a queue with a backlog schedules a drain.
LEMMA FirstSubscription ==
    ASSUME SubsType, Next, subs = <<>>, subs' # <<>>, queue # <<>>
    PROVE  drains' # <<>>
  <1>1. PICK h \in Handlers : Subscribe(h)
    <2>1. ~UNCHANGED subs
      OBVIOUS
    <2>2. \A h \in Handlers : ~Unsubscribe(h)
      BY DEF Unsubscribe
    <2>3. \A m \in Msgs : ~Publish(m) /\ ~SendOne(m)
      BY <2>1 DEF Publish, SendOne, subVars
    <2>4. \A r \in Requests : ~InvalidRequest(r) /\ ~RequestFails(r) /\ ~Timeout(r)
      BY <2>1 DEF InvalidRequest, RequestFails, Timeout, subVars
    <2>5. \A d \in DOMAIN dispatches :
             ~HandlerReturns(d) /\ ~RetryTimer(d) /\ ~HandlerThrows(d)
             /\ ~HandlerThrowsNothing(d)
      BY <2>1 DEF HandlerReturns, RetryTimer, HandlerThrows, HandlerThrowsNothing, subVars
    <2>7. \A k \in Correlations : ~Reply(k)
      BY <2>1 DEF Reply, subVars
    <2>6. ~DrainStarts /\ ~Loop
      BY <2>1 DEF DrainStarts, Loop, PublishNext, DrainNext, DrainEnds, subVars
    <2> QED BY <2>2, <2>3, <2>4, <2>5, <2>6, <2>7, MessagesAssumption
            DEF Next, Send, Request, HandlerSettles
  <1>2. Append(drains, h) # <<>>
    BY AppendProperties DEF SubsType
  <1> QED BY <1>1, <1>2 DEF Subscribe, DrainNeeded

\* A message that waits while somebody is subscribed has a drain to come, in
\* whatever order subscribe, unsubscribe, publish and the drains took place.
THEOREM BacklogsAreDrained == Spec => []BacklogHasDrain
  <1>1. Init => BacklogHasDrain
    BY DEF Init, BacklogHasDrain, Waiting, Copies
  <1>2. Inv /\ TableInv /\ BacklogHasDrain /\ [Next]_vars => BacklogHasDrain'
    <2> SUFFICES ASSUME Inv, TableInv, BacklogHasDrain, [Next]_vars PROVE BacklogHasDrain'
      OBVIOUS
    <2>1. CASE UNCHANGED vars
      BY <2>1 DEF vars, queueVars, subVars, BacklogHasDrain, Waiting, Copies, DispatchesOf
    <2>2. ASSUME Next, NEW m \in Msgs, Waiting(m)', subs' # <<>>
          PROVE  drains' # <<>> \/ loop'.kind = "drain"
      <3>1. CoreType /\ CoreFit /\ CoreStep /\ queue' \in Seq(Envelope)
        BY <2>2, InvStep
      <3>2. SubsType /\ LoopType
        BY TypeParts DEF Inv
      <3>3. m \notin Started' /\ NumberOf(queue', m) # 0
        <4>1. DispatchesOf(m)' = {} /\ PlacesOf(queue', m) # {}
          BY <2>2 DEF Waiting, Copies, PlacesOf
        <4> QED BY <3>1, <4>1, CountType DEF Started
      <3>4. ~Deposits(m)
        BY <2>2 DEF Deposits
      <3>5. NumberOf(queue, m) = NumberOf(queue', m)
        BY <3>1, <3>3, <3>4, CopiesStay
      <3>6. Waiting(m)
        BY <3>1, <3>3, <3>5, CopiesAreCounted, DispatchesGrow
      <3>7. queue # <<>>
        BY <3>6 DEF Waiting, Copies
      <3>8. CASE subs = <<>>
        BY <2>2, <3>2, <3>7, <3>8, FirstSubscription
      <3>9. CASE subs # <<>>
        BY <2>2, <3>2, <3>6, <3>7, <3>9, DrainsGoOn DEF BacklogHasDrain
      <3> QED BY <3>8, <3>9
    <2> QED BY <2>1, <2>2 DEF BacklogHasDrain
  <1> QED BY <1>1, <1>2, InvHolds, PTL DEF Spec

-----------------------------------------------------------------------------
(* The queue keeps no ghosts                                                *)

LiveNumber(m) == Cardinality(Live(m))

\* How many copies of a message the queue may hold.
Bounded(m) ==
    /\ \/ NumberOf(queue, m) <= LiveNumber(m)
       \/ m \notin Started /\ NumberOf(queue, m) = 1
    /\ loop.kind = "publish" /\ loop.msg = m /\ m \notin Started => NumberOf(queue, m) = 0

GhostInv == \A m \in Msgs : Bounded(m)

LEMMA LiveType ==
    ASSUME CoreType, NEW m
    PROVE  /\ IsFiniteSet(Live(m)) /\ LiveNumber(m) \in Nat
           /\ m \notin Started /\ m \in Msgs => LiveNumber(m) = 0
  <1>1. IsFiniteSet(DOMAIN dispatches)
    BY LenProperties, FS_Interval DEF CoreType
  <1>2. Live(m) \subseteq DOMAIN dispatches
    BY DEF Live, DispatchesOf
  <1>3. IsFiniteSet(Live(m))
    BY <1>1, <1>2, FS_Subset
  <1>4. m \notin Started /\ m \in Msgs => Live(m) = {}
    BY DEF Started, Live
  <1> QED BY <1>3, <1>4, FS_CardinalityType, FS_EmptySet DEF LiveNumber

\* What a step does to the dispatches of a message that have not ended.
LEMMA LiveKept ==
    ASSUME UNCHANGED dispatches, NEW m
    PROVE  LiveNumber(m)' = LiveNumber(m)
  BY DEF LiveNumber, Live, DispatchesOf, Ended

LEMMA LiveBegins ==
    ASSUME CoreType, NEW e \in Envelope, NEW h \in Handlers, Begins(e, h),
           e.state = "PROCESSING", NEW m
    PROVE  LiveNumber(m)' = LiveNumber(m) + (IF e.msg = m THEN 1 ELSE 0)
  <1> DEFINE n == Len(dispatches) + 1
  <1>1. /\ DOMAIN dispatches' = DOMAIN dispatches \cup {n} /\ n \notin DOMAIN dispatches
        /\ \A d \in DOMAIN dispatches : dispatches'[d] = dispatches[d]
        /\ dispatches'[n].env = e
    BY BeginsEffect
  <1> HIDE DEF n
  <1>2. Live(m)' = IF e.msg = m THEN Live(m) \cup {n} ELSE Live(m)
    BY <1>1 DEF Live, DispatchesOf, Ended
  <1>3. n \notin Live(m)
    BY <1>1 DEF Live, DispatchesOf
  <1>4. IsFiniteSet(Live(m)) /\ LiveNumber(m) \in Nat
    BY LiveType
  <1>5. Cardinality(Live(m) \cup {n}) = Cardinality(Live(m)) + 1
    BY <1>3, <1>4, FS_AddElement
  <1> QED BY <1>2, <1>4, <1>5 DEF LiveNumber

LEMMA LiveBecomes ==
    ASSUME CoreType, NEW d \in DOMAIN dispatches, NEW e \in Envelope, Becomes(d, e),
           e.msg = dispatches[d].env.msg,
           dispatches[d].env.state \in {"PROCESSING", "FAILED"}, NEW m
    PROVE  IF e.msg = m
           THEN /\ LiveNumber(m) > 0
                /\ LiveNumber(m)' = IF IsFinal(e) THEN LiveNumber(m) - 1 ELSE LiveNumber(m)
           ELSE LiveNumber(m)' = LiveNumber(m)
  <1>1. /\ DOMAIN dispatches' = DOMAIN dispatches /\ dispatches'[d].env = e
        /\ \A c \in DOMAIN dispatches : c # d => dispatches'[c] = dispatches[c]
    BY BecomesEffect DEF Becomes
  <1>2. e.msg = m => d \in Live(m)
    BY DEF Live, DispatchesOf, Ended
  <1>3. Live(m)' = IF e.msg = m /\ IsFinal(e) THEN Live(m) \ {d} ELSE Live(m)
    BY <1>1 DEF Live, DispatchesOf, Ended, IsFinal
  <1>4. IsFiniteSet(Live(m)) /\ LiveNumber(m) \in Nat
    BY LiveType
  <1>5. e.msg = m => LiveNumber(m) # 0 /\ Cardinality(Live(m) \ {d}) = LiveNumber(m) - 1
    BY <1>2, <1>4, FS_RemoveElement, FS_EmptySet DEF LiveNumber
  <1> QED BY <1>3, <1>4, <1>5 DEF LiveNumber

LEMMA NothingUntaken ==
    ASSUME CoreType, CoreFit, NEW m \in Msgs, m \notin Taken
    PROVE  NumberOf(queue, m) = 0 /\ m \notin Started
  <1>1. PlacesOf(queue, m) = {}
    BY DEF CoreFit, Fits, PlacesOf
  <1>2. m \notin Started
    BY DEF CoreFit, Started, DispatchesOf
  <1> QED BY <1>1, <1>2, CountType DEF CoreType

LEMMA NumbersStayBounded ==
    ASSUME CoreType, CoreFit, CoreStep, GhostInv, queue' \in Seq(Envelope), NEW m \in Msgs
    PROVE  \/ NumberOf(queue', m) <= LiveNumber(m)'
           \/ m \notin Started' /\ NumberOf(queue', m) = 1
  <1> DEFINE N == NumberOf(queue, m)  N1 == NumberOf(queue', m)
             L == LiveNumber(m)       L1 == LiveNumber(m)'
             Goal == N1 <= L1 \/ (m \notin Started' /\ N1 = 1)
  <1>1. N \in Nat /\ N1 \in Nat /\ L \in Nat
    BY CountType, LiveType DEF CoreType
  <1>2. /\ N <= L \/ (m \notin Started /\ N = 1)
        /\ m \notin Started => L = 0
    BY LiveType DEF GhostInv, Bounded
  <1> SUFFICES Goal
    OBVIOUS
  <1>3. ASSUME UNCHANGED dispatches PROVE L1 = L /\ Started' = Started
    BY <1>3, LiveKept DEF Started, DispatchesOf
  <1> HIDE DEF N, N1, L, L1
  <1>4. ASSUME UNCHANGED dispatches, N1 = N PROVE Goal
    BY <1>2, <1>3, <1>4
  <1>5. ASSUME NEW e \in Envelope, NEW h \in Handlers, Begins(e, h), e.state = "PROCESSING"
        PROVE  L1 = L + (IF e.msg = m THEN 1 ELSE 0)
    BY <1>5, LiveBegins DEF L, L1
  <1>6. ASSUME N1 = N, L1 = L, NEW e \in Envelope, e.msg # m,
               \/ \E h \in Handlers : Begins(e, h)
               \/ \E d \in DOMAIN dispatches : Becomes(d, e) /\ e.msg = dispatches[d].env.msg
        PROVE  Goal
    <2>1. m \in Started' => m \in Started
      <3>1. ASSUME NEW h \in Handlers, Begins(e, h) PROVE DispatchesOf(m)' = DispatchesOf(m)
        BY <1>6, <3>1, BeginsEffect DEF DispatchesOf
      <3>2. ASSUME NEW d \in DOMAIN dispatches, Becomes(d, e), e.msg = dispatches[d].env.msg
            PROVE  DispatchesOf(m)' = DispatchesOf(m)
        BY <1>6, <3>2, BecomesEffect DEF DispatchesOf, Becomes
      <3> QED BY <1>6, <3>1, <3>2 DEF Started
    <2> QED BY <1>2, <1>6, <2>1
  <1>7. ASSUME Silent PROVE Goal
    BY <1>4, <1>7 DEF Silent, queueVars, N, N1
  <1>8. ASSUME NEW n \in Msgs, Deposits(n) PROVE Goal
    <2>1. N1 = N + (IF n = m THEN 1 ELSE 0) /\ UNCHANGED dispatches /\ n \notin Taken
      BY <1>8 DEF Deposits, MoreOf, Takes, N, N1
    <2>2. CASE n # m
      BY <1>1, <1>4, <2>1, <2>2
    <2>3. CASE n = m
      BY <1>1, <1>3, <2>1, <2>3, NothingUntaken DEF N
    <2> QED BY <2>2, <2>3
  <1>9. ASSUME NEW h \in Handlers, Drains(h) PROVE Goal
    <2> DEFINE e == Moved(queue[1], "PROCESSING")
    <2>1. /\ e \in Envelope /\ e.msg = queue[1].msg /\ e.state = "PROCESSING"
          /\ Fits(queue[1], Taken, Started)
      BY <1>9, Written DEF Drains
    <2>2. N1 = N - (IF e.msg = m THEN 1 ELSE 0)
      BY <1>9, <2>1 DEF Drains, LessOf, N, N1
    <2>3. \/ Begins(e, h)
          \/ ~Allowed(queue[1].state, "PROCESSING") /\ UNCHANGED dispatches
      BY <1>9 DEF Drains
    <2> HIDE DEF e
    <2>4. CASE Begins(e, h) /\ e.msg # m
      BY <1>1, <1>5, <1>6, <2>1, <2>2, <2>4
    <2>5. CASE Begins(e, h) /\ e.msg = m
      <3>1. L1 = L + 1 /\ N1 = N - 1
        BY <1>5, <2>1, <2>2, <2>5
      <3> QED BY <1>1, <1>2, <3>1
    <2>6. CASE ~Allowed(queue[1].state, "PROCESSING") /\ UNCHANGED dispatches
      <3>1. e.msg \in Started
        BY <2>1, <2>6, FirstDispatch DEF Fits
      <3> QED BY <1>1, <1>2, <1>3, <2>2, <2>6, <3>1
    <2> QED BY <2>3, <2>4, <2>5, <2>6
  <1>10. ASSUME NEW n \in Msgs, NEW h \in Handlers, Offers(n, h) PROVE Goal
    <2> DEFINE e == Moved(Created(n, Len(sent')), "PROCESSING")
    <2>1. e \in Envelope /\ e.msg = n /\ e.state = "PROCESSING"
      BY Written, DispatchesGrow, LenProperties
    <2>2. Begins(e, h) /\ N1 = N + (IF n = m THEN 1 ELSE 0)
      BY <1>10 DEF Offers, MoreOf, N, N1
    <2> HIDE DEF e
    <2>3. CASE n # m
      BY <1>1, <1>5, <1>6, <2>1, <2>2, <2>3
    <2>4. CASE n = m
      <3>1. N <= L
        <4>1. CASE Takes(m)
          BY <1>1, <4>1, NothingUntaken DEF Takes, N
        <4>2. CASE loop.kind = "publish" /\ m = loop.msg
          BY <1>1, <1>2, <4>2 DEF GhostInv, Bounded, N
        <4> QED BY <1>10, <2>4, <4>1, <4>2 DEF Offers
      <3>2. L1 = L + 1 /\ N1 = N + 1
        BY <1>5, <2>1, <2>2, <2>4
      <3> QED BY <1>1, <3>1, <3>2
    <2> QED BY <2>3, <2>4
  <1>11. ASSUME NEW d \in DOMAIN dispatches, Settles(d) PROVE Goal
    <2>1. PICK e \in Envelope :
             /\ Becomes(d, e) /\ e.msg = dispatches[d].env.msg
             /\ dispatches[d].env.state \in {"PROCESSING", "FAILED"}
      BY <1>11, Written
    <2>2. N1 = IF m = e.msg /\ IsFinal(e) /\ N # 0 THEN N - 1 ELSE N
      BY <2>1 DEF Becomes, N, N1
    <2>3. IF e.msg = m THEN L > 0 /\ L1 = IF IsFinal(e) THEN L - 1 ELSE L ELSE L1 = L
      BY <2>1, LiveBecomes DEF L, L1
    <2>4. CASE e.msg # m
      BY <1>6, <2>1, <2>2, <2>3, <2>4
    <2>5. CASE e.msg = m
      <3>1. N <= L
        BY <1>2, <2>3, <2>5
      <3> QED BY <1>1, <2>2, <2>3, <2>5, <3>1
    <2> QED BY <2>4, <2>5
  <1> QED BY <1>7, <1>8, <1>9, <1>10, <1>11 DEF CoreStep

LEMMA GhostStep == ASSUME Inv, TableInv, GhostInv, Next PROVE GhostInv'
  <1>1. /\ CoreType /\ CoreFit /\ CoreStep /\ queue' \in Seq(Envelope)
        /\ LoopType /\ LoopFit
    BY InvStep, TypeParts DEF Inv
  <1>2. ASSUME NEW m \in Msgs,
               loop'.kind = "publish" /\ loop'.msg = m /\ m \notin Started'
        PROVE  NumberOf(queue', m) = 0
    <2>1. m \notin Started
      BY <1>1, <1>2, DispatchesGrow
    <2>2. CASE loop.kind = "publish" /\ loop.msg = m
      <3>1. NumberOf(queue, m) = 0
        BY <2>1, <2>2 DEF GhostInv, Bounded
      <3>2. ~Deposits(m)
        BY <1>1, <2>2 DEF Deposits, Takes, LoopFit
      <3> QED BY <1>1, <1>2, <3>1, <3>2, CopiesStay
    <2>3. CASE m \notin Taken /\ UNCHANGED queueVars
      BY <1>1, <2>3, NothingUntaken DEF queueVars
    <2> QED BY <1>1, <1>2, <2>2, <2>3, PublishGoesOn
  <1>3. \A m \in Msgs : \/ NumberOf(queue', m) <= LiveNumber(m)'
                        \/ m \notin Started' /\ NumberOf(queue', m) = 1
    BY <1>1, NumbersStayBounded
  <1> QED BY <1>2, <1>3 DEF GhostInv, Bounded

LEMMA GhostsHold == Spec => []GhostInv
  <1>1. Init => GhostInv
    <2> SUFFICES ASSUME Init, NEW m \in Msgs PROVE Bounded(m)
      BY DEF GhostInv
    <2>1. CoreType /\ loop.kind = "none"
      BY InitInv, TypeParts DEF Inv, Init, NoLoop
    <2>2. PlacesOf(queue, m) = {}
      BY DEF Init, PlacesOf
    <2>3. NumberOf(queue, m) = 0
      BY <2>1, <2>2, CountType DEF CoreType
    <2> QED BY <2>1, <2>3, LiveType DEF Bounded
  <1>2. Inv /\ TableInv /\ GhostInv /\ [Next]_vars => GhostInv'
    <2> SUFFICES ASSUME Inv, TableInv, GhostInv, [Next]_vars PROVE GhostInv'
      OBVIOUS
    <2>1. CASE Next
      BY <2>1, GhostStep
    <2>2. CASE UNCHANGED vars
      BY <2>2 DEF vars, queueVars, GhostInv, Bounded, LiveNumber, Live, Ended, Started,
                  DispatchesOf
    <2> QED BY <2>1, <2>2
  <1> QED BY <1>1, <1>2, InvHolds, PTL DEF Spec

\* The queue never keeps a copy of a message beyond those that wait for their
\* first subscriber or have a dispatch under way, although the copies of a
\* publish share one id and transitionState removes whichever comes first.
THEOREM NoGhosts == Spec => []NoGhostEntries
  <1>1. Inv /\ GhostInv => NoGhostEntries
    <2> SUFFICES ASSUME Inv, GhostInv, NEW m \in Msgs
                 PROVE  \/ Cardinality(Copies(m)) <= Cardinality(Live(m))
                        \/ DispatchesOf(m) = {} /\ Cardinality(Copies(m)) = 1
      BY DEF NoGhostEntries
    <2>1. CoreType
      BY TypeParts DEF Inv
    <2> QED BY <2>1, CopiesAreCounted DEF GhostInv, Bounded, LiveNumber
  <1> QED BY <1>1, GhostsHold, InvHolds, PTL

-----------------------------------------------------------------------------
(* The backlog is delivered in order                                        *)

\* The time stamp of a message that has not been dispatched is its place in sent.
OrderInv ==
    /\ Ordered(queue, Started)
    /\ \A i \in DOMAIN queue :
          queue[i].msg \notin Started =>
             queue[i].at \in DOMAIN sent /\ sent[queue[i].at] = queue[i].msg
    /\ \A i, j \in DOMAIN sent : sent[i] = sent[j] => i = j

\* What is taken is added to sent.
LEMMA SentGrows ==
    ASSUME CoreType, CoreStep
    PROVE  \/ UNCHANGED sent
           \/ \E m \in Msgs : Takes(m)
  BY DEF CoreStep, Silent, Deposits, Drains, Offers, Settles, Becomes

LEMMA TakesEffect ==
    ASSUME CoreType, NEW m \in Msgs, Takes(m)
    PROVE  /\ Len(sent') \in DOMAIN sent' /\ sent'[Len(sent')] = m
           /\ DOMAIN sent' = DOMAIN sent \cup {Len(sent')}
           /\ Len(sent') \notin DOMAIN sent
           /\ \A i \in DOMAIN sent : sent'[i] = sent[i] /\ sent[i] # m
  <1>1. /\ sent' \in Seq(Msgs) /\ Len(sent') = Len(sent) + 1
        /\ \A i \in 1 .. Len(sent) : sent'[i] = sent[i]
        /\ sent'[Len(sent) + 1] = m
    BY AppendProperties DEF Takes, CoreType
  <1>2. /\ Len(sent) \in Nat /\ DOMAIN sent = 1 .. Len(sent)
        /\ DOMAIN sent' = 1 .. Len(sent) + 1
    BY <1>1, LenProperties DEF CoreType
  <1>3. \A i \in DOMAIN sent : sent[i] # m
    BY DEF Takes, Taken, ToSet
  <1> QED BY <1>1, <1>2, <1>3

LEMMA OrderStep ==
    ASSUME CoreType, CoreFit, CoreStep, OrderInv
    PROVE  OrderInv'
  <1> DEFINE Stamped(e) == e.at \in DOMAIN sent' /\ sent'[e.at] = e.msg
  <1>1. \A i, j \in DOMAIN sent' : sent'[i] = sent'[j] => i = j
    <2>1. CASE UNCHANGED sent
      BY <2>1 DEF OrderInv
    <2>2. ASSUME NEW m \in Msgs, Takes(m)
          PROVE  \A i, j \in DOMAIN sent' : sent'[i] = sent'[j] => i = j
      BY <2>2, TakesEffect DEF OrderInv
    <2> QED BY <2>1, <2>2, SentGrows
  <1>2. \A i \in DOMAIN sent : i \in DOMAIN sent' /\ sent'[i] = sent[i]
    BY SentGrows, TakesEffect
  <1>3. Ordered(queue, Started') /\ Started \subseteq Started'
    BY DispatchesGrow DEF OrderInv, Ordered
  <1>4. \A i \in DOMAIN queue : queue[i].msg \notin Started' => Stamped(queue[i])
    BY <1>2, <1>3 DEF OrderInv
  <1> DEFINE Goal == /\ Ordered(queue', Started')
                     /\ \A k \in DOMAIN queue' :
                           queue'[k].msg \notin Started' => Stamped(queue'[k])
  <1> HIDE DEF Stamped
  <1>5. ASSUME NEW E, QueueFrom(E), \A e \in E : e.msg \in Started' \/ Stamped(e)
        PROVE  \A k \in DOMAIN queue' : queue'[k].msg \notin Started' => Stamped(queue'[k])
    BY <1>4, <1>5 DEF QueueFrom
  <1>6. ASSUME Silent PROVE Goal
    BY <1>3, <1>4, <1>6 DEF Silent, queueVars
  <1>7. ASSUME NEW m \in Msgs, Deposits(m) PROVE Goal
    <2> DEFINE c == Created(m, Len(sent'))
    <2>1. c.msg = m /\ c.at = Len(sent')
      BY DEF Created
    <2>2. Stamped(c)
      BY <1>7, <2>1, TakesEffect DEF Deposits, Stamped
    <2>3. QueueFrom({c}) /\ Ordered(queue', Started')
      BY <1>7 DEF Deposits
    <2> HIDE DEF c
    <2> QED BY <1>5, <2>2, <2>3
  <1>8. ASSUME NEW h \in Handlers, Drains(h) PROVE Goal
    <2> DEFINE e == Moved(queue[1], "PROCESSING")
    <2>1. e \in Envelope /\ e.msg = queue[1].msg /\ Fits(queue[1], Taken, Started)
      BY <1>8, Written DEF Drains
    <2>2. queue[1].msg \in Started'
      <3>1. CASE Begins(e, h)
        BY <2>1, <3>1, BeginsStarts
      <3>2. CASE ~Allowed(queue[1].state, "PROCESSING")
        BY <1>3, <2>1, <3>2, FirstDispatch DEF Fits
      <3> QED BY <1>8, <3>1, <3>2 DEF Drains
    <2>3. QueueFrom({e}) \/ QueueFrom({})
      BY <1>8 DEF Drains
    <2>4. Ordered(queue', Started')
      BY <1>3, <1>8, <2>2 DEF Drains, KeepsOrder
    <2> HIDE DEF e
    <2> QED BY <1>5, <2>1, <2>2, <2>3, <2>4
  <1>9. ASSUME NEW m \in Msgs, NEW h \in Handlers, Offers(m, h) PROVE Goal
    <2> DEFINE c == Created(m, Len(sent'))  e == Moved(c, "PROCESSING")
    <2>1. m \in Started'
      BY <1>9, OffersStarts
    <2>2. c.msg = m /\ e.msg = m
      BY CreatedForm, Written, DispatchesGrow, LenProperties
    <2>3. QueueFrom({c, e}) /\ KeepsOrder(m)
      BY <1>9 DEF Offers
    <2>4. Ordered(queue', Started')
      BY <1>3, <2>1, <2>3 DEF KeepsOrder
    <2> HIDE DEF c, e
    <2> QED BY <1>5, <2>1, <2>2, <2>3, <2>4
  <1>10. ASSUME NEW d \in DOMAIN dispatches, Settles(d) PROVE Goal
    <2>1. PICK e \in Envelope : Becomes(d, e) /\ e.msg = dispatches[d].env.msg
      BY <1>10, Written
    <2>2. e.msg \in Started'
      BY <1>3, <2>1, EnvelopeForm DEF Started, DispatchesOf
    <2>3. Ordered(queue', Started')
      BY <1>3, <2>1, <2>2 DEF Becomes, KeepsOrder
    <2>4. QueueFrom({e}) \/ QueueFrom({})
      BY <2>1 DEF Becomes
    <2> QED BY <1>5, <2>2, <2>3, <2>4
  <1>11. Goal
    BY <1>6, <1>7, <1>8, <1>9, <1>10 DEF CoreStep
  <1> QED BY <1>1, <1>11 DEF OrderInv, Stamped

\* A message stops waiting only at the head of the queue that is drained.
LEMMA FirstOut ==
    ASSUME CoreType, CoreFit, CoreStep, GhostInv, queue' \in Seq(Envelope), NEW m \in Msgs,
           Waiting(m), ~(m \notin Started' /\ NumberOf(queue', m) # 0)
    PROVE  /\ queue # <<>> /\ queue[1].msg = m /\ m \in Started'
           /\ LessOf(m)
  <1>0. /\ m \notin Started /\ NumberOf(queue, m) # 0 /\ NumberOf(queue, m) \in Nat
    BY CopiesAreCounted
  <1>1. m \in Started'
    BY <1>0, CopiesStay
  <1>2. ~UNCHANGED dispatches
    BY <1>0, <1>1 DEF Started, DispatchesOf
  <1>3. ~Silent /\ \A n \in Msgs : ~Deposits(n)
    BY <1>2 DEF Silent, queueVars, Deposits
  <1>4. ASSUME NEW e \in Envelope, NEW h \in Handlers, Begins(e, h) PROVE e.msg = m
    BY <1>0, <1>1, <1>4, BeginsEffect DEF Started, DispatchesOf
  <1>5. ASSUME NEW h \in Handlers, Drains(h)
        PROVE  queue # <<>> /\ queue[1].msg = m /\ LessOf(m)
    <2> DEFINE e == Moved(queue[1], "PROCESSING")
    <2>1. e \in Envelope /\ e.msg = queue[1].msg
      BY <1>5, Written DEF Drains
    <2>2. Begins(e, h)
      BY <1>2, <1>5 DEF Drains
    <2>3. queue[1].msg = m
      BY <1>4, <2>1, <2>2
    <2> QED BY <1>5, <2>3 DEF Drains
  <1>6. ASSUME NEW n \in Msgs, NEW h \in Handlers, Offers(n, h) PROVE FALSE
    <2> DEFINE e == Moved(Created(n, Len(sent')), "PROCESSING")
    <2>1. e \in Envelope /\ e.msg = n
      BY Written, DispatchesGrow, LenProperties
    <2>2. Begins(e, h)
      BY <1>6 DEF Offers
    <2>3. n = m
      BY <1>4, <2>1, <2>2
    <2>4. CASE Takes(m)
      BY <1>0, <2>4, NothingUntaken DEF Takes
    <2>5. CASE loop.kind = "publish" /\ m = loop.msg
      BY <1>0, <2>5 DEF GhostInv, Bounded
    <2> QED BY <1>6, <2>3, <2>4, <2>5 DEF Offers
  <1>7. ASSUME NEW d \in DOMAIN dispatches, Settles(d) PROVE FALSE
    <2>1. PICK e \in Envelope : Becomes(d, e) /\ e.msg = dispatches[d].env.msg
      BY <1>7, Written
    <2>2. DispatchesOf(m)' = DispatchesOf(m)
      BY <2>1, BecomesEffect DEF Becomes, DispatchesOf
    <2> QED BY <1>0, <1>1, <2>2 DEF Started
  <1> QED BY <1>1, <1>3, <1>5, <1>6, <1>7 DEF CoreStep

LEMMA OrderedDelivery ==
    ASSUME CoreType, CoreFit, CoreStep, GhostInv, OrderInv, queue' \in Seq(Envelope),
           NEW m \in Msgs, NEW n \in Msgs, Waiting(m), ~Waiting(m)', Waiting(n)'
    PROVE  \/ PriorityOf[m] > PriorityOf[n]
           \/ PriorityOf[m] = PriorityOf[n] /\ ~SentBefore(n, m)
  <1>1. ~(m \notin Started' /\ NumberOf(queue', m) # 0)
    BY CountType DEF Waiting, Started, Copies, NumberOf, PlacesOf
  <1>2. n \notin Started' /\ NumberOf(queue', n) # 0
    <2>1. DispatchesOf(n)' = {} /\ PlacesOf(queue', n) # {}
      BY DEF Waiting, Copies, PlacesOf
    <2> QED BY <2>1, CountType DEF Started
  <1>3. queue # <<>> /\ queue[1].msg = m /\ m \in Started' /\ LessOf(m)
    BY <1>1, FirstOut
  <1>4. n # m /\ n \notin Started /\ m \notin Started
    BY <1>2, <1>3, DispatchesGrow, CopiesAreCounted
  <1>5. NumberOf(queue, n) # 0
    <2>1. NumberOf(queue', n) = NumberOf(queue, n) - 0
      BY <1>3, <1>4 DEF LessOf
    <2>2. NumberOf(queue, n) \in Nat
      BY CopiesAreCounted
    <2> QED BY <1>2, <2>1, <2>2
  <1>6. PICK j \in DOMAIN queue : queue[j].msg = n
    BY <1>5, CountType DEF PlacesOf, CoreType
  <1>7. 1 \in DOMAIN queue /\ 1 < j
    BY <1>3, <1>4, <1>6, LenProperties, TailEffect DEF CoreType
  <1>8. ~Precedes(queue[j], queue[1])
    BY <1>3, <1>4, <1>6, <1>7 DEF OrderInv, Ordered
  <1> DEFINE a == queue[1].at  b == queue[j].at
  <1>9. /\ a \in DOMAIN sent /\ sent[a] = m /\ b \in DOMAIN sent /\ sent[b] = n
        /\ a \in Int /\ b \in Int
    BY <1>3, <1>4, <1>6, <1>7, CoreElements, EnvelopeForm DEF OrderInv
  <1>10. PriorityOf[m] \in Int /\ PriorityOf[n] \in Int
    BY MessagesAssumption
  <1>11. ~(PriorityOf[n] > PriorityOf[m]) /\ ~(PriorityOf[n] = PriorityOf[m] /\ b < a)
    BY <1>3, <1>6, <1>8 DEF Precedes
  <1>12. SentBefore(n, m) => b < a
    BY <1>9 DEF SentBefore, OrderInv
  <1> HIDE DEF a, b
  <1> QED BY <1>10, <1>11, <1>12

LEMMA OrderHolds == Spec => []OrderInv
  <1>1. Init => OrderInv
    BY DEF Init, OrderInv, Ordered
  <1>2. Inv /\ TableInv /\ OrderInv /\ [Next]_vars => OrderInv'
    <2> SUFFICES ASSUME Inv, TableInv, OrderInv, [Next]_vars PROVE OrderInv'
      OBVIOUS
    <2>1. CASE Next
      BY <2>1, InvStep, OrderStep
    <2>2. CASE UNCHANGED vars
      BY <2>2 DEF vars, queueVars, sendVars, OrderInv, Ordered, Started, DispatchesOf
    <2> QED BY <2>1, <2>2
  <1> QED BY <1>1, <1>2, InvHolds, PTL DEF Spec

\* Messages that waited for a subscriber are delivered by priority, and in the
\* order they were sent among equals: no drain, publish, retry or failed dispatch
\* in between moves one of them past another.
THEOREM DeliveredInOrder == Spec => BacklogInOrder
  <1>1. Inv /\ TableInv /\ GhostInv /\ OrderInv /\ [Next]_vars =>
           [\A m, n \in Msgs :
               Waiting(m) /\ ~Waiting(m)' /\ Waiting(n)' =>
                  \/ PriorityOf[m] > PriorityOf[n]
                  \/ PriorityOf[m] = PriorityOf[n] /\ ~SentBefore(n, m)]_vars
    BY InvStep, OrderedDelivery
  <1> QED BY <1>1, GhostsHold, OrderHolds, InvHolds, PTL DEF Spec, BacklogInOrder
=============================================================================
