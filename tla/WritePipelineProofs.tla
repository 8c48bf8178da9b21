------------------------ MODULE WritePipelineProofs ------------------------
(***************************************************************************)
(* The write path of the SDK does what WriteQueue promises, for any        *)
(* accounts and writes, any depth of the pipeline, and any number of       *)
(* failures, restarts and changes of the account.                          *)
(*                                                                         *)
(* The positions of everything in the queue follow from the ids: QueueInv  *)
(* says that ids ascend, that those at most lastAcked are the held ones,   *)
(* and that those at most lastBatchSeen are the ones in the pipeline.      *)
(* StreamOK says what is on its way in the RPC in every state of a stream. *)
(***************************************************************************)
EXTENDS WritePipeline, SequenceTheorems, WellFoundedInduction, TLAPS

Id == Nat \cup {kFSTBatchIDUnknown}

\* Ids ascend, and stay below the next one.
Ascending(q) == \A i, j \in DOMAIN q : i < j => q[i].id < q[j].id

QueuesOK ==
    \A u \in User :
        /\ Ascending(rows[u])
        /\ \A i \in DOMAIN rows[u] : rows[u][i].id < nextBatchID

\* A queue with acknowledged batches ends them with the one acknowledged last.
AckedOK ==
    \A u \in User :
        \/ \E i \in DOMAIN rows[u] : rows[u][i].id = lastAcked[u]
        \/ \A i \in DOMAIN rows[u] : lastAcked[u] < rows[u][i].id

\* p is in its place in the queue q, after n others.
InPlace(q, n, p) ==
    /\ n + Len(p) <= Len(q)
    /\ \A i \in 1..Len(p) : p[i] = q[n + i]

\* The acknowledged batches of the account are the held ones.
HeldOK ==
    /\ lastAcked[user] < nextBatchID
    /\ InPlace(rows[user], 0, held)
    /\ \A i \in DOMAIN rows[user] :
          rows[user][i].id <= lastAcked[user] <=> i <= Len(held)

\* A pipeline p fits into the queue q after n others: it is in its place there,
\* and the batches seen or acknowledged end where it ends.
Fits(q, next, n, p, acked, seen) ==
    /\ q \in Seq(Batch) /\ Ascending(q)
    /\ next \in Nat /\ \A i \in DOMAIN q : q[i].id < next
    /\ n \in Nat /\ p \in Seq(Batch)
    /\ InPlace(q, n, p) /\ Len(p) <= kMaxPendingWrites
    /\ acked \in Id /\ seen \in Id /\ seen < next
    /\ \A i \in DOMAIN q :
          (q[i].id <= seen \/ q[i].id <= acked) <=> i <= n + Len(p)

\* It leaves no room, or no batch.
Full(q, n, p) == Len(p) < kMaxPendingWrites => n + Len(p) = Len(q)

SeenOK ==
    /\ Fits(rows[user], nextBatchID, Len(held), pendingWrites, lastAcked[user],
            lastBatchSeen)
    /\ Full(rows[user], Len(held), pendingWrites)

\* A stream s with the pipeline p.
Stream ==
    [state : StreamState, handshakeComplete : BOOLEAN, idleTimer : BOOLEAN,
     requests : Seq(Request), responses : Seq(Response)]

Shaken(s) == s.state = "Open" /\ s.handshakeComplete

StreamOK(s, p) ==
    /\ s \in Stream
    /\ s.state # "Open" => s.requests = <<>> /\ s.responses = <<>> /\ ~s.idleTimer
    /\ isStarted(s) /\ s.handshakeComplete => s.state = "Open"
    /\ s.state = "Open" /\ ~s.handshakeComplete =>
          \/ s.requests = <<"handshake">> /\ s.responses = <<>>
          \/ s.requests = <<>> /\ s.responses = <<"handshake">>
    /\ Shaken(s) =>
          /\ Len(s.responses) + Len(s.requests) = Len(p)
          /\ \A i \in DOMAIN s.requests : s.requests[i] = p[Len(s.responses) + i].w
          /\ \A i \in DOMAIN s.responses : s.responses[i] # "handshake"
    /\ isStarted(s) /\ ~Shaken(s) => p # <<>>
    /\ s.idleTimer => p = <<>>

QueueInv ==
    TypeOK /\ QueuesOK /\ AckedOK /\ HeldOK /\ SeenOK /\ CompletionsMatch

StreamInv == StreamOK(stream, pendingWrites) /\ (pendingWrites # <<>> => isStarted(stream))

PipeInv == QueueInv /\ StreamInv

USE PipelineAssumption, WriteAssumption DEF kFSTBatchIDUnknown, Id

-----------------------------------------------------------------------------
(* Numbers and sequences.                                                  *)

\* A set of numbers that is not empty has a least one.
LEMMA LeastOf ==
    ASSUME NEW S, S \subseteq Nat, S # {}
    PROVE  \E x \in S : \A y \in S : x <= y
<1>1. PICK x \in S : \A y \in S : ~ (<<y, x>> \in OpToRel(<, Nat))
  BY NatLessThanWellFounded, WFMin
<1>2. \A y \in S : ~(y < x)
  BY <1>1 DEF OpToRel
<1>3. QED
  BY <1>2

\* A set of ids with a bound has a greatest one.
LEMMA MaxIs ==
    ASSUME NEW S, S \subseteq Id, S # {}, NEW n \in Nat, \A y \in S : y < n
    PROVE  Max(S) \in S /\ \A y \in S : y <= Max(S)
<1> DEFINE T == {k \in Nat : \E y \in S : k + y = n}
<1>1. T # {}
  <2>1. PICK y \in S : TRUE
    OBVIOUS
  <2>2. n - y \in Nat /\ (n - y) + y = n
    BY <2>1
  <2>3. QED
    BY <2>1, <2>2
<1>2. PICK k \in T : \A j \in T : k <= j
  <2>1. T \subseteq Nat
    OBVIOUS
  <2> HIDE DEF T
  <2>2. QED
    BY <1>1, <2>1, LeastOf
<1>3. PICK x \in S : k + x = n
  BY <1>2
<1>4. ASSUME NEW y \in S PROVE x >= y
  <2>1. n - y \in Nat /\ (n - y) + y = n
    OBVIOUS
  <2>2. n - y \in T
    BY <2>1
  <2>3. k <= n - y
    BY <1>2, <2>2
  <2>4. QED
    BY <1>2, <1>3, <2>3
<1>5. Max(S) \in S /\ \A y \in S : Max(S) >= y
  BY <1>3, <1>4 DEF Max
<1>6. QED
  BY <1>5

LEMMA MaxOfTwo ==
    ASSUME NEW a \in Int, NEW b \in Int
    PROVE  /\ Max({a, b}) \in {a, b}
           /\ a <= Max({a, b}) /\ b <= Max({a, b})
<1>1. \E x \in {a, b} : \A y \in {a, b} : x >= y
  <2>1. CASE a >= b
    BY <2>1
  <2>2. CASE b >= a
    BY <2>2
  <2>3. QED
    BY <2>1, <2>2
<1>2. Max({a, b}) \in {a, b} /\ \A y \in {a, b} : Max({a, b}) >= y
  BY <1>1 DEF Max
<1>3. QED
  BY <1>2

LEMMA MinOfTwo ==
    ASSUME NEW a \in Int, NEW b \in Int
    PROVE  /\ Min({a, b}) \in {a, b}
           /\ Min({a, b}) <= a /\ Min({a, b}) <= b
<1>1. \E x \in {a, b} : \A y \in {a, b} : x =< y
  <2>1. CASE a >= b
    BY <2>1
  <2>2. CASE b >= a
    BY <2>2
  <2>3. QED
    BY <2>1, <2>2
<1>2. Min({a, b}) \in {a, b} /\ \A y \in {a, b} : Min({a, b}) =< y
  BY <1>1 DEF Min
<1>3. QED
  BY <1>2

LEMMA BatchSeq ==
    ASSUME NEW q \in Seq(Batch)
    PROVE  /\ Len(q) \in Nat /\ DOMAIN q = 1..Len(q)
           /\ \A i \in 1..Len(q) : q[i] \in Batch /\ q[i].id \in Nat /\ q[i].w \in Write
<1>1. Len(q) \in Nat /\ DOMAIN q = 1..Len(q) /\ \A i \in 1..Len(q) : q[i] \in Batch
  BY LenProperties, ElementOfSeq
<1>2. \A b \in Batch : b.id \in Nat /\ b.w \in Write
  BY DEF Batch
<1>3. QED
  BY <1>1, <1>2

\* The parts of a concatenation.
LEMMA ConcatIs ==
    ASSUME NEW S, NEW a \in Seq(S), NEW b \in Seq(S)
    PROVE  /\ a \o b \in Seq(S) /\ Len(a \o b) = Len(a) + Len(b)
           /\ \A i \in 1..Len(a) : (a \o b)[i] = a[i]
           /\ \A i \in 1..Len(b) : (a \o b)[Len(a) + i] = b[i]
<1>1. /\ a \o b \in Seq(S) /\ Len(a \o b) = Len(a) + Len(b)
      /\ \A i \in 1..Len(a) + Len(b) :
            (a \o b)[i] = IF i <= Len(a) THEN a[i] ELSE b[i - Len(a)]
  BY ConcatProperties
<1>2. Len(a) \in Nat /\ Len(b) \in Nat
  BY LenProperties
<1>3. \A i \in 1..Len(a) : (a \o b)[i] = a[i]
  BY <1>1, <1>2
<1>4. \A i \in 1..Len(b) : (a \o b)[Len(a) + i] = b[i]
  <2> SUFFICES ASSUME NEW i \in 1..Len(b) PROVE (a \o b)[Len(a) + i] = b[i]
    OBVIOUS
  <2>1. /\ Len(a) + i \in 1..Len(a) + Len(b) /\ ~(Len(a) + i <= Len(a))
        /\ (Len(a) + i) - Len(a) = i
    BY <1>2
  <2>2. QED
    BY <1>1, <2>1
<1>5. QED
  BY <1>1, <1>3, <1>4

\* What is left of a queue after n batches.
LEMMA DropIs ==
    ASSUME NEW S, NEW q \in Seq(S), NEW n \in 0..Len(q)
    PROVE  LET r == SubSeq(q, n + 1, Len(q))
           IN  /\ r \in Seq(S) /\ Len(r) = Len(q) - n
               /\ \A i \in 1..(Len(q) - n) : r[i] = q[n + i]
<1>1. Len(q) \in Nat /\ \A i \in 1..Len(q) : q[i] \in S
  BY LenProperties, ElementOfSeq
<1>2. n \in Nat /\ n + 1 \in Int /\ Len(q) \in Int /\ \A i \in n + 1..Len(q) : q[i] \in S
  BY <1>1
<1>3. /\ SubSeq(q, n + 1, Len(q)) \in Seq(S)
      /\ Len(SubSeq(q, n + 1, Len(q))) =
            IF n + 1 <= Len(q) THEN Len(q) - (n + 1) + 1 ELSE 0
      /\ \A i \in 1..Len(q) - (n + 1) + 1 :
            SubSeq(q, n + 1, Len(q))[i] = q[(n + 1) + i - 1]
  BY <1>2, SubSeqProperties
<1>4. Len(q) - (n + 1) + 1 = Len(q) - n
  BY <1>1, <1>2
<1>5. ASSUME NEW i \in 1..(Len(q) - n)
      PROVE  SubSeq(q, n + 1, Len(q))[i] = q[n + i]
  <2>1. (n + 1) + i - 1 = n + i /\ i \in 1..Len(q) - (n + 1) + 1
    BY <1>2, <1>4
  <2>2. QED
    BY <1>3, <2>1, Zenon
<1>6. Len(SubSeq(q, n + 1, Len(q))) = Len(q) - n
  BY <1>1, <1>2, <1>3
<1>7. QED
  BY <1>3, <1>5, <1>6, Zenon

\* Through counts the batches up to an id.
LEMMA ThroughUnique ==
    ASSUME NEW q \in Seq(Batch), NEW b \in Id, NEW n \in 0..Len(q),
           \A i \in DOMAIN q : q[i].id <= b <=> i <= n
    PROVE  Through(q, b) = n
<1> DEFINE m == Through(q, b)
<1>1. m \in 0..Len(q) /\ \A i \in DOMAIN q : q[i].id <= b <=> i <= m
  BY DEF Through
<1> HIDE DEF m
<1>2. Len(q) \in Nat /\ DOMAIN q = 1..Len(q)
  BY BatchSeq
<1>3. \A i \in 1..Len(q) : i <= m <=> i <= n
  BY <1>1, <1>2
<1>4. m <= n
  <2>1. m = 0 \/ m \in 1..Len(q)
    BY <1>1, <1>2
  <2>2. QED
    BY <1>3, <2>1, <1>1
<1>5. n <= m
  <2>1. n = 0 \/ n \in 1..Len(q)
    BY <1>2
  <2>2. QED
    BY <1>3, <2>1, <1>1
<1>6. m = n
  BY <1>1, <1>2, <1>4, <1>5
<1>7. QED
  BY <1>6 DEF m

LEMMA ThroughIs ==
    ASSUME NEW q \in Seq(Batch), Ascending(q), NEW b \in Id
    PROVE  /\ Through(q, b) \in 0..Len(q)
           /\ \A i \in DOMAIN q : q[i].id <= b <=> i <= Through(q, b)
<1> DEFINE T == {i \in 1..Len(q) : b < q[i].id}
<1>1. /\ Len(q) \in Nat /\ DOMAIN q = 1..Len(q)
      /\ \A i \in 1..Len(q) : q[i].id \in Nat
  BY BatchSeq
<1>2. SUFFICES \E n \in 0..Len(q) : \A i \in DOMAIN q : q[i].id <= b <=> i <= n
  BY DEF Through
<1>3. CASE T = {}
  <2>1. \A i \in DOMAIN q : q[i].id <= b <=> i <= Len(q)
    BY <1>1, <1>3
  <2>2. Len(q) \in 0..Len(q)
    BY <1>1
  <2>3. QED
    BY <2>1, <2>2, Zenon
<1>4. CASE T # {}
  <2>1. PICK m \in T : \A j \in T : m <= j
    <3>1. T \subseteq Nat
      OBVIOUS
    <3> HIDE DEF T
    <3>2. QED
      BY <1>4, <3>1, LeastOf
  <2>2. m \in 1..Len(q) /\ b < q[m].id /\ \A i \in 1..Len(q) : b < q[i].id => m <= i
    BY <2>1
  <2>3. ASSUME NEW i \in DOMAIN q PROVE q[i].id <= b <=> i <= m - 1
    <3>i. i \in 1..Len(q)
      BY <1>1
    <3>1. CASE i < m
      <4>1. ~(b < q[i].id)
        BY <2>2, <3>i, <3>1
      <4>2. QED
        BY <1>1, <2>2, <3>i, <3>1, <4>1
    <3>2. CASE i >= m
      <4>1. q[m].id <= q[i].id
        <5>1. CASE i = m
          BY <1>1, <2>2, <5>1
        <5>2. CASE m < i
          BY <1>1, <2>2, <3>i, <5>2 DEF Ascending
        <5>3. QED
          BY <2>2, <3>i, <3>2, <5>1, <5>2
      <4>2. QED
        BY <1>1, <2>2, <3>i, <3>2, <4>1
    <3>3. QED
      BY <2>2, <3>i, <3>1, <3>2
  <2>4. m - 1 \in 0..Len(q)
    BY <1>1, <2>2
  <2>5. QED
    BY <2>3, <2>4, Zenon
<1>5. QED
  BY <1>3, <1>4

\* A batch is taken out at its own place.
LEMMA RemoveIs ==
    ASSUME NEW q \in Seq(Batch), Ascending(q), NEW k \in 1..Len(q)
    PROVE  LET r == removeMutationBatch(q, q[k].id)
           IN  /\ r \in Seq(Batch) /\ Len(r) = Len(q) - 1
               /\ \A i \in 1..(Len(q) - 1) : r[i] = IF i < k THEN q[i] ELSE q[i + 1]
<1> DEFINE a == SubSeq(q, 1, k - 1)
           b == SubSeq(q, k + 1, Len(q))
<1>1. /\ Len(q) \in Nat /\ DOMAIN q = 1..Len(q)
      /\ \A i \in 1..Len(q) : q[i] \in Batch /\ q[i].id \in Nat
  BY BatchSeq
<1>2. \A i \in DOMAIN q : q[i].id = q[k].id => i = k
  <2> SUFFICES ASSUME NEW i \in DOMAIN q, q[i].id = q[k].id, i # k PROVE FALSE
    OBVIOUS
  <2>1. i < k \/ k < i
    BY <1>1
  <2>2. q[i].id < q[k].id \/ q[k].id < q[i].id
    BY <1>1, <2>1 DEF Ascending
  <2>3. QED
    BY <1>1, <2>2
<1>3. removeMutationBatch(q, q[k].id) = a \o b
  <2>1. (CHOOSE i \in DOMAIN q : q[i].id = q[k].id) = k
    BY <1>1, <1>2
  <2>2. QED
    BY <2>1 DEF removeMutationBatch, RemoveAt
<1>4. a \in Seq(Batch) /\ Len(a) = k - 1 /\ \A i \in 1..(k - 1) : a[i] = q[i]
  <2>1. 1 \in Int /\ k - 1 \in Int /\ \A i \in 1..(k - 1) : q[i] \in Batch
    BY <1>1
  <2>2. /\ a \in Seq(Batch)
        /\ Len(a) = IF 1 <= k - 1 THEN (k - 1) - 1 + 1 ELSE 0
        /\ \A i \in 1..(k - 1) - 1 + 1 : a[i] = q[1 + i - 1]
    BY <2>1, SubSeqProperties
  <2>3. Len(a) = k - 1
    BY <2>2
  <2>4. ASSUME NEW i \in 1..(k - 1) PROVE a[i] = q[i]
    <3>1. i \in 1..(k - 1) - 1 + 1 /\ 1 + i - 1 = i
      OBVIOUS
    <3>2. QED
      BY <2>2, <3>1, Zenon
  <2>5. QED
    BY <2>2, <2>3, <2>4
<1>5. /\ b \in Seq(Batch) /\ Len(b) = Len(q) - k
      /\ \A i \in 1..(Len(q) - k) : b[i] = q[k + i]
  <2>1. k \in 0..Len(q)
    BY <1>1
  <2>2. QED
    BY <2>1, DropIs, Zenon
<1> HIDE DEF a, b
<1>6. /\ a \o b \in Seq(Batch) /\ Len(a \o b) = Len(a) + Len(b)
      /\ \A i \in 1..Len(a) + Len(b) :
            (a \o b)[i] = IF i <= Len(a) THEN a[i] ELSE b[i - Len(a)]
  BY <1>4, <1>5, ConcatProperties
<1>7. Len(a) + Len(b) = Len(q) - 1
  BY <1>1, <1>4, <1>5
<1>8. ASSUME NEW i \in 1..(Len(q) - 1)
      PROVE  (a \o b)[i] = IF i < k THEN q[i] ELSE q[i + 1]
  <2>1. CASE i < k
    <3>1. i <= Len(a) /\ i \in 1..(k - 1)
      BY <1>4, <2>1
    <3>2. QED
      BY <1>4, <1>6, <1>7, <2>1, <3>1
  <2>2. CASE ~(i < k)
    <3>1. ~(i <= Len(a)) /\ i - Len(a) \in 1..(Len(q) - k) /\ k + (i - Len(a)) = i + 1
      BY <1>1, <1>4, <2>2
    <3>2. QED
      BY <1>5, <1>6, <1>7, <2>2, <3>1
  <2>3. QED
    BY <2>1, <2>2
<1>9. QED
  BY <1>3, <1>6, <1>7, <1>8, Zenon

LEMMA WritesIs ==
    ASSUME NEW q \in Seq(Batch)
    PROVE  /\ Writes(q) \in Seq(Write) /\ Len(Writes(q)) = Len(q)
           /\ \A i \in 1..Len(q) : Writes(q)[i] = q[i].w
<1>1. /\ Len(q) \in Nat /\ DOMAIN q = 1..Len(q)
      /\ \A i \in 1..Len(q) : q[i].w \in Write
  BY BatchSeq
<1>2. Writes(q) = [i \in 1..Len(q) |-> q[i].w]
  BY <1>1 DEF Writes
<1>3. QED
  BY <1>1, <1>2

-----------------------------------------------------------------------------
(* Filling the pipeline.                                                   *)

SeenAfter(more, seen) == IF more = <<>> THEN seen ELSE Last(more).id

\* r is p followed by more.
Joins(r, p, more) ==
    /\ p \in Seq(Batch) /\ more \in Seq(Batch) /\ r \in Seq(Batch)
    /\ r = p \o more
    /\ Len(r) = Len(p) + Len(more)
    /\ \A i \in 1..Len(p) : r[i] = p[i]
    /\ \A i \in 1..Len(more) : r[Len(p) + i] = more[i]

\* A pipeline p that fits is filled with the batches that follow it, as many as
\* there are and as it has room for.
LEMMA FillIs ==
    ASSUME NEW q, NEW next, NEW n, NEW p, NEW acked, NEW seen,
           Fits(q, next, n, p, acked, seen),
           NEW more, more = nextBatches(q, acked, seen, p)
    PROVE  /\ Joins(p \o more, p, more)
           /\ Fits(q, next, n, p \o more, acked, SeenAfter(more, seen))
           /\ Full(q, n, p \o more)
<1>0. /\ q \in Seq(Batch) /\ Ascending(q) /\ next \in Nat
      /\ \A i \in DOMAIN q : q[i].id < next
      /\ n \in Nat /\ p \in Seq(Batch) /\ InPlace(q, n, p)
      /\ Len(p) <= kMaxPendingWrites /\ acked \in Id /\ seen \in Id /\ seen < next
      /\ \A i \in DOMAIN q :
            (q[i].id <= seen \/ q[i].id <= acked) <=> i <= n + Len(p)
  BY DEF Fits
<1> USE <1>0
<1> DEFINE k == kMaxPendingWrites
           m == n + Len(p)
           c == Max({seen, acked})
           z == Min({Len(q), m + k - Len(p)})
<1>1. /\ Len(q) \in Nat /\ DOMAIN q = 1..Len(q)
      /\ \A i \in 1..Len(q) : q[i] \in Batch /\ q[i].id \in Nat
  BY BatchSeq
<1>2. Len(p) \in Nat /\ m \in Nat /\ m <= Len(q)
  BY BatchSeq DEF InPlace
<1>3. c \in Id /\ seen <= c /\ acked <= c /\ (c = seen \/ c = acked)
  <2>1. seen \in Int /\ acked \in Int
    OBVIOUS
  <2>2. c \in {seen, acked} /\ seen <= c /\ acked <= c
    BY <2>1, MaxOfTwo
  <2> HIDE DEF c
  <2>3. c = seen \/ c = acked
    BY <2>2
  <2>4. QED
    BY <2>2, <2>3
<1>4. Through(q, c) = m
  <2> HIDE DEF c, m
  <2>1. \A i \in DOMAIN q : q[i].id <= c <=> (q[i].id <= seen \/ q[i].id <= acked)
    BY <1>1, <1>3
  <2>2. \A i \in DOMAIN q : q[i].id <= c <=> i <= m
    BY <2>1 DEF m
  <2>3. m \in 0..Len(q)
    BY <1>1, <1>2
  <2>4. QED
    BY <1>3, <2>2, <2>3, ThroughUnique
<1>5. /\ z \in Nat /\ m <= z /\ z <= Len(q) /\ z <= m + k - Len(p)
      /\ z = Len(q) \/ z = m + k - Len(p)
  <2>1. Len(q) \in Int /\ m + k - Len(p) \in Int /\ m <= m + k - Len(p)
    BY <1>1, <1>2
  <2> HIDE DEF m, k
  <2>2. z \in {Len(q), m + k - Len(p)} /\ z <= Len(q) /\ z <= m + k - Len(p)
    BY <2>1, MinOfTwo
  <2>3. QED
    BY <1>1, <1>2, <2>1, <2>2
<1>6. more = SubSeq(q, m + 1, z)
  <2>1. more = SubSeq(q, Through(q, c) + 1, Min({Len(q), Through(q, c) + k - Len(p)}))
    BY DEF nextBatches
  <2> HIDE DEF m, c
  <2>2. QED
    BY <1>4, <2>1 DEF z
<1> HIDE DEF m, z, c, k
<1>7. /\ more \in Seq(Batch) /\ Len(more) = z - m
      /\ \A i \in 1..Len(more) : more[i] = q[m + i]
  <2>1. m + 1 \in Int /\ z \in Int /\ \A i \in m + 1..z : q[i] \in Batch
    <3>1. m \in Nat /\ z \in Nat /\ z <= Len(q) /\ Len(q) \in Nat
      BY <1>1, <1>2, <1>5
    <3>2. \A i \in m + 1..z : i \in 1..Len(q)
      BY ONLY <3>1
    <3>3. QED
      BY <1>1, <3>1, <3>2
  <2>2. /\ more \in Seq(Batch)
        /\ Len(more) = IF m + 1 <= z THEN z - (m + 1) + 1 ELSE 0
        /\ \A i \in 1..z - (m + 1) + 1 : more[i] = q[(m + 1) + i - 1]
    <3>1. PICK a : a = m + 1
      OBVIOUS
    <3>2. a \in Int /\ z \in Int /\ \A i \in a..z : q[i] \in Batch
      BY <2>1, <3>1
    <3>3. /\ SubSeq(q, a, z) \in Seq(Batch)
          /\ Len(SubSeq(q, a, z)) = IF a <= z THEN z - a + 1 ELSE 0
          /\ \A i \in 1..z - a + 1 : SubSeq(q, a, z)[i] = q[a + i - 1]
      BY <3>2, SubSeqProperties
    <3>4. more = SubSeq(q, a, z)
      BY <1>6, <3>1
    <3>5. QED
      BY ONLY <3>1, <3>3, <3>4
  <2>3. Len(more) = z - m
    BY <1>2, <1>5, <2>2
  <2>4. ASSUME NEW i \in 1..Len(more) PROVE more[i] = q[m + i]
    <3>1. i \in 1..z - (m + 1) + 1 /\ (m + 1) + i - 1 = m + i
      BY <1>2, <1>5, <2>3
    <3>2. QED
      BY <2>2, <3>1, Zenon
  <2>5. QED
    BY <2>2, <2>3, <2>4
<1>8. /\ p \o more \in Seq(Batch) /\ Len(p \o more) = Len(p) + Len(more)
      /\ \A i \in 1..Len(p) + Len(more) :
            (p \o more)[i] = IF i <= Len(p) THEN p[i] ELSE more[i - Len(p)]
  BY <1>7, ConcatProperties
<1>9. n + Len(p \o more) = z
  BY <1>2, <1>5, <1>7, <1>8 DEF m
<1>10. \A i \in 1..Len(p) : (p \o more)[i] = p[i]
  BY <1>2, <1>5, <1>7, <1>8
<1>11. \A i \in 1..Len(more) : (p \o more)[Len(p) + i] = more[i]
  <2> SUFFICES ASSUME NEW i \in 1..Len(more) PROVE (p \o more)[Len(p) + i] = more[i]
    OBVIOUS
  <2>1. /\ Len(p) + i \in 1..Len(p) + Len(more) /\ ~(Len(p) + i <= Len(p))
        /\ (Len(p) + i) - Len(p) = i
    BY <1>2, <1>5, <1>7
  <2>2. QED
    BY <1>8, <2>1
<1>12. InPlace(q, n, p \o more)
  <2>1. ASSUME NEW i \in 1..Len(p \o more) PROVE (p \o more)[i] = q[n + i]
    <3>1. CASE i <= Len(p)
      <4>1. i \in 1..Len(p)
        BY <1>2, <3>1
      <4>2. QED
        BY <1>10, <4>1 DEF InPlace
    <3>2. CASE ~(i <= Len(p))
      <4>1. i - Len(p) \in 1..Len(more) /\ m + (i - Len(p)) = n + i
        BY <1>2, <1>5, <1>7, <1>8, <3>2 DEF m
      <4>2. i \in 1..Len(p) + Len(more)
        BY <1>8
      <4>3. QED
        BY <1>7, <1>8, <3>2, <4>1, <4>2
    <3>3. QED
      BY <3>1, <3>2
  <2>2. QED
    BY <1>5, <1>9, <2>1 DEF InPlace
<1>13. Len(p \o more) <= k
  BY <1>2, <1>5, <1>9 DEF m, k
<1>14. Len(p \o more) < k => n + Len(p \o more) = Len(q)
  BY <1>2, <1>5, <1>9 DEF m, k
<1>15. /\ SeenAfter(more, seen) \in Id /\ SeenAfter(more, seen) < next
       /\ \A i \in DOMAIN q :
             (q[i].id <= SeenAfter(more, seen) \/ q[i].id <= acked) <=> i <= z
  <2>1. CASE more = <<>>
    <3>1. z = m
      BY <1>2, <1>5, <1>7, <2>1
    <3>2. SeenAfter(more, seen) = seen
      BY <2>1 DEF SeenAfter
    <3>3. QED
      BY <3>1, <3>2 DEF m
  <2>2. CASE more # <<>>
    <3>1. m < z /\ Len(more) \in 1..Len(more) /\ m + Len(more) = z
      <4>1. Len(more) # 0
        BY <1>7, <2>2, EmptySeq
      <4>2. QED
        BY <1>2, <1>5, <1>7, <4>1
    <3>2. SeenAfter(more, seen) = q[z].id
      BY <1>7, <2>2, <3>1 DEF SeenAfter, Last
    <3>3. z \in 1..Len(q)
      <4>1. m \in Nat /\ z \in Nat /\ z <= Len(q) /\ Len(q) \in Nat /\ m < z
        BY <1>1, <1>2, <1>5, <3>1
      <4>2. QED
        BY ONLY <4>1
    <3>4. ASSUME NEW i \in DOMAIN q
          PROVE  (q[i].id <= q[z].id \/ q[i].id <= acked) <=> i <= z
      <4>i. i \in 1..Len(q) /\ i \in Int
        BY <1>1
      <4>1. CASE i <= z
        <5>1. i = z \/ i < z
          BY <1>5, <4>i, <4>1
        <5>2. q[i].id <= q[z].id
          <6>1. q[i].id \in Nat /\ q[z].id \in Nat
            BY <1>1, <3>3, <4>i
          <6>2. i < z => q[i].id < q[z].id
            BY <1>1, <3>3, <4>i DEF Ascending
          <6>3. QED
            BY <5>1, <6>1, <6>2
        <5>3. QED
          BY <4>1, <5>2
      <4>2. CASE ~(i <= z)
        <5>1. z < i /\ ~(i <= m)
          BY <1>2, <1>5, <4>i, <4>2
        <5>2. ~(q[i].id <= acked)
          BY <5>1 DEF m
        <5>3. q[z].id < q[i].id
          BY <1>1, <3>3, <4>i, <5>1 DEF Ascending
        <5>4. ~(q[i].id <= q[z].id)
          BY <1>1, <3>3, <4>i, <5>3
        <5>5. QED
          BY <4>2, <5>2, <5>4
      <4>3. QED
        BY <4>1, <4>2
    <3>5. q[z].id \in Id /\ q[z].id < next
      BY <1>1, <3>3
    <3>6. QED
      BY <3>2, <3>4, <3>5
  <2>3. QED
    BY <2>1, <2>2
<1>16. Joins(p \o more, p, more)
  BY <1>7, <1>8, <1>10, <1>11 DEF Joins
<1>17. Fits(q, next, n, p \o more, acked, SeenAfter(more, seen))
  <2>1. \A i \in DOMAIN q :
           (q[i].id <= SeenAfter(more, seen) \/ q[i].id <= acked)
              <=> i <= n + Len(p \o more)
    BY <1>9, <1>15
  <2>2. QED
    BY <1>8, <1>12, <1>13, <1>15, <2>1, Zenon DEF Fits, k
<1>18. Full(q, n, p \o more)
  BY <1>14 DEF Full, k
<1>19. QED
  BY <1>16, <1>17, <1>18

-----------------------------------------------------------------------------
(* The stream.                                                             *)

\* The answers on their way after the handshake.
RespOf(s) ==
    IF s.handshakeComplete
    THEN [i \in DOMAIN s.responses |-> s.responses[i] = "ok"]
    ELSE <<>>

SameResp(s, t) == RespOf(s) = RespOf(t)

LEMMA RespEmpty ==
    ASSUME NEW s, s.responses = <<>> \/ ~s.handshakeComplete
    PROVE  RespOf(s) = <<>>
<1>1. DOMAIN (<<>>) = {}
  OBVIOUS
<1>2. [i \in {} |-> s.responses[i] = "ok"] = <<>>
  BY <1>1
<1>3. QED
  BY <1>1, <1>2 DEF RespOf

LEMMA StreamElim ==
    ASSUME NEW s \in Stream
    PROVE  /\ s.state \in StreamState /\ s.handshakeComplete \in BOOLEAN
           /\ s.idleTimer \in BOOLEAN
           /\ s.requests \in Seq(Request) /\ s.responses \in Seq(Response)
           /\ s = [state |-> s.state, handshakeComplete |-> s.handshakeComplete,
                   idleTimer |-> s.idleTimer, requests |-> s.requests,
                   responses |-> s.responses]
BY DEF Stream

\* A new stream, and a closed one, go with any pipeline.
LEMMA NewStreamIs ==
    ASSUME NEW p
    PROVE  StreamOK(NewStream, p)
<1>1. NewStream \in Stream
  BY EmptySeq DEF NewStream, Stream, StreamState
<1>2. QED
  BY <1>1 DEF NewStream, StreamOK, isStarted, Shaken

LEMMA CloseIs ==
    ASSUME NEW s \in Stream, NEW f \in {"Initial", "Error"}, NEW p
    PROVE  /\ StreamOK(closeWithFinalState(s, f), p)
           /\ closeWithFinalState(s, f).responses = <<>>
<1> DEFINE c == closeWithFinalState(s, f)
<1>1. c = [s EXCEPT !.state = f, !.idleTimer = FALSE,
                    !.requests = <<>>, !.responses = <<>>]
  BY DEF closeWithFinalState
<1>2. c \in Stream
  BY <1>1, EmptySeq DEF Stream, StreamState
<1>3. /\ c.state = f /\ c.idleTimer = FALSE /\ c.requests = <<>> /\ c.responses = <<>>
      /\ f # "Open" /\ f \notin {"Backoff", "Auth", "Open"}
  BY <1>1 DEF Stream
<1> HIDE DEF c
<1>4. StreamOK(c, p)
  BY <1>2, <1>3 DEF StreamOK, isStarted, Shaken
<1>5. QED
  BY <1>3, <1>4 DEF c

\* Starting a stream that is not open.
LEMMA StartIs ==
    ASSUME NEW s, NEW r, StreamOK(s, r), s.state # "Open", NEW p, p # <<>>
    PROVE  /\ StreamOK(startWithDelegate(s), p) /\ isStarted(startWithDelegate(s))
           /\ RespOf(startWithDelegate(s)) = <<>> /\ RespOf(s) = <<>>
<1> DEFINE c == startWithDelegate(s)
           st == IF s.state = "Error" THEN "Backoff" ELSE "Auth"
<1>1. s \in Stream /\ s.requests = <<>> /\ s.responses = <<>> /\ ~s.idleTimer
  BY DEF StreamOK
<1>2. c = [s EXCEPT !.state = st, !.handshakeComplete = FALSE]
  BY DEF startWithDelegate
<1>3. c \in Stream
  BY <1>1, <1>2 DEF Stream, StreamState
<1>4. /\ c.state \in {"Backoff", "Auth"} /\ c.idleTimer = s.idleTimer
      /\ c.requests = <<>> /\ c.responses = <<>> /\ c.handshakeComplete = FALSE
  BY <1>1, <1>2 DEF Stream
<1> HIDE DEF c
<1>5. StreamOK(c, p) /\ isStarted(c)
  BY <1>3, <1>4 DEF StreamOK, isStarted, Shaken
<1>6. RespOf(c) = <<>> /\ RespOf(s) = <<>>
  BY <1>1, <1>4, RespEmpty
<1>7. QED
  BY <1>5, <1>6 DEF c

\* A stream that is closed while something is pending starts again.
LEMMA RestartIs ==
    ASSUME NEW s, NEW p \in Seq(Batch), StreamOK(s, p), NEW t,
           t = restartWriteStream(s, p)
    PROVE  /\ StreamOK(t, p) /\ (p # <<>> => isStarted(t)) /\ RespOf(t) = RespOf(s)
<1>1. CASE ~isStarted(s) /\ p # <<>>
  <2>1. s.state # "Open" /\ t = startWithDelegate(s)
    BY <1>1 DEF isStarted, restartWriteStream
  <2>2. QED
    BY <1>1, <2>1, StartIs
<1>2. CASE ~(~isStarted(s) /\ p # <<>>)
  BY <1>2 DEF restartWriteStream
<1>3. QED
  BY <1>1, <1>2

\* More requests on a stream that has shaken hands.
LEMMA RequestsIs ==
    ASSUME NEW s, NEW p \in Seq(Batch), StreamOK(s, p), Shaken(s),
           NEW more \in Seq(Batch), more # <<>>, NEW r \in Seq(Batch),
           Len(r) = Len(p) + Len(more),
           \A i \in 1..Len(p) : r[i] = p[i],
           \A i \in 1..Len(more) : r[Len(p) + i] = more[i]
    PROVE  /\ StreamOK(writeRequests(s, Writes(more)), r)
           /\ isStarted(writeRequests(s, Writes(more)))
           /\ RespOf(writeRequests(s, Writes(more))) = RespOf(s)
<1> DEFINE c == writeRequests(s, Writes(more))
           old == s.requests
           q == old \o Writes(more)
           n == Len(s.responses)
<1>1. s \in Stream /\ s.requests \in Seq(Request) /\ s.responses \in Seq(Response)
  BY StreamElim DEF StreamOK
<1>2. /\ Writes(more) \in Seq(Request) /\ Len(Writes(more)) = Len(more)
      /\ \A i \in 1..Len(more) : Writes(more)[i] = more[i].w
  <2>1. Write \subseteq Request
    BY DEF Request
  <2>2. Writes(more) \in Seq(Write)
    BY WritesIs
  <2>3. Writes(more) \in Seq(Request)
    BY <2>1, <2>2, SeqMonotonic
  <2>4. QED
    BY <2>3, WritesIs
<1>3. /\ q \in Seq(Request) /\ Len(q) = Len(old) + Len(more)
      /\ \A i \in 1..Len(old) : q[i] = old[i]
      /\ \A i \in 1..Len(more) : q[Len(old) + i] = Writes(more)[i]
  <2>1. old \in Seq(Request)
    BY <1>1
  <2>2. \A a, b \in Seq(Request) :
           /\ a \o b \in Seq(Request) /\ Len(a \o b) = Len(a) + Len(b)
           /\ \A i \in 1..Len(a) : (a \o b)[i] = a[i]
           /\ \A i \in 1..Len(b) : (a \o b)[Len(a) + i] = b[i]
    BY ConcatIs
  <2>3. Len(Writes(more)) = Len(more) /\ Writes(more) \in Seq(Request)
    BY <1>2
  <2> HIDE DEF old
  <2>4. /\ old \o Writes(more) \in Seq(Request)
        /\ Len(old \o Writes(more)) = Len(old) + Len(Writes(more))
        /\ \A i \in 1..Len(old) : (old \o Writes(more))[i] = old[i]
        /\ \A i \in 1..Len(Writes(more)) :
              (old \o Writes(more))[Len(old) + i] = Writes(more)[i]
    BY <2>1, <2>2, <2>3, Zenon
  <2>5. QED
    BY <2>3, <2>4, Zenon
<1>4. /\ Len(old) \in Nat /\ n \in Nat /\ Len(more) \in Nat /\ Len(p) \in Nat
      /\ n + Len(old) = Len(p) /\ DOMAIN old = 1..Len(old)
      /\ \A i \in 1..Len(old) : old[i] = p[n + i].w
      /\ \A i \in DOMAIN s.responses : s.responses[i] # "handshake"
  <2>1. /\ Len(old) \in Nat /\ n \in Nat /\ Len(more) \in Nat /\ Len(p) \in Nat
        /\ DOMAIN old = 1..Len(old)
    BY <1>1, LenProperties
  <2>2. QED
    BY <2>1 DEF StreamOK
<1>5. c = [s EXCEPT !.requests = q, !.idleTimer = FALSE]
  BY DEF writeRequests
<1> HIDE DEF q
<1>6. /\ c \in Stream /\ c.state = "Open" /\ c.handshakeComplete /\ c.idleTimer = FALSE
      /\ c.requests = q /\ c.responses = s.responses
  BY <1>1, <1>3, <1>5 DEF Stream, Shaken
<1> HIDE DEF c, n, old
<1>7. ASSUME NEW i \in 1..Len(q) PROVE q[i] = r[n + i].w
  <2>1. /\ Len(old) \in Nat /\ n \in Nat /\ Len(more) \in Nat /\ Len(p) \in Nat
        /\ n + Len(old) = Len(p) /\ Len(q) = Len(old) + Len(more)
    BY <1>3, <1>4
  <2>2. CASE i <= Len(old)
    <3>1. i \in 1..Len(old) /\ n + i \in 1..Len(p)
      BY <2>1, <2>2
    <3>2. QED
      BY <1>3, <1>4, <3>1
  <2>3. CASE ~(i <= Len(old))
    <3>1. PICK j \in 1..Len(more) : i = Len(old) + j
      <4>1. i - Len(old) \in 1..Len(more) /\ i = Len(old) + (i - Len(old))
        BY ONLY <2>1, <2>3, i \in 1..Len(q)
      <4>2. QED
        BY <4>1
    <3>2. n + i = Len(p) + j
      BY ONLY <2>1, <3>1
    <3>3. q[i] = Writes(more)[j] /\ r[n + i] = more[j]
      BY <1>3, <3>1, <3>2
    <3>4. QED
      BY <1>2, <3>1, <3>3
  <2>4. QED
    BY <2>2, <2>3
<1>8. DOMAIN q = 1..Len(q) /\ Len(q) \in Nat
  BY <1>3, LenProperties
<1>9. n + Len(q) = Len(r)
  <2>1. /\ Len(old) \in Nat /\ n \in Nat /\ Len(more) \in Nat /\ Len(p) \in Nat
        /\ n + Len(old) = Len(p) /\ Len(q) = Len(old) + Len(more)
        /\ Len(r) = Len(p) + Len(more)
    BY <1>3, <1>4
  <2>2. QED
    BY ONLY <2>1
<1>10. StreamOK(c, r)
  <2>1. \A i \in DOMAIN c.requests : c.requests[i] = r[Len(c.responses) + i].w
    BY <1>6, <1>7, <1>8 DEF n
  <2>2. Len(c.responses) + Len(c.requests) = Len(r)
    BY <1>6, <1>9 DEF n
  <2>3. \A i \in DOMAIN c.responses : c.responses[i] # "handshake"
    BY <1>4, <1>6
  <2>4. Shaken(c) /\ ~c.idleTimer
    BY <1>6 DEF Shaken
  <2>5. QED
    BY <1>6, <2>1, <2>2, <2>3, <2>4, Zenon DEF StreamOK
<1>11. isStarted(c)
  BY <1>6 DEF isStarted
<1>12. RespOf(c) = RespOf(s)
  BY <1>6 DEF RespOf, Shaken
<1>13. QED
  BY <1>10, <1>11, <1>12 DEF c

\* commitBatch for what joins the pipeline keeps the stream in step with it.
LEMMA CommitIs ==
    ASSUME NEW s, NEW p, StreamOK(s, p), NEW r, NEW more, Joins(r, p, more),
           NEW t, t = commitBatches(s, more, p)
    PROVE  /\ StreamOK(t, r) /\ RespOf(t) = RespOf(s)
           /\ (p # <<>> => isStarted(s)) => (r # <<>> => isStarted(t))
           /\ more = <<>> /\ p # <<>> => t = s
<1>0. /\ p \in Seq(Batch) /\ more \in Seq(Batch) /\ r \in Seq(Batch)
      /\ r = p \o more /\ Len(r) = Len(p) + Len(more)
      /\ \A i \in 1..Len(p) : r[i] = p[i]
      /\ \A i \in 1..Len(more) : r[Len(p) + i] = more[i]
  BY DEF Joins
<1> USE <1>0
<1>1. CASE more # <<>>
  <2>1. r # <<>>
    <3>1. Len(more) \in Nat /\ Len(more) # 0 /\ Len(p) \in Nat
      BY <1>1, EmptySeq, LenProperties
    <3>2. Len(r) # 0
      BY <3>1
    <3>3. QED
      BY <3>2, EmptySeq
  <2>2. CASE ~isStarted(s)
    <3>1. s.state # "Open" /\ t = startWithDelegate(s)
      BY <1>1, <2>2 DEF isStarted, commitBatches
    <3>2. QED
      BY <1>1, <2>1, <3>1, StartIs
  <2>3. CASE isStarted(s) /\ s.handshakeComplete
    <3>1. Shaken(s) /\ t = writeRequests(s, Writes(more))
      BY <1>1, <2>3 DEF Shaken, StreamOK, commitBatches
    <3>2. /\ StreamOK(writeRequests(s, Writes(more)), r)
          /\ isStarted(writeRequests(s, Writes(more)))
          /\ RespOf(writeRequests(s, Writes(more))) = RespOf(s)
      <4>1. Shaken(s)
        BY <3>1
      <4>2. QED
        BY <1>1, <4>1, RequestsIs
    <3>3. QED
      BY <1>1, <3>1, <3>2
  <2>4. CASE isStarted(s) /\ ~s.handshakeComplete
    <3>1. t = s /\ ~Shaken(s) /\ p # <<>>
      BY <1>1, <2>4 DEF StreamOK, Shaken, commitBatches
    <3>2. StreamOK(s, r)
      BY <2>1, <2>4, <3>1 DEF StreamOK
    <3>3. QED
      BY <1>1, <2>4, <3>1, <3>2
  <2>5. QED
    BY <2>2, <2>3, <2>4
<1>2. CASE more = <<>> /\ p # <<>>
  <2>1. t = s /\ r = p
    BY <1>2, ConcatEmptySeq DEF commitBatches
  <2>2. QED
    BY <1>2, <2>1
<1>3. CASE more = <<>> /\ p = <<>>
  <2>1. t = markIdle(s) /\ r = p
    BY <1>3, ConcatEmptySeq DEF commitBatches
  <2>2. s \in Stream
    BY DEF StreamOK
  <2>3. s.state = "Open" => Shaken(s)
    BY <1>3 DEF StreamOK, isStarted, Shaken
  <2>4. s.state # "Open" => t = s
    <3> SUFFICES ASSUME s.state # "Open" PROVE t = s
      OBVIOUS
    <3>1. (s.idleTimer \/ s.state = "Open") = s.idleTimer
      BY <2>2, StreamElim
    <3>2. QED
      BY <2>1, <2>2, <3>1, StreamElim DEF markIdle
  <2>5. CASE s.state # "Open"
    BY <1>3, <2>1, <2>4, <2>5
  <2>6. CASE s.state = "Open"
    <3>1. t = [s EXCEPT !.idleTimer = TRUE]
      <4>1. (s.idleTimer \/ s.state = "Open") = TRUE
        BY <2>6
      <4>2. QED
        BY <2>1, <4>1 DEF markIdle
    <3>3. /\ t \in Stream /\ t.state = s.state /\ t.requests = s.requests
          /\ t.handshakeComplete = s.handshakeComplete /\ t.responses = s.responses
      BY <2>2, <3>1 DEF Stream
    <3>4. StreamOK(t, r)
      <4>1. Shaken(t) /\ Shaken(s)
        BY <2>3, <2>6, <3>3 DEF Shaken
      <4>2. t.state = "Open" /\ t.handshakeComplete
        BY <4>1 DEF Shaken
      <4>3. /\ Len(t.responses) + Len(t.requests) = Len(r)
            /\ \A i \in DOMAIN t.requests : t.requests[i] = r[Len(t.responses) + i].w
            /\ \A i \in DOMAIN t.responses : t.responses[i] # "handshake"
        BY <2>1, <3>3, <4>1 DEF StreamOK
      <4>4. QED
        BY <1>3, <2>1, <3>3, <4>1, <4>2, <4>3, Zenon DEF StreamOK
    <3>5. RespOf(t) = RespOf(s)
      BY <3>3 DEF RespOf
    <3>6. QED
      BY <1>3, <2>1, <3>4, <3>5
  <2>7. QED
    BY <2>5, <2>6
<1>4. QED
  BY <1>1, <1>2, <1>3

-----------------------------------------------------------------------------
(* The queue.                                                              *)

\* What TypeOK says of the queue, as the proofs below use it.
LEMMA TypeElim ==
    ASSUME TypeOK
    PROVE  /\ user \in User /\ nextBatchID \in Nat /\ lastBatchSeen \in Id
           /\ rows \in [User -> Seq(Batch)] /\ lastAcked \in [User -> Id]
           /\ completion \in [User -> SUBSET Batch]
           /\ held \in Seq(Batch) /\ pendingWrites \in Seq(Batch)
           /\ \A u \in User : /\ rows[u] \in Seq(Batch) /\ lastAcked[u] \in Id
                              /\ Len(rows[u]) \in Nat
                              /\ DOMAIN rows[u] = 1..Len(rows[u])
           /\ Len(held) \in Nat /\ Len(pendingWrites) \in Nat
<1>1. /\ user \in User /\ nextBatchID \in Nat /\ lastBatchSeen \in Id
      /\ rows \in [User -> Seq(Batch)] /\ lastAcked \in [User -> Id]
      /\ completion \in [User -> SUBSET Batch]
      /\ held \in Seq(Batch) /\ pendingWrites \in Seq(Batch)
  BY DEF TypeOK
<1>2. \A u \in User : rows[u] \in Seq(Batch) /\ lastAcked[u] \in Id
  BY <1>1
<1>3. \A u \in User : Len(rows[u]) \in Nat /\ DOMAIN rows[u] = 1..Len(rows[u])
  BY <1>2, LenProperties
<1>4. Len(held) \in Nat /\ Len(pendingWrites) \in Nat
  BY <1>1, LenProperties
<1>5. QED
  BY <1>1, <1>2, <1>3, <1>4

\* The batches after those up to an id.
LEMMA UnackOf ==
    ASSUME NEW q \in Seq(Batch), NEW b \in Id, NEW n \in 0..Len(q),
           \A i \in DOMAIN q : q[i].id <= b <=> i <= n
    PROVE  LET r == SubSeq(q, Through(q, b) + 1, Len(q))
           IN  /\ r \in Seq(Batch) /\ Len(r) = Len(q) - n
               /\ \A i \in 1..(Len(q) - n) : r[i] = q[n + i]
<1>1. Through(q, b) = n
  BY ThroughUnique
<1>2. QED
  BY <1>1, DropIs, Zenon

\* The next id is above all ids in use.
LEMMA LoadNextIs ==
    ASSUME TypeOK, QueuesOK
    PROVE  /\ loadNextBatchIDFromDB \in Nat
           /\ \A u \in User : \A i \in DOMAIN rows[u] :
                 rows[u][i].id < loadNextBatchIDFromDB
<1> DEFINE S == BatchIDs \cup {kFSTBatchIDUnknown}
<1>1. \A u \in User : \A i \in DOMAIN rows[u] :
         rows[u][i].id \in Nat /\ rows[u][i].id < nextBatchID
  <2>1. \A u \in User : rows[u] \in Seq(Batch)
    BY TypeElim
  <2>2. QED
    BY <2>1, BatchSeq DEF QueuesOK
<1>2. nextBatchID \in Nat
  BY TypeElim
<1>3. \A x \in BatchIDs : x \in Nat /\ x < nextBatchID
  BY <1>1 DEF BatchIDs
<1>4. S \subseteq Id /\ S # {} /\ \A y \in S : y < nextBatchID
  BY <1>2, <1>3
<1> HIDE DEF S
<1>5. Max(S) \in S /\ \A y \in S : y <= Max(S)
  BY <1>2, <1>4, MaxIs
<1>6. Max(S) \in Id /\ 1 + Max(S) \in Nat
  <2>1. Max(S) \in Id
    BY <1>4, <1>5, Zenon
  <2>2. \A x \in Id : 1 + x \in Nat
    OBVIOUS
  <2>3. QED
    BY <2>1, <2>2, Zenon
<1>7. loadNextBatchIDFromDB = 1 + Max(S)
  BY DEF loadNextBatchIDFromDB, S
<1>8. ASSUME NEW u \in User, NEW i \in DOMAIN rows[u]
      PROVE  rows[u][i].id < 1 + Max(S)
  <2>1. rows[u][i].id \in S
    BY DEF S, BatchIDs
  <2>2. rows[u][i].id <= Max(S) /\ rows[u][i].id \in Nat
    BY <1>1, <1>5, <2>1
  <2>3. QED
    BY <1>6, <2>2
<1>9. QED
  BY <1>6, <1>7, <1>8

\* What start makes of the id acknowledged last; it resets the one of an empty
\* queue only.
LEMMA AckedAtStartIs ==
    ASSUME TypeOK, QueuesOK, AckedOK, NEW u \in User
    PROVE  /\ ackedAtStart(u) \in Id /\ ackedAtStart(u) < loadNextBatchIDFromDB
           /\ lastAcked[u] >= loadNextBatchIDFromDB => rows[u] = <<>>
           /\ ackedAtStart(u) = lastAcked[u] \/ rows[u] = <<>>
           /\ ackedAtStart(u) <= lastAcked[u]
<1> DEFINE N == loadNextBatchIDFromDB
           q == rows[u]
<1>1. N \in Nat /\ \A i \in DOMAIN q : q[i].id < N
  BY LoadNextIs
<1>2. lastAcked[u] \in Id /\ q \in Seq(Batch)
  BY TypeElim
<1>3. DOMAIN q = 1..Len(q) /\ Len(q) \in Nat /\ \A i \in 1..Len(q) : q[i].id \in Nat
  BY <1>2, BatchSeq
<1>4. ASSUME lastAcked[u] >= N, q # <<>> PROVE FALSE
  <2>1. 1 \in 1..Len(q)
    BY <1>2, <1>3, <1>4, EmptySeq
  <2>2. \A i \in 1..Len(q) : q[i].id < lastAcked[u]
    BY <1>1, <1>2, <1>3, <1>4
  <2>3. \/ \E i \in 1..Len(q) : q[i].id = lastAcked[u]
        \/ \A i \in 1..Len(q) : lastAcked[u] < q[i].id
    BY <1>3 DEF AckedOK
  <2> HIDE DEF q
  <2>4. QED
    BY <1>2, <1>3, <2>1, <2>2, <2>3
<1> HIDE DEF N, q
<1>5. ackedAtStart(u) = IF lastAcked[u] >= N THEN -1 ELSE lastAcked[u]
  BY DEF ackedAtStart, N
<1>6. CASE lastAcked[u] >= N
  BY <1>1, <1>2, <1>4, <1>5, <1>6 DEF N, q
<1>7. CASE ~(lastAcked[u] >= N)
  BY <1>1, <1>2, <1>5, <1>7 DEF N, q
<1>8. QED
  BY <1>6, <1>7

\* Once a part of the pipeline fits, filling it puts the rest in order.
LEMMA FilledIs ==
    ASSUME NEW p, NEW seen, NEW s, NEW q, NEW a, NEW more, NEW t,
           q = rows'[user'], a = lastAcked'[user'],
           Fits(q, nextBatchID', Len(held'), p, a, seen),
           more = nextBatches(q, a, seen, p),
           pendingWrites' = p \o more, lastBatchSeen' = SeenAfter(more, seen),
           StreamOK(s, p), t = commitBatches(s, more, p)
    PROVE  /\ SeenOK' /\ Joins(pendingWrites', p, more)
           /\ StreamOK(t, pendingWrites') /\ SameResp(t, s)
           /\ (p # <<>> => isStarted(s)) => (pendingWrites' # <<>> => isStarted(t))
<1>1. /\ Joins(p \o more, p, more)
      /\ Fits(q, nextBatchID', Len(held'), p \o more, a, SeenAfter(more, seen))
      /\ Full(q, Len(held'), p \o more)
  BY FillIs
<1>2. SeenOK'
  BY <1>1 DEF SeenOK
<1>3. Joins(pendingWrites', p, more)
  BY <1>1
<1>5. PICK r : r = p \o more
  OBVIOUS
<1>6. Joins(r, p, more)
  BY <1>1, <1>5
<1>7. /\ StreamOK(t, r) /\ SameResp(t, s)
      /\ (p # <<>> => isStarted(s)) => (r # <<>> => isStarted(t))
  BY <1>6, CommitIs DEF SameResp
<1>8. QED
  BY <1>2, <1>3, <1>5, <1>7

LEMMA FilledOK ==
    ASSUME NEW p, NEW seen, NEW s, NEW q, NEW a,
           q = rows'[user'], a = lastAcked'[user'],
           Fits(q, nextBatchID', Len(held'), p, a, seen),
           fillWritePipeline(q, a, seen, p, s),
           StreamOK(s, p), p # <<>> => isStarted(s)
    PROVE  SeenOK' /\ StreamInv' /\ SameResp(stream', s)
<1>1. PICK more : more = nextBatches(q, a, seen, p)
  OBVIOUS
<1>2. /\ pendingWrites' = p \o more
      /\ lastBatchSeen' = SeenAfter(more, seen)
      /\ stream' = commitBatches(s, more, p)
  BY <1>1 DEF fillWritePipeline, SeenAfter
<1>3. PICK t : t = commitBatches(s, more, p)
  OBVIOUS
<1>4. /\ SeenOK' /\ StreamOK(t, pendingWrites') /\ SameResp(t, s)
      /\ (p # <<>> => isStarted(s)) => (pendingWrites' # <<>> => isStarted(t))
  <2>1. /\ pendingWrites' = p \o more /\ lastBatchSeen' = SeenAfter(more, seen)
        /\ q = rows'[user'] /\ a = lastAcked'[user']
        /\ Fits(q, nextBatchID', Len(held'), p, a, seen)
        /\ StreamOK(s, p)
    BY <1>2
  <2>2. SeenOK'
    BY <2>1, <1>1, <1>3, FilledIs
  <2>3. StreamOK(t, pendingWrites')
    BY <2>1, <1>1, <1>3, FilledIs
  <2>4. SameResp(t, s)
    BY <2>1, <1>1, <1>3, FilledIs
  <2>5. (p # <<>> => isStarted(s)) => (pendingWrites' # <<>> => isStarted(t))
    BY <2>1, <1>1, <1>3, FilledIs
  <2>6. QED
    BY <2>2, <2>3, <2>4, <2>5
<1>5. QED
  BY <1>2, <1>3, <1>4 DEF StreamInv

\* The variables of the server and of the history have their types.
OthersOK ==
    applied \subseteq Write /\ refused \subseteq Write /\ issued \in [User -> Seq(Write)]

LEMMA TypeNext ==
    ASSUME user' \in User, rows' \in [User -> Seq(Batch)],
           lastAcked' \in [User -> Id], nextBatchID' \in Nat, held' \in Seq(Batch),
           completion' \in [User -> SUBSET Batch], SeenOK', StreamInv', OthersOK'
    PROVE  TypeOK'
<1>1. pendingWrites' \in Seq(Batch) /\ lastBatchSeen' \in Id
  BY DEF SeenOK, Fits
<1>2. stream' \in Stream
  BY DEF StreamInv, StreamOK
<1>3. QED
  BY <1>1, <1>2 DEF TypeOK, Stream, OthersOK

\* What QueueInv says of the queue of the account.
LEMMA OwnQueue ==
    ASSUME QueueInv
    PROVE  LET q == rows[user] IN
           /\ q \in Seq(Batch) /\ Ascending(q) /\ Len(q) \in Nat /\ DOMAIN q = 1..Len(q)
           /\ \A i \in 1..Len(q) : q[i] \in Batch /\ q[i].id \in Nat /\ q[i].id < nextBatchID
           /\ lastAcked[user] \in Id /\ lastAcked[user] < nextBatchID
           /\ nextBatchID \in Nat /\ Len(held) \in Nat /\ Len(held) <= Len(q)
           /\ \A i \in 1..Len(held) : held[i] = q[i]
           /\ \A i \in 1..Len(q) : q[i].id <= lastAcked[user] <=> i <= Len(held)
<1> DEFINE q == rows[user]
<1>1. /\ q \in Seq(Batch) /\ Len(q) \in Nat /\ DOMAIN q = 1..Len(q)
      /\ lastAcked[user] \in Id /\ nextBatchID \in Nat /\ Len(held) \in Nat
      /\ user \in User
  BY TypeElim DEF QueueInv
<1>2. Ascending(q) /\ \A i \in 1..Len(q) : q[i].id < nextBatchID
  BY <1>1 DEF QueueInv, QueuesOK
<1>3. \A i \in 1..Len(q) : q[i] \in Batch /\ q[i].id \in Nat
  BY <1>1, BatchSeq
<1>4. /\ lastAcked[user] < nextBatchID /\ InPlace(q, 0, held)
      /\ \A i \in 1..Len(q) : q[i].id <= lastAcked[user] <=> i <= Len(held)
  BY <1>1 DEF QueueInv, HeldOK
<1>5. Len(held) <= Len(q) /\ \A i \in 1..Len(held) : held[i] = q[i]
  <2>1. 0 + Len(held) = Len(held) /\ \A i \in 1..Len(held) : 0 + i = i
    BY <1>1
  <2>2. QED
    BY <1>4, <2>1 DEF InPlace
<1> HIDE DEF q
<1>6. QED
  BY <1>1, <1>2, <1>3, <1>4, <1>5, Zenon DEF q

\* The batches that were not acknowledged follow the held ones.
LEMMA UnackIs ==
    ASSUME QueueInv
    PROVE  /\ Unacknowledged(user) \in Seq(Batch)
           /\ Len(Unacknowledged(user)) = Len(rows[user]) - Len(held)
           /\ \A i \in 1..(Len(rows[user]) - Len(held)) :
                 Unacknowledged(user)[i] = rows[user][Len(held) + i]
<1> DEFINE q == rows[user]
           n == Len(held)
<1>1. /\ q \in Seq(Batch) /\ DOMAIN q = 1..Len(q) /\ lastAcked[user] \in Id
      /\ \A i \in 1..Len(q) : q[i].id <= lastAcked[user] <=> i <= n
  BY OwnQueue
<1>2. n \in 0..Len(q)
  <2>1. n \in Nat /\ Len(q) \in Nat /\ n <= Len(q)
    BY OwnQueue
  <2>2. QED
    BY <2>1
<1>3. PICK b : b = lastAcked[user]
  OBVIOUS
<1>4. b \in Id /\ \A i \in DOMAIN q : q[i].id <= b <=> i <= n
  BY <1>1, <1>3
<1>5. Unacknowledged(user) = SubSeq(q, Through(q, b) + 1, Len(q))
  BY <1>3 DEF Unacknowledged
<1> HIDE DEF q, n
<1>6. /\ SubSeq(q, Through(q, b) + 1, Len(q)) \in Seq(Batch)
      /\ Len(SubSeq(q, Through(q, b) + 1, Len(q))) = Len(q) - n
      /\ \A i \in 1..(Len(q) - n) : SubSeq(q, Through(q, b) + 1, Len(q))[i] = q[n + i]
  BY <1>1, <1>2, <1>4, UnackOf, Zenon
<1>7. QED
  BY <1>5, <1>6, Zenon DEF q, n

-----------------------------------------------------------------------------
(* Every handler keeps the invariant and does to the unacknowledged writes *)
(* what a step of WriteQueue does to its queue.                            *)

\* writeMutations: the batch comes last.
LEMMA WriteOK ==
    ASSUME PipeInv, OthersOK', NEW w \in Write, writeMutations(w)
    PROVE  /\ PipeInv' /\ SameResp(stream', stream)
           /\ Unacknowledged(user)' =
                 Append(Unacknowledged(user), [id |-> nextBatchID, w |-> w])
           /\ \A u \in User \ {user} : Unacknowledged(u)' = Unacknowledged(u)
<1> DEFINE b == [id |-> nextBatchID, w |-> w]
           old == rows[user]
           q == Append(old, b)
           n == Len(held)
           m == Len(old)
           a == lastAcked[user]
<1>1. QueueInv /\ StreamInv /\ TypeOK
  BY DEF PipeInv, QueueInv
<1>2. /\ user \in User /\ nextBatchID \in Nat /\ lastBatchSeen \in Id
      /\ rows \in [User -> Seq(Batch)] /\ lastAcked \in [User -> Id]
      /\ completion \in [User -> SUBSET Batch] /\ held \in Seq(Batch)
  BY <1>1, TypeElim
<1>3. /\ old \in Seq(Batch) /\ Ascending(old) /\ m \in Nat /\ DOMAIN old = 1..m
      /\ \A i \in 1..m : old[i].id \in Nat /\ old[i].id < nextBatchID
      /\ a \in Id /\ a < nextBatchID /\ n \in Nat /\ n <= m
      /\ \A i \in 1..n : held[i] = old[i]
      /\ \A i \in 1..m : old[i].id <= a <=> i <= n
  BY <1>1, OwnQueue
<1>4. b \in Batch /\ b.id = nextBatchID
  BY <1>2 DEF Batch
<1>5. /\ q \in Seq(Batch) /\ Len(q) = m + 1 /\ \A i \in 1..m : q[i] = old[i]
      /\ q[m + 1] = b /\ DOMAIN q = 1..(m + 1)
  <2> HIDE DEF b, old
  <2>1. /\ q \in Seq(Batch) /\ Len(q) = m + 1 /\ \A i \in 1..m : q[i] = old[i]
        /\ q[m + 1] = b
    BY <1>3, <1>4, AppendProperties
  <2>2. DOMAIN q = 1..(m + 1)
    BY <2>1, LenProperties
  <2>3. QED
    BY <2>1, <2>2
<1>6. /\ UNCHANGED <<user, lastAcked, held>> /\ nextBatchID' = nextBatchID + 1
      /\ rows' = [rows EXCEPT ![user] = q]
      /\ completion' = [completion EXCEPT ![user] = @ \cup {b}]
      /\ fillWritePipeline(q, a, lastBatchSeen, pendingWrites, stream)
  BY DEF writeMutations
<1> HIDE DEF b, q, old, n, m, a
<1>7. /\ rows' \in [User -> Seq(Batch)] /\ rows'[user] = q
      /\ \A u \in User \ {user} : rows'[u] = rows[u]
      /\ completion' \in [User -> SUBSET Batch]
      /\ completion'[user] = completion[user] \cup {b}
      /\ \A u \in User \ {user} : completion'[u] = completion[u]
      /\ nextBatchID' \in Nat /\ nextBatchID < nextBatchID'
  BY <1>2, <1>4, <1>5, <1>6
<1>8. ASSUME NEW i \in 1..(m + 1) PROVE i \in 1..m \/ i = m + 1
  BY <1>3
<1>9. Ascending(q)
  <2> SUFFICES ASSUME NEW i \in 1..(m + 1), NEW j \in 1..(m + 1), i < j
               PROVE  q[i].id < q[j].id
    BY <1>5 DEF Ascending
  <2>1. i \in 1..m
    BY <1>3
  <2>2. CASE j \in 1..m
    BY <1>3, <1>5, <2>1, <2>2 DEF Ascending
  <2>3. CASE j = m + 1
    BY <1>3, <1>4, <1>5, <2>1, <2>3
  <2>4. QED
    BY <1>8, <2>2, <2>3
<1>10. \A i \in DOMAIN q : q[i].id < nextBatchID'
  <2> SUFFICES ASSUME NEW i \in 1..(m + 1) PROVE q[i].id < nextBatchID'
    BY <1>5
  <2>1. CASE i \in 1..m
    BY <1>2, <1>3, <1>5, <1>7, <2>1
  <2>2. CASE i = m + 1
    BY <1>2, <1>4, <1>5, <1>7, <2>2
  <2>3. QED
    BY <1>8, <2>1, <2>2
<1>11. QueuesOK'
  <2>1. ASSUME NEW u \in User
        PROVE  Ascending(rows'[u]) /\ \A i \in DOMAIN rows'[u] : rows'[u][i].id < nextBatchID'
    <3>1. CASE u = user
      BY <1>7, <1>9, <1>10, <3>1
    <3>2. CASE u # user
      <4>1. /\ Ascending(rows[u]) /\ rows'[u] = rows[u]
            /\ \A i \in DOMAIN rows[u] : rows[u][i].id < nextBatchID /\ rows[u][i].id \in Nat
        <5>1. rows[u] \in Seq(Batch)
          BY <1>2
        <5>2. QED
          BY <1>1, <1>7, <3>2, <5>1, BatchSeq DEF QueueInv, QueuesOK
      <4>2. QED
        BY <1>2, <1>7, <4>1
    <3>3. QED
      BY <3>1, <3>2
  <2>2. QED
    BY <2>1 DEF QueuesOK
<1>12. \A i \in DOMAIN q : q[i].id <= a <=> i <= n
  <2> SUFFICES ASSUME NEW i \in 1..(m + 1) PROVE q[i].id <= a <=> i <= n
    BY <1>5
  <2>1. CASE i \in 1..m
    BY <1>3, <1>5, <2>1
  <2>2. CASE i = m + 1
    <3>1. ~(q[i].id <= a) /\ ~(i <= n)
      BY <1>2, <1>3, <1>4, <1>5, <2>2
    <3>2. QED
      BY <3>1
  <2>3. QED
    BY <1>8, <2>1, <2>2
<1>13. HeldOK'
  <2>1. lastAcked'[user'] = a /\ Len(held') = n /\ rows'[user'] = q /\ a < nextBatchID'
    BY <1>2, <1>3, <1>6, <1>7 DEF a, n
  <2>2. InPlace(q, 0, held)
    <3>1. 0 + n = n /\ n <= Len(q) /\ \A i \in 1..n : i \in 1..m /\ 0 + i = i
      BY <1>3, <1>5
    <3>2. \A i \in 1..n : held[i] = q[0 + i]
      BY <1>3, <1>5, <3>1
    <3>3. QED
      BY <3>1, <3>2 DEF InPlace, n
  <2>3. QED
    BY <1>6, <1>12, <2>1, <2>2 DEF HeldOK
<1>14. AckedOK'
  <2>1. ASSUME NEW u \in User
        PROVE  \/ \E i \in DOMAIN rows'[u] : rows'[u][i].id = lastAcked[u]
               \/ \A i \in DOMAIN rows'[u] : lastAcked[u] < rows'[u][i].id
    <3>1. \/ \E i \in DOMAIN rows[u] : rows[u][i].id = lastAcked[u]
          \/ \A i \in DOMAIN rows[u] : lastAcked[u] < rows[u][i].id
      BY <1>1 DEF QueueInv, AckedOK
    <3>2. CASE u = user /\ \E i \in 1..m : old[i].id = a
      <4>1. PICK i \in 1..m : old[i].id = a
        BY <3>2
      <4>2. i \in DOMAIN q /\ q[i].id = a
        BY <1>3, <1>5, <4>1
      <4>3. QED
        BY <1>7, <3>2, <4>2 DEF a
    <3>3. CASE u = user /\ \A i \in 1..m : a < old[i].id
      <4>1. ASSUME NEW i \in 1..(m + 1) PROVE a < q[i].id
        <5>1. CASE i \in 1..m
          BY <1>5, <3>3, <5>1
        <5>2. CASE i = m + 1
          BY <1>3, <1>4, <1>5, <5>2
        <5>3. QED
          BY <1>8, <5>1, <5>2
      <4>2. QED
        BY <1>5, <1>7, <3>3, <4>1 DEF a
    <3>4. CASE u # user
      BY <1>7, <3>1, <3>4
    <3>5. QED
      BY <1>3, <3>1, <3>2, <3>3, <3>4 DEF old, a
  <2>2. QED
    BY <1>6, <2>1 DEF AckedOK
<1>15. CompletionsMatch'
  <2>1. ASSUME NEW u \in User, NEW c \in completion'[u]
        PROVE  c.id > lastAcked[u] /\ \E i \in DOMAIN rows'[u] : rows'[u][i] = c
    <3>1. CASE u = user /\ c = b
      <4>1. m + 1 \in DOMAIN q /\ q[m + 1] = b
        BY <1>3, <1>5
      <4>2. b.id > a
        BY <1>2, <1>3, <1>4
      <4>3. QED
        BY <1>7, <3>1, <4>1, <4>2 DEF a
    <3>2. CASE c \in completion[u]
      <4>1. c.id > lastAcked[u] /\ \E i \in DOMAIN rows[u] : rows[u][i] = c
        BY <1>1, <3>2 DEF QueueInv, CompletionsMatch
      <4>2. CASE u = user
        <5>1. PICK i \in 1..m : old[i] = c
          BY <1>3, <4>1, <4>2 DEF old
        <5>2. i \in DOMAIN q /\ q[i] = c
          BY <1>3, <1>5, <5>1
        <5>3. QED
          BY <1>7, <4>1, <4>2, <5>2
      <4>3. CASE u # user
        BY <1>7, <4>1, <4>3
      <4>4. QED
        BY <4>2, <4>3
    <3>3. QED
      BY <1>7, <3>1, <3>2
  <2>2. QED
    BY <1>6, <2>1 DEF CompletionsMatch
<1>16. SeenOK' /\ StreamInv' /\ SameResp(stream', stream)
  <2>1. Fits(old, nextBatchID, n, pendingWrites, a, lastBatchSeen)
    BY <1>1 DEF QueueInv, SeenOK, old, n, a
  <2>2. /\ pendingWrites \in Seq(Batch) /\ InPlace(old, n, pendingWrites)
        /\ Len(pendingWrites) <= kMaxPendingWrites
        /\ lastBatchSeen \in Id /\ lastBatchSeen < nextBatchID
        /\ \A i \in 1..m : (old[i].id <= lastBatchSeen \/ old[i].id <= a)
                              <=> i <= n + Len(pendingWrites)
    BY <1>3, <2>1 DEF Fits
  <2>3. Len(pendingWrites) \in Nat /\ n + Len(pendingWrites) <= m
    BY <2>2, LenProperties DEF InPlace, m
  <2>4. InPlace(q, n, pendingWrites)
    <3>1. \A i \in 1..Len(pendingWrites) : n + i \in 1..m
      BY <1>3, <2>3
    <3>2. n + Len(pendingWrites) <= Len(q)
      BY <1>3, <1>5, <2>3
    <3>3. QED
      BY <1>5, <2>2, <3>1, <3>2 DEF InPlace
  <2>5. \A i \in DOMAIN q : (q[i].id <= lastBatchSeen \/ q[i].id <= a)
                               <=> i <= n + Len(pendingWrites)
    <3> SUFFICES ASSUME NEW i \in 1..(m + 1)
                 PROVE  (q[i].id <= lastBatchSeen \/ q[i].id <= a)
                           <=> i <= n + Len(pendingWrites)
      BY <1>5
    <3>1. CASE i \in 1..m
      BY <1>5, <2>2, <3>1
    <3>2. CASE i = m + 1
      <4>1. ~(q[i].id <= lastBatchSeen) /\ ~(q[i].id <= a) /\ ~(i <= n + Len(pendingWrites))
        BY <1>2, <1>3, <1>4, <1>5, <2>2, <2>3, <3>2
      <4>2. QED
        BY <4>1
    <3>3. QED
      BY <1>8, <3>1, <3>2
  <2>6. lastBatchSeen < nextBatchID'
    BY <1>2, <1>7, <2>2
  <2>7. Fits(q, nextBatchID', n, pendingWrites, a, lastBatchSeen)
    BY <1>3, <1>5, <1>7, <1>9, <1>10, <2>2, <2>4, <2>5, <2>6, Zenon DEF Fits
  <2>8. q = rows'[user'] /\ a = lastAcked'[user'] /\ n = Len(held')
    BY <1>6, <1>7 DEF a, n
  <2>9. StreamOK(stream, pendingWrites) /\ (pendingWrites # <<>> => isStarted(stream))
    BY <1>1 DEF StreamInv
  <2>10. Fits(q, nextBatchID', Len(held'), pendingWrites, a, lastBatchSeen)
    BY <2>7, <2>8
  <2>11. QED
    BY <1>6, <2>8, <2>9, <2>10, FilledOK
<1>17. TypeOK'
  <2>1. user' \in User /\ lastAcked' \in [User -> Id] /\ held' \in Seq(Batch)
    BY <1>2, <1>6
  <2>2. QED
    BY <1>7, <1>16, <2>1, TypeNext
<1>18. PipeInv'
  BY <1>11, <1>13, <1>14, <1>15, <1>16, <1>17 DEF PipeInv, QueueInv
<1>19. \A u \in User \ {user} : Unacknowledged(u)' = Unacknowledged(u)
  BY <1>6, <1>7 DEF Unacknowledged
<1>20. Unacknowledged(user)' = Append(Unacknowledged(user), b)
  <2>1. PICK x : x = Unacknowledged(user)
    OBVIOUS
  <2>2. x \in Seq(Batch) /\ Len(x) = m - n /\ \A i \in 1..(m - n) : x[i] = old[n + i]
    BY <1>1, <2>1, UnackIs DEF m, n, old
  <2>3. PICK y : y = SubSeq(q, Through(q, a) + 1, Len(q))
    OBVIOUS
  <2>4. /\ y \in Seq(Batch) /\ Len(y) = Len(q) - n
        /\ \A i \in 1..(Len(q) - n) : y[i] = q[n + i]
    <3>1. n \in 0..Len(q)
      BY <1>3, <1>5
    <3>2. QED
      BY <1>3, <1>5, <1>12, <2>3, <3>1, UnackOf, Zenon
  <2>5. /\ Append(x, b) \in Seq(Batch) /\ Len(Append(x, b)) = (m - n) + 1
        /\ \A i \in 1..(m - n) : Append(x, b)[i] = x[i]
        /\ Append(x, b)[(m - n) + 1] = b
    BY <1>4, <2>2, AppendProperties
  <2>6. Len(y) = (m - n) + 1
    BY <1>3, <1>5, <2>4
  <2>7. ASSUME NEW i \in 1..Len(y) PROVE y[i] = Append(x, b)[i]
    <3>1. i \in 1..(m - n) \/ i = (m - n) + 1
      BY <1>3, <2>6
    <3>2. CASE i \in 1..(m - n)
      <4>1. n + i \in 1..m
        BY <1>3, <3>2
      <4>2. y[i] = q[n + i]
        BY <2>4
      <4>3. QED
        BY <1>5, <2>2, <2>5, <3>2, <4>1, <4>2
    <3>3. CASE i = (m - n) + 1
      <4>1. n + i = m + 1
        BY <1>3, <3>3
      <4>2. y[i] = q[n + i]
        BY <2>4
      <4>3. QED
        BY <1>5, <2>5, <3>3, <4>1, <4>2
    <3>4. QED
      BY <3>1, <3>2, <3>3
  <2>8. y = Append(x, b)
    BY <2>4, <2>5, <2>6, <2>7, SeqEqual
  <2>9. Unacknowledged(user)' = y
    BY <1>6, <1>7, <2>3 DEF Unacknowledged, a
  <2>10. QED
    BY <2>1, <2>8, <2>9
<1>21. QED
  BY <1>16, <1>18, <1>19, <1>20 DEF b

\* startMutationQueue: the acknowledged batches are gone, the others, of all
\* accounts, stay where they were.
LEMMA StartQueue ==
    ASSUME QueueInv, NEW u \in User, startMutationQueue(u), user' = u
    PROVE  /\ rows' \in [User -> Seq(Batch)] /\ lastAcked' \in [User -> Id]
           /\ nextBatchID' \in Nat /\ held' = <<>>
           /\ QueuesOK' /\ AckedOK' /\ HeldOK'
           /\ Fits(rows'[u], nextBatchID', 0, <<>>, lastAcked'[u], kFSTBatchIDUnknown)
           /\ \A v \in User : Unacknowledged(v)' = Unacknowledged(v)
           /\ \A v \in User : \A c \in Batch :
                 c.id > lastAcked[v] /\ (\E i \in DOMAIN rows[v] : rows[v][i] = c) =>
                    c.id > lastAcked'[v] /\ \E i \in DOMAIN rows'[v] : rows'[v][i] = c
<1> DEFINE q == rows[u]
           a == ackedAtStart(u)
           N == loadNextBatchIDFromDB
           n == Through(q, a)
           r == SubSeq(q, n + 1, Len(q))
<1>1. /\ rows \in [User -> Seq(Batch)] /\ lastAcked \in [User -> Id] /\ TypeOK
      /\ q \in Seq(Batch) /\ Len(q) \in Nat /\ DOMAIN q = 1..Len(q)
      /\ lastAcked[u] \in Id
  BY TypeElim DEF QueueInv
<1>2. Ascending(q)
  BY DEF QueueInv, QueuesOK
<1>3. /\ N \in Nat
      /\ \A v \in User : \A i \in DOMAIN rows[v] : rows[v][i].id < N
  BY LoadNextIs DEF QueueInv
<1>4. /\ a \in Id /\ a < N /\ a <= lastAcked[u]
      /\ a = lastAcked[u] \/ q = <<>>
  BY AckedAtStartIs DEF QueueInv
<1>5. \A i \in 1..Len(q) : q[i] \in Batch /\ q[i].id \in Nat
  BY <1>1, BatchSeq
<1>6. /\ nextBatchID' = N /\ lastAcked' = [lastAcked EXCEPT ![u] = a]
      /\ rows' = [rows EXCEPT ![u] = r] /\ held' = <<>>
  BY DEF startMutationQueue
<1>7. n \in 0..Len(q) /\ \A i \in 1..Len(q) : q[i].id <= a <=> i <= n
  <2> HIDE DEF a, q
  <2>1. QED
    BY <1>1, <1>2, <1>4, ThroughIs
<1>8. n \in Nat /\ n <= Len(q)
  <2> HIDE DEF n, q
  <2>1. QED
    BY <1>1, <1>7
<1>9. /\ r \in Seq(Batch) /\ Len(r) = Len(q) - n
      /\ \A i \in 1..(Len(q) - n) : r[i] = q[n + i]
  <2> HIDE DEF n, q
  <2>1. QED
    BY <1>1, <1>7, DropIs, Zenon
<1>10. DOMAIN r = 1..Len(r) /\ Len(r) \in Nat
  <2> HIDE DEF r
  <2>1. QED
    BY <1>9, LenProperties
<1> HIDE DEF q, a, N, n, r
<1>11. /\ rows' \in [User -> Seq(Batch)] /\ lastAcked' \in [User -> Id]
       /\ rows'[u] = r /\ lastAcked'[u] = a
       /\ \A v \in User \ {u} : rows'[v] = rows[v] /\ lastAcked'[v] = lastAcked[v]
  BY <1>1, <1>4, <1>6, <1>9
<1>12. ASSUME NEW i \in 1..Len(r)
       PROVE  /\ n + i \in 1..Len(q) /\ r[i] = q[n + i] /\ r[i].id \in Nat
              /\ a < r[i].id /\ r[i].id < N
  <2>1. n + i \in 1..Len(q) /\ ~(n + i <= n) /\ i \in 1..(Len(q) - n)
    BY <1>1, <1>8, <1>9
  <2>2. r[i] = q[n + i] /\ q[n + i].id \in Nat /\ ~(q[n + i].id <= a)
    BY <1>5, <1>7, <1>9, <2>1
  <2>3. q[n + i].id < N
    BY <1>1, <1>3, <2>1 DEF q
  <2>4. QED
    BY <1>4, <2>1, <2>2, <2>3
<1>13. Ascending(r)
  <2> SUFFICES ASSUME NEW i \in 1..Len(r), NEW j \in 1..Len(r), i < j
               PROVE  r[i].id < r[j].id
    BY <1>10 DEF Ascending
  <2>1. n + i \in 1..Len(q) /\ n + j \in 1..Len(q) /\ n + i < n + j
    BY <1>8, <1>12
  <2>2. q[n + i].id < q[n + j].id
    BY <1>1, <1>2, <2>1 DEF Ascending
  <2>3. QED
    BY <1>12, <2>2
<1>14. QueuesOK'
  <2>1. ASSUME NEW v \in User
        PROVE  Ascending(rows'[v]) /\ \A i \in DOMAIN rows'[v] : rows'[v][i].id < nextBatchID'
    <3>1. CASE v = u
      BY <1>6, <1>10, <1>11, <1>12, <1>13, <3>1
    <3>2. CASE v # u
      BY <1>3, <1>6, <1>11, <3>2 DEF QueueInv, QueuesOK
    <3>3. QED
      BY <3>1, <3>2
  <2>2. QED
    BY <2>1 DEF QueuesOK
<1>15. AckedOK'
  <2>1. ASSUME NEW v \in User
        PROVE  \/ \E i \in DOMAIN rows'[v] : rows'[v][i].id = lastAcked'[v]
               \/ \A i \in DOMAIN rows'[v] : lastAcked'[v] < rows'[v][i].id
    <3>1. CASE v = u
      BY <1>10, <1>11, <1>12, <3>1
    <3>2. CASE v # u
      BY <1>11, <3>2 DEF QueueInv, AckedOK
    <3>3. QED
      BY <3>1, <3>2
  <2>2. QED
    BY <2>1 DEF AckedOK
<1>16. Len(<<>>) = 0 /\ <<>> \in Seq(Batch)
  BY EmptySeq
<1>17. \A i \in 1..Len(r) : ~(r[i].id <= a) /\ ~(i <= 0) /\ ~(r[i].id <= kFSTBatchIDUnknown)
  <2> SUFFICES ASSUME NEW i \in 1..Len(r)
               PROVE  ~(r[i].id <= a) /\ ~(i <= 0) /\ ~(r[i].id <= kFSTBatchIDUnknown)
    OBVIOUS
  <2>1. r[i].id \in Nat /\ a < r[i].id
    BY <1>12
  <2>2. QED
    BY <1>4, <2>1
<1>18. InPlace(r, 0, <<>>)
  BY <1>10, <1>16 DEF InPlace
<1>19. HeldOK'
  <2>1. lastAcked'[user'] = a /\ rows'[user'] = r /\ Len(held') = 0
    BY <1>6, <1>11, <1>16
  <2>2. a < N
    BY <1>4
  <2>3. \A i \in DOMAIN r : r[i].id <= a <=> i <= 0
    BY <1>10, <1>17
  <2>4. QED
    BY <1>6, <1>18, <2>1, <2>2, <2>3 DEF HeldOK
<1>20. Fits(r, N, 0, <<>>, a, kFSTBatchIDUnknown)
  <2>1. \A i \in DOMAIN r : r[i].id < N
    BY <1>10, <1>12
  <2>2. \A i \in DOMAIN r : (r[i].id <= kFSTBatchIDUnknown \/ r[i].id <= a)
                              <=> i <= 0 + Len(<<>>)
    BY <1>10, <1>16, <1>17
  <2>3. Len(<<>>) <= kMaxPendingWrites /\ kFSTBatchIDUnknown < N /\ 0 \in Nat
    BY <1>3, <1>16
  <2>4. kFSTBatchIDUnknown \in Id
    OBVIOUS
  <2>5. QED
    BY <1>3, <1>4, <1>9, <1>13, <1>16, <1>18, <2>1, <2>2, <2>3, <2>4, Zenon DEF Fits
<1>21. ASSUME NEW v \in User PROVE Unacknowledged(v)' = Unacknowledged(v)
  <2>1. CASE v # u
    BY <1>11, <2>1 DEF Unacknowledged
  <2>2. CASE v = u
    <3>1. Unacknowledged(u) = r
      <4>1. CASE a = lastAcked[u]
        BY <4>1 DEF Unacknowledged, r, n, q
      <4>2. CASE q = <<>>
        <5>1. Len(q) = 0
          BY <1>16, <4>2
        <5>2. PICK t : t = Through(q, lastAcked[u])
          OBVIOUS
        <5>3. t \in 0..Len(q)
          BY <1>1, <1>2, <5>2, ThroughIs
        <5>4. SubSeq(q, t + 1, Len(q)) = r
          <6>1. t = 0 /\ n = 0
            BY <1>7, <1>8, <5>1, <5>3
          <6>2. QED
            BY <6>1 DEF r
        <5>5. QED
          BY <5>2, <5>4 DEF Unacknowledged, q
      <4>3. QED
        BY <1>4, <4>1, <4>2
    <3>2. PICK y : y = SubSeq(r, Through(r, a) + 1, Len(r))
      OBVIOUS
    <3>3. y \in Seq(Batch) /\ Len(y) = Len(r) - 0 /\ \A i \in 1..(Len(r) - 0) : y[i] = r[0 + i]
      <4>1. 0 \in 0..Len(r)
        BY <1>10
      <4>2. \A i \in DOMAIN r : r[i].id <= a <=> i <= 0
        BY <1>10, <1>17
      <4>3. QED
        BY <1>4, <1>9, <3>2, <4>1, <4>2, UnackOf, Zenon
    <3>4. Len(y) = Len(r) /\ \A i \in 1..Len(y) : y[i] = r[i]
      <4>1. Len(r) - 0 = Len(r) /\ \A i \in 1..Len(r) : 0 + i = i
        BY <1>10
      <4>2. QED
        BY <3>3, <4>1
    <3>5. y = r
      BY <1>9, <3>3, <3>4, SeqEqual
    <3>6. Unacknowledged(u)' = y
      BY <1>11, <3>2 DEF Unacknowledged
    <3>7. QED
      BY <2>2, <3>1, <3>5, <3>6
  <2>3. QED
    BY <2>1, <2>2
<1>22. ASSUME NEW v \in User, NEW c \in Batch, c.id > lastAcked[v],
              \E i \in DOMAIN rows[v] : rows[v][i] = c
       PROVE  c.id > lastAcked'[v] /\ \E i \in DOMAIN rows'[v] : rows'[v][i] = c
  <2>1. CASE v # u
    BY <1>11, <1>22, <2>1
  <2>2. CASE v = u
    <3>1. PICK i \in 1..Len(q) : q[i] = c
      BY <1>1, <1>22, <2>2 DEF q
    <3>2. c.id \in Nat
      BY DEF Batch
    <3>3. c.id > a /\ ~(c.id <= a)
      BY <1>1, <1>4, <1>22, <2>2, <3>2
    <3>4. ~(i <= n)
      BY <1>7, <3>1, <3>3
    <3>5. i - n \in 1..Len(r) /\ n + (i - n) = i /\ i - n \in 1..(Len(q) - n)
      BY <1>1, <1>8, <1>9, <3>4
    <3>6. r[i - n] = c
      BY <1>9, <3>1, <3>5
    <3>7. i - n \in DOMAIN r
      BY <1>10, <3>5
    <3>8. \E j \in DOMAIN rows'[u] : rows'[u][j] = c
      BY <1>11, <3>6, <3>7
    <3>9. QED
      BY <1>11, <2>2, <3>3, <3>8
  <2>3. QED
    BY <2>1, <2>2
<1>23. QED
  BY <1>3, <1>6, <1>11, <1>14, <1>15, <1>19, <1>20, <1>21, <1>22

\* userDidChange and Relaunch: a new stream takes the first batches of the
\* queue of the account.
LEMMA SwitchOK ==
    ASSUME PipeInv, OthersOK', NEW u \in User, startMutationQueue(u), user' = u,
           completion' \in [User -> SUBSET Batch],
           \A v \in User : completion'[v] \subseteq completion[v],
           fillWritePipeline(rows'[u], lastAcked'[u], kFSTBatchIDUnknown, <<>>, NewStream)
    PROVE  /\ PipeInv' /\ SameResp(stream', NewStream)
           /\ \A v \in User : Unacknowledged(v)' = Unacknowledged(v)
<1>1. QueueInv
  BY DEF PipeInv
<1>2. /\ rows' \in [User -> Seq(Batch)] /\ lastAcked' \in [User -> Id]
      /\ nextBatchID' \in Nat /\ held' = <<>>
      /\ QueuesOK' /\ AckedOK' /\ HeldOK'
      /\ Fits(rows'[u], nextBatchID', 0, <<>>, lastAcked'[u], kFSTBatchIDUnknown)
      /\ \A v \in User : Unacknowledged(v)' = Unacknowledged(v)
      /\ \A v \in User : \A c \in Batch :
            c.id > lastAcked[v] /\ (\E i \in DOMAIN rows[v] : rows[v][i] = c) =>
               c.id > lastAcked'[v] /\ \E i \in DOMAIN rows'[v] : rows'[v][i] = c
  BY <1>1, StartQueue
<1>3. StreamOK(NewStream, <<>>)
  BY NewStreamIs
<1>4. PICK q : q = rows'[u]
  OBVIOUS
<1>5. PICK a : a = lastAcked'[u]
  OBVIOUS
<1>6. SeenOK' /\ StreamInv' /\ SameResp(stream', NewStream)
  <2>1. q = rows'[user'] /\ a = lastAcked'[user'] /\ Len(held') = 0
    BY <1>2, <1>4, <1>5, EmptySeq
  <2>2. fillWritePipeline(q, a, kFSTBatchIDUnknown, <<>>, NewStream)
    BY <1>4, <1>5
  <2>3. Fits(q, nextBatchID', Len(held'), <<>>, a, kFSTBatchIDUnknown)
    BY <1>2, <1>4, <1>5, <2>1
  <2>4. PICK p : p = <<>>
    OBVIOUS
  <2>5. QED
    BY <1>3, <2>1, <2>2, <2>3, <2>4, FilledOK
<1>7. CompletionsMatch'
  <2>1. ASSUME NEW v \in User, NEW c \in completion'[v]
        PROVE  c.id > lastAcked'[v] /\ \E i \in DOMAIN rows'[v] : rows'[v][i] = c
    <3>1. c \in completion[v] /\ c \in Batch
      OBVIOUS
    <3>2. c.id > lastAcked[v] /\ \E i \in DOMAIN rows[v] : rows[v][i] = c
      BY <1>1, <3>1 DEF QueueInv, CompletionsMatch
    <3>3. QED
      BY <1>2, <3>1, <3>2
  <2>2. QED
    BY <2>1 DEF CompletionsMatch
<1>8. TypeOK'
  <2>1. held' \in Seq(Batch) /\ user' \in User
    BY <1>2, EmptySeq
  <2>2. QED
    BY <1>2, <1>6, <2>1, TypeNext
<1>9. PipeInv'
  BY <1>2, <1>6, <1>7, <1>8 DEF PipeInv, QueueInv
<1>10. QED
  BY <1>2, <1>6, <1>9

\* A step of the stream or of the server leaves the queue alone.
LEMMA FrameOK ==
    ASSUME PipeInv, OthersOK', StreamInv',
           UNCHANGED <<user, disk, local, lastBatchSeen, pendingWrites>>
    PROVE  PipeInv' /\ \A u \in User : Unacknowledged(u)' = Unacknowledged(u)
<1>1. UNCHANGED <<user, rows, lastAcked, nextBatchID, held, completion,
                  lastBatchSeen, pendingWrites>>
  BY DEF disk, local
<1>2. QueueInv /\ TypeOK
  BY DEF PipeInv, QueueInv
<1>3. QueuesOK' /\ AckedOK' /\ HeldOK' /\ SeenOK' /\ CompletionsMatch'
  BY <1>1, <1>2 DEF QueueInv, QueuesOK, AckedOK, HeldOK, SeenOK, CompletionsMatch
<1>4. TypeOK'
  <2>1. /\ user' \in User /\ rows' \in [User -> Seq(Batch)]
        /\ lastAcked' \in [User -> Id] /\ nextBatchID' \in Nat /\ held' \in Seq(Batch)
        /\ completion' \in [User -> SUBSET Batch]
    BY <1>1, <1>2, TypeElim
  <2>2. QED
    BY <1>3, <2>1, TypeNext
<1>5. PipeInv'
  BY <1>3, <1>4 DEF PipeInv, QueueInv
<1>6. \A u \in User : Unacknowledged(u)' = Unacknowledged(u)
  BY <1>1 DEF Unacknowledged
<1>7. QED
  BY <1>5, <1>6

-----------------------------------------------------------------------------
(* Steps of the stream: s is the stream before, t after, p the pipeline.   *)

\* The answers after the handshake, one by one.
LEMMA RespIs ==
    ASSUME NEW s \in Stream, s.handshakeComplete
    PROVE  /\ RespOf(s) \in Seq(BOOLEAN) /\ Len(RespOf(s)) = Len(s.responses)
           /\ Len(s.responses) \in Nat /\ DOMAIN s.responses = 1..Len(s.responses)
           /\ \A i \in 1..Len(s.responses) : RespOf(s)[i] = (s.responses[i] = "ok")
<1>1. s.responses \in Seq(Response)
  BY StreamElim
<1>2. Len(s.responses) \in Nat /\ DOMAIN s.responses = 1..Len(s.responses)
  BY <1>1, LenProperties
<1> DEFINE n == Len(s.responses)
<1>3. RespOf(s) = [i \in 1..n |-> s.responses[i] = "ok"]
  BY <1>2 DEF RespOf
<1>4. \A i \in 1..n : (s.responses[i] = "ok") \in BOOLEAN
  OBVIOUS
<1> HIDE DEF n
<1>5. RespOf(s) \in [1..n -> BOOLEAN]
  BY <1>3, <1>4, Zenon
<1>6. RespOf(s) \in Seq(BOOLEAN) /\ Len(RespOf(s)) = n
  BY <1>2, <1>5 DEF n
<1>7. \A i \in 1..n : RespOf(s)[i] = (s.responses[i] = "ok")
  BY <1>3, Zenon
<1>8. QED
  BY <1>2, <1>6, <1>7, Zenon DEF n

\* The token.
LEMMA TokenIs ==
    ASSUME NEW s, NEW p \in Seq(Batch), StreamOK(s, p), s.state = "Auth",
           NEW t, t = [s EXCEPT !.state = "Open", !.requests = <<"handshake">>,
                                !.idleTimer = FALSE]
    PROVE  StreamOK(t, p) /\ isStarted(t) /\ SameResp(t, s)
<1>1. /\ s \in Stream /\ s.responses = <<>> /\ s.handshakeComplete = FALSE /\ p # <<>>
  <2>1. s \in Stream /\ isStarted(s) /\ s.responses = <<>> /\ ~Shaken(s)
    BY DEF StreamOK, isStarted, Shaken
  <2>2. ~s.handshakeComplete /\ p # <<>>
    BY <2>1 DEF StreamOK
  <2>3. s.handshakeComplete \in BOOLEAN
    BY <2>1, StreamElim
  <2>4. QED
    BY <2>1, <2>2, <2>3
<1>2. <<"handshake">> \in Seq(Request)
  BY DEF Request
<1>3. /\ t \in Stream /\ t.state = "Open" /\ t.requests = <<"handshake">>
      /\ t.idleTimer = FALSE /\ t.responses = <<>> /\ t.handshakeComplete = FALSE
  BY <1>1, <1>2 DEF Stream, StreamState
<1>4. ~Shaken(t) /\ isStarted(t)
  BY <1>3 DEF Shaken, isStarted
<1>5. StreamOK(t, p)
  BY <1>1, <1>3, <1>4, Zenon DEF StreamOK
<1>6. SameResp(t, s)
  BY <1>1, <1>3, RespEmpty DEF SameResp
<1>7. QED
  BY <1>4, <1>5, <1>6

\* The RPC ends and starts again if there is anything to write.
LEMMA FailIs ==
    ASSUME NEW s \in Stream, NEW p \in Seq(Batch), NEW f \in {"Initial", "Error"},
           NEW t, t = restartWriteStream(closeWithFinalState(s, f), p)
    PROVE  StreamOK(t, p) /\ (p # <<>> => isStarted(t)) /\ RespOf(t) = <<>>
<1>1. PICK c : c = closeWithFinalState(s, f)
  OBVIOUS
<1>2. StreamOK(c, p) /\ RespOf(c) = <<>>
  BY <1>1, CloseIs, RespEmpty
<1>3. t = restartWriteStream(c, p)
  BY <1>1
<1>4. QED
  BY <1>2, <1>3, RestartIs

\* The answer to the handshake.
LEMMA HandshakeIs ==
    ASSUME NEW s, NEW p \in Seq(Batch), StreamOK(s, p),
           s.responses # <<>>, ~s.handshakeComplete,
           NEW t, t = writeRequests([[s EXCEPT !.responses = Tail(@)]
                                       EXCEPT !.handshakeComplete = TRUE], Writes(p))
    PROVE  StreamOK(t, p) /\ isStarted(t) /\ SameResp(t, s)
<1>1. /\ s \in Stream /\ s.state = "Open" /\ s.responses = <<"handshake">>
      /\ s.requests = <<>>
  BY DEF StreamOK
<1>2. /\ Writes(p) \in Seq(Request) /\ Len(Writes(p)) = Len(p) /\ Len(p) \in Nat
      /\ DOMAIN Writes(p) = 1..Len(p)
      /\ \A i \in 1..Len(p) : Writes(p)[i] = p[i].w
  <2>1. Write \subseteq Request
    BY DEF Request
  <2>2. Writes(p) \in Seq(Write)
    BY WritesIs
  <2>3. Writes(p) \in Seq(Request)
    BY <2>1, <2>2, SeqMonotonic
  <2>4. Len(p) \in Nat /\ Len(Writes(p)) = Len(p) /\ DOMAIN Writes(p) = 1..Len(Writes(p))
    BY <2>2, WritesIs, LenProperties
  <2>5. QED
    BY <2>3, <2>4, WritesIs
<1>3. Tail(s.responses) = <<>>
  BY <1>1
<1>4. s.requests \o Writes(p) = Writes(p)
  BY <1>1, <1>2, ConcatEmptySeq
<1>5. t = [s EXCEPT !.responses = <<>>, !.handshakeComplete = TRUE,
                    !.requests = Writes(p), !.idleTimer = FALSE]
  BY <1>1, <1>3, <1>4 DEF writeRequests, Stream
<1>6. /\ t \in Stream /\ t.state = "Open" /\ t.handshakeComplete = TRUE
      /\ t.responses = <<>> /\ t.requests = Writes(p) /\ t.idleTimer = FALSE
  BY <1>1, <1>2, <1>5, EmptySeq DEF Stream
<1>7. Shaken(t) /\ isStarted(t)
  BY <1>6 DEF Shaken, isStarted
<1>8. /\ Len(t.responses) = 0 /\ Len(t.responses) + Len(t.requests) = Len(p)
      /\ \A i \in DOMAIN t.requests : t.requests[i] = p[Len(t.responses) + i].w
      /\ \A i \in DOMAIN t.responses : t.responses[i] # "handshake"
  <2>1. Len(t.responses) = 0 /\ DOMAIN t.responses = {}
    BY <1>6
  <2>2. Len(t.responses) + Len(t.requests) = Len(p)
    <3>1. Len(t.requests) = Len(p) /\ Len(p) \in Nat
      BY <1>2, <1>6, Zenon
    <3>2. QED
      BY ONLY <2>1, <3>1
  <2>3. ASSUME NEW i \in 1..Len(p) PROVE Writes(p)[i] = p[Len(t.responses) + i].w
    <3>1. Len(t.responses) + i = i
      BY <2>1
    <3>2. QED
      BY <1>2, <3>1, Zenon
  <2>4. QED
    BY <1>2, <1>6, <2>1, <2>2, <2>3, Zenon
<1>9. StreamOK(t, p)
  BY <1>6, <1>7, <1>8, Zenon DEF StreamOK
<1>10. SameResp(t, s)
  BY <1>6, RespEmpty DEF SameResp
<1>11. QED
  BY <1>7, <1>9, <1>10

\* An answer of the server on an open stream.
LEMMA AnswerIs ==
    ASSUME NEW s, NEW p \in Seq(Batch), StreamOK(s, p), s.requests # <<>>,
           NEW a \in Response, a = "handshake" <=> Head(s.requests) = "handshake",
           NEW t, t = [s EXCEPT !.requests = Tail(@), !.responses = Append(@, a)]
    PROVE  /\ StreamOK(t, p) /\ isStarted(t)
           /\ Head(s.requests) = "handshake" => SameResp(t, s)
           /\ Head(s.requests) # "handshake" =>
                 /\ s.handshakeComplete /\ Shaken(s)
                 /\ RespOf(t) = Append(RespOf(s), a = "ok")
                 /\ Len(s.responses) + 1 \in 1..Len(p)
                 /\ Head(s.requests) = p[Len(s.responses) + 1].w
<1> DEFINE rq == s.requests
           rs == s.responses
           n == Len(rs)
           m == Len(rq)
<1>1. /\ s \in Stream /\ s.state = "Open" /\ rq \in Seq(Request) /\ rs \in Seq(Response)
      /\ s.handshakeComplete \in BOOLEAN /\ s.idleTimer \in BOOLEAN
  BY StreamElim DEF StreamOK
<1>2. /\ n \in Nat /\ m \in Nat /\ m # 0 /\ DOMAIN rq = 1..m /\ DOMAIN rs = 1..n
  <2> HIDE DEF rq, rs
  <2>1. n \in Nat /\ m \in Nat /\ DOMAIN rq = 1..m /\ DOMAIN rs = 1..n
    BY <1>1, LenProperties
  <2>2. m # 0
    BY <1>1, EmptySeq DEF rq
  <2>3. QED
    BY <2>1, <2>2
<1>3. PICK tl : tl = Tail(rq)
  OBVIOUS
<1>4. PICK ap : ap = Append(rs, a)
  OBVIOUS
<1>5. /\ tl \in Seq(Request) /\ Len(tl) = m - 1 /\ DOMAIN tl = 1..(m - 1)
      /\ \A i \in 1..(m - 1) : tl[i] = rq[i + 1]
      /\ Head(rq) = rq[1]
  <2> HIDE DEF rq
  <2>1. rq # <<>>
    BY DEF rq
  <2>2. tl \in Seq(Request) /\ Len(tl) = m - 1 /\ \A i \in 1..(m - 1) : tl[i] = rq[i + 1]
    BY <1>1, <1>3, <2>1, HeadTailProperties
  <2>3. DOMAIN tl = 1..(m - 1)
    BY <2>2, LenProperties
  <2>4. QED
    BY <1>1, <2>1, <2>2, <2>3
<1>6. /\ ap \in Seq(Response) /\ Len(ap) = n + 1 /\ DOMAIN ap = 1..(n + 1)
      /\ \A i \in 1..n : ap[i] = rs[i]
      /\ ap[n + 1] = a
  <2> HIDE DEF rs
  <2>1. ap \in Seq(Response) /\ Len(ap) = n + 1 /\ (\A i \in 1..n : ap[i] = rs[i]) /\ ap[n + 1] = a
    BY <1>1, <1>4, AppendProperties
  <2>2. QED
    BY <2>1, LenProperties
<1>7. /\ t \in Stream /\ t.state = "Open" /\ t.handshakeComplete = s.handshakeComplete
      /\ t.idleTimer = s.idleTimer /\ t.requests = tl /\ t.responses = ap
  <2>1. t = [s EXCEPT !.requests = tl, !.responses = ap]
    BY <1>1, <1>3, <1>4 DEF Stream
  <2>2. QED
    BY <1>1, <1>5, <1>6, <2>1 DEF Stream
<1>8. isStarted(t)
  BY <1>7 DEF isStarted
<1>9. CASE ~s.handshakeComplete
  <2>1. rq = <<"handshake">> /\ rs = <<>> /\ p # <<>>
    BY <1>1, <1>9 DEF StreamOK, Shaken, isStarted
  <2>2. tl = <<>> /\ ap = <<a>> /\ Head(s.requests) = "handshake" /\ a = "handshake"
    BY <1>3, <1>4, <2>1
  <2>3. ~Shaken(t)
    BY <1>7, <1>9 DEF Shaken
  <2>4. ~s.idleTimer
    BY <2>1 DEF StreamOK
  <2>5. StreamOK(t, p)
    BY <1>1, <1>7, <1>9, <2>1, <2>2, <2>3, <2>4, Zenon DEF StreamOK
  <2>6. SameResp(t, s)
    BY <1>7, <1>9, RespEmpty DEF SameResp
  <2>7. QED
    BY <1>8, <2>2, <2>5, <2>6
<1>10. CASE s.handshakeComplete
  <2>1. Shaken(s) /\ Shaken(t)
    BY <1>1, <1>7, <1>10 DEF Shaken
  <2>2. /\ n + m = Len(p)
        /\ \A i \in 1..m : rq[i] = p[n + i].w
        /\ \A i \in 1..n : rs[i] # "handshake"
        /\ s.idleTimer => p = <<>>
    BY <1>2, <2>1 DEF StreamOK
  <2>3. Len(p) \in Nat /\ \A i \in 1..Len(p) : p[i].w \in Write
    BY BatchSeq
  <2> HIDE DEF rq, rs, n, m
  <2>4. n + 1 \in 1..Len(p) /\ Head(rq) = p[n + 1].w
    BY <1>2, <1>5, <2>2, <2>3
  <2>5. Head(rq) # "handshake" /\ a # "handshake"
    <3>1. Head(rq) \in Write
      BY <2>3, <2>4
    <3>2. QED
      BY <3>1 DEF rq
  <2>6. p # <<>>
    <3>1. Len(p) # 0
      BY <2>3, <2>4
    <3>2. QED
      BY <3>1, EmptySeq
  <2>7. ASSUME NEW i \in 1..(m - 1) PROVE tl[i] = p[(n + 1) + i].w
    <3>1. i + 1 \in 1..m /\ n + (i + 1) = (n + 1) + i
      BY <1>2
    <3>2. rq[i + 1] = p[n + (i + 1)].w
      BY <2>2, <3>1
    <3>3. tl[i] = rq[i + 1]
      BY <1>5
    <3>4. QED
      BY <3>1, <3>2, <3>3
  <2>8. \A i \in 1..(n + 1) : ap[i] # "handshake"
    <3> SUFFICES ASSUME NEW i \in 1..(n + 1) PROVE ap[i] # "handshake"
      OBVIOUS
    <3>1. i \in 1..n \/ i = n + 1
      BY <1>2
    <3>2. QED
      BY <1>6, <2>2, <2>5, <3>1
  <2>9. (n + 1) + (m - 1) = Len(p)
    BY <1>2, <2>2
  <2>10. StreamOK(t, p)
    <3>1. /\ Len(t.responses) + Len(t.requests) = Len(p)
          /\ \A i \in DOMAIN t.requests : t.requests[i] = p[Len(t.responses) + i].w
          /\ \A i \in DOMAIN t.responses : t.responses[i] # "handshake"
      <4>1. Len(t.responses) = n + 1 /\ Len(t.requests) = m - 1
        BY <1>5, <1>6, <1>7, Zenon
      <4>2. Len(t.responses) + Len(t.requests) = Len(p)
        BY <2>9, <4>1, Zenon
      <4>3. \A i \in DOMAIN t.requests : t.requests[i] = p[Len(t.responses) + i].w
        BY <1>5, <1>7, <2>7, <4>1, Zenon
      <4>4. \A i \in DOMAIN t.responses : t.responses[i] # "handshake"
        BY <1>6, <1>7, <2>8, Zenon
      <4>5. QED
        BY <4>2, <4>3, <4>4, Zenon
    <3>2. ~t.idleTimer
      BY <1>7, <2>2, <2>6
    <3>3. t.state = "Open" /\ t.handshakeComplete
      BY <2>1 DEF Shaken
    <3>4. QED
      BY <1>7, <2>1, <2>6, <3>1, <3>2, <3>3, Zenon DEF StreamOK
  <2>11. RespOf(t) = Append(RespOf(s), a = "ok")
    <3>1. PICK x : x = RespOf(s)
      OBVIOUS
    <3>2. PICK y : y = RespOf(t)
      OBVIOUS
    <3>3. PICK c : c = (a = "ok")
      OBVIOUS
    <3>4. x \in Seq(BOOLEAN) /\ Len(x) = n /\ \A i \in 1..n : x[i] = (rs[i] = "ok")
      BY <1>1, <1>10, <3>1, RespIs DEF rs, n
    <3>5. y \in Seq(BOOLEAN) /\ Len(y) = n + 1 /\ \A i \in 1..(n + 1) : y[i] = (ap[i] = "ok")
      <4>1. t.handshakeComplete /\ Len(t.responses) = n + 1
        BY <1>6, <1>7, <1>10
      <4>2. QED
        BY <1>7, <3>2, <4>1, RespIs
    <3>6. c \in BOOLEAN
      BY <3>3
    <3>7. /\ Append(x, c) \in Seq(BOOLEAN) /\ Len(Append(x, c)) = n + 1
          /\ \A i \in 1..n : Append(x, c)[i] = x[i]
          /\ Append(x, c)[n + 1] = c
      BY <3>4, <3>6, AppendProperties
    <3>8. ASSUME NEW i \in 1..(n + 1) PROVE y[i] = Append(x, c)[i]
      <4>1. i \in 1..n \/ i = n + 1
        BY <1>2
      <4>2. CASE i \in 1..n
        <5>1. y[i] = (ap[i] = "ok")
          BY <3>5, Zenon
        <5>2. ap[i] = rs[i]
          BY <1>6, <4>2, Zenon
        <5>3. x[i] = (rs[i] = "ok") /\ Append(x, c)[i] = x[i]
          BY <3>4, <3>7, <4>2, Zenon
        <5>4. QED
          BY <5>1, <5>2, <5>3
      <4>3. CASE i = n + 1
        BY <1>6, <3>3, <3>5, <3>7, <4>3, Zenon
      <4>4. QED
        BY <4>1, <4>2, <4>3
    <3>9. y = Append(x, c)
      BY <3>5, <3>7, <3>8, SeqEqual
    <3>10. QED
      BY <3>1, <3>2, <3>3, <3>9
  <2>12. QED
    BY <1>8, <1>10, <2>1, <2>4, <2>5, <2>10, <2>11 DEF rq, rs, n
<1>11. QED
  BY <1>9, <1>10

\* The answer to the first batch of the pipeline is received.
LEMMA ReceivedIs ==
    ASSUME NEW s, NEW p \in Seq(Batch), StreamOK(s, p),
           s.responses # <<>>, s.handshakeComplete,
           NEW t, t = [s EXCEPT !.responses = Tail(@)]
    PROVE  /\ p # <<>> /\ StreamOK(t, Tail(p)) /\ isStarted(t)
           /\ RespOf(s) # <<>> /\ RespOf(t) = Tail(RespOf(s))
           /\ Head(RespOf(s)) = (Head(s.responses) = "ok")
           /\ Head(s.responses) # "handshake"
<1> DEFINE rq == s.requests
           rs == s.responses
           n == Len(rs)
           m == Len(rq)
<1>1. /\ s \in Stream /\ s.state = "Open" /\ rq \in Seq(Request) /\ rs \in Seq(Response)
      /\ s.idleTimer \in BOOLEAN
  BY StreamElim DEF StreamOK
<1>2. Shaken(s)
  BY <1>1 DEF Shaken
<1>3. /\ n \in Nat /\ m \in Nat /\ n # 0 /\ DOMAIN rq = 1..m /\ DOMAIN rs = 1..n
  <2> HIDE DEF rq, rs
  <2>1. n \in Nat /\ m \in Nat /\ DOMAIN rq = 1..m /\ DOMAIN rs = 1..n
    BY <1>1, LenProperties
  <2>2. n # 0
    BY <1>1, EmptySeq DEF rs
  <2>3. QED
    BY <2>1, <2>2
<1>4. /\ n + m = Len(p)
      /\ \A i \in 1..m : rq[i] = p[n + i].w
      /\ \A i \in 1..n : rs[i] # "handshake"
      /\ s.idleTimer => p = <<>>
  BY <1>2, <1>3 DEF StreamOK
<1>5. Len(p) \in Nat
  BY LenProperties
<1>6. PICK tl : tl = Tail(rs)
  OBVIOUS
<1>7. /\ tl \in Seq(Response) /\ Len(tl) = n - 1 /\ DOMAIN tl = 1..(n - 1)
      /\ \A i \in 1..(n - 1) : tl[i] = rs[i + 1]
      /\ Head(rs) = rs[1]
  <2> HIDE DEF rs
  <2>1. rs # <<>>
    BY DEF rs
  <2>2. tl \in Seq(Response) /\ Len(tl) = n - 1 /\ \A i \in 1..(n - 1) : tl[i] = rs[i + 1]
    BY <1>1, <1>6, <2>1, HeadTailProperties
  <2>3. DOMAIN tl = 1..(n - 1)
    BY <2>2, LenProperties
  <2>4. QED
    BY <1>1, <2>1, <2>2, <2>3
<1>8. /\ t \in Stream /\ t.state = "Open" /\ t.handshakeComplete = TRUE
      /\ t.idleTimer = s.idleTimer /\ t.requests = rq /\ t.responses = tl
  <2>1. t = [s EXCEPT !.responses = tl]
    BY <1>1, <1>6 DEF Stream
  <2>2. s.handshakeComplete = TRUE
    BY <1>1, StreamElim
  <2>3. QED
    BY <1>1, <1>7, <2>1, <2>2 DEF Stream
<1> HIDE DEF rq, rs, n, m
<1>9. p # <<>>
  <2>1. Len(p) # 0
    BY <1>3, <1>4, <1>5
  <2>2. QED
    BY <2>1, EmptySeq
<1>10. /\ Len(Tail(p)) = Len(p) - 1 /\ \A i \in 1..(Len(p) - 1) : Tail(p)[i] = p[i + 1]
  BY <1>9, HeadTailProperties
<1>11. ASSUME NEW i \in 1..m PROVE rq[i] = Tail(p)[(n - 1) + i].w
  <2>1. (n - 1) + i \in 1..(Len(p) - 1) /\ ((n - 1) + i) + 1 = n + i
    BY <1>3, <1>4, <1>5
  <2>2. Tail(p)[(n - 1) + i] = p[((n - 1) + i) + 1]
    BY <1>10, <2>1
  <2>3. QED
    BY <1>4, <2>1, <2>2
<1>12. \A i \in 1..(n - 1) : tl[i] # "handshake"
  <2> SUFFICES ASSUME NEW i \in 1..(n - 1) PROVE tl[i] # "handshake"
    OBVIOUS
  <2>1. i + 1 \in 1..n
    BY <1>3
  <2>2. QED
    BY <1>4, <1>7, <2>1
<1>13. isStarted(t) /\ Shaken(t)
  BY <1>8 DEF isStarted, Shaken
<1>14. StreamOK(t, Tail(p))
  <2>1. (n - 1) + m = Len(Tail(p))
    BY <1>3, <1>4, <1>5, <1>10
  <2>2. Len(tl) = n - 1 /\ Len(rq) = m /\ DOMAIN rq = 1..m /\ DOMAIN tl = 1..(n - 1)
    BY <1>3, <1>7 DEF m
  <2>3. /\ Len(t.responses) + Len(t.requests) = Len(Tail(p))
        /\ \A i \in DOMAIN t.requests : t.requests[i] = Tail(p)[Len(t.responses) + i].w
        /\ \A i \in DOMAIN t.responses : t.responses[i] # "handshake"
    BY <1>8, <1>11, <1>12, <2>1, <2>2, Zenon
  <2>4. ~t.idleTimer
    BY <1>4, <1>8, <1>9
  <2>5. QED
    BY <1>8, <1>13, <2>3, <2>4, Zenon DEF StreamOK
<1>15. /\ RespOf(s) # <<>> /\ RespOf(t) = Tail(RespOf(s))
       /\ Head(RespOf(s)) = (Head(s.responses) = "ok")
  <2>1. PICK x : x = RespOf(s)
    OBVIOUS
  <2>2. PICK y : y = RespOf(t)
    OBVIOUS
  <2>3. x \in Seq(BOOLEAN) /\ Len(x) = n /\ \A i \in 1..n : x[i] = (rs[i] = "ok")
    BY <1>1, <2>1, RespIs DEF rs, n
  <2>4. y \in Seq(BOOLEAN) /\ Len(y) = n - 1 /\ \A i \in 1..(n - 1) : y[i] = (tl[i] = "ok")
    <3>1. t.handshakeComplete /\ Len(t.responses) = n - 1
      BY <1>7, <1>8
    <3>2. QED
      BY <1>8, <2>2, <3>1, RespIs
  <2>5. x # <<>>
    BY <1>3, <2>3, EmptySeq
  <2>6. /\ Tail(x) \in Seq(BOOLEAN) /\ Len(Tail(x)) = n - 1
        /\ \A i \in 1..(n - 1) : Tail(x)[i] = x[i + 1]
    BY <2>3, <2>5, HeadTailProperties
  <2>7. ASSUME NEW i \in 1..(n - 1) PROVE y[i] = Tail(x)[i]
    <3>1. i + 1 \in 1..n
      BY <1>3
    <3>2. QED
      <4>1. y[i] = (tl[i] = "ok")
        BY <2>4, Zenon
      <4>2. tl[i] = rs[i + 1] /\ Tail(x)[i] = x[i + 1]
        BY <1>7, <2>6, Zenon
      <4>3. x[i + 1] = (rs[i + 1] = "ok")
        BY <2>3, <3>1, Zenon
      <4>4. QED
        BY <4>1, <4>2, <4>3
  <2>8. y = Tail(x)
    BY <2>4, <2>6, <2>7, SeqEqual
  <2>9. Head(x) = (Head(rs) = "ok")
    <3>1. Head(x) = x[1] /\ 1 \in 1..n
      BY <1>3, <2>3, <2>5
    <3>2. QED
      BY <1>7, <2>3, <3>1, Zenon
  <2>10. QED
    BY <2>1, <2>2, <2>5, <2>8, <2>9 DEF rs
<1>16. Head(s.responses) # "handshake"
  <2>1. 1 \in 1..n
    BY <1>3
  <2>2. QED
    BY <1>4, <1>7, <2>1 DEF rs
<1>17. QED
  BY <1>9, <1>13, <1>14, <1>15, <1>16

-----------------------------------------------------------------------------
(* Batches leave the pipeline and the queue.                               *)

\* The results h are held at the front of the queue q; the last batch
\* acknowledged is a.
Holds(q, next, h, a) ==
    /\ q \in Seq(Batch) /\ Ascending(q)
    /\ next \in Nat /\ \A i \in DOMAIN q : q[i].id < next
    /\ h \in Seq(Batch) /\ a \in Id /\ a < next
    /\ InPlace(q, 0, h)
    /\ \A i \in DOMAIN q : q[i].id <= a <=> i <= Len(h)
    /\ \/ \E i \in DOMAIN q : q[i].id = a
       \/ \A i \in DOMAIN q : a < q[i].id

\* r is q without its first d batches.
Dropped(q, r, d) ==
    /\ r \in Seq(Batch) /\ Len(r) = Len(q) - d
    /\ \A i \in 1..(Len(q) - d) : r[i] = q[d + i]

\* Completion blocks wait for batches of q that come after the last one
\* acknowledged.
Waiting(blocks, q, a) ==
    /\ blocks \in SUBSET Batch
    /\ \A c \in blocks : c.id > a /\ \E i \in DOMAIN q : q[i] = c

\* The first batch of the pipeline is acknowledged and held.
LEMMA AckIs ==
    ASSUME NEW q, NEW next, NEW h, NEW p, NEW a, NEW seen,
           Holds(q, next, h, a), Fits(q, next, Len(h), p, a, seen), p # <<>>,
           NEW b, b = Head(p)
    PROVE  /\ b \in Batch /\ Len(h) + 1 \in 1..Len(q) /\ b = q[Len(h) + 1]
           /\ a < b.id
           /\ Holds(q, next, Append(h, b), b.id)
           /\ Fits(q, next, Len(Append(h, b)), Tail(p), b.id, seen)
           /\ Len(Append(h, b)) = Len(h) + 1
<1> DEFINE n == Len(h)
           m == Len(p)
           g == Append(h, b)
<1>1. /\ q \in Seq(Batch) /\ Ascending(q) /\ next \in Nat /\ h \in Seq(Batch)
      /\ (\A i \in DOMAIN q : q[i].id < next) /\ a \in Id
      /\ InPlace(q, 0, h) /\ \A i \in DOMAIN q : q[i].id <= a <=> i <= n
  BY DEF Holds
<1>2. /\ p \in Seq(Batch) /\ InPlace(q, n, p) /\ m <= kMaxPendingWrites
      /\ seen \in Id /\ seen < next
      /\ \A i \in DOMAIN q : (q[i].id <= seen \/ q[i].id <= a) <=> i <= n + m
  BY DEF Fits
<1>3. /\ Len(q) \in Nat /\ DOMAIN q = 1..Len(q) /\ n \in Nat /\ m \in Nat /\ m # 0
      /\ \A i \in 1..Len(q) : q[i] \in Batch /\ q[i].id \in Nat
  BY <1>1, <1>2, BatchSeq, EmptySeq
<1> HIDE DEF n, m
<1>4. /\ n + m <= Len(q) /\ \A i \in 1..m : p[i] = q[n + i]
  BY <1>2 DEF InPlace, m
<1>5. n + 1 \in 1..Len(q) /\ b = q[n + 1]
  <2>1. n + 1 \in 1..Len(q) /\ 1 \in 1..m
    BY <1>3, <1>4
  <2>2. b = p[1]
    BY <1>2
  <2>3. QED
    BY <1>4, <2>1, <2>2
<1>6. b \in Batch /\ b.id \in Nat /\ b.id < next
  BY <1>1, <1>3, <1>5
<1>7. a < b.id
  <2>1. ~(n + 1 <= n)
    BY <1>3
  <2>2. ~(b.id <= a)
    BY <1>1, <1>3, <1>5, <2>1
  <2>3. QED
    BY <1>1, <1>6, <2>2
<1>8. ASSUME NEW i \in 1..Len(q) PROVE q[i].id <= b.id <=> i <= n + 1
  <2>0. q[i].id \in Nat /\ q[n + 1].id \in Nat
    BY <1>3, <1>5
  <2>1. CASE i < n + 1
    <3>1. q[i].id < q[n + 1].id
      BY <1>1, <1>3, <1>5, <2>1 DEF Ascending
    <3>2. QED
      BY <1>3, <1>5, <2>0, <2>1, <3>1
  <2>2. CASE i = n + 1
    BY <1>3, <1>5, <1>6, <2>2
  <2>3. CASE i > n + 1
    <3>1. q[n + 1].id < q[i].id
      BY <1>1, <1>3, <1>5, <2>3 DEF Ascending
    <3>2. QED
      BY <1>3, <1>5, <2>0, <2>3, <3>1
  <2>4. QED
    BY <1>3, <2>1, <2>2, <2>3
<1>9. /\ g \in Seq(Batch) /\ Len(g) = n + 1 /\ \A i \in 1..n : g[i] = h[i]
      /\ g[n + 1] = b
  BY <1>1, <1>6, AppendProperties DEF n
<1>10. n <= Len(q) /\ \A i \in 1..n : h[i] = q[i]
  <2>1. n <= Len(q)
    BY <1>3, <1>4
  <2>2. \A i \in 1..n : h[i] = q[0 + i]
    BY <1>1 DEF InPlace, n
  <2>3. \A i \in 1..n : 0 + i = i
    BY <1>3
  <2>4. QED
    BY <2>1, <2>2, <2>3
<1> HIDE DEF g
<1>11. InPlace(q, 0, g)
  <2>1. 0 + Len(g) <= Len(q)
    BY <1>3, <1>5, <1>9
  <2>2. ASSUME NEW i \in 1..Len(g) PROVE g[i] = q[0 + i]
    <3>1. 0 + i = i /\ (i \in 1..n \/ i = n + 1)
      BY <1>3, <1>9
    <3>2. QED
      BY <1>5, <1>9, <1>10, <3>1
  <2>3. QED
    BY <2>1, <2>2 DEF InPlace
<1>12. Holds(q, next, g, b.id)
  <2>1. \A i \in DOMAIN q : q[i].id <= b.id <=> i <= Len(g)
    BY <1>3, <1>8, <1>9
  <2>2. \E i \in DOMAIN q : q[i].id = b.id
    BY <1>3, <1>5
  <2>3. b.id \in Id
    BY <1>6
  <2>4. QED
    BY <1>1, <1>6, <1>9, <1>11, <2>1, <2>2, <2>3, Zenon DEF Holds
<1>13. /\ Tail(p) \in Seq(Batch) /\ Len(Tail(p)) = m - 1
       /\ \A i \in 1..(m - 1) : Tail(p)[i] = p[i + 1]
  BY <1>2, HeadTailProperties DEF m
<1>14. InPlace(q, n + 1, Tail(p))
  <2>1. (n + 1) + Len(Tail(p)) <= Len(q)
    BY <1>3, <1>4, <1>13
  <2>2. ASSUME NEW i \in 1..Len(Tail(p)) PROVE Tail(p)[i] = q[(n + 1) + i]
    <3>1. i \in 1..(m - 1) /\ i + 1 \in 1..m /\ n + (i + 1) = (n + 1) + i
      BY <1>3, <1>13
    <3>2. Tail(p)[i] = p[i + 1]
      BY <1>13, <3>1
    <3>3. p[i + 1] = q[n + (i + 1)]
      BY <1>4, <3>1
    <3>4. QED
      BY <3>1, <3>2, <3>3
  <2>3. QED
    BY <2>1, <2>2 DEF InPlace
<1>15. \A i \in DOMAIN q : (q[i].id <= seen \/ q[i].id <= b.id)
                              <=> i <= (n + 1) + Len(Tail(p))
  <2> SUFFICES ASSUME NEW i \in 1..Len(q)
               PROVE  (q[i].id <= seen \/ q[i].id <= b.id) <=> i <= (n + 1) + Len(Tail(p))
    BY <1>3
  <2>1. (n + 1) + Len(Tail(p)) = n + m
    BY <1>3, <1>13
  <2>2. (q[i].id <= seen \/ i <= n) <=> i <= n + m
    BY <1>1, <1>2, <1>3
  <2>3. q[i].id <= b.id <=> i <= n + 1
    BY <1>8
  <2>4. (q[i].id <= seen \/ i <= n + 1) <=> i <= n + m
    BY <1>3, <2>2
  <2>5. QED
    BY <2>1, <2>3, <2>4
<1>16. Fits(q, next, Len(g), Tail(p), b.id, seen)
  <2>1. n + 1 \in Nat /\ Len(Tail(p)) <= kMaxPendingWrites /\ b.id \in Id
    BY <1>2, <1>3, <1>6, <1>13 DEF m
  <2>2. QED
    BY <1>1, <1>2, <1>9, <1>13, <1>14, <1>15, <2>1, Zenon DEF Fits
<1>17. QED
  BY <1>5, <1>6, <1>7, <1>9, <1>12, <1>16 DEF n, g

\* The first d batches, whose results were held, leave the queue.
LEMMA ReleaseIs ==
    ASSUME NEW q, NEW next, NEW h, NEW p, NEW a, NEW seen,
           Holds(q, next, h, a), Fits(q, next, Len(h), p, a, seen),
           NEW d \in 0..Len(h), NEW r, Dropped(q, r, d), NEW g, Dropped(h, g, d)
    PROVE  /\ Holds(r, next, g, a) /\ Fits(r, next, Len(g), p, a, seen)
           /\ Full(q, Len(h), p) => Full(r, Len(g), p)
<1>0. /\ r \in Seq(Batch) /\ Len(r) = Len(q) - d
      /\ \A i \in 1..(Len(q) - d) : r[i] = q[d + i]
      /\ g \in Seq(Batch) /\ Len(g) = Len(h) - d
      /\ \A i \in 1..(Len(h) - d) : g[i] = h[d + i]
  BY DEF Dropped
<1> USE <1>0
<1> DEFINE n == Len(h)
           m == Len(p)
           z == Len(q)
<1>1. /\ q \in Seq(Batch) /\ Ascending(q) /\ next \in Nat /\ h \in Seq(Batch)
      /\ (\A i \in DOMAIN q : q[i].id < next) /\ a \in Id /\ a < next
      /\ InPlace(q, 0, h) /\ (\A i \in DOMAIN q : q[i].id <= a <=> i <= n)
      /\ \/ \E i \in DOMAIN q : q[i].id = a
         \/ \A i \in DOMAIN q : a < q[i].id
  BY DEF Holds
<1>2. /\ p \in Seq(Batch) /\ InPlace(q, n, p) /\ m <= kMaxPendingWrites
      /\ seen \in Id /\ seen < next
      /\ \A i \in DOMAIN q : (q[i].id <= seen \/ q[i].id <= a) <=> i <= n + m
  BY DEF Fits
<1>3. /\ z \in Nat /\ DOMAIN q = 1..z /\ n \in Nat /\ m \in Nat
      /\ \A i \in 1..z : q[i] \in Batch /\ q[i].id \in Nat
  BY <1>1, <1>2, BatchSeq
<1>4. n <= z /\ n + m <= z
  <2>1. 0 + n <= z
    BY <1>1 DEF InPlace
  <2>2. n + m <= z
    BY <1>2 DEF InPlace
  <2> HIDE DEF n, z, m
  <2>3. QED
    BY <1>3, <2>1, <2>2
<1>5. DOMAIN r = 1..Len(r) /\ Len(r) \in Nat
  BY BatchSeq
<1> HIDE DEF n, m, z
<1>6. /\ d \in Nat /\ n \in Nat /\ z \in Nat /\ m \in Nat /\ d <= n
      /\ n + m <= z /\ Len(r) = z - d /\ Len(g) = n - d
      /\ Len(r) \in Nat /\ Len(g) \in Nat
  <2>1. d \in 0..n /\ Len(r) = z - d /\ Len(g) = n - d
    BY DEF n, z
  <2>2. Len(g) \in Nat
    BY LenProperties
  <2>3. n \in Nat /\ z \in Nat /\ m \in Nat /\ n + m <= z /\ Len(r) \in Nat
    BY <1>3, <1>4, <1>5
  <2>4. QED
    BY ONLY <2>1, <2>2, <2>3
<1>7. ASSUME NEW i \in 1..Len(r)
      PROVE  d + i \in 1..z /\ r[i] = q[d + i] /\ r[i].id \in Nat /\ r[i].id < next
  <2>1. d + i \in 1..z /\ i \in 1..(z - d)
    BY ONLY <1>6, i \in 1..Len(r)
  <2>2. r[i] = q[d + i]
    BY <2>1 DEF z
  <2>3. QED
    BY <1>1, <1>3, <2>1, <2>2
<1>8. Ascending(r)
  <2> SUFFICES ASSUME NEW i \in 1..Len(r), NEW j \in 1..Len(r), i < j
               PROVE  r[i].id < r[j].id
    BY <1>5 DEF Ascending
  <2>1. d + i \in 1..z /\ d + j \in 1..z
    BY <1>7
  <2>i. d + i < d + j
    BY ONLY <1>6, i \in 1..Len(r), j \in 1..Len(r), i < j
  <2>2. q[d + i].id < q[d + j].id
    BY <1>1, <1>3, <2>1, <2>i DEF Ascending
  <2>3. QED
    BY <1>7, <2>2
<1>9. \A i \in DOMAIN r : r[i].id <= a <=> i <= Len(g)
  <2> SUFFICES ASSUME NEW i \in 1..Len(r) PROVE r[i].id <= a <=> i <= Len(g)
    BY <1>5
  <2>1. q[d + i].id <= a <=> d + i <= n
    BY <1>1, <1>3, <1>7
  <2>2. d + i <= n <=> i <= Len(g)
    BY ONLY <1>6, i \in 1..Len(r)
  <2>3. QED
    BY <1>7, <2>1, <2>2
<1>10. \/ \E i \in DOMAIN r : r[i].id = a
       \/ \A i \in DOMAIN r : a < r[i].id
  <2>1. CASE \E i \in 1..z : q[i].id = a /\ d < i
    <3>1. PICK i \in 1..z : q[i].id = a /\ d < i
      BY <2>1
    <3>2. i - d \in 1..Len(r) /\ d + (i - d) = i
      BY ONLY <1>6, <3>1, i \in 1..z
    <3>3. r[i - d].id = a
      BY <1>7, <3>1, <3>2
    <3>4. QED
      BY <1>5, <3>2, <3>3
  <2>2. CASE \E i \in 1..z : q[i].id = a /\ i <= d
    <3>1. PICK i \in 1..z : q[i].id = a /\ i <= d
      BY <2>2
    <3>2. ASSUME NEW j \in 1..Len(r) PROVE a < r[j].id
      <4>1. i < d + j
        BY ONLY <1>6, <3>1, i \in 1..z, j \in 1..Len(r)
      <4>i. d + j \in 1..z
        BY <1>7
      <4>2. q[i].id < q[d + j].id
        BY <1>1, <1>3, <4>1, <4>i DEF Ascending
      <4>3. QED
        BY <1>7, <3>1, <4>2
    <3>3. QED
      BY <1>5, <3>2
  <2>3. CASE \A i \in 1..z : a < q[i].id
    BY <1>5, <1>7, <2>3
  <2>4. \A i \in 1..z : d < i \/ i <= d
    BY ONLY <1>6
  <2>5. \/ \E i \in 1..z : q[i].id = a
        \/ \A i \in 1..z : a < q[i].id
    BY <1>1, <1>3
  <2>6. QED
    BY <2>1, <2>2, <2>3, <2>4, <2>5, Zenon
<1>11. InPlace(r, 0, g)
  <2>1. 0 + Len(g) <= Len(r)
    BY <1>3, <1>4, <1>6
  <2>2. ASSUME NEW i \in 1..Len(g) PROVE g[i] = r[0 + i]
    <3>1. /\ i \in 1..(n - d) /\ i \in 1..Len(r) /\ d + i \in 1..n
          /\ 0 + i = i /\ 0 + (d + i) = d + i
      BY ONLY <1>6, i \in 1..Len(g)
    <3>2. g[i] = h[d + i]
      BY <3>1 DEF n
    <3>3. h[d + i] = q[0 + (d + i)]
      BY <1>1, <3>1 DEF InPlace, n
    <3>4. r[i] = q[d + i]
      BY <1>7, <3>1
    <3>5. QED
      BY <3>1, <3>2, <3>3, <3>4
  <2>3. QED
    BY <2>1, <2>2 DEF InPlace
<1>12. Holds(r, next, g, a)
  BY <1>1, <1>5, <1>7, <1>8, <1>9, <1>10, <1>11 DEF Holds
<1>13. InPlace(r, Len(g), p)
  <2>1. Len(g) + m <= Len(r)
    BY ONLY <1>6
  <2>2. ASSUME NEW i \in 1..m PROVE p[i] = r[Len(g) + i]
    <3>1. Len(g) + i \in 1..Len(r) /\ d + (Len(g) + i) = n + i
      BY ONLY <1>6, <2>1, i \in 1..m
    <3>2. p[i] = q[n + i]
      BY <1>2 DEF InPlace, m
    <3>3. QED
      BY <1>7, <3>1, <3>2
  <2>3. QED
    BY <2>1, <2>2 DEF InPlace, m
<1>14. \A i \in DOMAIN r : (r[i].id <= seen \/ r[i].id <= a) <=> i <= Len(g) + m
  <2> SUFFICES ASSUME NEW i \in 1..Len(r)
               PROVE  (r[i].id <= seen \/ r[i].id <= a) <=> i <= Len(g) + m
    BY <1>5
  <2>1. (q[d + i].id <= seen \/ q[d + i].id <= a) <=> d + i <= n + m
    BY <1>2, <1>3, <1>7
  <2>2. d + i <= n + m <=> i <= Len(g) + m
    BY ONLY <1>6, i \in 1..Len(r)
  <2>3. QED
    BY <1>7, <2>1, <2>2
<1>15. Fits(r, next, Len(g), p, a, seen)
  <2>1. Len(g) \in Nat /\ \A i \in DOMAIN r : r[i].id < next
    BY <1>3, <1>5, <1>6, <1>7
  <2>2. QED
    BY <1>1, <1>2, <1>8, <1>13, <1>14, <2>1, Zenon DEF Fits, m
<1>16. Full(q, n, p) => Full(r, Len(g), p)
  <2>1. n + m = z => Len(g) + m = Len(r)
    BY ONLY <1>6
  <2>2. QED
    BY <2>1 DEF Full, m, z
<1>17. QED
  BY <1>12, <1>15, <1>16 DEF n

\* The first batch of the pipeline is refused: it leaves the queue from its
\* place after the held ones.
LEMMA RejectIs ==
    ASSUME NEW q, NEW next, NEW h, NEW p, NEW a, NEW seen,
           Holds(q, next, h, a), Fits(q, next, Len(h), p, a, seen), p # <<>>,
           NEW b, b = Head(p), NEW r, r = removeMutationBatch(q, b.id)
    PROVE  /\ b \in Batch /\ Len(h) + 1 \in 1..Len(q) /\ b = q[Len(h) + 1]
           /\ Holds(r, next, h, a) /\ Fits(r, next, Len(h), Tail(p), a, seen)
           /\ Len(r) = Len(q) - 1
           /\ \A i \in 1..(Len(q) - 1) :
                 r[i] = IF i < Len(h) + 1 THEN q[i] ELSE q[i + 1]
<1> DEFINE n == Len(h)
           m == Len(p)
           z == Len(q)
           old(i) == IF i < n + 1 THEN i ELSE i + 1
<1>1. /\ q \in Seq(Batch) /\ Ascending(q) /\ next \in Nat /\ h \in Seq(Batch)
      /\ (\A i \in DOMAIN q : q[i].id < next) /\ a \in Id /\ a < next
      /\ InPlace(q, 0, h) /\ (\A i \in DOMAIN q : q[i].id <= a <=> i <= n)
      /\ \/ \E i \in DOMAIN q : q[i].id = a
         \/ \A i \in DOMAIN q : a < q[i].id
  BY DEF Holds
<1>2. /\ p \in Seq(Batch) /\ InPlace(q, n, p) /\ m <= kMaxPendingWrites
      /\ seen \in Id /\ seen < next
      /\ \A i \in DOMAIN q : (q[i].id <= seen \/ q[i].id <= a) <=> i <= n + m
  BY DEF Fits
<1>3. b \in Batch /\ n + 1 \in 1..z /\ b = q[n + 1]
  BY AckIs
<1>4. /\ DOMAIN q = 1..z /\ \A i \in 1..z : q[i] \in Batch /\ q[i].id \in Nat
  BY <1>1, BatchSeq
<1>5. /\ r \in Seq(Batch) /\ Len(r) = z - 1
      /\ \A i \in 1..(z - 1) : r[i] = IF i < n + 1 THEN q[i] ELSE q[i + 1]
  <2>1. PICK k : k = n + 1
    OBVIOUS
  <2>2. k \in 1..z /\ r = removeMutationBatch(q, q[k].id)
    BY <1>3, <2>1
  <2>3. LET x == removeMutationBatch(q, q[k].id)
        IN  /\ x \in Seq(Batch) /\ Len(x) = Len(q) - 1
            /\ \A i \in 1..(Len(q) - 1) : x[i] = IF i < k THEN q[i] ELSE q[i + 1]
    BY <1>1, <2>2, RemoveIs, Zenon
  <2>4. QED
    BY <2>1, <2>2, <2>3, Zenon
<1>6. DOMAIN r = 1..Len(r) /\ Len(r) \in Nat
  BY <1>5, BatchSeq
<1>7. /\ n \in Nat /\ m \in Nat /\ m # 0 /\ z \in Nat /\ n + m <= z
      /\ Len(r) = z - 1 /\ Len(r) \in Nat
  <2>1. n \in Nat /\ m \in Nat /\ m # 0 /\ z \in Nat
    BY <1>1, <1>2, BatchSeq, EmptySeq
  <2>2. n + m <= z
    BY <1>2 DEF InPlace
  <2>3. QED
    BY <1>5, <1>6, <2>1, <2>2
<1> HIDE DEF n, m, z
<1>8. ASSUME NEW i \in 1..Len(r)
      PROVE  /\ old(i) \in 1..z /\ r[i] = q[old(i)]
             /\ r[i].id \in Nat /\ r[i].id < next
  <2>1. old(i) \in 1..z /\ i \in 1..(z - 1)
    BY ONLY <1>7, i \in 1..Len(r)
  <2>2. r[i] = q[old(i)]
    <3>1. r[i] = IF i < n + 1 THEN q[i] ELSE q[i + 1]
      BY <1>5, <2>1
    <3>2. QED
      BY <3>1
  <2> HIDE DEF old
  <2>3. QED
    BY <1>1, <1>4, <2>1, <2>2
<1>9. Ascending(r)
  <2> SUFFICES ASSUME NEW i \in 1..Len(r), NEW j \in 1..Len(r), i < j
               PROVE  r[i].id < r[j].id
    BY <1>6 DEF Ascending
  <2>1. old(i) < old(j)
    BY ONLY <1>7, i \in 1..Len(r), j \in 1..Len(r), i < j
  <2>2. /\ old(i) \in 1..z /\ r[i] = q[old(i)]
        /\ old(j) \in 1..z /\ r[j] = q[old(j)]
    BY <1>8
  <2> HIDE DEF old
  <2>3. q[old(i)].id < q[old(j)].id
    BY <1>1, <1>4, <2>1, <2>2 DEF Ascending
  <2>4. QED
    BY <2>2, <2>3
<1>10. ASSUME NEW i \in 1..Len(r) PROVE r[i].id <= a <=> i <= n
  <2>1. old(i) \in 1..z /\ r[i] = q[old(i)]
    BY <1>8
  <2>2. q[old(i)].id <= a <=> old(i) <= n
    BY <1>1, <1>4, <2>1
  <2>3. old(i) <= n <=> i <= n
    BY ONLY <1>7, i \in 1..Len(r)
  <2> HIDE DEF old
  <2>4. QED
    BY <2>1, <2>2, <2>3
<1>11. \/ \E i \in DOMAIN r : r[i].id = a
       \/ \A i \in DOMAIN r : a < r[i].id
  <2>1. CASE \E i \in 1..z : q[i].id = a
    <3>1. PICK i \in 1..z : q[i].id = a
      BY <2>1
    <3>2. i <= n
      <4>1. q[i].id <= a
        BY <1>1, <3>1
      <4>2. QED
        BY <1>1, <1>4, <4>1
    <3>3. i \in 1..Len(r) /\ old(i) = i
      BY ONLY <1>3, <1>7, <3>2, i \in 1..z
    <3>4. r[i] = q[i]
      BY <1>8, <3>3
    <3>5. QED
      BY <1>6, <3>1, <3>3, <3>4
  <2>2. CASE \A i \in 1..z : a < q[i].id
    <3>1. ASSUME NEW i \in 1..Len(r) PROVE a < r[i].id
      <4>1. old(i) \in 1..z /\ r[i] = q[old(i)]
        BY <1>8
      <4> HIDE DEF old
      <4>2. QED
        BY <2>2, <4>1
    <3>2. QED
      BY <1>6, <3>1
  <2>3. QED
    BY <1>1, <1>4, <2>1, <2>2
<1>12. InPlace(r, 0, h)
  <2>1. 0 + n <= Len(r)
    BY ONLY <1>7
  <2>2. ASSUME NEW i \in 1..n PROVE h[i] = r[0 + i]
    <3>1. i \in 1..Len(r) /\ old(i) = i /\ 0 + i = i
      BY ONLY <1>7, i \in 1..n
    <3>2. h[i] = q[0 + i]
      BY <1>1 DEF InPlace, n
    <3>3. QED
      BY <1>8, <3>1, <3>2
  <2>3. QED
    BY <2>1, <2>2 DEF InPlace, n
<1>13. Holds(r, next, h, a)
  <2>1. \A i \in DOMAIN r : r[i].id <= a <=> i <= Len(h)
    BY <1>6, <1>10 DEF n
  <2>2. \A i \in DOMAIN r : r[i].id < next
    BY <1>6, <1>8
  <2>3. QED
    BY <1>1, <1>5, <1>9, <1>11, <1>12, <2>1, <2>2, Zenon DEF Holds
<1>14. /\ Tail(p) \in Seq(Batch) /\ Len(Tail(p)) = m - 1
       /\ \A i \in 1..(m - 1) : Tail(p)[i] = p[i + 1]
  BY <1>2, HeadTailProperties DEF m
<1>15. InPlace(r, n, Tail(p))
  <2>1. n + Len(Tail(p)) <= Len(r)
    BY <1>7, <1>14
  <2>2. ASSUME NEW i \in 1..Len(Tail(p)) PROVE Tail(p)[i] = r[n + i]
    <3>0. i \in 1..(m - 1)
      BY <1>14
    <3>1. /\ i + 1 \in 1..m /\ n + i \in 1..Len(r)
          /\ old(n + i) = n + (i + 1)
      BY ONLY <1>7, <3>0
    <3>2. Tail(p)[i] = p[i + 1]
      BY <1>14, <3>0
    <3>3. p[i + 1] = q[n + (i + 1)]
      BY <1>2, <3>1 DEF InPlace, m
    <3>4. r[n + i] = q[old(n + i)]
      BY <1>8, <3>1
    <3> HIDE DEF old
    <3>5. QED
      BY <3>1, <3>2, <3>3, <3>4
  <2>3. QED
    BY <2>1, <2>2 DEF InPlace
<1>16. \A i \in DOMAIN r : (r[i].id <= seen \/ r[i].id <= a) <=> i <= n + Len(Tail(p))
  <2> SUFFICES ASSUME NEW i \in 1..Len(r)
               PROVE  (r[i].id <= seen \/ r[i].id <= a) <=> i <= n + Len(Tail(p))
    BY <1>6
  <2>1. old(i) \in 1..z /\ r[i] = q[old(i)]
    BY <1>8
  <2>2. (q[old(i)].id <= seen \/ q[old(i)].id <= a) <=> old(i) <= n + m
    BY <1>2, <1>4, <2>1
  <2>3. old(i) <= n + m <=> i <= n + (m - 1)
    BY ONLY <1>7, i \in 1..Len(r)
  <2> HIDE DEF old
  <2>4. QED
    BY <1>14, <2>1, <2>2, <2>3
<1>17. Fits(r, next, n, Tail(p), a, seen)
  <2>1. Len(Tail(p)) <= kMaxPendingWrites /\ \A i \in DOMAIN r : r[i].id < next
    <3>1. Len(Tail(p)) <= kMaxPendingWrites
      BY <1>2, <1>7, <1>14
    <3>2. QED
      BY <1>6, <1>8, <3>1
  <2>2. QED
    BY <1>1, <1>2, <1>5, <1>7, <1>9, <1>14, <1>15, <1>16, <2>1, Zenon DEF Fits
<1>18. QED
  BY <1>3, <1>5, <1>13, <1>17 DEF n, z

\* What the invariant says of the queue of the account.
LEMMA HoldsNow ==
    ASSUME QueueInv
    PROVE  /\ Holds(rows[user], nextBatchID, held, lastAcked[user])
           /\ Fits(rows[user], nextBatchID, Len(held), pendingWrites, lastAcked[user],
                   lastBatchSeen)
           /\ Full(rows[user], Len(held), pendingWrites)
<1>1. /\ user \in User /\ nextBatchID \in Nat /\ held \in Seq(Batch)
      /\ rows[user] \in Seq(Batch) /\ lastAcked[user] \in Id
  BY TypeElim DEF QueueInv
<1>2. Ascending(rows[user]) /\ \A i \in DOMAIN rows[user] : rows[user][i].id < nextBatchID
  BY <1>1 DEF QueueInv, QueuesOK
<1>3. /\ lastAcked[user] < nextBatchID /\ InPlace(rows[user], 0, held)
      /\ \A i \in DOMAIN rows[user] : rows[user][i].id <= lastAcked[user] <=> i <= Len(held)
  BY DEF QueueInv, HeldOK
<1>4. \/ \E i \in DOMAIN rows[user] : rows[user][i].id = lastAcked[user]
      \/ \A i \in DOMAIN rows[user] : lastAcked[user] < rows[user][i].id
  BY <1>1 DEF QueueInv, AckedOK
<1>5. Holds(rows[user], nextBatchID, held, lastAcked[user])
  BY <1>1, <1>2, <1>3, <1>4, Zenon DEF Holds
<1>6. QED
  BY <1>5 DEF QueueInv, SeenOK

\* A step that changes the queue of the account to r and the last batch
\* acknowledged to b.
LEMMA OwnNext ==
    ASSUME QueueInv, UNCHANGED <<user, nextBatchID>>, NEW r, NEW b,
           Holds(r, nextBatchID, held', b),
           rows' = [rows EXCEPT ![user] = r],
           lastAcked' = [lastAcked EXCEPT ![user] = b],
           NEW blocks, completion' = [completion EXCEPT ![user] = blocks],
           Waiting(blocks, r, b), SeenOK', StreamInv', OthersOK'
    PROVE  /\ PipeInv'
           /\ \A v \in User \ {user} : Unacknowledged(v)' = Unacknowledged(v)
           /\ Unacknowledged(user)' \in Seq(Batch)
           /\ Len(Unacknowledged(user)') = Len(r) - Len(held')
           /\ \A i \in 1..(Len(r) - Len(held')) :
                 Unacknowledged(user)'[i] = r[Len(held') + i]
<1>1. /\ user \in User /\ nextBatchID \in Nat /\ rows \in [User -> Seq(Batch)]
      /\ lastAcked \in [User -> Id] /\ completion \in [User -> SUBSET Batch]
  BY TypeElim DEF QueueInv
<1>2. /\ r \in Seq(Batch) /\ Ascending(r) /\ (\A i \in DOMAIN r : r[i].id < nextBatchID)
      /\ held' \in Seq(Batch) /\ b \in Id /\ b < nextBatchID /\ InPlace(r, 0, held')
      /\ (\A i \in DOMAIN r : r[i].id <= b <=> i <= Len(held'))
      /\ \/ \E i \in DOMAIN r : r[i].id = b
         \/ \A i \in DOMAIN r : b < r[i].id
  BY DEF Holds
<1>w. blocks \in SUBSET Batch /\ \A c \in blocks : c.id > b /\ \E i \in DOMAIN r : r[i] = c
  BY DEF Waiting
<1>3. /\ rows' \in [User -> Seq(Batch)] /\ rows'[user] = r
      /\ lastAcked' \in [User -> Id] /\ lastAcked'[user] = b
      /\ completion' \in [User -> SUBSET Batch] /\ completion'[user] = blocks
      /\ \A v \in User \ {user} : /\ rows'[v] = rows[v] /\ lastAcked'[v] = lastAcked[v]
                                  /\ completion'[v] = completion[v]
  BY <1>1, <1>2, <1>w
<1>4. QueuesOK'
  <2>1. ASSUME NEW v \in User
        PROVE  Ascending(rows'[v]) /\ \A i \in DOMAIN rows'[v] : rows'[v][i].id < nextBatchID'
    <3>1. CASE v = user
      BY <1>2, <1>3, <3>1
    <3>2. CASE v # user
      BY <1>3, <3>2 DEF QueueInv, QueuesOK
    <3>3. QED
      BY <3>1, <3>2
  <2>2. QED
    BY <2>1 DEF QueuesOK
<1>5. AckedOK'
  <2>1. ASSUME NEW v \in User
        PROVE  \/ \E i \in DOMAIN rows'[v] : rows'[v][i].id = lastAcked'[v]
               \/ \A i \in DOMAIN rows'[v] : lastAcked'[v] < rows'[v][i].id
    <3>1. CASE v = user
      BY <1>2, <1>3, <3>1
    <3>2. CASE v # user
      BY <1>3, <3>2 DEF QueueInv, AckedOK
    <3>3. QED
      BY <3>1, <3>2
  <2>2. QED
    BY <2>1 DEF AckedOK
<1>6. HeldOK'
  <2>1. user' = user /\ nextBatchID' = nextBatchID
    OBVIOUS
  <2>2. rows'[user'] = r /\ lastAcked'[user'] = b
    BY <1>3, <2>1
  <2>3. QED
    BY <1>2, <2>1, <2>2, Zenon DEF HeldOK
<1>7. CompletionsMatch'
  <2>1. ASSUME NEW v \in User, NEW c \in completion'[v]
        PROVE  c.id > lastAcked'[v] /\ \E i \in DOMAIN rows'[v] : rows'[v][i] = c
    <3>1. CASE v = user
      BY <1>3, <1>w, <3>1
    <3>2. CASE v # user
      BY <1>3, <3>2 DEF QueueInv, CompletionsMatch
    <3>3. QED
      BY <3>1, <3>2
  <2>2. QED
    BY <2>1 DEF CompletionsMatch
<1>8. TypeOK'
  <2>1. user' \in User /\ nextBatchID' \in Nat
    BY <1>1
  <2>2. QED
    BY <1>2, <1>3, <2>1, TypeNext
<1>9. PipeInv'
  BY <1>4, <1>5, <1>6, <1>7, <1>8 DEF PipeInv, QueueInv
<1>10. \A v \in User \ {user} : Unacknowledged(v)' = Unacknowledged(v)
  BY <1>3 DEF Unacknowledged
<1>11. PICK n : n = Len(held')
  OBVIOUS
<1>12. n \in 0..Len(r)
  <2>1. n \in Nat /\ Len(r) \in Nat /\ 0 + n <= Len(r)
    BY <1>2, <1>11, LenProperties DEF InPlace
  <2>2. QED
    BY <2>1
<1>13. \A i \in DOMAIN r : r[i].id <= b <=> i <= n
  BY <1>2, <1>11
<1>14. /\ SubSeq(r, Through(r, b) + 1, Len(r)) \in Seq(Batch)
       /\ Len(SubSeq(r, Through(r, b) + 1, Len(r))) = Len(r) - n
       /\ \A i \in 1..(Len(r) - n) : SubSeq(r, Through(r, b) + 1, Len(r))[i] = r[n + i]
  BY <1>2, <1>12, <1>13, UnackOf, Zenon
<1>15. Unacknowledged(user)' = SubSeq(r, Through(r, b) + 1, Len(r))
  BY <1>3 DEF Unacknowledged
<1>16. QED
  BY <1>9, <1>10, <1>11, <1>14, <1>15, Zenon

LEMMA TailIs ==
    ASSUME NEW S, NEW x \in Seq(S), NEW y \in Seq(S), Len(x) # 0, Len(y) = Len(x) - 1,
           \A i \in 1..(Len(x) - 1) : y[i] = x[i + 1]
    PROVE  x # <<>> /\ y = Tail(x)
<1>1. x # <<>>
  BY EmptySeq
<1>2. /\ Tail(x) \in Seq(S) /\ Len(Tail(x)) = Len(x) - 1
      /\ \A i \in 1..(Len(x) - 1) : Tail(x)[i] = x[i + 1]
  BY <1>1, HeadTailProperties
<1>3. \A i \in 1..Len(y) : y[i] = Tail(x)[i]
  BY <1>2
<1>4. y = Tail(x)
  BY <1>2, <1>3, SeqEqual
<1>5. QED
  BY <1>1, <1>4

\* acknowledgeBatch, whether the result is held or not.
LEMMA AckQueue ==
    ASSUME QueueInv, pendingWrites # <<>>, NEW b, b = Head(pendingWrites),
           acknowledgeBatch(b)
    PROVE  LET q == rows[user]
               n == Len(held)
           IN  /\ b \in Batch /\ n + 1 \in 1..Len(q) /\ b = q[n + 1] /\ lastAcked[user] < b.id
               /\ lastAcked' = [lastAcked EXCEPT ![user] = b.id]
               /\ \E r :
                     /\ rows' = [rows EXCEPT ![user] = r]
                     /\ Holds(r, nextBatchID, held', b.id)
                     /\ Fits(r, nextBatchID, Len(held'), Tail(pendingWrites), b.id,
                             lastBatchSeen)
                     /\ Len(r) - Len(held') = Len(q) - (n + 1)
                     /\ \A i \in 1..(Len(q) - (n + 1)) : r[Len(held') + i] = q[(n + 1) + i]
<1> DEFINE q == rows[user]
           n == Len(held)
           p == Tail(pendingWrites)
           a == lastAcked[user]
<1>1. /\ Holds(q, nextBatchID, held, a)
      /\ Fits(q, nextBatchID, n, pendingWrites, a, lastBatchSeen)
  BY HoldsNow
<1>2. /\ user \in User /\ rows \in [User -> Seq(Batch)] /\ held \in Seq(Batch)
      /\ q \in Seq(Batch) /\ Ascending(q) /\ n \in Nat /\ Len(q) \in Nat
  BY OwnQueue, TypeElim DEF QueueInv
<1> HIDE DEF q, a
<1>3. /\ b \in Batch /\ n + 1 \in 1..Len(q) /\ b = q[n + 1] /\ a < b.id
      /\ Holds(q, nextBatchID, Append(held, b), b.id)
      /\ Fits(q, nextBatchID, Len(Append(held, b)), p, b.id, lastBatchSeen)
      /\ Len(Append(held, b)) = n + 1
  BY <1>1, AckIs
<1>4. lastAcked' = [lastAcked EXCEPT ![user] = b.id]
  BY DEF acknowledgeBatch
<1> DEFINE P(r) ==
             /\ rows' = [rows EXCEPT ![user] = r]
             /\ Holds(r, nextBatchID, held', b.id)
             /\ Fits(r, nextBatchID, Len(held'), p, b.id, lastBatchSeen)
             /\ Len(r) - Len(held') = Len(q) - (n + 1)
             /\ \A i \in 1..(Len(q) - (n + 1)) : r[Len(held') + i] = q[(n + 1) + i]
<1>5. CASE held' = Append(held, b) /\ rows' = rows
  <2>1. rows' = [rows EXCEPT ![user] = q]
    BY <1>2, <1>5 DEF q
  <2>2. P(q)
    BY <1>3, <1>5, <2>1
  <2>3. QED
    BY <1>3, <1>4, <2>2 DEF q, a
<1>6. CASE /\ held = <<>> /\ held' = held
           /\ rows' = [rows EXCEPT ![user] = removeMutationBatch(rows[user], b.id)]
  <2>1. n = 0 /\ held' = <<>> /\ Len(held') = 0
    BY <1>6, EmptySeq
  <2>2. PICK r : r = removeMutationBatch(q, b.id)
    OBVIOUS
  <2>3. /\ r \in Seq(Batch) /\ Len(r) = Len(q) - 1
        /\ \A i \in 1..(Len(q) - 1) : r[i] = q[1 + i]
    <3>1. PICK k : k = 1
      OBVIOUS
    <3>2. k \in 1..Len(q) /\ r = removeMutationBatch(q, q[k].id)
      BY <1>3, <2>1, <2>2, <3>1
    <3>3. LET x == removeMutationBatch(q, q[k].id)
          IN  /\ x \in Seq(Batch) /\ Len(x) = Len(q) - 1
              /\ \A i \in 1..(Len(q) - 1) : x[i] = IF i < k THEN q[i] ELSE q[i + 1]
      BY <1>2, <3>2, RemoveIs, Zenon
    <3>4. /\ r \in Seq(Batch) /\ Len(r) = Len(q) - 1
          /\ \A i \in 1..(Len(q) - 1) : r[i] = IF i < k THEN q[i] ELSE q[i + 1]
      BY <3>2, <3>3, Zenon
    <3>5. ASSUME NEW i \in 1..(Len(q) - 1) PROVE r[i] = q[1 + i]
      <4>1. ~(i < k) /\ i + 1 = 1 + i
        BY <3>1
      <4>2. QED
        BY <3>4, <4>1
    <3>6. QED
      BY <3>4, <3>5
  <2>4. PICK h : h = Append(held, b)
    OBVIOUS
  <2>5. Len(h) = 1 /\ Holds(q, nextBatchID, h, b.id)
        /\ Fits(q, nextBatchID, Len(h), p, b.id, lastBatchSeen)
    BY <1>3, <2>1, <2>4
  <2>6. Holds(r, nextBatchID, <<>>, b.id) /\ Fits(r, nextBatchID, 0, p, b.id, lastBatchSeen)
    <3>1. PICK d : d = 1
      OBVIOUS
    <3>2. PICK g : g = <<>>
      OBVIOUS
    <3>3. d \in 0..Len(h) /\ Dropped(q, r, d)
      BY <2>3, <2>5, <3>1 DEF Dropped
    <3>4. Len(g) = 0 /\ Dropped(h, g, d)
      BY <2>5, <3>1, <3>2, EmptySeq DEF Dropped
    <3>5. Holds(r, nextBatchID, g, b.id) /\ Fits(r, nextBatchID, Len(g), p, b.id, lastBatchSeen)
      BY <2>5, <3>3, <3>4, ReleaseIs
    <3>6. QED
      BY <3>2, <3>4, <3>5
  <2>7. rows' = [rows EXCEPT ![user] = r]
    BY <1>6, <2>2 DEF q
  <2>8. Len(r) - Len(held') = Len(q) - (n + 1)
    BY <1>2, <2>1, <2>3
  <2>9. ASSUME NEW i \in 1..(Len(q) - (n + 1)) PROVE r[Len(held') + i] = q[(n + 1) + i]
    <3>1. Len(held') + i = i /\ (n + 1) + i = 1 + i /\ i \in 1..(Len(q) - 1)
      BY <1>2, <2>1
    <3>2. QED
      BY <2>3, <3>1
  <2>10. P(r)
    BY <2>1, <2>6, <2>7, <2>8, <2>9
  <2>11. QED
    BY <1>3, <1>4, <2>10 DEF q, a
<1>7. QED
  BY <1>5, <1>6 DEF acknowledgeBatch

\* writeStreamDidReceiveResponse: the first write that was not acknowledged is
\* acknowledged.
LEMMA AckOK ==
    ASSUME PipeInv, OthersOK', writeStreamDidReceiveResponse
    PROVE  /\ PipeInv'
           /\ RespOf(stream) # <<>> /\ Head(RespOf(stream)) = TRUE
           /\ RespOf(stream') = Tail(RespOf(stream))
           /\ Unacknowledged(user) # <<>>
           /\ Unacknowledged(user)' = Tail(Unacknowledged(user))
           /\ \A v \in User \ {user} : Unacknowledged(v)' = Unacknowledged(v)
<1> DEFINE q == rows[user]
           n == Len(held)
<1>1. QueueInv /\ StreamOK(stream, pendingWrites)
  BY DEF PipeInv, StreamInv
<1>2. /\ pendingWrites \in Seq(Batch) /\ user \in User
      /\ completion \in [User -> SUBSET Batch]
      /\ q \in Seq(Batch) /\ Ascending(q) /\ n \in Nat /\ Len(q) \in Nat
      /\ DOMAIN q = 1..Len(q) /\ \A i \in 1..Len(q) : q[i].id \in Nat
  BY <1>1, OwnQueue, TypeElim DEF QueueInv
<1>3. PICK b : b = Head(pendingWrites)
  OBVIOUS
<1>4. PICK s : s = Received
  OBVIOUS
<1>5. PICK p : p = Tail(pendingWrites)
  OBVIOUS
<1>6. /\ stream.responses # <<>> /\ Head(stream.responses) # "refused"
      /\ stream.handshakeComplete
      /\ completion' = [completion EXCEPT ![user] = {c \in @ : c.id # b.id}]
      /\ acknowledgeBatch(b)
      /\ fillWritePipeline(rows'[user], b.id, lastBatchSeen, p, s)
      /\ UNCHANGED <<user, nextBatchID>>
  BY <1>3, <1>4, <1>5 DEF writeStreamDidReceiveResponse, processUserCallbacks
<1>7. /\ pendingWrites # <<>> /\ StreamOK(s, p) /\ isStarted(s)
      /\ RespOf(stream) # <<>> /\ RespOf(s) = Tail(RespOf(stream))
      /\ Head(RespOf(stream)) = (Head(stream.responses) = "ok")
      /\ Head(stream.responses) # "handshake"
  <2>1. s = [stream EXCEPT !.responses = Tail(@)]
    BY <1>4 DEF Received
  <2>2. QED
    BY <1>1, <1>2, <1>5, <1>6, <2>1, ReceivedIs
<1>8. Head(RespOf(stream)) = TRUE
  <2>1. stream.responses \in Seq(Response)
    BY <1>1, StreamElim DEF StreamOK
  <2>2. Head(stream.responses) \in Response
    BY <1>6, <2>1, HeadTailProperties
  <2>3. Head(stream.responses) = "ok"
    BY <1>6, <1>7, <2>2 DEF Response
  <2>4. QED
    BY <1>7, <2>3
<1>9. /\ b \in Batch /\ n + 1 \in 1..Len(q) /\ b = q[n + 1] /\ lastAcked[user] < b.id
      /\ lastAcked' = [lastAcked EXCEPT ![user] = b.id]
  BY <1>1, <1>3, <1>6, <1>7, AckQueue
<1>10. PICK r :
         /\ rows' = [rows EXCEPT ![user] = r]
         /\ Holds(r, nextBatchID, held', b.id)
         /\ Fits(r, nextBatchID, Len(held'), p, b.id, lastBatchSeen)
         /\ Len(r) - Len(held') = Len(q) - (n + 1)
         /\ \A i \in 1..(Len(q) - (n + 1)) : r[Len(held') + i] = q[(n + 1) + i]
  BY <1>1, <1>3, <1>5, <1>6, <1>7, AckQueue
<1>11. SeenOK' /\ StreamInv' /\ SameResp(stream', s)
  <2>1. PICK a : a = b.id
    OBVIOUS
  <2>2. r = rows'[user'] /\ a = lastAcked'[user']
    <3>1. rows \in [User -> Seq(Batch)] /\ lastAcked \in [User -> Id]
      BY <1>1, TypeElim DEF QueueInv
    <3>2. QED
      BY <1>2, <1>6, <1>9, <1>10, <2>1, <3>1
  <2>3. Fits(r, nextBatchID', Len(held'), p, a, lastBatchSeen)
    BY <1>6, <1>10, <2>1
  <2>4. fillWritePipeline(r, a, lastBatchSeen, p, s)
    BY <1>6, <2>1, <2>2
  <2>5. QED
    BY <1>7, <2>2, <2>3, <2>4, FilledOK
<1> DEFINE blocks == {c \in completion[user] : c.id # b.id}
<1>12. ASSUME NEW c \in blocks PROVE c.id > b.id /\ \E i \in DOMAIN r : r[i] = c
  <2>1. c \in completion[user] /\ c.id # b.id /\ c \in Batch
    BY <1>2
  <2>2. c.id > lastAcked[user] /\ \E i \in DOMAIN q : q[i] = c
    BY <1>1, <1>2, <2>1 DEF QueueInv, CompletionsMatch
  <2>3. PICK i \in 1..Len(q) : q[i] = c
    BY <1>2, <2>2
  <2>4. i # n + 1
    BY <1>9, <2>1, <2>3
  <2>5. ~(i <= n)
    <3>1. q[i].id <= lastAcked[user] <=> i <= n
      BY <1>1, OwnQueue
    <3>2. lastAcked[user] \in Id /\ c.id \in Nat
      BY <1>1, <1>2, <2>3, OwnQueue
    <3>3. QED
      BY <2>2, <2>3, <3>1, <3>2
  <2>6. n + 1 < i
    BY <1>2, <2>4, <2>5
  <2>7. q[n + 1].id < q[i].id
    BY <1>2, <1>9, <2>6 DEF Ascending
  <2>8. PICK j : j = i - (n + 1)
    OBVIOUS
  <2>9. j \in 1..(Len(q) - (n + 1)) /\ (n + 1) + j = i
    <3>1. n \in Nat /\ Len(q) \in Nat /\ i \in 1..Len(q)
      BY <1>2
    <3> HIDE DEF n, q
    <3>2. QED
      BY ONLY <2>6, <2>8, <3>1
  <2>10. r[Len(held') + j] = c
    BY <1>10, <2>3, <2>9
  <2>11. Len(held') + j \in DOMAIN r
    <3>1. r \in Seq(Batch) /\ held' \in Seq(Batch)
      BY <1>10 DEF Holds
    <3>2. Len(r) \in Nat /\ Len(held') \in Nat /\ DOMAIN r = 1..Len(r)
      BY <3>1, LenProperties
    <3>3. Len(held') + j \in 1..Len(r)
      <4>1. Len(r) - Len(held') = Len(q) - (n + 1)
        BY <1>10
      <4>2. j \in 1..(Len(r) - Len(held'))
        BY <2>9, <4>1
      <4>3. QED
        BY ONLY <3>2, <4>2
    <3>4. QED
      BY <3>2, <3>3
  <2>12. c.id > b.id
    BY <1>2, <1>9, <2>3, <2>7
  <2>13. QED
    BY <2>10, <2>11, <2>12
<1>13. /\ PipeInv'
       /\ \A v \in User \ {user} : Unacknowledged(v)' = Unacknowledged(v)
       /\ Unacknowledged(user)' \in Seq(Batch)
       /\ Len(Unacknowledged(user)') = Len(r) - Len(held')
       /\ \A i \in 1..(Len(r) - Len(held')) : Unacknowledged(user)'[i] = r[Len(held') + i]
  <2>1. PICK a : a = b.id
    OBVIOUS
  <2>2. completion' = [completion EXCEPT ![user] = blocks] /\ blocks \in SUBSET Batch
    BY <1>2, <1>6
  <2> HIDE DEF blocks
  <2>3. Waiting(blocks, r, a)
    BY <1>12, <2>1, <2>2 DEF Waiting
  <2>4. Holds(r, nextBatchID, held', a) /\ lastAcked' = [lastAcked EXCEPT ![user] = a]
    BY <1>9, <1>10, <2>1
  <2>5. QED
    BY <1>1, <1>6, <1>10, <1>11, <2>2, <2>3, <2>4, OwnNext
<1>14. Unacknowledged(user) # <<>> /\ Unacknowledged(user)' = Tail(Unacknowledged(user))
  <2>1. PICK x : x = Unacknowledged(user)
    OBVIOUS
  <2>2. PICK y : y = Unacknowledged(user)'
    OBVIOUS
  <2>3. x \in Seq(Batch) /\ Len(x) = Len(q) - n /\ \A i \in 1..(Len(q) - n) : x[i] = q[n + i]
    BY <1>1, <2>1, UnackIs
  <2>4. /\ y \in Seq(Batch) /\ Len(y) = Len(q) - (n + 1)
        /\ \A i \in 1..(Len(q) - (n + 1)) : y[i] = q[(n + 1) + i]
    BY <1>10, <1>13, <2>2
  <2> HIDE DEF q, n
  <2>5. Len(x) # 0 /\ Len(y) = Len(x) - 1 /\ Len(x) - 1 = Len(q) - (n + 1)
    <3>1. /\ n \in Nat /\ Len(q) \in Nat /\ n + 1 \in 1..Len(q)
          /\ Len(x) = Len(q) - n /\ Len(y) = Len(q) - (n + 1)
      BY <1>2, <1>9, <2>3, <2>4 DEF q, n
    <3>2. QED
      BY ONLY <3>1
  <2>6. ASSUME NEW i \in 1..(Len(x) - 1) PROVE y[i] = x[i + 1]
    <3>1. i \in 1..(Len(q) - (n + 1)) /\ i + 1 \in 1..(Len(q) - n) /\ n + (i + 1) = (n + 1) + i
      BY <1>2, <2>5
    <3>2. y[i] = q[(n + 1) + i] /\ x[i + 1] = q[n + (i + 1)]
      BY <2>3, <2>4, <3>1
    <3>3. QED
      BY <3>1, <3>2
  <2>7. x # <<>> /\ y = Tail(x)
    BY <2>3, <2>4, <2>5, <2>6, TailIs
  <2>8. QED
    BY <2>1, <2>2, <2>7
<1>15. QED
  BY <1>7, <1>8, <1>11, <1>13, <1>14 DEF SameResp

\* handleWriteError: the first write that was not acknowledged leaves the queue,
\* and the connection is a new one.
LEMMA RejectOK ==
    ASSUME PipeInv, OthersOK', handleWriteError
    PROVE  /\ PipeInv'
           /\ RespOf(stream) # <<>> /\ Head(RespOf(stream)) = FALSE
           /\ RespOf(stream') = <<>>
           /\ Unacknowledged(user) # <<>>
           /\ Unacknowledged(user)' = Tail(Unacknowledged(user))
           /\ \A v \in User \ {user} : Unacknowledged(v)' = Unacknowledged(v)
<1> DEFINE q == rows[user]
           n == Len(held)
<1>1. QueueInv /\ StreamOK(stream, pendingWrites)
  BY DEF PipeInv, StreamInv
<1>2. /\ pendingWrites \in Seq(Batch) /\ user \in User
      /\ completion \in [User -> SUBSET Batch] /\ lastAcked \in [User -> Id]
      /\ rows \in [User -> Seq(Batch)]
      /\ q \in Seq(Batch) /\ Ascending(q) /\ n \in Nat /\ Len(q) \in Nat
      /\ DOMAIN q = 1..Len(q) /\ \A i \in 1..Len(q) : q[i].id \in Nat
  BY <1>1, OwnQueue, TypeElim DEF QueueInv
<1>3. PICK b : b = Head(pendingWrites)
  OBVIOUS
<1>4. PICK a : a = lastAcked[user]
  OBVIOUS
<1>5. PICK p : p = Tail(pendingWrites)
  OBVIOUS
<1>6. PICK r : r = removeMutationBatch(q, b.id)
  OBVIOUS
<1>7. PICK more : more = nextBatches(r, a, lastBatchSeen, p)
  OBVIOUS
<1>8. PICK s : s = closeWithFinalState(stream, "Initial")
  OBVIOUS
<1>9. PICK t : t = commitBatches(s, more, p)
  OBVIOUS
<1> DEFINE blocks == {c \in completion[user] : c.id # b.id}
<1>10. /\ stream.responses # <<>> /\ Head(stream.responses) = "refused"
       /\ stream.handshakeComplete /\ pendingWrites # <<>>
       /\ completion' = [completion EXCEPT ![user] = blocks]
       /\ rows' = [rows EXCEPT ![user] = r]
       /\ pendingWrites' = p \o more
       /\ lastBatchSeen' = SeenAfter(more, lastBatchSeen)
       /\ stream' = restartWriteStream(t, pendingWrites')
       /\ UNCHANGED <<user, lastAcked, nextBatchID, held>>
  BY <1>3, <1>4, <1>5, <1>6, <1>7, <1>8, <1>9
     DEF handleWriteError, processUserCallbacks, SeenAfter
<1>11. RespOf(stream) # <<>> /\ Head(RespOf(stream)) = FALSE
  <2>1. PICK x : x = [stream EXCEPT !.responses = Tail(@)]
    OBVIOUS
  <2>2. RespOf(stream) # <<>> /\ Head(RespOf(stream)) = (Head(stream.responses) = "ok")
    BY <1>1, <1>2, <1>10, <2>1, ReceivedIs
  <2>3. (Head(stream.responses) = "ok") = FALSE
    BY <1>10
  <2>4. QED
    BY <2>2, <2>3, Zenon
<1>12. /\ Holds(q, nextBatchID, held, a)
       /\ Fits(q, nextBatchID, n, pendingWrites, a, lastBatchSeen)
  BY <1>1, <1>4, HoldsNow
<1> HIDE DEF blocks, q
<1>13. /\ b \in Batch /\ n + 1 \in 1..Len(q) /\ b = q[n + 1]
       /\ Holds(r, nextBatchID, held, a)
       /\ Fits(r, nextBatchID, n, p, a, lastBatchSeen)
       /\ Len(r) = Len(q) - 1
       /\ \A i \in 1..(Len(q) - 1) : r[i] = IF i < n + 1 THEN q[i] ELSE q[i + 1]
  BY <1>3, <1>5, <1>6, <1>10, <1>12, RejectIs
<1>14. stream \in Stream /\ p \in Seq(Batch)
  BY <1>1, <1>13 DEF StreamOK, Fits
<1>15. StreamOK(s, p) /\ RespOf(s) = <<>>
  BY <1>8, <1>14, CloseIs, RespEmpty
<1>16. /\ SeenOK' /\ Joins(pendingWrites', p, more)
       /\ StreamOK(t, pendingWrites') /\ SameResp(t, s)
  <2>1. r = rows'[user'] /\ a = lastAcked'[user']
    BY <1>2, <1>4, <1>10
  <2>2. Fits(r, nextBatchID', Len(held'), p, a, lastBatchSeen)
    BY <1>10, <1>13
  <2>3. /\ pendingWrites' = p \o more /\ lastBatchSeen' = SeenAfter(more, lastBatchSeen)
        /\ more = nextBatches(r, a, lastBatchSeen, p)
        /\ StreamOK(s, p) /\ t = commitBatches(s, more, p)
    BY <1>7, <1>9, <1>10, <1>15
  <2>4. SeenOK'
    BY <2>1, <2>2, <2>3, FilledIs
  <2>5. Joins(pendingWrites', p, more)
    BY <2>1, <2>2, <2>3, FilledIs
  <2>6. StreamOK(t, pendingWrites')
    BY <2>1, <2>2, <2>3, FilledIs
  <2>7. SameResp(t, s)
    BY <2>1, <2>2, <2>3, FilledIs
  <2>8. QED
    BY <2>4, <2>5, <2>6, <2>7
<1>17. StreamInv' /\ RespOf(stream') = <<>>
  <2>1. PICK y : y = pendingWrites'
    OBVIOUS
  <2>2. PICK z : z = stream'
    OBVIOUS
  <2>3. y \in Seq(Batch) /\ StreamOK(t, y) /\ z = restartWriteStream(t, y)
    BY <1>10, <1>16, <2>1, <2>2 DEF Joins
  <2>4. StreamOK(z, y) /\ (y # <<>> => isStarted(z)) /\ RespOf(z) = RespOf(t)
    BY <2>3, RestartIs
  <2>5. RespOf(t) = <<>>
    BY <1>15, <1>16 DEF SameResp
  <2>6. QED
    BY <2>1, <2>2, <2>4, <2>5 DEF StreamInv
<1>18. Waiting(blocks, r, a)
  <2>1. ASSUME NEW c \in blocks PROVE c.id > a /\ \E i \in DOMAIN r : r[i] = c
    <3>1. c \in completion[user] /\ c.id # b.id /\ c \in Batch
      BY <1>2 DEF blocks
    <3>2. c.id > a /\ \E i \in DOMAIN q : q[i] = c
      BY <1>1, <1>2, <1>4, <3>1 DEF QueueInv, CompletionsMatch, q
    <3>3. PICK i \in 1..Len(q) : q[i] = c
      BY <1>2, <3>2
    <3>4. i # n + 1
      BY <1>13, <3>1, <3>3
    <3>5. DOMAIN r = 1..(Len(q) - 1)
      <4>1. r \in Seq(Batch)
        BY <1>13 DEF Holds
      <4>2. QED
        BY <1>13, <4>1, LenProperties, Zenon
    <3>6. CASE i < n + 1
      <4>1. i \in 1..(Len(q) - 1)
        BY <1>2, <1>13, <3>3, <3>6
      <4>2. r[i] = c
        BY <1>13, <3>3, <3>6, <4>1
      <4>3. QED
        BY <3>2, <3>5, <4>1, <4>2
    <3>7. CASE n + 1 < i
      <4>1. i - 1 \in 1..(Len(q) - 1) /\ ~(i - 1 < n + 1) /\ (i - 1) + 1 = i
        BY <1>2, <1>13, <3>3, <3>7
      <4>2. r[i - 1] = c
        BY <1>13, <3>3, <4>1
      <4>3. QED
        BY <3>2, <3>5, <4>1, <4>2
    <3>8. i < n + 1 \/ n + 1 < i
      <4>1. i \in Nat /\ n \in Nat
        BY <1>2
      <4>2. QED
        BY ONLY <3>4, <4>1
    <3>9. QED
      BY <3>6, <3>7, <3>8
  <2>2. blocks \in SUBSET Batch
    BY <1>2 DEF blocks
  <2>3. QED
    BY <2>1, <2>2 DEF Waiting
<1>19. /\ PipeInv'
       /\ \A v \in User \ {user} : Unacknowledged(v)' = Unacknowledged(v)
       /\ Unacknowledged(user)' \in Seq(Batch)
       /\ Len(Unacknowledged(user)') = Len(r) - n
       /\ \A i \in 1..(Len(r) - n) : Unacknowledged(user)'[i] = r[n + i]
  <2>1. held' = held /\ UNCHANGED <<user, nextBatchID>>
    BY <1>10
  <2>2. Holds(r, nextBatchID, held', a)
    BY <1>13, <2>1
  <2>3. lastAcked' = [lastAcked EXCEPT ![user] = a]
    BY <1>2, <1>4, <1>10
  <2>4. /\ PipeInv'
        /\ \A v \in User \ {user} : Unacknowledged(v)' = Unacknowledged(v)
        /\ Unacknowledged(user)' \in Seq(Batch)
        /\ Len(Unacknowledged(user)') = Len(r) - Len(held')
        /\ \A i \in 1..(Len(r) - Len(held')) :
              Unacknowledged(user)'[i] = r[Len(held') + i]
    BY <1>1, <1>10, <1>16, <1>17, <1>18, <2>1, <2>2, <2>3, OwnNext
  <2>5. QED
    BY <2>1, <2>4
<1>20. Unacknowledged(user) # <<>> /\ Unacknowledged(user)' = Tail(Unacknowledged(user))
  <2>1. PICK x : x = Unacknowledged(user)
    OBVIOUS
  <2>2. PICK y : y = Unacknowledged(user)'
    OBVIOUS
  <2>3. x \in Seq(Batch) /\ Len(x) = Len(q) - n /\ \A i \in 1..(Len(q) - n) : x[i] = q[n + i]
    BY <1>1, <2>1, UnackIs DEF q
  <2>4. /\ y \in Seq(Batch) /\ Len(y) = Len(r) - n
        /\ \A i \in 1..(Len(r) - n) : y[i] = r[n + i]
    BY <1>19, <2>2
  <2>5. n \in Nat /\ Len(q) \in Nat /\ n + 1 \in 1..Len(q) /\ Len(r) = Len(q) - 1
    BY <1>2, <1>13
  <2> HIDE DEF n
  <2>6. Len(x) # 0 /\ Len(y) = Len(x) - 1
    BY ONLY <2>3, <2>4, <2>5
  <2>7. ASSUME NEW i \in 1..(Len(x) - 1) PROVE y[i] = x[i + 1]
    <3>1. Len(x) = Len(q) - n
      BY <2>3
    <3>2. /\ i \in 1..(Len(r) - n) /\ i + 1 \in 1..(Len(q) - n) /\ n + i \in 1..(Len(q) - 1)
          /\ ~(n + i < n + 1) /\ (n + i) + 1 = n + (i + 1)
      BY ONLY <2>5, <3>1, i \in 1..(Len(x) - 1)
    <3>3. y[i] = r[n + i] /\ x[i + 1] = q[n + (i + 1)]
      BY <2>3, <2>4, <3>2
    <3>4. r[n + i] = q[(n + i) + 1]
      BY <1>13, <3>2
    <3>5. QED
      BY <3>2, <3>3, <3>4
  <2>8. x # <<>> /\ y = Tail(x)
    BY <2>3, <2>4, <2>6, <2>7, TailIs
  <2>9. QED
    BY <2>1, <2>2, <2>8
<1>21. QED
  BY <1>11, <1>17, <1>19, <1>20

\* releaseHeldBatchResults: nothing that was not acknowledged is touched.
LEMMA ReleaseOK ==
    ASSUME PipeInv, OthersOK', NEW d \in 1..Len(held), releaseHeldBatchResults(d)
    PROVE  /\ PipeInv' /\ SameResp(stream', stream)
           /\ \A v \in User : Unacknowledged(v)' = Unacknowledged(v)
<1> DEFINE q == rows[user]
           n == Len(held)
<1>1. QueueInv /\ StreamInv
  BY DEF PipeInv
<1>2. /\ held \in Seq(Batch) /\ user \in User
      /\ completion \in [User -> SUBSET Batch] /\ lastAcked \in [User -> Id]
      /\ rows \in [User -> Seq(Batch)]
      /\ q \in Seq(Batch) /\ n \in Nat /\ Len(q) \in Nat /\ n <= Len(q)
      /\ DOMAIN q = 1..Len(q) /\ \A i \in 1..Len(q) : q[i].id \in Nat
  BY <1>1, OwnQueue, TypeElim DEF QueueInv
<1>3. PICK a : a = lastAcked[user]
  OBVIOUS
<1>4. PICK r : r = SubSeq(q, d + 1, Len(q))
  OBVIOUS
<1>5. PICK g : g = SubSeq(held, d + 1, Len(held))
  OBVIOUS
<1>6. /\ held' = g /\ rows' = [rows EXCEPT ![user] = r]
      /\ UNCHANGED <<user, lastAcked, nextBatchID, completion,
                     lastBatchSeen, pendingWrites, stream>>
  BY <1>4, <1>5 DEF releaseHeldBatchResults, remote
<1>7. /\ Holds(q, nextBatchID, held, a)
      /\ Fits(q, nextBatchID, n, pendingWrites, a, lastBatchSeen)
      /\ Full(q, n, pendingWrites)
  BY <1>1, <1>3, HoldsNow
<1> HIDE DEF q
<1>8. d \in 0..Len(held) /\ d \in 0..Len(q) /\ d \in Nat
  BY <1>2
<1>9. Dropped(q, r, d) /\ Dropped(held, g, d)
  <2>1. LET x == SubSeq(q, d + 1, Len(q))
        IN  /\ x \in Seq(Batch) /\ Len(x) = Len(q) - d
            /\ \A i \in 1..(Len(q) - d) : x[i] = q[d + i]
    BY <1>2, <1>8, DropIs, Zenon
  <2>2. LET x == SubSeq(held, d + 1, Len(held))
        IN  /\ x \in Seq(Batch) /\ Len(x) = Len(held) - d
            /\ \A i \in 1..(Len(held) - d) : x[i] = held[d + i]
    BY <1>2, <1>8, DropIs, Zenon
  <2>3. QED
    BY <1>4, <1>5, <2>1, <2>2, Zenon DEF Dropped
<1>10. /\ Holds(r, nextBatchID, g, a)
       /\ Fits(r, nextBatchID, Len(g), pendingWrites, a, lastBatchSeen)
       /\ Full(r, Len(g), pendingWrites)
  BY <1>7, <1>8, <1>9, ReleaseIs
<1>11. SeenOK' /\ StreamInv'
  <2>1. rows'[user'] = r /\ lastAcked'[user'] = a
    BY <1>2, <1>3, <1>6
  <2>2. SeenOK'
    BY <1>6, <1>10, <2>1 DEF SeenOK
  <2>3. StreamInv'
    BY <1>1, <1>6 DEF StreamInv
  <2>4. QED
    BY <2>2, <2>3
<1>12. Waiting(completion[user], r, a)
  <2>1. ASSUME NEW c \in completion[user] PROVE c.id > a /\ \E i \in DOMAIN r : r[i] = c
    <3>1. c.id > a /\ \E i \in DOMAIN q : q[i] = c
      BY <1>1, <1>2, <1>3 DEF QueueInv, CompletionsMatch, q
    <3>2. PICK i \in 1..Len(q) : q[i] = c
      BY <1>2, <3>1
    <3>3. ~(i <= n)
      <4>1. q[i].id <= a <=> i <= n
        BY <1>1, <1>3, OwnQueue DEF q
      <4>2. a \in Id /\ c.id \in Nat
        BY <1>1, <1>2, <1>3, <3>2, OwnQueue
      <4>3. QED
        BY <3>1, <3>2, <4>1, <4>2
    <3>4. i - d \in 1..(Len(q) - d) /\ d + (i - d) = i
      BY <1>2, <1>8, <3>3
    <3>5. r[i - d] = c /\ DOMAIN r = 1..(Len(q) - d)
      BY <1>9, <3>2, <3>4, LenProperties DEF Dropped
    <3>6. QED
      BY <3>1, <3>4, <3>5
  <2>2. completion[user] \in SUBSET Batch
    BY <1>2
  <2>3. QED
    BY <2>1, <2>2 DEF Waiting
<1>13. /\ PipeInv'
       /\ \A v \in User \ {user} : Unacknowledged(v)' = Unacknowledged(v)
       /\ Unacknowledged(user)' \in Seq(Batch)
       /\ Len(Unacknowledged(user)') = Len(r) - Len(held')
       /\ \A i \in 1..(Len(r) - Len(held')) : Unacknowledged(user)'[i] = r[Len(held') + i]
  <2>1. PICK blocks : blocks = completion[user]
    OBVIOUS
  <2>2. /\ lastAcked' = [lastAcked EXCEPT ![user] = a]
        /\ completion' = [completion EXCEPT ![user] = blocks]
        /\ UNCHANGED <<user, nextBatchID>>
    BY <1>2, <1>3, <1>6, <2>1
  <2>3. Holds(r, nextBatchID, held', a) /\ Waiting(blocks, r, a)
    BY <1>6, <1>10, <1>12, <2>1
  <2>4. QED
    BY <1>1, <1>6, <1>11, <2>2, <2>3, OwnNext
<1>14. Unacknowledged(user)' = Unacknowledged(user)
  <2>1. PICK x : x = Unacknowledged(user)
    OBVIOUS
  <2>2. PICK y : y = Unacknowledged(user)'
    OBVIOUS
  <2>3. x \in Seq(Batch) /\ Len(x) = Len(q) - n /\ \A i \in 1..(Len(q) - n) : x[i] = q[n + i]
    BY <1>1, <2>1, UnackIs DEF q
  <2>4. /\ y \in Seq(Batch) /\ Len(y) = Len(r) - Len(g)
        /\ \A i \in 1..(Len(r) - Len(g)) : y[i] = r[Len(g) + i]
    BY <1>6, <1>13, <2>2
  <2>5. /\ n \in Nat /\ Len(q) \in Nat /\ n <= Len(q) /\ d \in 0..n
        /\ Len(r) = Len(q) - d /\ Len(g) = n - d
    BY <1>2, <1>8, <1>9 DEF Dropped
  <2>6. \A i \in 1..(Len(q) - d) : r[i] = q[d + i]
    BY <1>9 DEF Dropped
  <2> HIDE DEF n
  <2>7. Len(r) - Len(g) = Len(q) - n
    BY ONLY <2>5
  <2>8. ASSUME NEW i \in 1..(Len(q) - n) PROVE x[i] = y[i]
    <3>1. Len(g) + i \in 1..(Len(q) - d) /\ d + (Len(g) + i) = n + i
      BY ONLY <2>5, i \in 1..(Len(q) - n)
    <3>2. y[i] = r[Len(g) + i]
      BY <2>4, <2>7, Zenon
    <3>3. r[Len(g) + i] = q[d + (Len(g) + i)]
      BY <2>6, <3>1, Zenon
    <3>4. x[i] = q[n + i]
      BY <2>3, Zenon
    <3>5. QED
      BY <3>1, <3>2, <3>3, <3>4
  <2>9. x = y
    BY <2>3, <2>4, <2>7, <2>8, SeqEqual
  <2>10. QED
    BY <2>1, <2>2, <2>9
<1>15. QED
  BY <1>6, <1>13, <1>14 DEF SameResp

-----------------------------------------------------------------------------
(* What the handlers do to the abstract queue.                             *)

\* The queue of WriteQueue.
Queue == [u \in User |-> Writes(Unacknowledged(u))]

LEMMA WritesAppend ==
    ASSUME NEW x \in Seq(Batch), NEW b \in Batch
    PROVE  Writes(Append(x, b)) = Append(Writes(x), b.w)
<1>1. /\ Append(x, b) \in Seq(Batch) /\ Len(Append(x, b)) = Len(x) + 1
      /\ (\A i \in 1..Len(x) : Append(x, b)[i] = x[i])
      /\ Append(x, b)[Len(x) + 1] = b
  BY AppendProperties
<1>2. Len(x) \in Nat /\ b.w \in Write
  BY LenProperties DEF Batch
<1>3. PICK y : y = Append(x, b)
  OBVIOUS
<1>4. /\ Writes(y) \in Seq(Write) /\ Len(Writes(y)) = Len(x) + 1
      /\ \A i \in 1..(Len(x) + 1) : Writes(y)[i] = y[i].w
  BY <1>1, <1>3, WritesIs
<1>5. /\ Writes(x) \in Seq(Write) /\ Len(Writes(x)) = Len(x)
      /\ \A i \in 1..Len(x) : Writes(x)[i] = x[i].w
  BY WritesIs
<1>6. PICK z : z = Append(Writes(x), b.w)
  OBVIOUS
<1>7. /\ z \in Seq(Write) /\ Len(z) = Len(x) + 1
      /\ (\A i \in 1..Len(x) : z[i] = Writes(x)[i]) /\ z[Len(x) + 1] = b.w
  BY <1>2, <1>5, <1>6, AppendProperties
<1>8. ASSUME NEW i \in 1..(Len(x) + 1) PROVE Writes(y)[i] = z[i]
  <2>1. i \in 1..Len(x) \/ i = Len(x) + 1
    BY <1>2
  <2>2. CASE i \in 1..Len(x)
    BY <1>1, <1>3, <1>4, <1>5, <1>7, <2>2, Zenon
  <2>3. CASE i = Len(x) + 1
    BY <1>1, <1>3, <1>4, <1>7, <2>3, Zenon
  <2>4. QED
    BY <2>1, <2>2, <2>3
<1>9. Writes(y) = z
  BY <1>4, <1>7, <1>8, SeqEqual
<1>10. QED
  BY <1>3, <1>6, <1>9

LEMMA WritesTail ==
    ASSUME NEW x \in Seq(Batch), x # <<>>
    PROVE  Writes(x) # <<>> /\ Writes(Tail(x)) = Tail(Writes(x))
<1>1. /\ Tail(x) \in Seq(Batch) /\ Len(Tail(x)) = Len(x) - 1
      /\ \A i \in 1..(Len(x) - 1) : Tail(x)[i] = x[i + 1]
  BY HeadTailProperties
<1>2. Len(x) \in Nat /\ Len(x) # 0
  BY LenProperties, EmptySeq
<1>3. PICK y : y = Tail(x)
  OBVIOUS
<1>4. PICK v : v = Writes(y)
  OBVIOUS
<1>5. PICK z : z = Writes(x)
  OBVIOUS
<1>6. v \in Seq(Write) /\ Len(v) = Len(x) - 1 /\ \A i \in 1..(Len(x) - 1) : v[i] = y[i].w
  BY <1>1, <1>3, <1>4, WritesIs
<1>7. z \in Seq(Write) /\ Len(z) = Len(x) /\ \A i \in 1..Len(x) : z[i] = x[i].w
  BY <1>5, WritesIs
<1>8. ASSUME NEW i \in 1..(Len(x) - 1) PROVE v[i] = z[i + 1]
  <2>1. i + 1 \in 1..Len(x)
    BY <1>2
  <2>2. QED
    BY <1>1, <1>3, <1>6, <1>7, <2>1, Zenon
<1>9. z # <<>> /\ v = Tail(z)
  BY <1>2, <1>6, <1>7, <1>8, TailIs
<1>10. QED
  BY <1>3, <1>4, <1>5, <1>9

\* The queue of an account that does not change, and of the one that does.
LEMMA QueueSame ==
    ASSUME \A u \in User : Unacknowledged(u)' = Unacknowledged(u)
    PROVE  Queue' = Queue
<1>1. Queue' = [u \in User |-> Writes(Unacknowledged(u)')]
  BY DEF Queue
<1>2. Queue = [u \in User |-> Writes(Unacknowledged(u))]
  BY DEF Queue
<1>3. \A u \in User : Writes(Unacknowledged(u)') = Writes(Unacknowledged(u))
  OBVIOUS
<1>4. QED
  BY <1>1, <1>2, <1>3, Zenon

LEMMA QueueBut ==
    ASSUME user \in User, user' = user, NEW q, Writes(Unacknowledged(user)') = q,
           \A u \in User \ {user} : Unacknowledged(u)' = Unacknowledged(u)
    PROVE  Queue' = [Queue EXCEPT ![user] = q]
<1>1. PICK f : f = [u \in User |-> Writes(Unacknowledged(u)')]
  OBVIOUS
<1>2. PICK g : g = [u \in User |-> Writes(Unacknowledged(u))]
  OBVIOUS
<1>3. f[user] = q
  <2>1. PICK u \in User : u = user
    OBVIOUS
  <2>2. f[u] = Writes(Unacknowledged(u)')
    BY <1>1
  <2>3. Writes(Unacknowledged(u)') = q
    BY <2>1
  <2>4. QED
    BY <2>1, <2>2, <2>3
<1>4. ASSUME NEW u \in User \ {user} PROVE f[u] = g[u]
  <2>1. f[u] = Writes(Unacknowledged(u)') /\ g[u] = Writes(Unacknowledged(u))
    BY <1>1, <1>2
  <2>2. QED
    BY <2>1
<1>5. f = [g EXCEPT ![user] = q]
  <2>1. f = [u \in User |-> f[u]] /\ g = [u \in User |-> g[u]]
    BY <1>1, <1>2
  <2>2. QED
    BY <1>3, <1>4, <2>1
<1>6. Queue' = f /\ Queue = g
  BY <1>1, <1>2 DEF Queue
<1>7. QED
  BY <1>5, <1>6

\* The queue of an account, one by one.
LEMMA QueueIs ==
    ASSUME QueueInv
    PROVE  LET q == rows[user]
               n == Len(held)
           IN  /\ Queue[user] = Writes(Unacknowledged(user))
               /\ Queue[user] \in Seq(Write)
               /\ Len(Queue[user]) = Len(q) - n
               /\ Len(pendingWrites) <= Len(Queue[user])
               /\ \A i \in 1..Len(pendingWrites) : Queue[user][i] = pendingWrites[i].w
<1> DEFINE q == rows[user]
           n == Len(held)
<1>1. /\ n \in Nat /\ Len(q) \in Nat /\ Len(pendingWrites) \in Nat
      /\ InPlace(q, n, pendingWrites)
  BY OwnQueue, TypeElim DEF QueueInv, SeenOK, Fits
<1>2. PICK x : x = Unacknowledged(user)
  OBVIOUS
<1>3. x \in Seq(Batch) /\ Len(x) = Len(q) - n /\ \A i \in 1..(Len(q) - n) : x[i] = q[n + i]
  BY <1>2, UnackIs
<1>4. /\ Writes(x) \in Seq(Write) /\ Len(Writes(x)) = Len(q) - n
      /\ \A i \in 1..(Len(q) - n) : Writes(x)[i] = x[i].w
  BY <1>3, WritesIs
<1>5. Queue[user] = Writes(x)
  <2>1. user \in User
    BY TypeElim DEF QueueInv
  <2>2. QED
    BY <1>2, <2>1 DEF Queue
<1> HIDE DEF q, n
<1>6. /\ n + Len(pendingWrites) <= Len(q)
      /\ \A i \in 1..Len(pendingWrites) : pendingWrites[i] = q[n + i]
  BY <1>1 DEF InPlace
<1>7. Len(pendingWrites) <= Len(q) - n
  BY ONLY <1>1, <1>6
<1>8. ASSUME NEW i \in 1..Len(pendingWrites) PROVE Writes(x)[i] = pendingWrites[i].w
  <2>1. i \in 1..(Len(q) - n)
    BY ONLY <1>1, <1>7, i \in 1..Len(pendingWrites)
  <2>2. QED
    BY <1>3, <1>4, <1>6, <2>1, Zenon
<1>9. QED
  BY <1>2, <1>4, <1>5, <1>7, <1>8 DEF q, n

-----------------------------------------------------------------------------
(* Every step keeps the invariant, and is one of the abstract queue.       *)

\* The server answers the first request.
LEMMA ServeOK ==
    ASSUME PipeInv, Serve
    PROVE  PipeInv' /\ [WQ!Next]_(WQ!vars)
<1>1. QueueInv /\ StreamOK(stream, pendingWrites) /\ stream \in Stream
  BY DEF PipeInv, StreamInv, StreamOK
<1>2. pendingWrites \in Seq(Batch)
  BY <1>1, TypeElim DEF QueueInv
<1>3. PICK r : r = Head(stream.requests)
  OBVIOUS
<1>4. /\ stream.requests # <<>>
      /\ \A i \in DOMAIN stream.responses : stream.responses[i] # "refused"
      /\ UNCHANGED <<user, disk, local, lastBatchSeen, pendingWrites, issued>>
  BY DEF Serve
<1>5. PICK a \in Response :
         /\ stream' = [stream EXCEPT !.requests = Tail(@), !.responses = Append(@, a)]
         /\ \/ r = "handshake" /\ a = "handshake" /\ UNCHANGED <<applied, refused>>
            \/ r \in Write /\ a = "ok" /\ applied' = applied \cup {r} /\ refused' = refused
            \/ r \in Write /\ a = "refused" /\ refused' = refused \cup {r} /\ applied' = applied
  BY <1>3 DEF Serve, server, Response
<1>6. r = "handshake" <=> a = "handshake"
  BY <1>5
<1>7. PICK t : t = [stream EXCEPT !.requests = Tail(@), !.responses = Append(@, a)]
  OBVIOUS
<1>8. /\ StreamOK(t, pendingWrites) /\ isStarted(t)
      /\ r = "handshake" => SameResp(t, stream)
      /\ r # "handshake" =>
            /\ stream.handshakeComplete /\ Shaken(stream)
            /\ RespOf(t) = Append(RespOf(stream), a = "ok")
            /\ Len(stream.responses) + 1 \in 1..Len(pendingWrites)
            /\ r = pendingWrites[Len(stream.responses) + 1].w
  BY <1>1, <1>2, <1>3, <1>4, <1>6, <1>7, AnswerIs
<1>9. StreamInv'
  BY <1>4, <1>5, <1>7, <1>8 DEF StreamInv
<1>10. OthersOK'
  BY <1>1, <1>4, <1>5 DEF QueueInv, TypeOK, OthersOK
<1>11. PipeInv' /\ \A u \in User : Unacknowledged(u)' = Unacknowledged(u)
  BY <1>4, <1>9, <1>10, FrameOK
<1>12. Queue' = Queue
  BY <1>11, QueueSame
<1>13. user' = user /\ issued' = issued
  BY <1>4
<1>14. CASE r = "handshake"
  <2>1. RespOf(stream') = RespOf(stream) /\ UNCHANGED <<applied, refused>>
    BY <1>5, <1>7, <1>8, <1>14 DEF SameResp
  <2>2. UNCHANGED WQ!vars
    BY <1>12, <1>13, <2>1 DEF WQ!vars, RespOf, Queue
  <2>3. QED
    BY <1>11, <2>2
<1>15. CASE r # "handshake"
  <2>1. PICK x : x = RespOf(stream)
    OBVIOUS
  <2>2. /\ x \in Seq(BOOLEAN) /\ Len(x) = Len(stream.responses)
        /\ Len(stream.responses) \in Nat /\ DOMAIN stream.responses = 1..Len(stream.responses)
        /\ \A i \in 1..Len(stream.responses) : x[i] = (stream.responses[i] = "ok")
    BY <1>1, <1>8, <1>15, <2>1, RespIs
  <2>3. \A i \in DOMAIN x : x[i]
    <3>1. DOMAIN x = 1..Len(stream.responses)
      BY <2>2, LenProperties
    <3>2. ASSUME NEW i \in 1..Len(stream.responses) PROVE x[i]
      <4>1. stream.responses \in Seq(Response)
        BY <1>1, StreamElim
      <4>2. stream.responses[i] \in Response
        BY <4>1, ElementOfSeq
      <4>3. stream.responses[i] # "handshake" /\ stream.responses[i] # "refused"
        BY <1>1, <1>4, <1>8, <1>15, <2>2 DEF StreamOK
      <4>4. stream.responses[i] = "ok"
        BY <4>2, <4>3 DEF Response
      <4>5. QED
        BY <2>2, <4>4
    <3>3. QED
      BY <3>1, <3>2
  <2>4. PICK n : n = Len(x) + 1
    OBVIOUS
  <2>5. n \in 1..Len(pendingWrites) /\ r = pendingWrites[n].w
    BY <1>8, <1>15, <2>2, <2>4
  <2>6. n <= Len(Queue[user]) /\ Queue[user][n] = r
    <3>1. /\ Queue[user] \in Seq(Write) /\ Len(pendingWrites) <= Len(Queue[user])
          /\ \A i \in 1..Len(pendingWrites) : Queue[user][i] = pendingWrites[i].w
      BY <1>1, QueueIs
    <3>2. Len(pendingWrites) \in Nat /\ Len(Queue[user]) \in Nat
      BY <1>2, <3>1, LenProperties
    <3>3. QED
      BY <2>5, <3>1, <3>2
  <2>7. RespOf(stream') = Append(x, a = "ok")
    BY <1>5, <1>7, <1>8, <1>15, <2>1
  <2>8. \/ applied' = applied \cup {r} /\ refused' = refused /\ RespOf(stream') = Append(x, TRUE)
        \/ applied' = applied /\ refused' = refused \cup {r} /\ RespOf(stream') = Append(x, FALSE)
    <3>1. CASE a = "ok"
      <4>1. (a = "ok") = TRUE
        BY <3>1
      <4>2. applied' = applied \cup {r} /\ refused' = refused
        BY <1>5, <3>1
      <4>3. QED
        BY <2>7, <4>1, <4>2
    <3>2. CASE a = "refused"
      <4>1. (a = "ok") = FALSE
        BY <3>2
      <4>2. refused' = refused \cup {r} /\ applied' = applied
        BY <1>5, <3>2
      <4>3. QED
        BY <2>7, <4>1, <4>2
    <3>3. QED
      BY <1>5, <1>15, <3>1, <3>2
  <2>9. WQ!Serve
    <3>1. PICK q : q = Queue
      OBVIOUS
    <3>2. /\ n <= Len(q[user]) /\ q[user][n] = r /\ Queue' = q
      BY <1>12, <2>6, <3>1
    <3>3. /\ x = RespOf(stream) /\ n = Len(x) + 1
      BY <2>1, <2>4
    <3>4. QED
      BY <1>13, <2>3, <2>8, <3>1, <3>2, <3>3 DEF WQ!Serve, Queue, RespOf
  <2>10. QED
    BY <1>11, <2>9 DEF WQ!Next
<1>16. QED
  BY <1>14, <1>15

\* The steps of the stream itself: the queue stays, and what answers are left
\* are those of before, or none of a new connection.
LEMMA StreamStep ==
    ASSUME PipeInv, NEW t, StreamOK(t, pendingWrites),
           pendingWrites # <<>> => isStarted(t),
           SameResp(t, stream) \/ RespOf(t) = <<>>, stream' = t,
           UNCHANGED <<user, disk, local, lastBatchSeen, pendingWrites, server, issued>>
    PROVE  PipeInv' /\ [WQ!Next]_(WQ!vars)
<1>1. StreamInv'
  BY DEF StreamInv
<1>2. OthersOK' /\ UNCHANGED <<user, applied, refused, issued>> /\ user \in User
  BY DEF PipeInv, QueueInv, TypeOK, OthersOK, server
<1>3. PipeInv' /\ \A u \in User : Unacknowledged(u)' = Unacknowledged(u)
  BY <1>1, <1>2, FrameOK
<1>4. Queue' = Queue
  BY <1>3, QueueSame
<1>5. CASE SameResp(t, stream)
  <2>1. RespOf(stream') = RespOf(stream)
    BY <1>5 DEF SameResp
  <2>2. UNCHANGED WQ!vars
    BY <1>2, <1>4, <2>1 DEF WQ!vars, RespOf, Queue
  <2>3. QED
    BY <1>3, <2>2
<1>6. CASE RespOf(t) = <<>>
  <2>1. RespOf(stream') = <<>>
    BY <1>6
  <2>2. PICK u \in User : u = user
    BY <1>2
  <2>3. WQ!Reconnect(u)
    BY <1>2, <1>4, <2>1, <2>2 DEF WQ!Reconnect, RespOf, Queue
  <2>4. QED
    BY <1>3, <2>3 DEF WQ!Next
<1>7. QED
  BY <1>5, <1>6

LEMMA StepOK ==
    ASSUME PipeInv, [Next]_vars
    PROVE  PipeInv' /\ [WQ!Next]_(WQ!vars)
<1>1. /\ QueueInv /\ StreamOK(stream, pendingWrites) /\ stream \in Stream
      /\ (pendingWrites # <<>> => isStarted(stream))
      /\ user \in User /\ pendingWrites \in Seq(Batch)
      /\ completion \in [User -> SUBSET Batch] /\ OthersOK
  BY TypeElim DEF PipeInv, QueueInv, StreamInv, StreamOK, TypeOK, OthersOK
<1>2. ASSUME NEW w \in Write, writeMutations(w)
      PROVE  PipeInv' /\ [WQ!Next]_(WQ!vars)
  <2>1. /\ \A u \in User : w \notin Issued(u)
        /\ issued' = [issued EXCEPT ![user] = Append(@, w)]
        /\ UNCHANGED <<user, applied, refused>>
    BY <1>2 DEF writeMutations, server
  <2>2. OthersOK'
    <3>1. issued[user] \in Seq(Write)
      BY <1>1 DEF OthersOK
    <3>2. Append(issued[user], w) \in Seq(Write)
      BY <3>1, AppendProperties
    <3>3. QED
      BY <1>1, <2>1, <3>2 DEF OthersOK
  <2>3. PICK b : b = [id |-> nextBatchID, w |-> w]
    OBVIOUS
  <2>4. /\ PipeInv' /\ SameResp(stream', stream)
        /\ Unacknowledged(user)' = Append(Unacknowledged(user), b)
        /\ \A u \in User \ {user} : Unacknowledged(u)' = Unacknowledged(u)
    BY <1>2, <2>2, <2>3, WriteOK
  <2>5. b \in Batch /\ b.w = w
    BY <1>1, <2>3, TypeElim DEF Batch, QueueInv
  <2>6. PICK x : x = Unacknowledged(user)
    OBVIOUS
  <2>7. x \in Seq(Batch)
    BY <1>1, <2>6, UnackIs
  <2>8. Writes(Append(x, b)) = Append(Writes(x), w)
    BY <2>5, <2>7, WritesAppend
  <2>9. PICK q : q = Append(Queue[user], w)
    OBVIOUS
  <2>10. Writes(Unacknowledged(user)') = q
    BY <1>1, <2>4, <2>6, <2>8, <2>9, QueueIs
  <2>11. Queue' = [Queue EXCEPT ![user] = q]
    BY <1>1, <2>1, <2>4, <2>10, QueueBut
  <2>12. RespOf(stream') = RespOf(stream)
    BY <2>4 DEF SameResp
  <2>13. WQ!Enqueue(w)
    <3>1. PICK f : f = Queue
      OBVIOUS
    <3>2. Queue' = [f EXCEPT ![user] = Append(f[user], w)]
      BY <2>9, <2>11, <3>1
    <3>3. QED
      BY <2>1, <2>12, <3>1, <3>2 DEF WQ!Enqueue, WQ!Issued, Issued, RespOf, Queue
  <2>14. QED
    BY <2>4, <2>13 DEF WQ!Next
<1>3. ASSUME NEW u \in User, userDidChange(u) \/ Relaunch(u)
      PROVE  PipeInv' /\ [WQ!Next]_(WQ!vars)
  <2>1. /\ user' = u /\ startMutationQueue(u)
        /\ fillWritePipeline(rows'[u], lastAcked'[u], kFSTBatchIDUnknown, <<>>, NewStream)
        /\ UNCHANGED <<applied, refused, issued>>
    BY <1>3 DEF userDidChange, Relaunch, server
  <2>2. /\ completion' \in [User -> SUBSET Batch]
        /\ \A v \in User : completion'[v] \subseteq completion[v]
    BY <1>1, <1>3 DEF userDidChange, Relaunch
  <2>3. OthersOK'
    BY <1>1, <2>1 DEF OthersOK
  <2>4. /\ PipeInv' /\ SameResp(stream', NewStream)
        /\ \A v \in User : Unacknowledged(v)' = Unacknowledged(v)
    BY <2>1, <2>2, <2>3, SwitchOK
  <2>5. Queue' = Queue
    BY <2>4, QueueSame
  <2>6. RespOf(stream') = <<>>
    <3>1. RespOf(NewStream) = <<>>
      BY RespEmpty DEF NewStream
    <3>2. QED
      BY <2>4, <3>1 DEF SameResp
  <2>7. WQ!Reconnect(u)
    BY <2>1, <2>5, <2>6 DEF WQ!Reconnect, RespOf, Queue
  <2>8. QED
    BY <2>4, <2>7 DEF WQ!Next
<1>4. CASE resumeStartWithToken
  <2>1. PICK t : t = [stream EXCEPT !.state = "Open", !.requests = <<"handshake">>,
                                    !.idleTimer = FALSE]
    OBVIOUS
  <2>2. /\ stream.state = "Auth" /\ stream' = t
        /\ UNCHANGED <<user, disk, local, lastBatchSeen, pendingWrites, server, issued>>
    BY <1>4, <2>1 DEF resumeStartWithToken
  <2>3. StreamOK(t, pendingWrites) /\ isStarted(t) /\ SameResp(t, stream)
    BY <1>1, <2>1, <2>2, TokenIs
  <2>4. QED
    BY <2>2, <2>3, StreamStep
<1>5. CASE resumeStartFromBackoff
  <2>1. PICK t : t = startWithDelegate(stream)
    OBVIOUS
  <2>2. /\ stream.state = "Backoff" /\ stream' = t
        /\ UNCHANGED <<user, disk, local, lastBatchSeen, pendingWrites, server, issued>>
    BY <1>5, <2>1 DEF resumeStartFromBackoff
  <2>3. pendingWrites # <<>> /\ stream.state # "Open"
    BY <1>1, <2>2 DEF StreamOK, isStarted, Shaken
  <2>4. StreamOK(t, pendingWrites) /\ isStarted(t) /\ RespOf(t) = <<>>
    BY <1>1, <2>1, <2>3, StartIs
  <2>5. QED
    BY <2>2, <2>4, StreamStep
<1>6. CASE StreamFails
  <2>1. PICK t : t = restartWriteStream(closeWithFinalState(stream, "Error"), pendingWrites)
    OBVIOUS
  <2>2. /\ stream' = t
        /\ UNCHANGED <<user, disk, local, lastBatchSeen, pendingWrites, server, issued>>
    BY <1>6, <2>1 DEF StreamFails
  <2>3. StreamOK(t, pendingWrites) /\ (pendingWrites # <<>> => isStarted(t)) /\ RespOf(t) = <<>>
    BY <1>1, <2>1, FailIs
  <2>4. QED
    BY <2>2, <2>3, StreamStep
<1>7. CASE handleIdleCloseTimer
  <2>1. PICK t : t = restartWriteStream(closeWithFinalState(stream, "Initial"), pendingWrites)
    OBVIOUS
  <2>2. /\ stream' = t
        /\ UNCHANGED <<user, disk, local, lastBatchSeen, pendingWrites, server, issued>>
    BY <1>7, <2>1 DEF handleIdleCloseTimer
  <2>3. StreamOK(t, pendingWrites) /\ (pendingWrites # <<>> => isStarted(t)) /\ RespOf(t) = <<>>
    BY <1>1, <2>1, FailIs
  <2>4. QED
    BY <2>2, <2>3, StreamStep
<1>8. CASE Serve
  BY <1>8, ServeOK
<1>9. CASE writeStreamDidCompleteHandshake
  <2>1. PICK t : t = writeRequests([[stream EXCEPT !.responses = Tail(@)]
                                      EXCEPT !.handshakeComplete = TRUE],
                                   Writes(pendingWrites))
    OBVIOUS
  <2>2. /\ stream.responses # <<>> /\ ~stream.handshakeComplete /\ stream' = t
        /\ UNCHANGED <<user, disk, local, lastBatchSeen, pendingWrites, server, issued>>
    BY <1>9, <2>1 DEF writeStreamDidCompleteHandshake, Received
  <2>3. StreamOK(t, pendingWrites) /\ isStarted(t) /\ SameResp(t, stream)
    BY <1>1, <2>1, <2>2, HandshakeIs
  <2>4. QED
    BY <2>2, <2>3, StreamStep
<1>10. ASSUME UNCHANGED <<user, applied, refused, issued>> PROVE OthersOK'
  BY <1>1, <1>10 DEF OthersOK
<1>11. ASSUME user' = user, Unacknowledged(user) # <<>>,
              Unacknowledged(user)' = Tail(Unacknowledged(user)),
              \A v \in User \ {user} : Unacknowledged(v)' = Unacknowledged(v)
       PROVE  Queue' = [Queue EXCEPT ![user] = Tail(Queue[user])]
  <2>1. PICK x : x = Unacknowledged(user)
    OBVIOUS
  <2>2. x \in Seq(Batch) /\ x # <<>>
    BY <1>1, <1>11, <2>1, UnackIs
  <2>3. Writes(Tail(x)) = Tail(Writes(x))
    BY <2>2, WritesTail
  <2>4. PICK q : q = Tail(Queue[user])
    OBVIOUS
  <2>5. Writes(Unacknowledged(user)') = q
    BY <1>1, <1>11, <2>1, <2>3, <2>4, QueueIs
  <2>6. QED
    BY <1>1, <1>11, <2>4, <2>5, QueueBut
<1>12. CASE writeStreamDidReceiveResponse
  <2>1. UNCHANGED <<user, applied, refused, issued>>
    BY <1>12 DEF writeStreamDidReceiveResponse, server
  <2>2. /\ PipeInv'
        /\ RespOf(stream) # <<>> /\ Head(RespOf(stream)) = TRUE
        /\ RespOf(stream') = Tail(RespOf(stream))
        /\ Unacknowledged(user) # <<>>
        /\ Unacknowledged(user)' = Tail(Unacknowledged(user))
        /\ \A v \in User \ {user} : Unacknowledged(v)' = Unacknowledged(v)
    BY <1>10, <1>12, <2>1, AckOK
  <2>3. PICK f : f = Queue
    OBVIOUS
  <2>4. Queue' = [f EXCEPT ![user] = Tail(f[user])]
    BY <1>11, <2>1, <2>2, <2>3
  <2>5. WQ!Acknowledge
    BY <2>1, <2>2, <2>3, <2>4 DEF WQ!Acknowledge, RespOf, Queue
  <2>6. QED
    BY <2>2, <2>5 DEF WQ!Next
<1>13. CASE handleWriteError
  <2>1. UNCHANGED <<user, applied, refused, issued>>
    BY <1>13 DEF handleWriteError, server
  <2>2. /\ PipeInv'
        /\ RespOf(stream) # <<>> /\ Head(RespOf(stream)) = FALSE
        /\ RespOf(stream') = <<>>
        /\ Unacknowledged(user) # <<>>
        /\ Unacknowledged(user)' = Tail(Unacknowledged(user))
        /\ \A v \in User \ {user} : Unacknowledged(v)' = Unacknowledged(v)
    BY <1>10, <1>13, <2>1, RejectOK
  <2>3. PICK f : f = Queue
    OBVIOUS
  <2>4. Queue' = [f EXCEPT ![user] = Tail(f[user])]
    BY <1>11, <2>1, <2>2, <2>3
  <2>5. WQ!Reject
    BY <2>1, <2>2, <2>3, <2>4 DEF WQ!Reject, RespOf, Queue
  <2>6. QED
    BY <2>2, <2>5 DEF WQ!Next
<1>14. ASSUME NEW n \in 1..Len(held), releaseHeldBatchResults(n)
       PROVE  PipeInv' /\ [WQ!Next]_(WQ!vars)
  <2>1. UNCHANGED <<user, applied, refused, issued>>
    BY <1>14 DEF releaseHeldBatchResults, server
  <2>2. /\ PipeInv' /\ SameResp(stream', stream)
        /\ \A v \in User : Unacknowledged(v)' = Unacknowledged(v)
    BY <1>10, <1>14, <2>1, ReleaseOK
  <2>3. Queue' = Queue /\ RespOf(stream') = RespOf(stream)
    BY <2>2, QueueSame DEF SameResp
  <2>4. UNCHANGED WQ!vars
    BY <2>1, <2>3 DEF WQ!vars, RespOf, Queue
  <2>5. QED
    BY <2>2, <2>4
<1>15. CASE UNCHANGED vars
  <2>1. /\ UNCHANGED <<user, disk, local, lastBatchSeen, pendingWrites, server, issued>>
        /\ stream' = stream
    BY <1>15 DEF vars, remote
  <2>2. PICK t : t = stream
    OBVIOUS
  <2>3. StreamOK(t, pendingWrites) /\ (pendingWrites # <<>> => isStarted(t)) /\ SameResp(t, stream)
    BY <1>1, <2>2 DEF SameResp
  <2>4. QED
    BY <2>1, <2>2, <2>3, StreamStep
<1>16. QED
  BY <1>2, <1>3, <1>4, <1>5, <1>6, <1>7, <1>8, <1>9, <1>12, <1>13, <1>14, <1>15 DEF Next

-----------------------------------------------------------------------------
(* The invariant.                                                          *)

LEMMA StartOK ==
    ASSUME Init
    PROVE  PipeInv /\ WQ!Init
<1>1. /\ user \in User /\ rows = [u \in User |-> <<>>]
      /\ lastAcked = [u \in User |-> -1] /\ nextBatchID = 0 /\ held = <<>>
      /\ completion = [u \in User |-> {}] /\ lastBatchSeen = -1
      /\ pendingWrites = <<>> /\ stream = NewStream
      /\ applied = {} /\ refused = {} /\ issued = [u \in User |-> <<>>]
  BY DEF Init
<1>2. \A S : <<>> \in Seq(S) /\ Len(<<>>) = 0 /\ DOMAIN (<<>>) = {}
  BY EmptySeq
<1>3. StreamInv /\ stream \in Stream
  BY <1>1, NewStreamIs DEF StreamInv, StreamOK
<1>4. TypeOK
  BY <1>1, <1>2, <1>3 DEF TypeOK, Stream
<1>5. \A u \in User : rows[u] = <<>> /\ DOMAIN rows[u] = {} /\ Len(rows[u]) = 0
  BY <1>1, <1>2
<1>6. QueuesOK /\ AckedOK
  BY <1>5 DEF QueuesOK, AckedOK, Ascending
<1>7. Len(held) = 0 /\ Len(pendingWrites) = 0 /\ lastAcked[user] = -1
  BY <1>1, <1>2
<1>8. HeldOK
  BY <1>1, <1>5, <1>7 DEF HeldOK, InPlace
<1>9. SeenOK
  <2>1. Fits(rows[user], nextBatchID, Len(held), pendingWrites, lastAcked[user], lastBatchSeen)
    BY <1>1, <1>2, <1>5, <1>7 DEF Fits, Ascending, InPlace
  <2>2. Full(rows[user], Len(held), pendingWrites)
    BY <1>1, <1>5, <1>7 DEF Full
  <2>3. QED
    BY <2>1, <2>2 DEF SeenOK
<1>10. CompletionsMatch
  BY <1>1 DEF CompletionsMatch
<1>11. PipeInv
  BY <1>3, <1>4, <1>6, <1>8, <1>9, <1>10 DEF PipeInv, QueueInv
<1>12. Queue = [u \in User |-> <<>>]
  <2>1. ASSUME NEW u \in User PROVE Writes(Unacknowledged(u)) = <<>>
    <3>1. PICK q : q = rows[u]
      OBVIOUS
    <3>2. PICK b : b = lastAcked[u]
      OBVIOUS
    <3>3. q \in Seq(Batch) /\ Len(q) = 0 /\ DOMAIN q = {} /\ b \in Id
      BY <1>1, <1>2, <1>5, <3>1, <3>2
    <3>4. LET r == SubSeq(q, Through(q, b) + 1, Len(q))
          IN  /\ r \in Seq(Batch) /\ Len(r) = Len(q) - 0
              /\ \A i \in 1..(Len(q) - 0) : r[i] = q[0 + i]
      <4>1. 0 \in 0..Len(q) /\ \A i \in DOMAIN q : q[i].id <= b <=> i <= 0
        BY <3>3
      <4>2. QED
        BY <3>3, <4>1, UnackOf, Zenon
    <3>5. PICK r : r = SubSeq(q, Through(q, b) + 1, Len(q))
      OBVIOUS
    <3>6. r \in Seq(Batch) /\ Len(r) = 0
      BY <3>3, <3>4, <3>5
    <3>7. Writes(r) \in Seq(Write) /\ Len(Writes(r)) = 0
      BY <3>6, WritesIs
    <3>8. Writes(r) = <<>>
      BY <3>7, EmptySeq
    <3>9. QED
      BY <3>1, <3>2, <3>5, <3>8 DEF Unacknowledged
  <2>2. QED
    BY <2>1 DEF Queue
<1>13. RespOf(stream) = <<>>
  BY <1>1, RespEmpty DEF NewStream
<1>14. WQ!Init
  BY <1>1, <1>12, <1>13 DEF WQ!Init, Queue, RespOf
<1>15. QED
  BY <1>11, <1>14

\* The invariant of the write path (all handlers of FSTRemoteStore, FSTStream,
\* FSTLocalStore and FSTLevelDBMutationQueue that WritePipeline models).
LEMMA PipeAlways == Spec => []PipeInv
<1>1. Init => PipeInv
  BY StartOK
<1>2. PipeInv /\ [Next]_vars => PipeInv'
  BY StepOK
<1>3. QED
  BY <1>1, <1>2, PTL DEF Spec

\* The write path does what WriteQueue promises: a write leaves the queue with
\* its own answer only, in the order of issue; a broken stream, a restart or a
\* change of the account loses the answers on their way and nothing else
\* (FSTRemoteStore's pipeline, FSTStream's restarts, FSTLocalStore's held
\* results).
THEOREM PipelineIsQueue == Spec => ImplementsQueue
<1>1. Init => WQ!Init
  BY StartOK
<1>2. PipeInv /\ [Next]_vars => [WQ!Next]_(WQ!vars)
  BY StepOK
<1>3. QED
  BY <1>1, <1>2, PipeAlways, PTL DEF Spec, ImplementsQueue, WQ!Spec

\* The pipeline is at every moment a part of the queue without gaps, what is on
\* its way on the stream is exactly the pipeline, every completion block waits
\* for its own batch, and what is pending has a stream that is on its way
\* (fillWritePipeline, writeStreamDidReceiveResponse, startMutationQueue).
THEOREM PipelineHolds == Spec => []PipelineInv
<1>1. PipeInv => PipelineInv
  <2> SUFFICES ASSUME PipeInv PROVE PipelineInv
    OBVIOUS
  <2>1. /\ QueueInv /\ StreamOK(stream, pendingWrites) /\ TypeOK /\ CompletionsMatch
        /\ (pendingWrites # <<>> => isStarted(stream))
    BY DEF PipeInv, QueueInv, StreamInv
  <2>2. AnswersMatchPipeline
    BY <2>1 DEF StreamOK, Shaken, AnswersMatchPipeline
  <2>3. NeverStuck
    BY <2>1 DEF StreamOK, NeverStuck
  <2>4. PipelineIsPrefix
    <3>1. PICK q : q = rows[user]
      OBVIOUS
    <3>2. /\ Fits(q, nextBatchID, Len(held), pendingWrites, lastAcked[user], lastBatchSeen)
          /\ Full(q, Len(held), pendingWrites) /\ InPlace(q, 0, held)
      BY <2>1, <3>1 DEF QueueInv, SeenOK, HeldOK
    <3>3. PICK n : n = Len(held)
      OBVIOUS
    <3>4. PICK m : m = Len(pendingWrites)
      OBVIOUS
    <3>5. /\ q \in Seq(Batch) /\ held \in Seq(Batch) /\ pendingWrites \in Seq(Batch)
          /\ n \in Nat /\ m \in Nat /\ Len(q) \in Nat
      BY <2>1, <3>1, <3>3, <3>4, TypeElim
    <3>6. /\ n + m <= Len(q) /\ m <= kMaxPendingWrites
          /\ \A i \in 1..m : pendingWrites[i] = q[n + i]
          /\ \A i \in 1..n : held[i] = q[0 + i]
          /\ m < kMaxPendingWrites => n + m = Len(q)
      BY <3>2, <3>3, <3>4 DEF Fits, Full, InPlace
    <3>7. PICK x : x = held \o pendingWrites
      OBVIOUS
    <3>8. /\ x \in Seq(Batch) /\ Len(x) = n + m
          /\ (\A i \in 1..n : x[i] = held[i])
          /\ \A i \in 1..m : x[n + i] = pendingWrites[i]
      BY <3>3, <3>4, <3>5, <3>7, ConcatIs
    <3>9. PICK y : y = SubSeq(q, 1, n + m)
      OBVIOUS
    <3>10. y \in Seq(Batch) /\ Len(y) = n + m /\ \A i \in 1..(n + m) : y[i] = q[i]
      <4>1. \A i \in 1..(n + m) : q[i] \in Batch
        <5>1. \A i \in 1..Len(q) : q[i] \in Batch
          BY <3>5, BatchSeq
        <5>2. QED
          BY <3>5, <3>6, <5>1
      <4>2. PICK z : z = n + m
        OBVIOUS
      <4>3. z \in Nat /\ 1 \in Int /\ z \in Int /\ \A i \in 1..z : q[i] \in Batch
        BY <3>5, <4>1, <4>2
      <4>4. /\ SubSeq(q, 1, z) \in Seq(Batch)
            /\ Len(SubSeq(q, 1, z)) = IF 1 <= z THEN z - 1 + 1 ELSE 0
            /\ \A i \in 1..z - 1 + 1 : SubSeq(q, 1, z)[i] = q[1 + i - 1]
        BY <4>3, SubSeqProperties
      <4>5. (IF 1 <= z THEN z - 1 + 1 ELSE 0) = z /\ z - 1 + 1 = z
        BY <4>3
      <4>6. ASSUME NEW i \in 1..z PROVE SubSeq(q, 1, z)[i] = q[i]
        <5>1. 1 + i - 1 = i
          OBVIOUS
        <5>2. QED
          BY <4>4, <4>5, <5>1
      <4>7. QED
        BY <3>9, <4>2, <4>4, <4>5, <4>6
    <3>11. ASSUME NEW i \in 1..(n + m) PROVE x[i] = y[i]
      <4>1. CASE i <= n
        <5>1. i \in 1..n /\ 0 + i = i
          BY <3>5, <4>1
        <5>2. QED
          BY <3>6, <3>8, <3>10, <5>1
      <4>2. CASE n < i
        <5>1. PICK j \in 1..m : i = n + j
          <6>1. i - n \in 1..m /\ i = n + (i - n)
            BY ONLY <3>5, <4>2, i \in 1..(n + m)
          <6>2. QED
            BY <6>1
        <5>2. x[i] = pendingWrites[j] /\ pendingWrites[j] = q[i]
          BY <3>6, <3>8, <5>1
        <5>3. QED
          BY <3>10, <5>2
      <4>3. QED
        BY <3>5, <4>1, <4>2
    <3>12. x = y
      BY <3>8, <3>10, <3>11, SeqEqual
    <3>13. /\ Len(held) + Len(pendingWrites) = n + m
           /\ held \o pendingWrites = SubSeq(rows[user], 1, n + m)
      BY <3>1, <3>3, <3>4, <3>7, <3>9, <3>12
    <3>14. /\ n + m <= Len(rows[user]) /\ Len(pendingWrites) <= kMaxPendingWrites
           /\ Len(pendingWrites) < kMaxPendingWrites => n + m = Len(rows[user])
      BY <3>1, <3>4, <3>6
    <3>15. QED
      BY <3>13, <3>14 DEF PipelineIsPrefix
  <2>5. QED
    BY <2>1, <2>2, <2>3, <2>4 DEF PipelineInv
<1>2. QED
  BY <1>1, PipeAlways, PTL

\* The assertions on the way of the pipeline hold: an answer finds its batch,
\* after the one acknowledged last (acknowledgeBatch, rejectBatchID), mutations
\* go to an open stream (writeMutations), and start resets the acknowledged id
\* of an empty queue only (FSTLevelDBMutationQueue start).
THEOREM AssertionsAlways == Spec => []AssertionsHold
<1>1. PipeInv => AssertionsHold
  <2> SUFFICES ASSUME PipeInv PROVE AssertionsHold
    OBVIOUS
  <2>1. /\ QueueInv /\ StreamOK(stream, pendingWrites) /\ pendingWrites \in Seq(Batch)
        /\ TypeOK /\ QueuesOK /\ AckedOK
    BY TypeElim DEF PipeInv, QueueInv, StreamInv
  <2>2. ASSUME stream.responses # <<>>, stream.handshakeComplete
        PROVE  pendingWrites # <<>> /\ Head(pendingWrites).id > lastAcked[user]
    <3>1. PICK t : t = [stream EXCEPT !.responses = Tail(@)]
      OBVIOUS
    <3>2. pendingWrites # <<>>
      BY <2>1, <2>2, <3>1, ReceivedIs
    <3>3. PICK b : b = Head(pendingWrites)
      OBVIOUS
    <3>4. PICK a : a = lastAcked[user]
      OBVIOUS
    <3>5. /\ Holds(rows[user], nextBatchID, held, a)
          /\ Fits(rows[user], nextBatchID, Len(held), pendingWrites, a, lastBatchSeen)
      BY <2>1, <3>4, HoldsNow
    <3>6. b \in Batch /\ a < b.id
      BY <3>2, <3>3, <3>5, AckIs
    <3>7. a \in Id
      BY <3>5 DEF Holds
    <3>8. b.id > a
      BY <3>6, <3>7 DEF Batch
    <3>9. QED
      BY <3>2, <3>3, <3>4, <3>8
  <2>3. isStarted(stream) /\ stream.handshakeComplete => stream.state = "Open"
    BY <2>1 DEF StreamOK
  <2>4. \A u \in User : lastAcked[u] >= loadNextBatchIDFromDB => rows[u] = <<>>
    BY <2>1, AckedAtStartIs
  <2>5. QED
    BY <2>2, <2>3, <2>4 DEF AssertionsHold
<1>2. QED
  BY <1>1, PipeAlways, PTL

-----------------------------------------------------------------------------
(* Nothing is lost.                                                        *)

\* A queue q is the end of the writes s that were issued, and what was issued
\* before it is done.
Behind(q, s, D) ==
    \E k \in 0..Len(s) :
        /\ Len(s) = k + Len(q)
        /\ \A i \in 1..Len(q) : q[i] = s[k + i]
        /\ \A i \in 1..k : s[i] \in D

\* What is done of the writes s comes before what is not.
DoneFirst(s, D) == \A i, j \in 1..Len(s) : i < j /\ s[j] \in D => s[i] \in D

\* No write is issued twice.
Distinct(I) ==
    \A u, v \in User : \A i \in 1..Len(I[u]), j \in 1..Len(I[v]) :
        I[u][i] = I[v][j] => u = v /\ i = j

\* The queues Q of the writes I that were issued, with the answers R on their way
\* to the account u, and the writes D the server has done.
LossInv(u, Q, R, D, I) ==
    /\ u \in User /\ R \in Seq(BOOLEAN)
    /\ Q \in [User -> Seq(Write)] /\ I \in [User -> Seq(Write)]
    /\ \A v \in User : Behind(Q[v], I[v], D) /\ DoneFirst(I[v], D)
    /\ Len(R) <= Len(Q[u]) /\ \A i \in 1..Len(R) : Q[u][i] \in D
    /\ Distinct(I)
    /\ \A w \in D : \E v \in User : \E i \in 1..Len(I[v]) : I[v][i] = w


\* A queue stays behind what was issued when more is done.
LEMMA BehindGrows ==
    ASSUME NEW q, NEW s, NEW D, NEW E, D \subseteq E, Behind(q, s, D)
    PROVE  Behind(q, s, E)
BY DEF Behind

\* A write joins both.
LEMMA BehindJoins ==
    ASSUME NEW q \in Seq(Write), NEW s \in Seq(Write), NEW D, NEW w \in Write,
           w \notin D, Behind(q, s, D), DoneFirst(s, D)
    PROVE  Behind(Append(q, w), Append(s, w), D) /\ DoneFirst(Append(s, w), D)
<1>1. /\ Len(q) \in Nat /\ Len(s) \in Nat
      /\ Len(Append(q, w)) = Len(q) + 1 /\ Len(Append(s, w)) = Len(s) + 1
      /\ \A i \in 1..Len(q) : Append(q, w)[i] = q[i]
      /\ \A i \in 1..Len(s) : Append(s, w)[i] = s[i]
      /\ Append(q, w)[Len(q) + 1] = w /\ Append(s, w)[Len(s) + 1] = w
  BY LenProperties, AppendProperties
<1>2. PICK x : x = Append(q, w)
  OBVIOUS
<1>3. PICK y : y = Append(s, w)
  OBVIOUS
<1>4. PICK k \in 0..Len(s) : /\ Len(s) = k + Len(q)
                             /\ \A i \in 1..Len(q) : q[i] = s[k + i]
                             /\ \A i \in 1..k : s[i] \in D
  BY DEF Behind
<1>5. /\ Len(x) = Len(q) + 1 /\ Len(y) = Len(s) + 1
      /\ \A i \in 1..Len(q) : x[i] = q[i]
      /\ \A i \in 1..Len(s) : y[i] = s[i]
      /\ x[Len(q) + 1] = w /\ y[Len(s) + 1] = w
  BY <1>1, <1>2, <1>3
<1>6. Behind(x, y, D)
  <2>1. ASSUME NEW i \in 1..Len(x) PROVE x[i] = y[k + i]
    <3>1. CASE i \in 1..Len(q)
      <4>1. k + i \in 1..Len(s)
        BY <1>1, <1>4, <3>1
      <4>2. QED
        BY <1>4, <1>5, <3>1, <4>1
    <3>2. CASE i = Len(q) + 1
      <4>1. k + i = Len(s) + 1
        BY <1>1, <1>4, <3>2
      <4>2. QED
        BY <1>5, <3>2, <4>1
    <3>3. QED
      BY <1>1, <1>5, <3>1, <3>2
  <2>2. ASSUME NEW i \in 1..k PROVE y[i] \in D
    <3>1. i \in 1..Len(s)
      BY <1>1, <1>4
    <3>2. QED
      BY <1>4, <1>5, <3>1
  <2>3. k \in 0..Len(y) /\ Len(y) = k + Len(x)
    BY <1>1, <1>4, <1>5
  <2>4. QED
    BY <2>1, <2>2, <2>3 DEF Behind
<1>7. DoneFirst(y, D)
  <2>1. ASSUME NEW i \in 1..Len(y), NEW j \in 1..Len(y), i < j, y[j] \in D
        PROVE  y[i] \in D
    <3>1. j # Len(s) + 1
      BY <1>5, <2>1
    <3>2. i \in 1..Len(s) /\ j \in 1..Len(s)
      BY <1>1, <1>5, <2>1, <3>1
    <3>3. QED
      BY <1>5, <2>1, <3>2 DEF DoneFirst
  <2>2. QED
    BY <2>1 DEF DoneFirst
<1>8. QED
  BY <1>2, <1>3, <1>6, <1>7

\* The first write leaves the queue when it is done.
LEMMA BehindLeaves ==
    ASSUME NEW q \in Seq(Write), NEW s \in Seq(Write), NEW D,
           Behind(q, s, D), q # <<>>, q[1] \in D
    PROVE  Behind(Tail(q), s, D)
<1>1. /\ Len(q) \in Nat /\ Len(s) \in Nat /\ Len(q) > 0
      /\ Len(Tail(q)) = Len(q) - 1
      /\ \A i \in 1..Len(Tail(q)) : Tail(q)[i] = q[i + 1]
  BY LenProperties, HeadTailProperties, EmptySeq
<1>2. PICK x : x = Tail(q)
  OBVIOUS
<1>3. PICK k \in 0..Len(s) : /\ Len(s) = k + Len(q)
                             /\ \A i \in 1..Len(q) : q[i] = s[k + i]
                             /\ \A i \in 1..k : s[i] \in D
  BY DEF Behind
<1>4. Len(x) = Len(q) - 1 /\ \A i \in 1..Len(x) : x[i] = q[i + 1]
  BY <1>1, <1>2
<1>5. k + 1 \in 0..Len(s) /\ Len(s) = (k + 1) + Len(x)
  BY <1>1, <1>3, <1>4
<1>6. ASSUME NEW i \in 1..Len(x) PROVE x[i] = s[(k + 1) + i]
  <2>1. i + 1 \in 1..Len(q) /\ k + (i + 1) = (k + 1) + i
    BY <1>1, <1>3, <1>4
  <2>2. QED
    BY <1>3, <1>4, <2>1
<1>7. ASSUME NEW i \in 1..(k + 1) PROVE s[i] \in D
  <2>1. CASE i = k + 1
    <3>1. 1 \in 1..Len(q)
      BY <1>1
    <3>2. QED
      BY <1>3, <2>1, <3>1
  <2>2. CASE i # k + 1
    <3>1. i \in 1..k
      BY <1>3, <2>2
    <3>2. QED
      BY <1>3, <3>1
  <2>3. QED
    BY <2>1, <2>2
<1>8. QED
  BY <1>2, <1>5, <1>6, <1>7 DEF Behind

\* The write after the first m of a queue is done, and those are.
LEMMA DoneNext ==
    ASSUME NEW q \in Seq(Write), NEW s \in Seq(Write), NEW D,
           NEW m \in Nat, m + 1 <= Len(q), \A i \in 1..m : q[i] \in D,
           Behind(q, s, D), DoneFirst(s, D),
           \A i, j \in 1..Len(s) : s[i] = s[j] => i = j
    PROVE  DoneFirst(s, D \cup {q[m + 1]}) /\ \E i \in 1..Len(s) : s[i] = q[m + 1]
<1>1. Len(q) \in Nat /\ Len(s) \in Nat
  BY LenProperties
<1>2. PICK k \in 0..Len(s) : /\ Len(s) = k + Len(q)
                             /\ \A i \in 1..Len(q) : q[i] = s[k + i]
                             /\ \A i \in 1..k : s[i] \in D
  BY DEF Behind
<1>3. PICK n : n = k + (m + 1)
  OBVIOUS
<1>4. n \in 1..Len(s) /\ m + 1 \in 1..Len(q)
  BY <1>1, <1>2, <1>3
<1>5. s[n] = q[m + 1]
  BY <1>2, <1>3, <1>4
<1>6. ASSUME NEW i \in 1..Len(s), i < n PROVE s[i] \in D
  <2>1. CASE i <= k
    <3>1. i \in 1..k
      BY <1>2, <2>1
    <3>2. QED
      BY <1>2, <3>1
  <2>2. CASE k < i
    <3>1. i - k \in 1..m /\ i - k \in 1..Len(q) /\ k + (i - k) = i
      BY <1>1, <1>2, <1>3, <1>6, <2>2
    <3>2. q[i - k] = s[i]
      BY <1>2, <3>1
    <3>3. q[i - k] \in D
      BY <3>1
    <3>4. QED
      BY <3>2, <3>3
  <2>3. QED
    BY <1>2, <2>1, <2>2
<1>7. ASSUME NEW i \in 1..Len(s), NEW j \in 1..Len(s), i < j,
             s[j] \in D \cup {q[m + 1]}
      PROVE  s[i] \in D \cup {q[m + 1]}
  <2>1. CASE s[j] \in D
    BY <1>7, <2>1 DEF DoneFirst
  <2>2. CASE s[j] = q[m + 1]
    <3>1. j = n
      BY <1>4, <1>5, <2>2
    <3>2. QED
      BY <1>6, <1>7, <3>1
  <2>3. QED
    BY <1>7, <2>1, <2>2
<1>8. QED
  BY <1>4, <1>5, <1>7 DEF DoneFirst

\* The application writes.
LEMMA LossEnqueue ==
    ASSUME NEW u, NEW Q, NEW R, NEW D, NEW I, LossInv(u, Q, R, D, I),
           NEW w \in Write, \A v \in User : \A i \in 1..Len(I[v]) : I[v][i] # w
    PROVE  LossInv(u, [Q EXCEPT ![u] = Append(Q[u], w)], R, D,
                   [I EXCEPT ![u] = Append(I[u], w)])
<1>1. /\ u \in User /\ R \in Seq(BOOLEAN) /\ Q \in [User -> Seq(Write)] /\ I \in [User -> Seq(Write)]
      /\ \A v \in User : Behind(Q[v], I[v], D) /\ DoneFirst(I[v], D)
      /\ Len(R) <= Len(Q[u]) /\ \A i \in 1..Len(R) : Q[u][i] \in D
      /\ Distinct(I)
      /\ \A x \in D : \E v \in User : \E i \in 1..Len(I[v]) : I[v][i] = x
  BY DEF LossInv
<1>2. w \notin D
  BY <1>1
<1>3. PICK q : q = Append(Q[u], w)
  OBVIOUS
<1>4. PICK s : s = Append(I[u], w)
  OBVIOUS
<1>5. Behind(q, s, D) /\ DoneFirst(s, D)
  BY <1>1, <1>2, <1>3, <1>4, BehindJoins
<1>6. /\ q \in Seq(Write) /\ Len(q) = Len(Q[u]) + 1 /\ \A i \in 1..Len(Q[u]) : q[i] = Q[u][i]
      /\ s \in Seq(Write) /\ Len(s) = Len(I[u]) + 1 /\ \A i \in 1..Len(I[u]) : s[i] = I[u][i]
      /\ s[Len(I[u]) + 1] = w
      /\ Len(Q[u]) \in Nat /\ Len(I[u]) \in Nat /\ Len(R) \in Nat
  BY <1>1, <1>3, <1>4, AppendProperties, LenProperties
<1>7. PICK QQ : QQ = [Q EXCEPT ![u] = q]
  OBVIOUS
<1>8. PICK II : II = [I EXCEPT ![u] = s]
  OBVIOUS
<1>9. /\ QQ \in [User -> Seq(Write)] /\ QQ[u] = q /\ \A v \in User \ {u} : QQ[v] = Q[v]
      /\ II \in [User -> Seq(Write)] /\ II[u] = s /\ \A v \in User \ {u} : II[v] = I[v]
  BY <1>1, <1>6, <1>7, <1>8
<1>10. \A v \in User : Behind(QQ[v], II[v], D) /\ DoneFirst(II[v], D)
  BY <1>1, <1>5, <1>9, Zenon
<1>11. Len(R) <= Len(QQ[u])
  BY <1>1, <1>6, <1>9
<1>12. ASSUME NEW i \in 1..Len(R) PROVE QQ[u][i] \in D
  <2>1. i \in 1..Len(Q[u])
    BY <1>1, <1>6
  <2>2. QED
    BY <1>1, <1>6, <1>9, <2>1
<1>13. \A v \in User : \A i \in 1..Len(I[v]) : i \in 1..Len(II[v]) /\ II[v][i] = I[v][i]
  <2>1. SUFFICES ASSUME NEW v \in User, NEW i \in 1..Len(I[v])
                 PROVE  i \in 1..Len(II[v]) /\ II[v][i] = I[v][i]
    OBVIOUS
  <2>2. CASE v = u
    BY <1>6, <1>9, <2>2
  <2>3. CASE v # u
    BY <1>9, <2>3
  <2>4. QED
    BY <2>2, <2>3
<1>14. \A v \in User : \A i \in 1..Len(II[v]) :
          \/ i \in 1..Len(I[v])
          \/ v = u /\ i = Len(I[u]) + 1 /\ II[v][i] = w
  <2>1. SUFFICES ASSUME NEW v \in User, NEW i \in 1..Len(II[v]), i \notin 1..Len(I[v])
                 PROVE  v = u /\ i = Len(I[u]) + 1 /\ II[v][i] = w
    OBVIOUS
  <2>2. v = u
    BY <1>9, <2>1
  <2>3. i \in 1..(Len(I[u]) + 1) /\ i \notin 1..Len(I[u])
    BY <1>6, <1>9, <2>1, <2>2
  <2>4. i = Len(I[u]) + 1
    BY <1>6, <2>3
  <2>5. QED
    BY <1>6, <1>9, <2>2, <2>4
<1>15. Distinct(II)
  <2>1. SUFFICES ASSUME NEW v \in User, NEW x \in User, NEW i \in 1..Len(II[v]),
                        NEW j \in 1..Len(II[x]), II[v][i] = II[x][j]
                 PROVE  v = x /\ i = j
    BY DEF Distinct
  <2>2. CASE i \in 1..Len(I[v]) /\ j \in 1..Len(I[x])
    <3>1. I[v][i] = I[x][j]
      BY <1>13, <2>1, <2>2
    <3>2. QED
      BY <1>1, <2>2, <3>1 DEF Distinct
  <2>3. CASE i \notin 1..Len(I[v]) /\ j \in 1..Len(I[x])
    <3>1. II[v][i] = w /\ II[x][j] = I[x][j] /\ I[x][j] # w
      BY <1>13, <1>14, <2>3
    <3>2. QED
      BY <2>1, <3>1
  <2>4. CASE i \in 1..Len(I[v]) /\ j \notin 1..Len(I[x])
    <3>1. II[x][j] = w /\ II[v][i] = I[v][i] /\ I[v][i] # w
      BY <1>13, <1>14, <2>4
    <3>2. QED
      BY <2>1, <3>1
  <2>5. CASE i \notin 1..Len(I[v]) /\ j \notin 1..Len(I[x])
    <3>1. v = u /\ i = Len(I[u]) + 1 /\ x = u /\ j = Len(I[u]) + 1
      BY <1>14, <2>5, Zenon
    <3>2. QED
      BY <3>1
  <2>6. QED
    BY <2>2, <2>3, <2>4, <2>5
<1>16. \A x \in D : \E v \in User : \E i \in 1..Len(II[v]) : II[v][i] = x
  <2>1. SUFFICES ASSUME NEW x \in D PROVE \E v \in User : \E i \in 1..Len(II[v]) : II[v][i] = x
    OBVIOUS
  <2>2. PICK v \in User : \E i \in 1..Len(I[v]) : I[v][i] = x
    BY <1>1
  <2>3. PICK i \in 1..Len(I[v]) : I[v][i] = x
    BY <2>2
  <2>4. i \in 1..Len(II[v]) /\ II[v][i] = x
    BY <1>13, <2>3
  <2>5. QED
    BY <2>4
<1>17. LossInv(u, QQ, R, D, II)
  BY <1>1, <1>9, <1>10, <1>11, <1>12, <1>15, <1>16 DEF LossInv
<1>18. QED
  BY <1>3, <1>4, <1>7, <1>8, <1>17

\* The server answers the first write it has not answered.
LEMMA LossServe ==
    ASSUME NEW u, NEW Q, NEW R, NEW D, NEW I, LossInv(u, Q, R, D, I),
           Len(R) + 1 <= Len(Q[u]), NEW b \in BOOLEAN
    PROVE  LossInv(u, Q, Append(R, b), D \cup {Q[u][Len(R) + 1]}, I)
<1>1. /\ u \in User /\ R \in Seq(BOOLEAN) /\ Q \in [User -> Seq(Write)] /\ I \in [User -> Seq(Write)]
      /\ \A v \in User : Behind(Q[v], I[v], D) /\ DoneFirst(I[v], D)
      /\ \A i \in 1..Len(R) : Q[u][i] \in D
      /\ Distinct(I)
      /\ \A x \in D : \E v \in User : \E i \in 1..Len(I[v]) : I[v][i] = x
  BY DEF LossInv
<1>2. PICK m : m = Len(R)
  OBVIOUS
<1>3. PICK w : w = Q[u][m + 1]
  OBVIOUS
<1>4. PICK E : E = D \cup {w}
  OBVIOUS
<1>5. PICK q : q = Q[u]
  OBVIOUS
<1>6. PICK s : s = I[u]
  OBVIOUS
<1>7. /\ q \in Seq(Write) /\ s \in Seq(Write) /\ m \in Nat /\ m + 1 <= Len(q)
      /\ (\A i \in 1..m : q[i] \in D) /\ Behind(q, s, D) /\ DoneFirst(s, D)
      /\ w = q[m + 1] /\ Len(q) \in Nat
  <2>1. q \in Seq(Write) /\ s \in Seq(Write) /\ m \in Nat /\ Len(q) \in Nat
    BY <1>1, <1>2, <1>5, <1>6, LenProperties
  <2>2. (\A i \in 1..m : q[i] \in D) /\ Behind(q, s, D) /\ DoneFirst(s, D)
    BY <1>1, <1>2, <1>5, <1>6
  <2>3. m + 1 <= Len(q) /\ w = q[m + 1]
    BY <1>2, <1>3, <1>5
  <2>4. QED
    BY <2>1, <2>2, <2>3
<1>8. \A i, j \in 1..Len(s) : s[i] = s[j] => i = j
  <2>1. \A i \in 1..Len(I[u]), j \in 1..Len(I[u]) : I[u][i] = I[u][j] => i = j
    BY <1>1, Zenon DEF Distinct
  <2>2. QED
    BY ONLY <1>6, <2>1
<1>9. DoneFirst(s, E) /\ \E i \in 1..Len(s) : s[i] = w
  BY <1>4, <1>7, <1>8, DoneNext
<1>10. ASSUME NEW v \in User PROVE Behind(Q[v], I[v], E) /\ DoneFirst(I[v], E)
  <2>1. Behind(Q[v], I[v], E)
    <3>1. D \subseteq E
      BY <1>4
    <3>2. QED
      BY <1>1, <3>1, BehindGrows
  <2>2. CASE v = u
    BY <1>6, <1>9, <2>1, <2>2
  <2>3. CASE v # u
    <3>1. \A i \in 1..Len(I[v]) : I[v][i] # w
      <4>1. PICK j \in 1..Len(s) : s[j] = w
        BY <1>9
      <4>2. QED
        BY <1>1, <1>6, <2>3, <4>1 DEF Distinct
    <3>2. \A i \in 1..Len(I[v]) : I[v][i] \in E <=> I[v][i] \in D
      BY <1>4, <3>1
    <3>3. DoneFirst(I[v], E)
      BY <1>1, <3>2 DEF DoneFirst
    <3>4. QED
      BY <2>1, <3>3
  <2>4. QED
    BY <2>2, <2>3
<1>11. PICK RR : RR = Append(R, b)
  OBVIOUS
<1>12. RR \in Seq(BOOLEAN) /\ Len(RR) = m + 1
  BY <1>1, <1>2, <1>11, AppendProperties
<1>13. ASSUME NEW i \in 1..Len(RR) PROVE Q[u][i] \in E
  <2>1. i \in 1..m \/ i = m + 1
    BY <1>7, <1>12
  <2>2. QED
    BY <1>4, <1>5, <1>7, <2>1
<1>14. \A x \in E : \E v \in User : \E i \in 1..Len(I[v]) : I[v][i] = x
  BY <1>1, <1>4, <1>6, <1>9, Zenon
<1>15. Len(RR) <= Len(Q[u])
  BY <1>5, <1>7, <1>12
<1>16. LossInv(u, Q, RR, E, I)
  BY <1>1, <1>10, <1>12, <1>13, <1>14, <1>15 DEF LossInv
<1>17. QED
  BY <1>2, <1>3, <1>4, <1>11, <1>16

\* An answer arrives; the others of this connection stay on their way, or are
\* lost with it.
LEMMA LossAnswer ==
    ASSUME NEW u, NEW Q, NEW R, NEW D, NEW I, LossInv(u, Q, R, D, I), R # <<>>,
           NEW S, S = Tail(R) \/ S = <<>>
    PROVE  LossInv(u, [Q EXCEPT ![u] = Tail(Q[u])], S, D, I)
<1>1. /\ u \in User /\ R \in Seq(BOOLEAN) /\ Q \in [User -> Seq(Write)] /\ I \in [User -> Seq(Write)]
      /\ \A v \in User : Behind(Q[v], I[v], D) /\ DoneFirst(I[v], D)
      /\ Len(R) <= Len(Q[u]) /\ \A i \in 1..Len(R) : Q[u][i] \in D
      /\ Distinct(I)
      /\ \A x \in D : \E v \in User : \E i \in 1..Len(I[v]) : I[v][i] = x
  BY DEF LossInv
<1>2. PICK q : q = Q[u]
  OBVIOUS
<1>3. PICK t : t = Tail(q)
  OBVIOUS
<1>4. /\ q \in Seq(Write) /\ Len(q) \in Nat /\ Len(R) \in Nat
      /\ Len(R) > 0 /\ Len(R) <= Len(q)
  BY <1>1, <1>2, LenProperties, EmptySeq
<1>5. q # <<>> /\ q[1] \in D
  <2>1. 1 \in 1..Len(R)
    BY <1>4
  <2>2. QED
    BY <1>1, <1>2, <1>4, <2>1, EmptySeq
<1>6. /\ t \in Seq(Write) /\ Len(t) = Len(q) - 1
      /\ \A i \in 1..Len(t) : t[i] = q[i + 1]
  BY <1>3, <1>4, <1>5, HeadTailProperties
<1>7. S \in Seq(BOOLEAN) /\ Len(S) \in Nat /\ Len(S) <= Len(R) - 1
  <2>1. /\ Tail(R) \in Seq(BOOLEAN) /\ Len(Tail(R)) = Len(R) - 1
        /\ <<>> \in Seq(BOOLEAN) /\ Len(<<>>) = 0
    BY <1>1, HeadTailProperties, EmptySeq
  <2>2. CASE S = Tail(R)
    BY <1>4, <2>1, <2>2
  <2>3. CASE S = <<>>
    BY <1>4, <2>1, <2>3
  <2>4. QED
    BY <2>2, <2>3
<1>8. PICK QQ : QQ = [Q EXCEPT ![u] = t]
  OBVIOUS
<1>9. QQ \in [User -> Seq(Write)] /\ QQ[u] = t /\ \A v \in User \ {u} : QQ[v] = Q[v]
  BY <1>1, <1>6, <1>8
<1>10. Behind(t, I[u], D)
  BY <1>1, <1>2, <1>3, <1>4, <1>5, BehindLeaves
<1>11. \A v \in User : Behind(QQ[v], I[v], D) /\ DoneFirst(I[v], D)
  BY <1>1, <1>9, <1>10, Zenon
<1>12. Len(S) <= Len(QQ[u])
  BY <1>4, <1>6, <1>7, <1>9
<1>13. ASSUME NEW i \in 1..Len(S) PROVE QQ[u][i] \in D
  <2>1. i \in 1..Len(t) /\ i + 1 \in 1..Len(R)
    BY <1>4, <1>6, <1>7
  <2>2. t[i] = q[i + 1] /\ q[i + 1] \in D
    BY <1>1, <1>2, <1>6, <2>1
  <2>3. QED
    BY <1>9, <2>2
<1>14. LossInv(u, QQ, S, D, I)
  BY <1>1, <1>7, <1>9, <1>11, <1>12, <1>13 DEF LossInv
<1>15. QED
  BY <1>2, <1>3, <1>8, <1>14

\* The answers on their way are lost with their connection.
LEMMA LossReconnect ==
    ASSUME NEW u, NEW Q, NEW R, NEW D, NEW I, LossInv(u, Q, R, D, I), NEW v \in User
    PROVE  LossInv(v, Q, <<>>, D, I)
<1>1. <<>> \in Seq(BOOLEAN) /\ Len(<<>>) = 0 /\ Len(Q[v]) \in Nat
  BY LenProperties, EmptySeq DEF LossInv
<1>2. QED
  BY <1>1 DEF LossInv

\* What the application sees of it.
LEMMA LossMeans ==
    ASSUME NEW u, NEW Q, NEW R, NEW D, NEW I, LossInv(u, Q, R, D, I), NEW v \in User
    PROVE  /\ \A i \in DOMAIN I[v] : (\E j \in DOMAIN Q[v] : Q[v][j] = I[v][i]) \/ I[v][i] \in D
           /\ \A i, j \in DOMAIN I[v] : i < j /\ I[v][j] \in D => I[v][i] \in D
<1>1. PICK q : q = Q[v]
  OBVIOUS
<1>2. PICK s : s = I[v]
  OBVIOUS
<1>3. q \in Seq(Write) /\ s \in Seq(Write) /\ Behind(q, s, D) /\ DoneFirst(s, D)
  BY <1>1, <1>2 DEF LossInv
<1>4. DOMAIN q = 1..Len(q) /\ DOMAIN s = 1..Len(s) /\ Len(q) \in Nat /\ Len(s) \in Nat
  BY <1>3, LenProperties
<1>5. PICK k \in 0..Len(s) : /\ Len(s) = k + Len(q)
                             /\ \A i \in 1..Len(q) : q[i] = s[k + i]
                             /\ \A i \in 1..k : s[i] \in D
  BY <1>3 DEF Behind
<1>6. ASSUME NEW i \in DOMAIN s PROVE (\E j \in DOMAIN q : q[j] = s[i]) \/ s[i] \in D
  <2>1. CASE i <= k
    <3>1. i \in 1..k
      BY <1>4, <1>5, <2>1
    <3>2. QED
      BY <1>5, <3>1
  <2>2. CASE k < i
    <3>1. i - k \in 1..Len(q) /\ k + (i - k) = i
      BY <1>4, <1>5, <2>2
    <3>2. QED
      BY <1>4, <1>5, <3>1
  <2>3. QED
    BY <1>4, <1>5, <2>1, <2>2
<1>7. QED
  BY <1>1, <1>2, <1>3, <1>4, <1>6 DEF DoneFirst

Loss == LossInv(user, Queue, RespOf(stream), applied \cup refused, issued)

LEMMA LossStep ==
    ASSUME Loss, [WQ!Next]_(WQ!vars)
    PROVE  Loss'
<1>1. PICK Q : Q = Queue
  OBVIOUS
<1>2. PICK R : R = RespOf(stream)
  OBVIOUS
<1>3. PICK D : D = applied \cup refused
  OBVIOUS
<1>4. LossInv(user, Q, R, D, issued)
  BY <1>1, <1>2, <1>3 DEF Loss
<1>5. /\ user \in User /\ R \in Seq(BOOLEAN) /\ Q \in [User -> Seq(Write)]
      /\ issued \in [User -> Seq(Write)]
  BY <1>4 DEF LossInv
<1>6. ASSUME NEW u, NEW S, NEW T, NEW E, NEW J, LossInv(u, S, T, E, J),
             user' = u, Queue' = S, RespOf(stream') = T, applied' \cup refused' = E,
             issued' = J
      PROVE  Loss'
  BY <1>6 DEF Loss
<1>7. ASSUME NEW w \in Write, WQ!Enqueue(w) PROVE Loss'
  <2>1. /\ \A u \in User : w \notin Issued(u)
        /\ Queue' = [Q EXCEPT ![user] = Append(Q[user], w)]
        /\ issued' = [issued EXCEPT ![user] = Append(issued[user], w)]
        /\ user' = user /\ RespOf(stream') = R
        /\ applied' = applied /\ refused' = refused
    BY <1>1, <1>2, <1>7 DEF WQ!Enqueue, WQ!Issued, Issued, RespOf, Queue
  <2>2. \A v \in User : \A i \in 1..Len(issued[v]) : issued[v][i] # w
    <3>1. ASSUME NEW v \in User PROVE DOMAIN issued[v] = 1..Len(issued[v])
      BY <1>5, LenProperties
    <3>2. QED
      BY <2>1, <3>1 DEF Issued
  <2>3. PICK S : S = [Q EXCEPT ![user] = Append(Q[user], w)]
    OBVIOUS
  <2>4. PICK J : J = [issued EXCEPT ![user] = Append(issued[user], w)]
    OBVIOUS
  <2>5. LossInv(user, S, R, D, J)
    BY <1>4, <2>2, <2>3, <2>4, LossEnqueue
  <2>6. applied' \cup refused' = D
    BY <1>3, <2>1
  <2>7. QED
    BY <1>6, <2>1, <2>3, <2>4, <2>5, <2>6
<1>8. CASE WQ!Serve
  <2>1. PICK w : w = Q[user][Len(R) + 1]
    OBVIOUS
  <2>2. /\ Len(R) + 1 <= Len(Q[user])
        /\ \/ /\ applied' = applied \cup {w} /\ refused' = refused
              /\ RespOf(stream') = Append(R, TRUE)
           \/ /\ applied' = applied /\ refused' = refused \cup {w}
              /\ RespOf(stream') = Append(R, FALSE)
        /\ user' = user /\ Queue' = Q /\ issued' = issued
    BY <1>1, <1>2, <1>8, <2>1 DEF WQ!Serve, RespOf, Queue
  <2>3. PICK b \in BOOLEAN : RespOf(stream') = Append(R, b)
    BY <2>2
  <2>4. PICK T : T = Append(R, b)
    OBVIOUS
  <2>5. LossInv(user, Q, T, D \cup {w}, issued)
    BY <1>4, <2>1, <2>2, <2>4, LossServe
  <2>6. applied' \cup refused' = D \cup {w}
    BY <1>3, <2>2
  <2>7. QED
    BY <1>6, <2>2, <2>3, <2>4, <2>5, <2>6
<1>9. ASSUME R # <<>>, NEW T, T = Tail(R) \/ T = <<>>, RespOf(stream') = T,
             Queue' = [Q EXCEPT ![user] = Tail(Q[user])],
             UNCHANGED <<user, applied, refused, issued>>
      PROVE  Loss'
  <2>1. PICK S : S = [Q EXCEPT ![user] = Tail(Q[user])]
    OBVIOUS
  <2>2. LossInv(user, S, T, D, issued)
    <3>1. LossInv(user, [Q EXCEPT ![user] = Tail(Q[user])], T, D, issued)
      BY <1>4, <1>9, LossAnswer, Zenon
    <3>2. QED
      BY <2>1, <3>1
  <2>3. applied' \cup refused' = D
    BY <1>3, <1>9
  <2>4. QED
    BY <1>6, <1>9, <2>1, <2>2, <2>3
<1>10. CASE WQ!Acknowledge
  <2>1. /\ R # <<>> /\ RespOf(stream') = Tail(R)
        /\ Queue' = [Q EXCEPT ![user] = Tail(Q[user])]
        /\ UNCHANGED <<user, applied, refused, issued>>
    BY <1>1, <1>2, <1>10 DEF WQ!Acknowledge, RespOf, Queue
  <2>2. QED
    BY <1>9, <2>1
<1>11. CASE WQ!Reject
  <2>1. /\ R # <<>> /\ RespOf(stream') = <<>>
        /\ Queue' = [Q EXCEPT ![user] = Tail(Q[user])]
        /\ UNCHANGED <<user, applied, refused, issued>>
    BY <1>1, <1>2, <1>11 DEF WQ!Reject, RespOf, Queue
  <2>2. QED
    BY <1>9, <2>1
<1>12. ASSUME NEW u \in User, WQ!Reconnect(u) PROVE Loss'
  <2>1. /\ user' = u /\ RespOf(stream') = <<>> /\ Queue' = Q
        /\ applied' = applied /\ refused' = refused /\ issued' = issued
    BY <1>1, <1>12 DEF WQ!Reconnect, RespOf, Queue
  <2>2. LossInv(u, Q, <<>>, D, issued)
    BY <1>4, LossReconnect
  <2>3. applied' \cup refused' = D
    BY <1>3, <2>1
  <2>4. QED
    BY <1>6, <2>1, <2>2, <2>3
<1>13. CASE UNCHANGED WQ!vars
  <2>1. /\ user' = user /\ RespOf(stream') = R /\ Queue' = Q
        /\ applied' = applied /\ refused' = refused /\ issued' = issued
    BY <1>1, <1>2, <1>13 DEF WQ!vars, RespOf, Queue
  <2>2. applied' \cup refused' = D
    BY <1>3, <2>1
  <2>3. QED
    BY <1>4, <1>6, <2>1, <2>2
<1>14. QED
  BY <1>7, <1>8, <1>10, <1>11, <1>12, <1>13 DEF WQ!Next

LEMMA LossStart ==
    ASSUME WQ!Init
    PROVE  Loss
<1>1. PICK Q : Q = [v \in User |-> <<>>]
  OBVIOUS
<1>2. PICK S : S = <<>>
  OBVIOUS
<1>3. PICK D : D = {}
  OBVIOUS
<1>4. /\ user \in User /\ Queue = Q /\ RespOf(stream) = S
      /\ applied \cup refused = D /\ issued = Q
  BY <1>1, <1>2, <1>3 DEF WQ!Init, Queue, RespOf
<1>5. /\ \A X : S \in Seq(X)
      /\ Len(S) = 0 /\ 1..Len(S) = {}
  BY <1>2, EmptySeq
<1>6. Q \in [User -> Seq(Write)] /\ \A v \in User : Q[v] = S
  BY <1>1, <1>2, <1>5
<1>7. Behind(S, S, D) /\ DoneFirst(S, D)
  BY <1>5 DEF Behind, DoneFirst
<1>8. Distinct(Q)
  BY <1>5, <1>6 DEF Distinct
<1>9. LossInv(user, Q, S, D, Q)
  BY <1>3, <1>4, <1>5, <1>6, <1>7, <1>8 DEF LossInv
<1>10. QED
  BY <1>4, <1>9 DEF Loss

\* Nothing is lost and nothing overtakes: a write of the application is in its
\* queue until the server has applied or refused it, and so was every earlier
\* write of the account before it, whatever was restarted, cut or changed
\* (writeMutations, startMutationQueue, writeStreamDidReceiveResponse,
\* handleWriteError).
THEOREM NothingIsLost == Spec => []NothingLost
<1>1. Init => Loss
  BY StartOK, LossStart
<1>2. PipeInv /\ Loss /\ [Next]_vars => Loss'
  BY StepOK, LossStep
<1>3. Loss => NothingLost
  <2> SUFFICES ASSUME Loss PROVE NothingLost
    OBVIOUS
  <2>1. PICK D : D = applied \cup refused
    OBVIOUS
  <2>2. LossInv(user, Queue, RespOf(stream), D, issued)
    BY <2>1 DEF Loss
  <2>3. ASSUME NEW u \in User
        PROVE  /\ \A i \in DOMAIN issued[u] :
                     (\E j \in DOMAIN Queue[u] : Queue[u][j] = issued[u][i]) \/ issued[u][i] \in D
               /\ \A i, j \in DOMAIN issued[u] :
                     i < j /\ issued[u][j] \in D => issued[u][i] \in D
    BY <2>2, LossMeans
  <2>4. \A u \in User : \A w \in Issued(u) :
           (\E i \in DOMAIN Queue[u] : Queue[u][i] = w) \/ w \in D
    BY <2>3 DEF Issued
  <2>5. WQ!NothingLost
    BY <2>1, <2>4 DEF WQ!NothingLost, WQ!Issued, Issued, Queue
  <2>6. WQ!NoOvertaking
    BY <2>1, <2>3 DEF WQ!NoOvertaking
  <2>7. QED
    BY <2>5, <2>6 DEF NothingLost
<1>4. QED
  BY <1>1, <1>2, <1>3, PipeAlways, PTL DEF Spec
=============================================================================
