---------------------- MODULE LevelDbTransactionProofs ----------------------
(***************************************************************************)
(* A transaction over leveldb, with its two maps, its version and its      *)
(* merging iterator, is one table of rows with one cursor: for any keys,   *)
(* any values and any number of edits.                                     *)
(*                                                                         *)
(* The step of the iterator is right only from positions that belong to    *)
(* its key.  TxnInv says so of an iterator that has not fallen behind      *)
(* (PositionsOK); one that has is placed again before it moves.            *)
(***************************************************************************)
EXTENDS MCLevelDbTransaction, WellFoundedInduction, TLAPS

\* An iterator never runs ahead of the transaction, and one that is up to date
\* has its two positions at the first entries at or after its key.
PositionsOK ==
    /\ it.lastVersion <= version
    /\ it.isValid => it.key \in Key /\ it.value \in Value
    /\ open /\ it.isValid /\ it.lastVersion = version =>
          /\ it.dbPos = LowerBound(Live, it.key)
          /\ it.mutPos = LowerBound(DOMAIN mutations, it.key)
          /\ ~it.isMutation => it.mutPos # it.key

TxnInv == TypeOK /\ NoDanglingIterator /\ PositionsOK

\* The rows that were there all through the scan are there, and those not yet
\* shown are ahead.
ScanInv ==
    /\ there \subseteq DOMAIN Batch
    /\ \A k \in there \ seen : it.isValid /\ it.key < k

FullInv == TxnInv /\ ScanInv

USE KeyAssumption, VersionAssumption, ValueAssumption DEF NoKey

-----------------------------------------------------------------------------
(* Maps, and the first key at or after another.                            *)

LEMMA RowsElim ==
    ASSUME NEW f \in Rows
    PROVE  /\ DOMAIN f \subseteq Key /\ f = [k \in DOMAIN f |-> f[k]]
           /\ \A k \in DOMAIN f : f[k] \in Value
BY DEF Rows

LEMMA RowsIntro ==
    ASSUME NEW D, D \subseteq Key, NEW f \in [D -> Value]
    PROVE  f \in Rows
BY DEF Rows

\* A set of numbers that is not empty has a least one.
LEMMA LeastOf ==
    ASSUME NEW S, S \subseteq Nat, S # {}
    PROVE  \E x \in S : \A y \in S : x <= y
<1>1. PICK x \in S : \A y \in S : ~ (<<y, x>> \in OpToRel(<, Nat))
  BY NatLessThanWellFounded, WFMin
<1>2. \A y \in S : ~(y < x)
  BY <1>1 DEF OpToRel
<1>3. QED
  BY <1>2

\* LowerBound is the first key at or after k, NoKey if there is none.
LEMMA LowerBoundIs ==
    ASSUME NEW S, S \subseteq Key, NEW k \in Nat
    PROVE  /\ LowerBound(S, k) = NoKey \/ LowerBound(S, k) \in S
           /\ LowerBound(S, k) = NoKey <=> \A j \in S : j < k
           /\ LowerBound(S, k) # NoKey =>
                 /\ LowerBound(S, k) \in Key /\ k <= LowerBound(S, k)
                 /\ \A i \in S : k <= i => LowerBound(S, k) <= i
<1> DEFINE T == {j \in S : k <= j}
<1>1. CASE T = {}
  BY <1>1 DEF LowerBound
<1>2. CASE T # {}
  <2>1. T \subseteq Nat
    OBVIOUS
  <2>2. PICK x \in T : \A y \in T : x <= y
    <3> HIDE DEF T
    <3>1. QED
      BY <1>2, <2>1, LeastOf
  <2>3. /\ LowerBound(S, k) \in S /\ k <= LowerBound(S, k)
        /\ \A i \in S : k <= i => LowerBound(S, k) <= i
    BY <2>2 DEF LowerBound
  <2>4. LowerBound(S, k) \in Nat /\ LowerBound(S, k) \in Key
    BY <2>3
  <2>5. LowerBound(S, k) # NoKey /\ ~(LowerBound(S, k) < k)
    BY <2>3, <2>4
  <2>6. QED
    BY <2>3, <2>4, <2>5
<1>3. QED
  BY <1>1, <1>2

\* There is only one.
LEMMA LowerBoundUnique ==
    ASSUME NEW S, S \subseteq Key, NEW k \in Nat, NEW m \in S,
           k <= m, \A i \in S : k <= i => m <= i
    PROVE  LowerBound(S, k) = m
<1>1. m \in Nat /\ ~(m < k)
  OBVIOUS
<1>2. LowerBound(S, k) # NoKey
  BY <1>1, LowerBoundIs
<1>3. /\ LowerBound(S, k) \in S /\ LowerBound(S, k) \in Nat
      /\ k <= LowerBound(S, k) /\ LowerBound(S, k) <= m
  BY <1>2, LowerBoundIs
<1>4. m <= LowerBound(S, k)
  BY <1>3
<1>5. QED
  BY <1>1, <1>3, <1>4

\* From any key up to it the first key is the same; and it stays the first one
\* after a key that is not there.
LEMMA LowerBoundMoves ==
    ASSUME NEW S, S \subseteq Key, NEW k \in Nat, NEW j \in Nat, k <= j,
           LowerBound(S, k) = NoKey \/ j <= LowerBound(S, k)
    PROVE  LowerBound(S, j) = LowerBound(S, k)
<1>1. CASE LowerBound(S, k) = NoKey
  <2>1. \A i \in S : i < k
    BY <1>1, LowerBoundIs
  <2>2. \A i \in S : i < j
    BY <2>1
  <2>3. QED
    BY <1>1, <2>2, LowerBoundIs
<1>2. CASE LowerBound(S, k) # NoKey
  <2>1. /\ LowerBound(S, k) \in S /\ j <= LowerBound(S, k)
        /\ \A i \in S : k <= i => LowerBound(S, k) <= i
    BY <1>2, LowerBoundIs
  <2>2. \A i \in S : j <= i => LowerBound(S, k) <= i
    BY <2>1
  <2>3. QED
    BY <2>1, <2>2, LowerBoundUnique
<1>3. QED
  BY <1>1, <1>2

\* What the edited rows hold: the pending ones, and those of leveldb that were
\* not deleted.
LEMMA BatchIs ==
    ASSUME db \in Rows, mutations \in Rows
    PROVE  /\ DOMAIN Batch = Live \cup DOMAIN mutations
           /\ Live \subseteq Key /\ DOMAIN mutations \subseteq Key
           /\ DOMAIN Batch \subseteq Key
           /\ \A k \in DOMAIN mutations : Batch[k] = mutations[k]
           /\ \A k \in Live \ DOMAIN mutations : Batch[k] = db[k]
           /\ \A k \in DOMAIN Batch : Batch[k] \in Value
           /\ \A k \in Live : db[k] \in Value
           /\ \A k \in DOMAIN mutations : mutations[k] \in Value
BY RowsElim DEF Batch, Live

-----------------------------------------------------------------------------
(* The iterator.                                                           *)

\* u shows the first of the edited rows at or after k, and has its positions.
Placed(u, k) ==
    /\ u.mutPos \in DOMAIN mutations \cup {NoKey}
    /\ u.isValid <=> LowerBound(DOMAIN Batch, k) # NoKey
    /\ u.isValid =>
          /\ u.key = LowerBound(DOMAIN Batch, k)
          /\ u.key \in DOMAIN Batch /\ k <= u.key /\ u.value = Batch[u.key]
          /\ u.dbPos = LowerBound(Live, u.key)
          /\ u.mutPos = LowerBound(DOMAIN mutations, u.key)
          /\ u.isMutation => u.mutPos = u.key
          /\ ~u.isMutation => u.dbPos = u.key /\ u.key \in Live /\ u.mutPos # u.key

\* UpdateCurrent picks the lower of the two positions, the pending row where
\* they are equal: the first of the edited rows.
LEMMA UpdateIs ==
    ASSUME db \in Rows, mutations \in Rows, NEW i \in Iterator, NEW k \in Nat,
           i.dbPos = LowerBound(Live, k),
           i.mutPos = LowerBound(DOMAIN mutations, k)
    PROVE  /\ UpdateCurrent(i) \in Iterator /\ Placed(UpdateCurrent(i), k)
           /\ UpdateCurrent(i).lastVersion = i.lastVersion
<1> DEFINE B == DOMAIN Batch
           M == DOMAIN mutations
           d == i.dbPos
           m == i.mutPos
           isM == m # NoKey /\ (d = NoKey \/ d >= m)
           u == UpdateCurrent(i)
<1>1. /\ B = Live \cup M /\ Live \subseteq Key /\ M \subseteq Key /\ B \subseteq Key
      /\ \A j \in M : Batch[j] = mutations[j] /\ mutations[j] \in Value
      /\ \A j \in Live : db[j] \in Value
      /\ \A j \in Live \ M : Batch[j] = db[j]
  BY BatchIs
<1>2. /\ d = NoKey \/ d \in Live
      /\ d = NoKey <=> \A j \in Live : j < k
      /\ d # NoKey => d \in Key /\ k <= d /\ \A j \in Live : k <= j => d <= j
  <2> HIDE DEF d
  <2>1. d = LowerBound(Live, k)
    BY DEF d
  <2>2. QED
    BY <1>1, <2>1, LowerBoundIs
<1>3. /\ m = NoKey \/ m \in M
      /\ m = NoKey <=> \A j \in M : j < k
      /\ m # NoKey => m \in Key /\ k <= m /\ \A j \in M : k <= j => m <= j
  <2> HIDE DEF m
  <2>1. m = LowerBound(M, k)
    BY DEF m
  <2>2. QED
    BY <1>1, <2>1, LowerBoundIs
<1>4. /\ d \in Int /\ m \in Int /\ \A j \in B : j \in Nat
      /\ \A j \in Live : j \in Nat /\ j \in B
      /\ \A j \in M : j \in Nat /\ j \in B
  <2> HIDE DEF d, m, B, M
  <2>1. \A j \in Key : j \in Nat
    OBVIOUS
  <2>2. NoKey \in Int /\ (d = NoKey \/ d \in Key) /\ (m = NoKey \/ m \in Key)
    BY <1>2, <1>3
  <2>3. d \in Int /\ m \in Int
    <3>1. \A j \in Nat : j \in Int
      OBVIOUS
    <3>2. QED
      BY <2>1, <2>2, <3>1, Zenon
  <2>4. QED
    BY <1>1, <2>1, <2>3
<1>5. CASE m = NoKey /\ d = NoKey
  <2>1. LowerBound(B, k) = NoKey
    <3>1. \A j \in B : j < k
      BY <1>1, <1>2, <1>3, <1>5
    <3>2. QED
      BY <1>1, <3>1, LowerBoundIs
  <2>2. u = [i EXCEPT !.isValid = FALSE]
    BY <1>5 DEF UpdateCurrent
  <2>3. u \in Iterator /\ ~u.isValid /\ u.lastVersion = i.lastVersion /\ u.mutPos = m
    BY <2>2 DEF Iterator
  <2>4. QED
    BY <1>5, <2>1, <2>3 DEF Placed
<1>6. CASE isM
  <2>1. m \in M /\ m \in Key /\ m \in Nat /\ k <= m /\ m \in B
    BY <1>1, <1>3, <1>6
  <2>2. \A j \in B : k <= j => m <= j
    <3> SUFFICES ASSUME NEW j \in B, k <= j PROVE m <= j
      OBVIOUS
    <3>1. j \in Nat /\ (j \in Live \/ j \in M)
      BY <1>1, <1>4
    <3> HIDE DEF d, m, B, M
    <3>2. CASE j \in M
      BY <1>3, <2>1, <3>2
    <3>3. CASE j \in Live
      <4>1. ~(j < k)
        BY <3>1
      <4>2. d # NoKey /\ d <= j
        BY <1>2, <3>3, <4>1
      <4>3. m <= d
        BY <1>6, <1>4, <4>2
      <4>4. QED
        BY <1>4, <3>1, <4>2, <4>3
    <3>4. QED
      BY <3>1, <3>2, <3>3
  <2>3. LowerBound(B, k) = m
    BY <1>1, <2>1, <2>2, LowerBoundUnique
  <2>4. u = [i EXCEPT !.isValid = TRUE, !.isMutation = TRUE, !.key = m,
                      !.value = mutations[m]]
    BY <1>6, <2>1 DEF UpdateCurrent
  <2>5. /\ u \in Iterator /\ u.isValid /\ u.isMutation /\ u.key = m
        /\ u.value = mutations[m] /\ u.lastVersion = i.lastVersion
        /\ u.mutPos = m /\ u.dbPos = d
    BY <1>1, <2>1, <2>4 DEF Iterator
  <2>6. LowerBound(Live, m) = d
    BY <1>1, <1>2, <1>6, <2>1, LowerBoundMoves
  <2>7. LowerBound(M, m) = m
    BY <1>1, <1>3, <2>1, LowerBoundMoves
  <2>8. QED
    BY <1>1, <2>1, <2>3, <2>5, <2>6, <2>7 DEF Placed
<1>7. CASE d # NoKey /\ ~isM
  <2>1. d \in Live /\ d \in Key /\ d \in Nat /\ k <= d /\ d \in B
    BY <1>1, <1>2, <1>7
  <2>2. m = NoKey \/ d < m
    <3> HIDE DEF d, m
    <3>1. QED
      BY <1>7, <1>4
  <2>3. \A j \in B : k <= j => d <= j
    <3> SUFFICES ASSUME NEW j \in B, k <= j PROVE d <= j
      OBVIOUS
    <3>1. j \in Nat /\ (j \in Live \/ j \in M)
      BY <1>1, <1>4
    <3> HIDE DEF d, m, B, M
    <3>2. CASE j \in Live
      BY <1>2, <2>1, <3>2
    <3>3. CASE j \in M
      <4>1. ~(j < k)
        BY <3>1
      <4>2. m # NoKey /\ m <= j
        BY <1>3, <3>3, <4>1
      <4>3. QED
        BY <1>4, <2>2, <3>1, <4>2
    <3>4. QED
      BY <3>1, <3>2, <3>3
  <2>4. LowerBound(B, k) = d
    BY <1>1, <2>1, <2>3, LowerBoundUnique
  <2>5. u = [i EXCEPT !.isValid = TRUE, !.isMutation = FALSE, !.key = d,
                      !.value = db[d]]
    BY <1>7, <2>1, <2>2 DEF UpdateCurrent
  <2>6. /\ u \in Iterator /\ u.isValid /\ ~u.isMutation /\ u.key = d
        /\ u.value = db[d] /\ u.lastVersion = i.lastVersion
        /\ u.mutPos = m /\ u.dbPos = d
    BY <1>1, <2>1, <2>5 DEF Iterator
  <2>7. LowerBound(Live, d) = d
    BY <1>1, <1>2, <2>1, LowerBoundMoves
  <2>8. LowerBound(M, d) = m
    <3>1. m = NoKey \/ d <= m
      <4> HIDE DEF d, m
      <4>1. QED
        BY <1>4, <2>2
    <3>2. m = LowerBound(M, k)
      OBVIOUS
    <3> HIDE DEF d, m, M
    <3>3. QED
      BY <1>1, <2>1, <3>1, <3>2, LowerBoundMoves
  <2>9. d \notin M /\ m # d
    <3> HIDE DEF d, m, M
    <3>1. ~(d < k)
      BY <2>1
    <3>2. ASSUME d \in M PROVE FALSE
      <4>1. m # NoKey /\ m <= d
        BY <1>3, <2>1, <3>1, <3>2
      <4>2. QED
        BY <1>4, <2>2, <4>1
    <3>3. m # d
      BY <1>4, <2>1, <2>2
    <3>4. QED
      BY <3>2, <3>3
  <2>10. QED
    BY <1>1, <1>3, <2>1, <2>4, <2>6, <2>7, <2>8, <2>9 DEF Placed
<1>8. QED
  BY <1>5, <1>6, <1>7

\* Seek places the iterator, whatever it was before.
LEMMA SeekIs ==
    ASSUME TypeOK, NEW i \in Iterator, NEW k \in Key
    PROVE  /\ SeekTo(i, k) \in Iterator /\ Placed(SeekTo(i, k), k)
           /\ SeekTo(i, k).lastVersion = version
<1> DEFINE at == [i EXCEPT !.dbPos = LowerBound(Live, k),
                           !.mutPos = LowerBound(DOMAIN mutations, k)]
           u == UpdateCurrent(at)
<1>1. db \in Rows /\ mutations \in Rows /\ version \in 0..MaxVersion
  BY DEF TypeOK
<1>2. /\ LowerBound(Live, k) \in Key \cup {NoKey}
      /\ LowerBound(DOMAIN mutations, k) \in Key \cup {NoKey}
  BY <1>1, BatchIs, LowerBoundIs
<1>3. /\ at \in Iterator /\ at.dbPos = LowerBound(Live, k)
      /\ at.mutPos = LowerBound(DOMAIN mutations, k)
  BY <1>2 DEF Iterator
<1>4. u \in Iterator /\ Placed(u, k)
  <2> HIDE DEF at
  <2>1. QED
    BY <1>1, <1>3, UpdateIs
<1>5. SeekTo(i, k) = [u EXCEPT !.lastVersion = version]
  BY DEF SeekTo
<1> HIDE DEF u
<1>6. QED
  BY <1>1, <1>4, <1>5 DEF Placed, Iterator

\* Advance places an up-to-date iterator at the first row after its key.
LEMMA AdvanceIs ==
    ASSUME TypeOK, NEW i \in Iterator, NEW k \in Key, i.isValid, i.key = k,
           i.dbPos = LowerBound(Live, k),
           i.mutPos = LowerBound(DOMAIN mutations, k),
           i.isMutation => i.mutPos = k,
           ~i.isMutation => i.dbPos = k /\ i.mutPos # k
    PROVE  /\ Advance(i) \in Iterator /\ Placed(Advance(i), k + 1)
           /\ Advance(i).lastVersion = i.lastVersion
<1> DEFINE M == DOMAIN mutations
           passed == IF ~i.isMutation \/ i.dbPos = i.mutPos THEN AdvanceLDB(i) ELSE i
           a == IF i.isMutation THEN [passed EXCEPT !.mutPos = After(M, i.mutPos)]
                ELSE passed
<1>1. /\ db \in Rows /\ mutations \in Rows
      /\ Live \subseteq Key /\ M \subseteq Key /\ k \in Nat /\ k + 1 \in Nat
  BY BatchIs DEF TypeOK
<1>2. ASSUME NEW S, S \subseteq Key, LowerBound(S, k) # k
      PROVE  LowerBound(S, k + 1) = LowerBound(S, k)
  <2>1. LowerBound(S, k) = NoKey \/ (LowerBound(S, k) \in Nat /\ k <= LowerBound(S, k))
    BY <1>1, <1>2, LowerBoundIs
  <2>2. LowerBound(S, k) = NoKey \/ k + 1 <= LowerBound(S, k)
    BY <1>1, <1>2, <2>1
  <2>3. k <= k + 1
    BY <1>1
  <2>4. QED
    BY <1>1, <1>2, <2>2, <2>3, LowerBoundMoves
<1>3. /\ LowerBound(Live, k + 1) \in Key \cup {NoKey}
      /\ LowerBound(M, k + 1) \in Key \cup {NoKey}
  BY <1>1, LowerBoundIs
<1>4. /\ passed \in Iterator /\ passed.dbPos = LowerBound(Live, k + 1)
      /\ passed.mutPos = i.mutPos /\ passed.lastVersion = i.lastVersion
  <2>1. CASE ~i.isMutation \/ i.dbPos = i.mutPos
    <3>1. i.dbPos = k
      BY <2>1
    <3>2. passed = [i EXCEPT !.dbPos = LowerBound(Live, k + 1)]
      BY <2>1, <3>1 DEF AdvanceLDB, After
    <3>3. QED
      BY <1>3, <3>2 DEF Iterator
  <2>2. CASE ~(~i.isMutation \/ i.dbPos = i.mutPos)
    <3>1. LowerBound(Live, k) # k
      BY <2>2
    <3>2. QED
      BY <1>1, <1>2, <2>2, <3>1
  <2>3. QED
    BY <2>1, <2>2
<1>5. /\ a \in Iterator /\ a.dbPos = LowerBound(Live, k + 1)
      /\ a.mutPos = LowerBound(M, k + 1) /\ a.lastVersion = i.lastVersion
  <2> HIDE DEF passed
  <2>1. CASE i.isMutation
    <3>1. a = [passed EXCEPT !.mutPos = LowerBound(M, k + 1)]
      BY <2>1 DEF After
    <3>2. QED
      BY <1>3, <1>4, <3>1 DEF Iterator
  <2>2. CASE ~i.isMutation
    <3>1. LowerBound(M, k) # k /\ a = passed
      BY <2>2
    <3>2. QED
      BY <1>1, <1>2, <1>4, <3>1
  <2>3. QED
    BY <2>1, <2>2
<1>6. Advance(i) = UpdateCurrent(a)
  BY DEF Advance
<1> HIDE DEF a
<1>7. QED
  BY <1>1, <1>5, <1>6, UpdateIs

\* Next places the iterator at the first row after its key in the rows as they
\* are now, though they were edited since it was placed.
LEMMA NextOfIs ==
    ASSUME TxnInv, open, it.isValid
    PROVE  /\ NextOf(it) \in Iterator /\ Placed(NextOf(it), it.key + 1)
           /\ NextOf(it).lastVersion = version
<1> DEFINE k == it.key
           s == SyncToTransaction(it)
           B == DOMAIN Batch
<1>1. /\ TypeOK /\ it \in Iterator /\ k \in Key /\ k \in Nat /\ version \in Nat
      /\ it.lastVersion \in Nat /\ B \subseteq Key
  <2>1. TypeOK /\ it \in Iterator /\ k \in Key /\ version \in 0..MaxVersion
    BY DEF TxnInv, TypeOK, PositionsOK
  <2>2. it.lastVersion \in 0..MaxVersion
    BY <2>1 DEF Iterator
  <2>3. B \subseteq Key
    BY <2>1, BatchIs DEF TypeOK
  <2>4. k \in Nat /\ version \in Nat /\ it.lastVersion \in Nat
    <3>1. k \in Nat
      BY <2>1, Zenon
    <3>2. \A n \in 0..MaxVersion : n \in Nat
      OBVIOUS
    <3>3. QED
      BY <2>1, <2>2, <3>1, <3>2, Zenon
  <2>5. QED
    BY <2>1, <2>3, <2>4, Zenon
<1>2. CASE it.lastVersion < version
  <2>1. s = SeekTo(it, k)
    BY <1>2 DEF SyncToTransaction
  <2>2. s \in Iterator /\ Placed(s, k) /\ s.lastVersion = version
    BY <1>1, <2>1, SeekIs
  <2> HIDE DEF s
  <2>3. CASE ~s.isValid
    <3>1. NextOf(it) = s
      BY <2>3 DEF NextOf, s
    <3>2. LowerBound(B, k) = NoKey
      BY <2>2, <2>3 DEF Placed
    <3>3. LowerBound(B, k + 1) = NoKey
      BY <1>1, <3>2, LowerBoundMoves
    <3>4. QED
      BY <2>2, <2>3, <3>1, <3>3 DEF Placed
  <2>4. CASE s.isValid /\ s.key > k
    <3>1. NextOf(it) = s
      BY <2>4 DEF NextOf, s
    <3>2. s.key = LowerBound(B, k) /\ s.key \in B /\ s.key \in Nat
      BY <1>1, <2>2, <2>4 DEF Placed
    <3>3. LowerBound(B, k + 1) = s.key
      BY <1>1, <2>4, <3>2, LowerBoundMoves
    <3>4. s.key # NoKey /\ k + 1 <= s.key
      BY <1>1, <2>4, <3>2
    <3>5. QED
      BY <2>2, <2>4, <3>1, <3>3, <3>4 DEF Placed
  <2>5. CASE s.isValid /\ ~(s.key > k)
    <3>1. NextOf(it) = Advance(s)
      BY <2>5 DEF NextOf, s
    <3>2. s.key \in B /\ k <= s.key
      BY <2>2, <2>5 DEF Placed
    <3>3. s.key \in Nat
      BY <1>1, <3>2
    <3> HIDE DEF k
    <3>4. s.key = k
      BY <1>1, <2>5, <3>2, <3>3
    <3>5. QED
      BY <1>1, <2>2, <2>5, <3>1, <3>4, AdvanceIs DEF Placed, k
  <2>6. QED
    BY <2>3, <2>4, <2>5
<1>3. CASE ~(it.lastVersion < version)
  <2>1. s = it /\ it.lastVersion = version
    BY <1>1, <1>3 DEF SyncToTransaction, TxnInv, PositionsOK
  <2>2. NextOf(it) = Advance(it)
    BY <1>1, <2>1 DEF NextOf
  <2>3. QED
    BY <1>1, <2>1, <2>2, AdvanceIs DEF TxnInv, PositionsOK, NoDanglingIterator
<1>4. QED
  BY <1>2, <1>3

-----------------------------------------------------------------------------
(* The invariant.                                                          *)

\* A new iterator is nowhere, with the first pending row ahead.
LEMMA NewIterIs ==
    ASSUME mutations \in Rows, version \in 0..MaxVersion
    PROVE  /\ NewIter \in Iterator /\ ~NewIter.isValid
           /\ NewIter.lastVersion = version
           /\ NewIter.mutPos \in DOMAIN mutations \cup {NoKey}
<1>1. DOMAIN mutations \subseteq Key
  BY RowsElim
<1>2. /\ LowerBound(DOMAIN mutations, 0) \in Key \cup {NoKey}
      /\ LowerBound(DOMAIN mutations, 0) \in DOMAIN mutations \cup {NoKey}
  BY <1>1, LowerBoundIs
<1>3. QED
  BY <1>2 DEF NewIter, Iterator, NoValue

LEMMA EmptyIsRows == Empty \in Rows
<1>1. Empty \in [{} -> Value]
  BY DEF Empty
<1>2. QED
  BY <1>1, RowsIntro

LEMMA WithIsRows ==
    ASSUME NEW f \in Rows, NEW k \in Key, NEW v \in Value
    PROVE  With(f, k, v) \in Rows
<1>1. DOMAIN f \cup {k} \subseteq Key
  BY RowsElim
<1>2. With(f, k, v) \in [DOMAIN f \cup {k} -> Value]
  BY RowsElim DEF With
<1>3. QED
  BY <1>1, <1>2, RowsIntro

LEMMA BatchIsRows ==
    ASSUME db \in Rows, mutations \in Rows
    PROVE  Batch \in Rows
<1>1. DOMAIN Batch \subseteq Key /\ Batch \in [DOMAIN Batch -> Value]
  <2>1. Batch = [k \in DOMAIN Batch |-> Batch[k]]
    BY DEF Batch
  <2>2. QED
    BY <2>1, BatchIs
<1>2. QED
  BY <1>1, RowsIntro

\* An iterator that was placed in these rows is in order.
LEMMA PlacedIsOK ==
    ASSUME TypeOK, UNCHANGED <<db, open, txn>>, it' \in Iterator,
           NEW k \in Nat, Placed(it', k), it'.lastVersion = version
    PROVE  TxnInv'
<1>1. TypeOK'
  BY DEF TypeOK, txn
<1>2. /\ version' = version /\ mutations' = mutations /\ Live' = Live /\ version \in Nat
  BY DEF txn, Live, TypeOK
<1>3. /\ DOMAIN Batch \subseteq Key /\ \A j \in DOMAIN Batch : Batch[j] \in Value
  BY BatchIs DEF TypeOK
<1>4. NoDanglingIterator'
  BY <1>2 DEF NoDanglingIterator, Placed
<1>5. it'.isValid => it'.key \in Key /\ it'.value \in Value
  BY <1>3 DEF Placed
<1>6. (it.lastVersion)' <= version'
  BY <1>2
<1>7. it'.isValid =>
          /\ it'.dbPos = LowerBound(Live', it'.key)
          /\ it'.mutPos = LowerBound(DOMAIN mutations', it'.key)
          /\ ~it'.isMutation => it'.mutPos # it'.key
  BY <1>2 DEF Placed
<1>8. PositionsOK'
  BY <1>5, <1>6, <1>7 DEF PositionsOK
<1>9. QED
  BY <1>1, <1>4, <1>8 DEF TxnInv

\* After an edit the iterator has fallen behind.
LEMMA EditIsOK ==
    ASSUME TxnInv, TypeOK', version' = version + 1, it' = it
    PROVE  TxnInv'
<1>1. it.lastVersion \in 0..MaxVersion /\ version \in 0..MaxVersion
  BY DEF TxnInv, TypeOK, Iterator
<1>2. it.lastVersion <= version
  BY DEF TxnInv, PositionsOK
<1>3. it'.lastVersion <= version' /\ it'.lastVersion # version'
  BY <1>1, <1>2
<1>4. NoDanglingIterator'
  BY <1>3 DEF NoDanglingIterator
<1>5. it'.isValid => it'.key \in Key /\ it'.value \in Value
  BY DEF TxnInv, PositionsOK
<1>6. PositionsOK'
  BY <1>3, <1>5 DEF PositionsOK
<1>7. QED
  BY <1>4, <1>6 DEF TxnInv

LEMMA TxnInit == Init => TxnInv
<1> SUFFICES ASSUME Init PROVE TxnInv
  OBVIOUS
<1>1. mutations \in Rows /\ db \in Rows /\ version \in 0..MaxVersion /\ version = 0
  BY EmptyIsRows DEF Init
<1>2. /\ it \in Iterator /\ ~it.isValid /\ it.lastVersion = version
      /\ it.mutPos \in DOMAIN mutations \cup {NoKey}
  BY <1>1, NewIterIs DEF Init
<1>3. TypeOK
  BY <1>1, <1>2 DEF TypeOK, Init
<1>4. NoDanglingIterator
  BY <1>2 DEF NoDanglingIterator
<1>5. PositionsOK
  BY <1>1, <1>2 DEF PositionsOK
<1>6. QED
  BY <1>3, <1>4, <1>5 DEF TxnInv

LEMMA TxnStep == TxnInv /\ [Next]_vars => TxnInv'
<1> SUFFICES ASSUME TxnInv, [Next]_vars PROVE TxnInv'
  OBVIOUS
<1>t. /\ TypeOK /\ db \in Rows /\ mutations \in Rows /\ deletions \in SUBSET Key
      /\ version \in 0..MaxVersion /\ it \in Iterator /\ open \in BOOLEAN
  BY DEF TxnInv, TypeOK
<1>1. CASE startTransaction
  <2>1. /\ mutations' = Empty /\ mutations' \in Rows /\ deletions' = {}
        /\ version' = 0 /\ version' \in 0..MaxVersion /\ db' = db /\ open' = TRUE
    BY <1>1, EmptyIsRows DEF startTransaction
  <2>2. DOMAIN mutations' = {} /\ LowerBound(DOMAIN mutations', 0) = NoKey
    BY <2>1 DEF Empty, LowerBound
  <2>3. it' = [dbPos |-> NoKey, mutPos |-> NoKey, key |-> NoKey, value |-> NoValue,
               isMutation |-> FALSE, isValid |-> FALSE, lastVersion |-> 0]
    BY <1>1, <2>1, <2>2 DEF startTransaction, NewIter
  <2>4. it' \in Iterator
    BY <2>3 DEF Iterator
  <2>5. TypeOK'
    BY <1>t, <2>1, <2>4 DEF TypeOK
  <2>6. NoDanglingIterator'
    BY <2>3 DEF NoDanglingIterator
  <2>7. PositionsOK'
    BY <2>1, <2>3 DEF PositionsOK
  <2>8. QED
    BY <2>5, <2>6, <2>7 DEF TxnInv
<1>2. CASE NewIterator
  <2>1. it' \in Iterator /\ ~it'.isValid /\ it'.lastVersion = version
        /\ it'.mutPos \in DOMAIN mutations \cup {NoKey}
    BY <1>t, <1>2, NewIterIs DEF NewIterator
  <2>2. UNCHANGED <<db, open, mutations, deletions, version>>
    BY <1>2 DEF NewIterator, txn
  <2>3. TypeOK'
    BY <1>t, <2>1, <2>2 DEF TypeOK
  <2>4. NoDanglingIterator'
    BY <2>1, <2>2 DEF NoDanglingIterator
  <2>5. PositionsOK'
    <3>1. it'.lastVersion <= version'
      BY <1>t, <2>1, <2>2
    <3>2. QED
      BY <2>1, <3>1 DEF PositionsOK
  <2>6. QED
    BY <2>3, <2>4, <2>5 DEF TxnInv
<1>3. CASE NextEntry
  <2>1. open /\ it.isValid /\ it' = NextOf(it) /\ UNCHANGED <<db, open, txn>>
    BY <1>3 DEF NextEntry
  <2>2. it' \in Iterator /\ Placed(it', it.key + 1) /\ it'.lastVersion = version
    BY <2>1, NextOfIs
  <2>3. it.key \in Key
    BY <2>1 DEF TxnInv, PositionsOK
  <2>4. it.key + 1 \in Nat
    <3>1. \A k \in Key : k + 1 \in Nat
      OBVIOUS
    <3>2. QED
      BY <2>3, <3>1, Zenon
  <2>5. QED
    BY <1>t, <2>1, <2>2, <2>4, PlacedIsOK
<1>4. ASSUME NEW k \in Key, Seek(k) PROVE TxnInv'
  <2>1. it' = SeekTo(it, k) /\ UNCHANGED <<db, open, txn>>
    BY <1>4 DEF Seek
  <2>2. it' \in Iterator /\ Placed(it', k) /\ it'.lastVersion = version
    BY <1>t, <2>1, SeekIs
  <2>3. k \in Nat
    OBVIOUS
  <2>4. QED
    BY <1>t, <2>1, <2>2, <2>3, PlacedIsOK
<1>5. CASE Commit
  <2>1. /\ db' = Batch /\ db' \in Rows /\ open' = FALSE
        /\ UNCHANGED <<mutations, deletions, version, it>>
    BY <1>t, <1>5, BatchIsRows DEF Commit, txn
  <2>2. TypeOK'
    BY <1>t, <2>1 DEF TypeOK
  <2>3. Live \subseteq Live'
    BY <1>t, <2>1, BatchIs DEF Live
  <2>4. NoDanglingIterator'
    BY <2>1, <2>3 DEF NoDanglingIterator, TxnInv
  <2>5. PositionsOK'
    BY <2>1 DEF PositionsOK, TxnInv
  <2>6. QED
    BY <2>2, <2>4, <2>5 DEF TxnInv
<1>6. ASSUME NEW k \in Key, NEW v \in Value, Put(k, v) \/ PutMessage(k, v)
      PROVE  TxnInv'
  <2>1. /\ version < MaxVersion /\ version' = version + 1 /\ it' = it
        /\ mutations' = With(mutations, k, v) /\ UNCHANGED <<db, open>>
        /\ deletions' \in SUBSET Key
    BY <1>t, <1>6 DEF Put, PutMessage
  <2>2. version' \in 0..MaxVersion
    BY <1>t, <2>1
  <2>3. mutations' \in Rows
    BY <1>t, <2>1, WithIsRows
  <2>4. TypeOK'
    BY <1>t, <2>1, <2>2, <2>3 DEF TypeOK
  <2>5. QED
    BY <2>1, <2>4, EditIsOK
<1>7. ASSUME NEW k \in Key, Delete(k) PROVE TxnInv'
  <2>1. /\ version < MaxVersion /\ version' = version + 1 /\ it' = it
        /\ mutations' = [j \in DOMAIN mutations \ {k} |-> mutations[j]]
        /\ UNCHANGED <<db, open>> /\ deletions' \in SUBSET Key
    BY <1>t, <1>7 DEF Delete
  <2>2. version' \in 0..MaxVersion
    BY <1>t, <2>1
  <2>3. mutations' \in Rows
    <3>1. /\ DOMAIN mutations \ {k} \subseteq Key
          /\ mutations' \in [DOMAIN mutations \ {k} -> Value]
      BY <1>t, <2>1, RowsElim
    <3>2. QED
      BY <3>1, RowsIntro
  <2>4. TypeOK'
    BY <1>t, <2>1, <2>2, <2>3 DEF TypeOK
  <2>5. QED
    BY <2>1, <2>4, EditIsOK
<1>8. CASE UNCHANGED vars
  BY <1>8 DEF vars, txn, TxnInv, TypeOK, NoDanglingIterator, PositionsOK, Live
<1>9. QED
  BY <1>1, <1>2, <1>3, <1>4, <1>5, <1>6, <1>7, <1>8 DEF Next

\* The positions of an iterator that is up to date belong to its key.
THEOREM TxnAlways == Spec => []TxnInv
BY TxnInit, TxnStep, PTL DEF Spec

\* Get finds what Commit would write of every key, except of one deleted and
\* then put as a message in the same transaction, where it finds nothing
\* (LevelDbTransaction::Get and the second Put): for any keys and values.
THEOREM GetIsExact == Spec => []GetMissesOnlyRestored
<1>1. TxnInv => GetMissesOnlyRestored
  <2> SUFFICES ASSUME TxnInv, NEW k \in Key
               PROVE  Get(k) = (IF k \in DOMAIN Batch THEN Batch[k] ELSE NoValue)
                          <=> k \notin deletions \cap DOMAIN mutations
    BY DEF GetMissesOnlyRestored
  <2>1. db \in Rows /\ mutations \in Rows
    BY DEF TxnInv, TypeOK
  <2>2. CASE k \in DOMAIN mutations
    BY <2>1, <2>2, BatchIs DEF Get
  <2>3. CASE k \notin DOMAIN mutations
    BY <2>1, <2>3, BatchIs DEF Get, Live
  <2>4. QED
    BY <2>2, <2>3
<1>2. QED
  BY <1>1, TxnAlways, PTL

-----------------------------------------------------------------------------
(* One table with one cursor.                                              *)

\* What the caller sees of an iterator.
CursorOf(i) ==
    IF i.isValid THEN [valid |-> TRUE, key |-> i.key, value |-> i.value]
    ELSE [valid |-> FALSE, key |-> NoKey, value |-> NoValue]

\* A placed iterator is a cursor at that row of the table.
LEMMA PlacedIsAt ==
    ASSUME db \in Rows, mutations \in Rows, NEW u, NEW k \in Nat, Placed(u, k)
    PROVE  CursorOf(u) = TV!At(Batch, k)
<1>1. DOMAIN Batch \subseteq Key
  BY BatchIs
<1>2. CASE LowerBound(DOMAIN Batch, k) = NoKey
  <2>1. ~ \E j \in DOMAIN Batch : k <= j
    <3>1. \A j \in DOMAIN Batch : j < k /\ j \in Nat
      BY <1>1, <1>2, LowerBoundIs
    <3>2. QED
      BY <3>1
  <2>2. TV!At(Batch, k) = [valid |-> FALSE, key |-> NoKey, value |-> NoValue]
    BY <2>1 DEF TV!At, TV!Nowhere, TV!NoKey, TV!NoValue, NoValue
  <2>3. QED
    BY <1>2, <2>2 DEF Placed, CursorOf
<1>3. CASE LowerBound(DOMAIN Batch, k) # NoKey
  <2>1. \E j \in DOMAIN Batch : k <= j
    BY <1>1, <1>3, LowerBoundIs
  <2>2. LowerBound(DOMAIN Batch, k) =
            CHOOSE j \in DOMAIN Batch :
                k <= j /\ \A i \in DOMAIN Batch : k <= i => j <= i
    BY <2>1 DEF LowerBound
  <2>3. TV!At(Batch, k) = [valid |-> TRUE, key |-> LowerBound(DOMAIN Batch, k),
                           value |-> Batch[LowerBound(DOMAIN Batch, k)]]
    BY <2>1, <2>2 DEF TV!At
  <2>4. QED
    BY <1>3, <2>3 DEF Placed, CursorOf
<1>4. QED
  BY <1>2, <1>3

\* A put changes one row of the table, also where it leaves the key among the
\* deletions.
LEMMA PutIsWrite ==
    ASSUME TypeOK, NEW k \in Key, NEW v \in Value, Put(k, v) \/ PutMessage(k, v)
    PROVE  Batch' = With(Batch, k, v)
<1>1. /\ mutations' = With(mutations, k, v) /\ db' = db
      /\ deletions' = deletions \/ deletions' = deletions \ {k}
  BY DEF Put, PutMessage
<1>2. DOMAIN mutations' = DOMAIN mutations \cup {k}
  BY <1>1 DEF With
<1>3. Live' \cup {k} = Live \cup {k}
  BY <1>1 DEF Live
<1>4. Live' \cup DOMAIN mutations' = Live \cup DOMAIN mutations \cup {k}
  BY <1>2, <1>3
<1>5. Batch' = [j \in Live \cup DOMAIN mutations \cup {k} |->
                    IF j \in DOMAIN mutations' THEN mutations'[j] ELSE db'[j]]
  BY <1>4 DEF Batch
<1>6. With(Batch, k, v) = [j \in Live \cup DOMAIN mutations \cup {k} |->
                    IF j = k THEN v ELSE Batch[j]]
  BY DEF With, Batch
<1>7. \A j \in Live \cup DOMAIN mutations \cup {k} :
          (IF j \in DOMAIN mutations' THEN mutations'[j] ELSE db'[j])
            = (IF j = k THEN v ELSE Batch[j])
  BY <1>1, <1>2 DEF With, Batch
<1>8. QED
  BY <1>5, <1>6, <1>7

LEMMA DeleteIsRemove ==
    ASSUME TypeOK, NEW k \in Key, Delete(k)
    PROVE  Batch' = [j \in DOMAIN Batch \ {k} |-> Batch[j]]
<1>1. /\ mutations' = [j \in DOMAIN mutations \ {k} |-> mutations[j]] /\ db' = db
      /\ deletions' = deletions \cup {k}
  BY DEF Delete
<1>2. DOMAIN mutations' = DOMAIN mutations \ {k}
  BY <1>1
<1>3. Live' = Live \ {k}
  BY <1>1 DEF Live
<1>4. DOMAIN Batch = Live \cup DOMAIN mutations
  BY DEF Batch
<1>5. Live' \cup DOMAIN mutations' = DOMAIN Batch \ {k}
  BY <1>2, <1>3, <1>4
<1>6. Batch' = [j \in DOMAIN Batch \ {k} |->
                    IF j \in DOMAIN mutations' THEN mutations'[j] ELSE db'[j]]
  BY <1>5 DEF Batch
<1>7. \A j \in DOMAIN Batch \ {k} :
          (IF j \in DOMAIN mutations' THEN mutations'[j] ELSE db'[j]) = Batch[j]
  BY <1>1, <1>2 DEF Batch
<1>8. QED
  BY <1>6, <1>7

\* Committed rows are the table of the transaction that wrote them.
LEMMA CommitIsCommit ==
    ASSUME TypeOK, Commit
    PROVE  db' = Batch /\ Batch' = Batch
<1>1. db' = Batch /\ mutations' = mutations /\ deletions' = deletions
  BY DEF Commit, txn
<1>2. DOMAIN Batch = Live \cup DOMAIN mutations
  BY DEF Batch
<1>3. Live' \cup DOMAIN mutations' = DOMAIN Batch
  BY <1>1, <1>2 DEF Live
<1>4. Batch' = [j \in DOMAIN Batch |->
                    IF j \in DOMAIN mutations THEN mutations[j] ELSE Batch[j]]
  BY <1>1, <1>3 DEF Batch
<1>5. Batch = [j \in DOMAIN Batch |-> Batch[j]]
  BY DEF Batch
<1>6. \A j \in DOMAIN mutations : Batch[j] = mutations[j]
  BY BatchIs DEF TypeOK
<1>7. QED
  BY <1>1, <1>4, <1>5, <1>6

\* The detailed transaction implements the abstract one: the iterator shows the
\* rows as edited so far, in order, and skips none; an edit shows at once; a
\* commit makes them the committed ones (LevelDbTransaction and its Iterator).
THEOREM TransactionIsView == Spec => ImplementsView
<1>1. Init => TV!Init
  <2> SUFFICES ASSUME Init PROVE TV!Init
    OBVIOUS
  <2>1. db = Empty /\ mutations = Empty /\ open = FALSE /\ ~it.isValid
    BY DEF Init, NewIter
  <2>2. Batch = TV!Empty /\ db = TV!Empty
    BY <2>1 DEF Batch, Live, Empty, TV!Empty, NoValue, TV!NoValue
  <2>3. QED
    BY <2>1, <2>2 DEF TV!Init, TV!Nowhere, TV!NoKey, TV!NoValue, NoValue
<1>2. TxnInv /\ [Next]_vars => [TV!Next]_(TV!vars)
  <2> SUFFICES ASSUME TxnInv, [Next]_vars PROVE [TV!Next]_(TV!vars)
    OBVIOUS
  <2>t. TypeOK /\ db \in Rows /\ mutations \in Rows /\ it \in Iterator
    BY DEF TxnInv, TypeOK
  <2>n. TV!Nowhere = [valid |-> FALSE, key |-> NoKey, value |-> NoValue]
    BY DEF TV!Nowhere, TV!NoKey, TV!NoValue, NoValue
  <2>s. ASSUME UNCHANGED <<db, mutations, deletions>> PROVE Batch' = Batch
    BY <2>s DEF Batch, Live
  <2>1. CASE startTransaction
    <3>1. ~open /\ open' = TRUE /\ db' = db
      BY <2>1 DEF startTransaction
    <3>2. Batch' = db
      <4>1. mutations' = Empty /\ deletions' = {}
        BY <2>1 DEF startTransaction
      <4>2. DOMAIN mutations' = {} /\ Live' = DOMAIN db
        BY <3>1, <4>1 DEF Empty, Live
      <4>3. Batch' = [j \in DOMAIN db |-> db[j]]
        BY <3>1, <4>2 DEF Batch
      <4>4. QED
        BY <2>t, <4>3, RowsElim
    <3>3. ~it'.isValid
      BY <2>1 DEF startTransaction, NewIter
    <3>4. TV!Begin
      BY <2>n, <3>1, <3>2, <3>3 DEF TV!Begin
    <3>5. QED
      BY <3>4 DEF TV!Next
  <2>2. CASE NewIterator
    <3>1. open /\ ~it'.isValid /\ UNCHANGED <<db, open, mutations, deletions>>
      BY <2>2 DEF NewIterator, NewIter, txn
    <3>2. TV!NewCursor
      BY <2>n, <2>s, <3>1 DEF TV!NewCursor
    <3>3. QED
      BY <3>2 DEF TV!Next
  <2>3. CASE NextEntry
    <3>1. /\ open /\ it.isValid /\ it' = NextOf(it)
          /\ UNCHANGED <<db, open, mutations, deletions>>
      BY <2>3 DEF NextEntry, txn
    <3>2. Placed(it', it.key + 1)
      BY <3>1, NextOfIs
    <3>3. it.key + 1 \in Nat
      <4>1. it.key \in Key
        BY <3>1 DEF TxnInv, PositionsOK
      <4>2. \A k \in Key : k + 1 \in Nat
        OBVIOUS
      <4>3. QED
        BY <4>1, <4>2, Zenon
    <3>4. CursorOf(it') = TV!At(Batch, it.key + 1)
      BY <2>t, <3>2, <3>3, PlacedIsAt
    <3>5. TV!Step
      BY <2>s, <3>1, <3>4 DEF TV!Step, CursorOf
    <3>6. QED
      BY <3>5 DEF TV!Next
  <2>4. ASSUME NEW k \in Key, Seek(k) PROVE TV!Next
    <3>1. open /\ it' = SeekTo(it, k) /\ UNCHANGED <<db, open, mutations, deletions>>
      BY <2>4 DEF Seek, txn
    <3>2. Placed(it', k) /\ k \in Nat
      BY <2>t, <3>1, SeekIs
    <3>3. CursorOf(it') = TV!At(Batch, k)
      BY <2>t, <3>2, PlacedIsAt
    <3>4. TV!Place(k)
      BY <2>s, <3>1, <3>3 DEF TV!Place, CursorOf
    <3>5. QED
      BY <3>4 DEF TV!Next
  <2>5. CASE Commit
    <3>1. open /\ open' = FALSE /\ it' = it
      BY <2>5 DEF Commit
    <3>2. db' = Batch /\ Batch' = Batch
      BY <2>t, <2>5, CommitIsCommit
    <3>3. TV!Commit
      BY <3>1, <3>2 DEF TV!Commit
    <3>4. QED
      BY <3>3 DEF TV!Next
  <2>6. ASSUME NEW k \in Key, NEW v \in Value, Put(k, v) \/ PutMessage(k, v)
        PROVE  TV!Next
    <3>1. open /\ UNCHANGED <<db, open, it>>
      BY <2>6 DEF Put, PutMessage
    <3>2. Batch' = With(Batch, k, v)
      BY <2>t, <2>6, PutIsWrite
    <3>3. TV!Write(k, v)
      BY <3>1, <3>2 DEF TV!Write, With
    <3>4. QED
      BY <3>3 DEF TV!Next
  <2>7. ASSUME NEW k \in Key, Delete(k) PROVE TV!Next
    <3>1. open /\ UNCHANGED <<db, open, it>>
      BY <2>7 DEF Delete
    <3>2. Batch' = [j \in DOMAIN Batch \ {k} |-> Batch[j]]
      BY <2>t, <2>7, DeleteIsRemove
    <3>3. TV!Remove(k)
      BY <3>1, <3>2 DEF TV!Remove
    <3>4. QED
      BY <3>3 DEF TV!Next
  <2>8. CASE UNCHANGED vars
    <3>1. UNCHANGED <<db, open, mutations, deletions, it>>
      BY <2>8 DEF vars, txn
    <3>2. UNCHANGED TV!vars
      BY <2>s, <3>1 DEF TV!vars
    <3>3. QED
      BY <3>2
  <2>9. QED
    BY <2>1, <2>2, <2>3, <2>4, <2>5, <2>6, <2>7, <2>8 DEF Next
<1>3. QED
  BY <1>1, <1>2, TxnAlways, PTL DEF Spec, ImplementsView, TV!Spec

-----------------------------------------------------------------------------
(* A scan.                                                                 *)

LEMMA ScanStep == FullInv /\ [MCNext]_<<vars, there, seen>> => FullInv'
<1> SUFFICES ASSUME FullInv, [MCNext]_<<vars, there, seen>> PROVE FullInv'
  OBVIOUS
<1>t. /\ TxnInv /\ ScanInv /\ TypeOK /\ db \in Rows /\ mutations \in Rows
      /\ it \in Iterator
  BY DEF FullInv, TxnInv, TypeOK
<1>d. DOMAIN Batch \subseteq Key /\ \A j \in DOMAIN Batch : j \in Nat
  BY <1>t, BatchIs
<1>s. ASSUME UNCHANGED <<db, mutations, deletions>> PROVE Batch' = Batch
  BY <1>s DEF Batch, Live
<1>1. [Next]_vars
  BY DEF MCNext, Next
<1>2. TxnInv'
  BY <1>t, <1>1, TxnStep
<1>3. CASE there' = {}
  BY <1>2, <1>3 DEF FullInv, ScanInv
<1>4. ASSUME NEW k \in Key, Seek(k), there' = {j \in DOMAIN Batch : k <= j},
             seen' = Shown(it')
      PROVE  ScanInv'
  <2>1. it' = SeekTo(it, k) /\ UNCHANGED <<db, mutations, deletions>>
    BY <1>4 DEF Seek, txn
  <2>2. Placed(it', k) /\ k \in Nat
    BY <1>t, <2>1, SeekIs
  <2>3. ASSUME NEW j \in there' \ seen' PROVE it'.isValid /\ it'.key < j
    <3>1. j \in DOMAIN Batch /\ k <= j /\ j \in Nat
      BY <1>4, <1>d
    <3>2. LowerBound(DOMAIN Batch, k) # NoKey /\ LowerBound(DOMAIN Batch, k) <= j
      <4>1. ~(j < k)
        BY <2>2, <3>1
      <4>2. QED
        BY <1>d, <2>2, <3>1, <4>1, LowerBoundIs
    <3>3. it'.isValid /\ it'.key \in Nat /\ it'.key <= j
      BY <1>d, <2>2, <3>2 DEF Placed
    <3>4. it'.key # j
      BY <1>4, <3>3 DEF Shown
    <3>5. QED
      BY <3>1, <3>3, <3>4
  <2>4. there' \subseteq DOMAIN Batch'
    BY <1>4, <1>s, <2>1
  <2>5. QED
    BY <2>3, <2>4 DEF ScanInv
<1>5. ASSUME NextEntry, seen' = seen \cup Shown(it'), there' = there
      PROVE  ScanInv'
  <2>1. /\ open /\ it.isValid /\ it' = NextOf(it)
        /\ UNCHANGED <<db, mutations, deletions>>
    BY <1>5 DEF NextEntry, txn
  <2>2. Placed(it', it.key + 1) /\ it.key \in Key
    BY <1>t, <2>1, NextOfIs DEF TxnInv, PositionsOK
  <2>k. PICK k \in Key : k = it.key
    BY <2>2
  <2>3. k \in Nat /\ k + 1 \in Nat /\ Placed(it', k + 1)
    <3>1. k \in Nat /\ k + 1 \in Nat
      OBVIOUS
    <3>2. Placed(it', k + 1)
      BY <2>2, <2>k, Zenon
    <3>3. QED
      BY <3>1, <3>2
  <2>4. ASSUME NEW j \in there' \ seen' PROVE it'.isValid /\ it'.key < j
    <3>1. j \in there /\ j \notin seen /\ j \in DOMAIN Batch /\ j \in Nat
      BY <1>5, <1>d, <1>t DEF ScanInv
    <3>2. k < j
      BY <1>t, <2>k, <3>1 DEF ScanInv
    <3>3. ~(j < k + 1)
      BY <2>3, <3>1, <3>2
    <3>4. /\ LowerBound(DOMAIN Batch, k + 1) # NoKey
          /\ LowerBound(DOMAIN Batch, k + 1) <= j
      BY <1>d, <2>3, <3>1, <3>2, <3>3, LowerBoundIs
    <3>5. it'.isValid /\ it'.key \in Nat /\ it'.key <= j
      BY <1>d, <2>3, <3>4 DEF Placed
    <3>6. it'.key # j
      BY <1>5, <3>5 DEF Shown
    <3>7. QED
      BY <3>1, <3>5, <3>6
  <2>5. there' \subseteq DOMAIN Batch'
    BY <1>5, <1>s, <1>t, <2>1 DEF ScanInv
  <2>6. QED
    BY <2>4, <2>5 DEF ScanInv
<1>6. ASSUME it' = it, there' = there \cap DOMAIN Batch', seen' = seen
      PROVE  ScanInv'
  BY <1>6, <1>t DEF ScanInv
<1>7. CASE UNCHANGED <<vars, there, seen>>
  <2>1. UNCHANGED <<db, mutations, deletions, it, there, seen>>
    BY <1>7 DEF vars, txn
  <2>2. ScanInv'
    BY <1>s, <1>t, <2>1 DEF ScanInv
  <2>3. QED
    BY <1>2, <2>2 DEF FullInv
<1>8. CASE MCNext
  <2>1. CASE /\ startTransaction \/ NewIterator \/ Commit
             /\ there' = {} /\ seen' = {}
    BY <1>3, <2>1
  <2>2. CASE \E k \in Key :
                /\ Seek(k)
                /\ there' = {j \in DOMAIN Batch : k <= j}
                /\ seen' = Shown(it')
    BY <1>2, <1>4, <2>2 DEF FullInv
  <2>3. CASE NextEntry /\ seen' = seen \cup Shown(it') /\ UNCHANGED there
    BY <1>2, <1>5, <2>3 DEF FullInv
  <2>4. CASE /\ \/ \E k \in Key : Delete(k)
                \/ \E k \in Key, v \in Value : Put(k, v) \/ PutMessage(k, v)
             /\ there' = there \cap DOMAIN Batch'
             /\ UNCHANGED seen
    <3>1. it' = it
      BY <2>4 DEF Delete, Put, PutMessage
    <3>2. QED
      BY <1>2, <1>6, <2>4, <3>1 DEF FullInv
  <2>5. QED
    BY <1>8, <2>1, <2>2, <2>3, <2>4 DEF MCNext
<1>9. QED
  BY <1>7, <1>8

\* Whatever the caller puts and deletes while it scans, the scan stands on no
\* erased entry and shows every row that was there from its seek on, for any
\* keys and any number of edits (LevelDbTransaction::Iterator).
THEOREM ScansMissNothing == MCSpec => []ScanMissesNothing
<1>1. MCInit => FullInv
  BY TxnInit DEF MCInit, FullInv, ScanInv
<1>2. FullInv => ScanMissesNothing
  BY DEF FullInv, TxnInv, ScanInv, ScanMissesNothing
<1>3. QED
  BY <1>1, <1>2, ScanStep, PTL DEF MCSpec
=============================================================================
