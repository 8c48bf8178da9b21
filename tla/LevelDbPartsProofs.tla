------------------------- MODULE LevelDbPartsProofs -------------------------
(***************************************************************************)
(* The parts that LevelDb takes as given, for every value of the           *)
(* constants: the open tables (TableCache), the log (LogFile) and the list *)
(* of a memtable (SkipList).                                               *)
(***************************************************************************)
EXTENDS TableCache, LogFile, SkipList,
        FunctionTheorems, FiniteSetTheorems, SequenceTheorems, TLAPS

(***************************************************************************)
(* The open tables are right for any files, any number of readers and any  *)
(* capacity.                                                               *)
(*                                                                         *)
(* CacheInv is not inductive: it does not say how many references an entry *)
(* has.  CacheIInv says it (one for every handle of a reader and one for   *)
(* the cache: ListsOK), that a reader opens a file of its version that it  *)
(* has no handle of (ReadersOK), and that the current version is on the    *)
(* disk (FilesOK).                                                         *)
(*                                                                         *)
(* Every operation of the shard is a lemma about any shard c and any       *)
(* function h from entries to the number of their holders.  Insert's loop  *)
(* is a recursive function: TrimLoopExists says there is one, and TrimOK   *)
(* what it computes, both by a least counterexample.                       *)
(***************************************************************************)

\* A set of numbers that is not empty has a least one.
LEMMA LeastOf ==
  ASSUME NEW S, S \subseteq Nat, S # {}
  PROVE  \E x \in S : \A y \in S : x <= y
<1>1. PICK x \in S : \A y \in S : ~ (<<y, x>> \in OpToRel(<, Nat))
  BY NatLessThanWellFounded, WFMin
<1>2. \A y \in S : ~(y < x)
  BY <1>1 DEF OpToRel
<1>3. QED
  BY <1>2

\* No element twice.
Once(s) == \A i, j \in DOMAIN s : s[i] = s[j] => i = j

\* RemoveFirst takes one element out of a list that has it once.
LEMMA RemoveFirstFact ==
  ASSUME NEW S, NEW s \in Seq(S), NEW e, Once(s)
  PROVE  /\ RemoveFirst(s, e) \in Seq(S)
         /\ ToSet(RemoveFirst(s, e)) = ToSet(s) \ {e}
         /\ Once(RemoveFirst(s, e))
         /\ e \in ToSet(s) => Len(RemoveFirst(s, e)) = Len(s) - 1
<1>1. CASE \A i \in 1..Len(s) : s[i] # e
  <2>1. RemoveFirst(s, e) = s
    BY <1>1 DEF RemoveFirst
  <2>2. QED
    BY <1>1, <2>1 DEF ToSet
<1>2. CASE \E i \in 1..Len(s) : s[i] = e
  <2>1. PICK i \in 1..Len(s) : s[i] = e
    BY <1>2
  <2> DEFINE I == {j \in 1..Len(s) : s[j] = e}
             r == RemoveAt(s, i)
             n == Len(s) - 1
  <2>2. RemoveFirst(s, e) = r
    <3>1. I = {i}
      BY <2>1 DEF Once
    <3>2. SelectInSeq(s, LAMBDA v : v = e)
            = IF I # {} THEN CHOOSE x \in I : \A y \in I : x <= y ELSE 0
      BY DEF SelectInSeq, Min
    <3>3. SelectInSeq(s, LAMBDA v : v = e) = i
      BY <3>1, <3>2
    <3>4. QED
      BY <2>1, <3>3 DEF RemoveFirst
  <2>3. /\ r \in Seq(S) /\ Len(r) = n
        /\ \A j \in 1..n : r[j] = IF j < i THEN s[j] ELSE s[j + 1]
    <3> DEFINE p == SubSeq(s, 1, i - 1)
               q == SubSeq(s, i + 1, Len(s))
    <3>1. p \in Seq(S) /\ Len(p) = i - 1 /\ \A j \in 1..(i - 1) : p[j] = s[j]
      OBVIOUS
    <3>2. q \in Seq(S) /\ Len(q) = Len(s) - i /\ \A j \in 1..(Len(s) - i) : q[j] = s[i + j]
      OBVIOUS
    <3>3. r = p \o q
      BY DEF RemoveAt
    <3> HIDE DEF p, q, r
    <3>4. r \in Seq(S) /\ Len(r) = n
      BY <3>1, <3>2, <3>3
    <3>5. ASSUME NEW j \in 1..n PROVE r[j] = IF j < i THEN s[j] ELSE s[j + 1]
      <4>1. CASE j < i
        BY <3>1, <3>2, <3>3, <4>1
      <4>2. CASE j >= i
        <5>1. j - (i - 1) \in 1..(Len(s) - i) /\ j > Len(p) /\ j <= Len(p) + Len(q)
          BY <4>2, <3>1, <3>2
        <5>2. r[j] = q[j - (i - 1)]
          BY <5>1, <3>1, <3>2, <3>3
        <5>3. q[j - (i - 1)] = s[i + (j - (i - 1))] /\ i + (j - (i - 1)) = j + 1
          BY <5>1, <3>2
        <5>4. QED
          BY <5>2, <5>3, <4>2
      <4>3. QED
        BY <4>1, <4>2
    <3>6. QED
      BY <3>4, <3>5
  <2> HIDE DEF r
  <2>4. ToSet(r) \subseteq ToSet(s) \ {e}
    <3>1. ASSUME NEW j \in 1..n PROVE r[j] \in ToSet(s) \ {e}
      <4> DEFINE k == IF j < i THEN j ELSE j + 1
      <4>1. k \in 1..Len(s) /\ k # i /\ r[j] = s[k]
        BY <2>3
      <4>2. s[k] # e
        BY <4>1, <2>1 DEF Once
      <4>3. QED
        BY <4>1, <4>2 DEF ToSet
    <3>2. QED
      BY <3>1, <2>3 DEF ToSet
  <2>5. ToSet(s) \ {e} \subseteq ToSet(r)
    <3>1. ASSUME NEW k \in 1..Len(s), s[k] # e PROVE s[k] \in ToSet(r)
      <4> DEFINE j == IF k < i THEN k ELSE k - 1
      <4>1. k # i
        BY <3>1, <2>1
      <4>2. j \in 1..n /\ r[j] = s[k]
        BY <4>1, <2>3
      <4>3. QED
        BY <4>2, <2>3 DEF ToSet
    <3>2. QED
      BY <3>1 DEF ToSet
  <2>6. Once(r)
    <3>1. SUFFICES ASSUME NEW j \in 1..n, NEW k \in 1..n, r[j] = r[k] PROVE j = k
      BY <2>3 DEF Once
    <3> DEFINE up(x) == IF x < i THEN x ELSE x + 1
    <3>2. up(j) \in 1..Len(s) /\ up(k) \in 1..Len(s) /\ s[up(j)] = s[up(k)]
      BY <3>1, <2>3
    <3>3. up(j) = up(k)
      BY <3>2 DEF Once
    <3>4. QED
      BY <3>3
  <2>7. QED
    BY <2>2, <2>3, <2>4, <2>5, <2>6
<1>3. QED
  BY <1>1, <1>2

\* The entries in the cache; memory for entries is a finite set.
In(c) == {e \in Ids : c.entry[e].in_cache}

EntryType == [key : Files, refs : Nat, in_cache : BOOLEAN]

Shard ==
  [entry : [Ids -> EntryType],
   table : [Files -> Ids \cup {NULL}], lru : Seq(Ids), in_use : SUBSET Ids, usage : Nat]

\* When h[e] readers hold e: its references are theirs and the cache's, and
\* the lists and usage_ say who is in the cache and whether it is held.
ListsOK(c, h) ==
  /\ c \in Shard
  /\ \A e \in Ids : c.entry[e].refs = h[e] + (IF c.entry[e].in_cache THEN 1 ELSE 0)
  /\ ToSet(c.lru) = {e \in In(c) : h[e] = 0}
  /\ Once(c.lru)
  /\ c.in_use = {e \in In(c) : h[e] > 0}
  /\ c.usage = Cardinality(In(c))

\* The hash table has every entry of the cache under its key.
TableOK(c) ==
  \A f \in Files, e \in Ids : c.table[f] = e <=> e \in In(c) /\ c.entry[e].key = f

ShardOK(c, h) == ListsOK(c, h) /\ TableOK(c)

SameKeys(c, d) == \A e \in Ids : d.entry[e].key = c.entry[e].key

\* The entries are finitely many numbers, none of them NULL.
LEMMA IdsFinite ==
  ASSUME TableCacheAssumption
  PROVE  /\ Cardinality(Threads) \in Nat \ {0} /\ Capacity \in Nat \ {0}
         /\ IsFiniteSet(Threads \X Files)
         /\ Cardinality(Threads \X Files) = Cardinality(Threads) * Cardinality(Files)
         /\ IsFiniteSet(Ids) /\ Ids \subseteq Nat /\ NULL \notin Ids
<1>1. Cardinality(Threads) \in Nat /\ Cardinality(Threads) # 0
  BY FS_CardinalityType, FS_EmptySet DEF TableCacheAssumption
<1>2. Capacity \in Nat \ {0}
  BY DEF TableCacheAssumption
<1>3. /\ IsFiniteSet(Threads \X Files)
      /\ Cardinality(Threads \X Files) = Cardinality(Threads) * Cardinality(Files)
  BY FS_Product DEF TableCacheAssumption
<1>4. Capacity + Cardinality(Threads) * Cardinality(Files) \in Nat
  BY <1>2, <1>3, FS_CardinalityType
<1>5. IsFiniteSet(Ids)
  BY <1>4, FS_Interval DEF Ids
<1>6. Ids \subseteq Nat /\ NULL \notin Ids
  BY <1>4 DEF Ids, NULL
<1>7. QED
  BY <1>1, <1>2, <1>3, <1>5, <1>6

\* Only finitely many entries are in the cache.
LEMMA InFinite ==
  ASSUME TableCacheAssumption, NEW c
  PROVE  IsFiniteSet(In(c)) /\ Cardinality(In(c)) \in 0..Cardinality(Ids)
<1>1. In(c) \in SUBSET Ids
  BY DEF In
<1>2. QED
  BY <1>1, IdsFinite, FS_Subset, FS_CardinalityType

\* FinishErase takes an entry out of the cache and leaves it to its readers.
LEMMA FinishEraseOK ==
  ASSUME TableCacheAssumption, NEW c, NEW h \in [Ids -> Nat], ListsOK(c, h),
         NEW e \in In(c)
  PROVE  LET d == FinishErase(c, e) IN
         /\ ListsOK(d, h) /\ SameKeys(c, d) /\ d.table = c.table
         /\ In(d) = In(c) \ {e} /\ d.lru = RemoveFirst(c.lru, e)
<1> DEFINE d == FinishErase(c, e)
<1>1. /\ e \in Ids /\ e # NULL /\ c.entry[e].in_cache /\ c \in Shard
      /\ c.entry[e] \in EntryType
      /\ c.entry[e].refs = h[e] + 1
  BY IdsFinite DEF In, ListsOK, Shard, EntryType
<1>2. d = [[c EXCEPT !.lru = RemoveFirst(@, e), !.in_use = @ \ {e},
                    !.entry[e].in_cache = FALSE, !.usage = @ - 1]
              EXCEPT !.entry[e].refs = @ - 1]
  <2> DEFINE c1 == [c EXCEPT !.lru = RemoveFirst(@, e), !.in_use = @ \ {e},
                       !.entry[e].in_cache = FALSE, !.usage = @ - 1]
             c2 == [c1 EXCEPT !.entry[e].refs = @ - 1]
  <2>1. d = Unref(c1, e)
    BY <1>1 DEF FinishErase
  <2>2. /\ c1.entry \in [Ids -> EntryType]
        /\ c1.entry[e].in_cache = FALSE
    BY <1>1 DEF Shard, EntryType
  <2>3. DOMAIN c1 = {"entry", "table", "lru", "in_use", "usage"}
    BY <1>1 DEF Shard, EntryType
  <2> HIDE DEF c1
  <2>4. c2.entry[e].in_cache = FALSE
    BY <1>1, <2>2, <2>3
  <2>5. Unref(c1, e) = c2
    BY <2>4 DEF Unref
  <2>6. QED
    BY <2>1, <2>5 DEF c1
<1> HIDE DEF d
<1>3. /\ d.lru = RemoveFirst(c.lru, e) /\ d.in_use = c.in_use \ {e}
      /\ d.usage = c.usage - 1 /\ d.table = c.table
  BY <1>1, <1>2 DEF Shard, EntryType
<1>4. /\ d.entry \in [Ids -> EntryType]
      /\ d.entry[e].key = c.entry[e].key /\ d.entry[e].refs = h[e] /\ ~d.entry[e].in_cache
      /\ \A x \in Ids \ {e} : d.entry[x] = c.entry[x]
  <2>1. c.entry \in [Ids -> EntryType]
    BY <1>1 DEF Shard, EntryType
  <2>2. d.entry = [[c.entry EXCEPT ![e].in_cache = FALSE] EXCEPT ![e].refs = @ - 1]
    BY <1>1, <1>2 DEF Shard, EntryType
  <2> DEFINE E == [c.entry EXCEPT ![e].in_cache = FALSE]
  <2>3. /\ E \in [Ids -> EntryType]
        /\ E[e].key = c.entry[e].key /\ E[e].refs = h[e] + 1 /\ ~E[e].in_cache
        /\ \A x \in Ids \ {e} : E[x] = c.entry[x]
    BY <1>1, <2>1 DEF EntryType
  <2>4. d.entry = [E EXCEPT ![e].refs = @ - 1]
    BY <2>2
  <2>5. QED
    <3> HIDE DEF E
    <3> QED
      BY <1>1, <2>3, <2>4 DEF EntryType
<1>5. In(d) = In(c) \ {e}
  BY <1>4 DEF In
<1>6. SameKeys(c, d)
  BY <1>4 DEF SameKeys
<1>7. /\ d.lru \in Seq(Ids) /\ ToSet(d.lru) = ToSet(c.lru) \ {e} /\ Once(d.lru)
  <2>1. c.lru \in Seq(Ids) /\ Once(c.lru)
    BY DEF ListsOK, Shard, EntryType
  <2>2. QED
    BY <1>3, <2>1, RemoveFirstFact
<1>8. d.usage \in Nat /\ d.usage = Cardinality(In(d))
  BY <1>3, <1>5, InFinite, FS_RemoveElement, FS_CardinalityType DEF ListsOK
<1>9. d \in Shard
  BY <1>1, <1>2, <1>3, <1>4, <1>7, <1>8 DEF Shard, EntryType
<1>10. ListsOK(d, h)
  <2>1. \A x \in Ids : d.entry[x].refs = h[x] + (IF d.entry[x].in_cache THEN 1 ELSE 0)
    BY <1>1, <1>4 DEF ListsOK
  <2>2. ToSet(c.lru) = {x \in In(c) : h[x] = 0} /\ c.in_use = {x \in In(c) : h[x] > 0}
    BY DEF ListsOK
  <2>3. ToSet(d.lru) = {x \in In(d) : h[x] = 0} /\ d.in_use = {x \in In(d) : h[x] > 0}
    BY <1>3, <1>5, <1>7, <2>2
  <2>4. QED
    BY <1>7, <1>8, <1>9, <2>1, <2>3 DEF ListsOK
<1>11. QED
  BY <1>3, <1>5, <1>6, <1>10 DEF d

\* Erase takes out the entry of a key, if there is one.
LEMMA EraseOK ==
  ASSUME TableCacheAssumption, NEW c, NEW h \in [Ids -> Nat], ShardOK(c, h),
         NEW f \in Files
  PROVE  LET d == Erase(c, f) IN
         /\ ShardOK(d, h) /\ SameKeys(c, d)
         /\ In(d) = In(c) \ {c.table[f]}
         /\ d.table = [c.table EXCEPT ![f] = NULL]
         /\ c.table[f] # NULL => d.lru = RemoveFirst(c.lru, c.table[f])
<1> DEFINE e == c.table[f]
           b == [c EXCEPT !.table[f] = NULL]
           d == Erase(c, f)
<1>1. c \in Shard /\ ListsOK(c, h) /\ e \in Ids \cup {NULL}
  BY DEF ShardOK, ListsOK, Shard, EntryType
<1>2. /\ b \in Shard /\ b.entry = c.entry /\ b.lru = c.lru /\ b.in_use = c.in_use
      /\ b.usage = c.usage /\ b.table = [c.table EXCEPT ![f] = NULL]
  BY <1>1 DEF Shard, EntryType
<1>3. d = FinishErase(b, e)
  BY DEF Erase
<1> HIDE DEF b, d
<1>4. In(b) = In(c) /\ ListsOK(b, h) /\ SameKeys(c, b)
  BY <1>1, <1>2 DEF ListsOK, In, SameKeys
<1>5. /\ ListsOK(d, h) /\ SameKeys(c, d) /\ d.table = b.table
      /\ In(d) = In(c) \ {e} /\ (e # NULL => d.lru = RemoveFirst(c.lru, e))
  <2>1. CASE e = NULL
    <3>1. d = b
      BY <1>3, <2>1 DEF FinishErase
    <3>2. NULL \notin In(c)
      BY IdsFinite DEF In
    <3>3. QED
      BY <1>4, <2>1, <3>1, <3>2
  <2>2. CASE e \in Ids
    <3>1. e \in In(b)
      BY <1>4, <2>2 DEF ShardOK, TableOK
    <3>2. QED
      BY <1>2, <1>3, <1>4, <3>1, FinishEraseOK DEF SameKeys
  <2>3. QED
    BY <1>1, <2>1, <2>2
<1>6. TableOK(d)
  <2>1. SUFFICES ASSUME NEW g \in Files, NEW x \in Ids
                 PROVE  d.table[g] = x <=> x \in In(d) /\ d.entry[x].key = g
    BY DEF TableOK
  <2>2. c.table[g] = x <=> x \in In(c) /\ c.entry[x].key = g
    BY DEF ShardOK, TableOK
  <2>3. c.table \in [Files -> Ids \cup {NULL}] /\ NULL \notin Ids
    BY <1>1, IdsFinite DEF Shard, EntryType
  <2>4. d.entry[x].key = c.entry[x].key
    BY <1>5 DEF SameKeys
  <2>5. d.table[g] = IF g = f THEN NULL ELSE c.table[g]
    BY <1>2, <1>5, <2>3
  <2>6. c.table[f] = x <=> x \in In(c) /\ c.entry[x].key = f
    BY DEF ShardOK, TableOK
  <2>7. QED
    BY <1>5, <2>2, <2>3, <2>4, <2>5, <2>6
<1>7. QED
  BY <1>2, <1>5, <1>6 DEF ShardOK, d

\* d is the shard c after some unused entries went, i turns of the loop later.
TrimmedOK(c, h, d, i) ==
  /\ ShardOK(d, h) /\ SameKeys(c, d)
  /\ In(d) \subseteq In(c)
  /\ \A e \in In(c) : h[e] > 0 => e \in In(d)
  /\ \A f \in Files : d.table[f] # NULL => c.table[f] # NULL
  /\ d.usage <= Capacity \/ d.lru = << >> \/ Len(d.lru) + i <= Len(c.lru)

\* One turn of the loop.
LEMMA TrimOneOK ==
  ASSUME TableCacheAssumption, NEW c, NEW h \in [Ids -> Nat], NEW i \in Nat,
         Len(c.lru) \in Nat, NEW b, TrimmedOK(c, h, b, i)
  PROVE  TrimmedOK(c, h, TrimOne(b), i + 1)
<1> DEFINE d == TrimOne(b)
<1>1. /\ b \in Shard /\ ShardOK(b, h) /\ b.usage \in Nat /\ b.lru \in Seq(Ids)
      /\ Len(b.lru) \in Nat /\ Capacity \in Nat
  BY IdsFinite DEF TrimmedOK, ShardOK, ListsOK, Shard, EntryType
<1>2. CASE ~(b.usage > Capacity /\ b.lru # << >>)
  <2>1. d = b
    BY <1>2 DEF TrimOne
  <2>2. b.usage <= Capacity \/ b.lru = << >>
    BY <1>1, <1>2
  <2>3. QED
    BY <2>1, <2>2 DEF TrimmedOK
<1>3. CASE b.usage > Capacity /\ b.lru # << >>
  <2> DEFINE e == Head(b.lru)
             f == b.entry[e].key
  <2>1. d = Erase(b, f)
    BY <1>3 DEF TrimOne
  <2>2. e \in ToSet(b.lru)
    BY <1>1, <1>3 DEF ToSet
  <2>3. e \in Ids /\ e \in In(b) /\ h[e] = 0 /\ e # NULL
    BY <1>1, <2>2, IdsFinite DEF ShardOK, ListsOK, In
  <2>4. f \in Files
    BY <1>1, <2>3 DEF Shard, EntryType
  <2>5. b.table[f] = e
    BY <1>1, <2>3, <2>4 DEF ShardOK, TableOK
  <2> HIDE DEF e, f, d
  <2>6. /\ ShardOK(d, h) /\ SameKeys(b, d) /\ In(d) = In(b) \ {e}
        /\ d.table = [b.table EXCEPT ![f] = NULL] /\ d.lru = RemoveFirst(b.lru, e)
    BY <1>1, <2>1, <2>3, <2>4, <2>5, EraseOK
  <2>7. Len(d.lru) = Len(b.lru) - 1 /\ Len(b.lru) >= 1
    <3>1. Once(b.lru) /\ Len(b.lru) >= 1
      BY <1>1, <1>3 DEF ShardOK, ListsOK
    <3>2. QED
      BY <1>1, <2>2, <2>6, <3>1, RemoveFirstFact
  <2>8. Len(b.lru) + i <= Len(c.lru)
    BY <1>1, <1>3 DEF TrimmedOK
  <2>9. Len(d.lru) + (i + 1) <= Len(c.lru)
    <3>1. PICK x, y, z : x = Len(d.lru) /\ y = Len(b.lru) /\ z = Len(c.lru)
      OBVIOUS
    <3>2. y \in Nat /\ z \in Nat /\ x = y - 1 /\ y + i <= z
      BY <1>1, <2>7, <2>8, <3>1
    <3>3. x + (i + 1) <= z
      BY <3>2
    <3>4. QED
      BY <3>1, <3>3
  <2>10. SameKeys(c, d)
    BY <2>6 DEF TrimmedOK, SameKeys
  <2>11. In(d) \subseteq In(c) /\ \A x \in In(c) : h[x] > 0 => x \in In(d)
    BY <2>3, <2>6 DEF TrimmedOK
  <2>12. \A g \in Files : d.table[g] # NULL => c.table[g] # NULL
    BY <1>1, <2>6 DEF TrimmedOK, Shard, EntryType
  <2>13. QED
    BY <2>6, <2>9, <2>10, <2>11, <2>12 DEF TrimmedOK, d
<1>4. QED
  BY <1>2, <1>3

\* The function of the loop, over the first n turns.
TrimLoop(c, n, t) == t = [i \in 0..n |-> IF i = 0 THEN c ELSE TrimOne(t[i - 1])]

\* There is one for every number of turns.
LEMMA TrimLoopExists ==
  ASSUME NEW c, NEW n \in Nat
  PROVE  \E t : TrimLoop(c, n, t)
<1> DEFINE Bad == {k \in Nat : ~ \E t : TrimLoop(c, k, t)}
<1>1. SUFFICES ASSUME Bad # {} PROVE FALSE
  OBVIOUS
<1>2. PICK k \in Bad : \A j \in Bad : k <= j
  BY <1>1, LeastOf
<1>3. k # 0
  <2> DEFINE t == [i \in 0..0 |-> c]
  <2>1. t = [i \in 0..0 |-> IF i = 0 THEN c ELSE TrimOne(t[i - 1])]
    OBVIOUS
  <2>2. TrimLoop(c, 0, t)
    BY <2>1 DEF TrimLoop
  <2>3. QED
    BY <2>2
<1>4. k \in Nat /\ k - 1 \in Nat /\ k - 1 \notin Bad
  BY <1>2, <1>3
<1>5. PICK t : TrimLoop(c, k - 1, t)
  BY <1>4
<1> DEFINE u == [i \in 0..k |-> IF i = k THEN TrimOne(t[k - 1]) ELSE t[i]]
<1>6. \A i \in 0..(k - 1) : u[i] = t[i]
  BY <1>4
<1>7. \A i \in 0..k : u[i] = IF i = 0 THEN c ELSE TrimOne(u[i - 1])
  <2> SUFFICES ASSUME NEW i \in 0..k PROVE u[i] = IF i = 0 THEN c ELSE TrimOne(u[i - 1])
    OBVIOUS
  <2>1. CASE i = k
    <3>1. u[k] = TrimOne(t[k - 1]) /\ u[k - 1] = t[k - 1]
      BY <1>4, <1>6
    <3>2. QED
      BY <1>3, <2>1, <3>1
  <2>2. CASE i # k
    <3>1. i \in 0..(k - 1) /\ u[i] = t[i]
      BY <1>4, <1>6, <2>2
    <3>2. t[i] = IF i = 0 THEN c ELSE TrimOne(t[i - 1])
      BY <1>5, <3>1 DEF TrimLoop
    <3>3. CASE i = 0
      BY <3>1, <3>2, <3>3
    <3>4. CASE i # 0
      <4>1. i - 1 \in 0..(k - 1)
        BY <1>4, <3>1, <3>4
      <4>2. u[i - 1] = t[i - 1]
        BY <1>6, <4>1
      <4>3. QED
        BY <3>1, <3>2, <3>4, <4>2
    <3>5. QED
      BY <3>3, <3>4
  <2>3. QED
    BY <2>1, <2>2
<1>8. u = [i \in 0..k |-> u[i]]
  OBVIOUS
<1> HIDE DEF u
<1>9. TrimLoop(c, k, u)
  BY <1>7, <1>8 DEF TrimLoop
<1>10. QED
  BY <1>2, <1>9

\* The loop keeps what readers hold, and ends with room or with no unused entry.
LEMMA TrimOK ==
  ASSUME TableCacheAssumption, NEW c, NEW h \in [Ids -> Nat], ShardOK(c, h)
  PROVE  TrimmedOK(c, h, Trim(c), Len(c.lru))
<1> DEFINE n == Len(c.lru)
           t == CHOOSE s : s = [i \in 0..n |-> IF i = 0 THEN c ELSE TrimOne(s[i - 1])]
<1>1. n \in Nat /\ c \in Shard
  BY DEF ShardOK, ListsOK, Shard, EntryType
<1>2. Trim(c) = t[n]
  BY DEF Trim
<1>3. t = [i \in 0..n |-> IF i = 0 THEN c ELSE TrimOne(t[i - 1])]
  BY <1>1, TrimLoopExists DEF TrimLoop
<1> HIDE DEF n, t
<1> DEFINE Bad == {k \in 0..n : ~TrimmedOK(c, h, t[k], k)}
<1>4. Bad = {}
  <2>1. SUFFICES ASSUME Bad # {} PROVE FALSE
    OBVIOUS
  <2>2. PICK k \in Bad : \A j \in Bad : k <= j
    <3>1. Bad \subseteq Nat
      BY <1>1
    <3> HIDE DEF Bad
    <3>2. QED
      BY <2>1, <3>1, LeastOf
  <2>3. k # 0
    <3>1. t[0] = c
      BY <1>1, <1>3
    <3>2. TrimmedOK(c, h, c, 0)
      BY <1>1 DEF TrimmedOK, SameKeys, n
    <3>3. QED
      BY <2>2, <3>1, <3>2
  <2>4. k \in 1..n /\ k - 1 \in 0..n /\ k - 1 \in Nat /\ (k - 1) + 1 = k
    BY <1>1, <2>2, <2>3
  <2>5. TrimmedOK(c, h, t[k - 1], k - 1)
    BY <2>2, <2>4
  <2>6. t[k] = TrimOne(t[k - 1])
    BY <1>3, <2>4
  <2>7. TrimmedOK(c, h, t[k], k)
    BY <1>1, <2>4, <2>5, <2>6, TrimOneOK DEF n
  <2>8. QED
    BY <2>2, <2>7
<1>5. QED
  BY <1>1, <1>2, <1>4 DEF n

\* Changing the references of one entry.
LEMMA SetRefs ==
  ASSUME NEW E \in [Ids -> EntryType], NEW e \in Ids, NEW n \in Nat
  PROVE  LET F == [E EXCEPT ![e].refs = n] IN
         /\ F \in [Ids -> EntryType]
         /\ \A x \in Ids : /\ F[x].key = E[x].key /\ F[x].in_cache = E[x].in_cache
                           /\ F[x].refs = IF x = e THEN n ELSE E[x].refs
<1> DEFINE F == [E EXCEPT ![e].refs = n]
<1>1. ASSUME NEW x \in Ids
      PROVE  /\ F[x] \in EntryType /\ F[x].key = E[x].key /\ F[x].in_cache = E[x].in_cache
             /\ F[x].refs = IF x = e THEN n ELSE E[x].refs
  <2>1. PICK r : r = E[x]
    OBVIOUS
  <2>2. r \in EntryType
    BY <2>1
  <2>3. CASE x = e
    <3>1. F[x] = [r EXCEPT !.refs = n]
      BY <2>1, <2>3
    <3>2. /\ [r EXCEPT !.refs = n] \in EntryType
          /\ [r EXCEPT !.refs = n].key = r.key
          /\ [r EXCEPT !.refs = n].in_cache = r.in_cache
          /\ [r EXCEPT !.refs = n].refs = n
      BY <2>2 DEF EntryType
    <3>3. QED
      BY <2>1, <2>3, <3>1, <3>2
  <2>4. CASE x # e
    <3>1. F[x] = r
      BY <2>1, <2>4
    <3>2. QED
      BY <2>1, <2>2, <2>4, <3>1
  <2>5. QED
    BY <2>3, <2>4
<1>2. F \in [Ids -> EntryType]
  <2>1. F = [x \in Ids |-> F[x]]
    OBVIOUS
  <2> HIDE DEF F
  <2>2. QED
    BY <1>1, <2>1
<1>3. QED
  BY <1>1, <1>2

\* Changing the two lists.
WithLists(c, l, u) == [c EXCEPT !.lru = l, !.in_use = u]

\* What WithLists is, field by field.
LEMMA SetListsOfShard ==
  ASSUME NEW c \in Shard, NEW l \in Seq(Ids), NEW u \in SUBSET Ids
  PROVE  LET d == WithLists(c, l, u) IN
         /\ d \in Shard /\ d.lru = l /\ d.in_use = u
         /\ d.entry = c.entry /\ d.table = c.table /\ d.usage = c.usage
BY DEF Shard, WithLists, EntryType

\* Ref: one more reader has an entry of the cache.
LEMMA RefOK ==
  ASSUME TableCacheAssumption, NEW c, NEW h \in [Ids -> Nat], ShardOK(c, h),
         NEW e \in In(c)
  PROVE  LET d == Ref(c, e) IN
         /\ ShardOK(d, [h EXCEPT ![e] = h[e] + 1]) /\ SameKeys(c, d)
         /\ In(d) = In(c) /\ d.table = c.table
<1> DEFINE d == Ref(c, e)
           h2 == [h EXCEPT ![e] = h[e] + 1]
           m == IF c.entry[e].refs = 1 /\ c.entry[e].in_cache THEN InUse(c, e) ELSE c
<1>1. /\ e \in Ids /\ c \in Shard /\ c.lru \in Seq(Ids) /\ Once(c.lru) /\ c.in_use \in SUBSET Ids
      /\ c.entry \in [Ids -> EntryType]
      /\ c.entry[e].in_cache /\ c.entry[e].refs = h[e] + 1
  BY DEF In, ShardOK, ListsOK, Shard, EntryType
<1>2. /\ ToSet(c.lru) = {x \in In(c) : h[x] = 0} /\ c.in_use = {x \in In(c) : h[x] > 0}
  BY DEF ShardOK, ListsOK
<1>3. /\ m \in Shard /\ m.entry = c.entry /\ m.table = c.table /\ m.usage = c.usage
      /\ m.lru \in Seq(Ids) /\ ToSet(m.lru) = ToSet(c.lru) \ {e} /\ Once(m.lru)
      /\ m.in_use = c.in_use \cup {e}
  <2>1. CASE h[e] = 0
    <3>1. m = [c EXCEPT !.lru = RemoveFirst(c.lru, e), !.in_use = c.in_use \cup {e}]
      BY <1>1, <2>1 DEF InUse
    <3>2. RemoveFirst(c.lru, e) \in Seq(Ids)
      BY <1>1, RemoveFirstFact
    <3> HIDE DEF m
    <3>3. c.in_use \cup {e} \in SUBSET Ids
      BY <1>1
    <3>4. m \in Shard /\ m.lru = RemoveFirst(c.lru, e) /\ m.entry = c.entry
          /\ m.table = c.table /\ m.usage = c.usage /\ m.in_use = c.in_use \cup {e}
      <4>1. m = WithLists(c, RemoveFirst(c.lru, e), c.in_use \cup {e})
        BY <3>1 DEF WithLists
      <4>2. QED
        BY <1>1, <3>2, <3>3, <4>1, SetListsOfShard
    <3>5. QED
      BY <1>1, <3>2, <3>4, RemoveFirstFact
  <2>2. CASE h[e] > 0
    <3>1. m = c
      BY <1>1, <2>2
    <3>2. e \notin ToSet(c.lru) /\ e \in c.in_use
      BY <1>2, <2>2
    <3>3. QED
      BY <1>1, <3>1, <3>2
  <2>3. QED
    BY <1>1, <2>1, <2>2
<1>4. d = [m EXCEPT !.entry[e].refs = @ + 1]
  BY DEF Ref
<1> HIDE DEF m, d
<1>5. /\ d.table = c.table /\ d.usage = c.usage /\ d.lru = m.lru
      /\ d.in_use = c.in_use \cup {e}
      /\ d.entry = [c.entry EXCEPT ![e].refs = @ + 1]
  BY <1>3, <1>4 DEF Shard, EntryType
<1>6. /\ d.entry \in [Ids -> EntryType]
      /\ \A x \in Ids : /\ d.entry[x].key = c.entry[x].key
                        /\ d.entry[x].in_cache = c.entry[x].in_cache
                        /\ d.entry[x].refs = IF x = e THEN h[e] + 2 ELSE c.entry[x].refs
  <2>1. PICK n : n = c.entry[e].refs + 1
    OBVIOUS
  <2>2. n \in Nat /\ n = h[e] + 2
    BY <1>1, <2>1
  <2>3. d.entry = [c.entry EXCEPT ![e].refs = n]
    BY <1>5, <2>1
  <2>4. c.entry \in [Ids -> EntryType] /\ e \in Ids
    BY <1>1
  <2>5. QED
    BY <2>2, <2>3, <2>4, SetRefs
<1>7. In(d) = In(c) /\ SameKeys(c, d)
  BY <1>6 DEF In, SameKeys
<1>8. d \in Shard
  BY <1>3, <1>4, <1>5, <1>6 DEF Shard, EntryType
<1>9. ToSet(d.lru) = {x \in In(d) : h2[x] = 0} /\ d.in_use = {x \in In(d) : h2[x] > 0}
  BY <1>1, <1>2, <1>3, <1>5, <1>7 DEF In
<1>10. \A x \in Ids : d.entry[x].refs = h2[x] + (IF d.entry[x].in_cache THEN 1 ELSE 0)
  BY <1>1, <1>6 DEF ShardOK, ListsOK
<1>11. ListsOK(d, h2)
  BY <1>3, <1>5, <1>7, <1>8, <1>9, <1>10 DEF ShardOK, ListsOK
<1>12. TableOK(d)
  BY <1>5, <1>6, <1>7 DEF ShardOK, TableOK
<1>13. QED
  BY <1>5, <1>7, <1>11, <1>12 DEF ShardOK, d

\* Unref: a reader gives an entry back, which may have left the cache.
LEMMA UnrefOK ==
  ASSUME TableCacheAssumption, NEW c, NEW h \in [Ids -> Nat], ShardOK(c, h),
         NEW e \in Ids, h[e] > 0
  PROVE  LET d == Unref(c, e) IN
         /\ ShardOK(d, [h EXCEPT ![e] = h[e] - 1]) /\ SameKeys(c, d)
         /\ In(d) = In(c) /\ d.table = c.table
<1> DEFINE m == [c EXCEPT !.entry[e].refs = @ - 1]
           d == Unref(c, e)
           h2 == [h EXCEPT ![e] = h[e] - 1]
<1>1. /\ c \in Shard /\ c.lru \in Seq(Ids) /\ Once(c.lru) /\ c.in_use \in SUBSET Ids
      /\ c.entry \in [Ids -> EntryType]
      /\ c.entry[e].refs = h[e] + (IF c.entry[e].in_cache THEN 1 ELSE 0)
  BY DEF ShardOK, ListsOK, Shard, EntryType
<1>2. /\ ToSet(c.lru) = {x \in In(c) : h[x] = 0} /\ c.in_use = {x \in In(c) : h[x] > 0}
  BY DEF ShardOK, ListsOK
<1>3. /\ m.table = c.table /\ m.usage = c.usage /\ m.lru = c.lru /\ m.in_use = c.in_use
      /\ m.entry = [c.entry EXCEPT ![e].refs = @ - 1]
  BY <1>1 DEF Shard, EntryType
<1>4. /\ m.entry \in [Ids -> EntryType]
      /\ \A x \in Ids : /\ m.entry[x].key = c.entry[x].key
                        /\ m.entry[x].in_cache = c.entry[x].in_cache
                        /\ m.entry[x].refs = IF x = e THEN c.entry[e].refs - 1 ELSE c.entry[x].refs
  <2>1. m.entry = [c.entry EXCEPT ![e].refs = c.entry[e].refs - 1]
    BY <1>3
  <2>2. c.entry[e].refs - 1 \in Nat
    BY <1>1
  <2>3. QED
    BY <1>1, <2>1, <2>2, SetRefs, SMTT(25)
<1>5. m \in Shard
  BY <1>1, <1>3, <1>4 DEF Shard, EntryType
<1>6. d = IF m.entry[e].in_cache /\ m.entry[e].refs = 1 THEN ToLru(m, e) ELSE m
  BY DEF Unref
<1> HIDE DEF m, d
<1>7. /\ d \in Shard /\ d.entry = m.entry /\ d.table = c.table /\ d.usage = c.usage
      /\ d.lru \in Seq(Ids) /\ Once(d.lru)
      /\ ToSet(d.lru) = {x \in In(c) : h2[x] = 0} /\ d.in_use = {x \in In(c) : h2[x] > 0}
  <2>1. CASE e \in In(c) /\ h[e] = 1
    <3>1. d = [m EXCEPT !.lru = Append(c.lru, e), !.in_use = c.in_use \ {e}]
      BY <1>1, <1>3, <1>4, <1>6, <2>1 DEF ToLru, In
    <3>2. Append(c.lru, e) \in Seq(Ids)
      BY <1>1
    <3>3. c.in_use \ {e} \in SUBSET Ids
      BY <1>1
    <3>4. d \in Shard /\ d.entry = m.entry /\ d.table = c.table /\ d.usage = c.usage
          /\ d.lru = Append(c.lru, e) /\ d.in_use = c.in_use \ {e}
      <4>1. PICK l, u : l = Append(c.lru, e) /\ u = c.in_use \ {e}
        OBVIOUS
      <4>2. d = [m EXCEPT !.lru = l, !.in_use = u] /\ l \in Seq(Ids) /\ u \in SUBSET Ids
        BY <3>1, <3>2, <3>3, <4>1
      <4>3. /\ d \in Shard /\ d.lru = l /\ d.in_use = u
            /\ d.entry = m.entry /\ d.table = m.table /\ d.usage = m.usage
        <5>1. d = WithLists(m, l, u)
          BY <4>2 DEF WithLists
        <5>2. QED
          BY <1>5, <4>2, <5>1, SetListsOfShard
      <4>4. QED
        BY <1>3, <4>1, <4>3
    <3>5. e \notin ToSet(c.lru)
      BY <1>2, <2>1
    <3>6. ToSet(Append(c.lru, e)) = ToSet(c.lru) \cup {e} /\ Once(Append(c.lru, e))
      <4>1. \A i \in 1..Len(c.lru) : c.lru[i] # e
        BY <3>5 DEF ToSet
      <4>2. /\ DOMAIN Append(c.lru, e) = 1..(Len(c.lru) + 1)
            /\ \A i \in 1..Len(c.lru) : Append(c.lru, e)[i] = c.lru[i]
            /\ Append(c.lru, e)[Len(c.lru) + 1] = e
        BY <1>1
      <4>3. PICK q, n : q = Append(c.lru, e) /\ n = Len(c.lru)
        OBVIOUS
      <4>4. /\ n \in Nat /\ DOMAIN q = 1..(n + 1) /\ DOMAIN c.lru = 1..n
            /\ \A i \in 1..n : q[i] = c.lru[i] /\ c.lru[i] # e
            /\ q[n + 1] = e
        BY <1>1, <4>1, <4>2, <4>3
      <4>5. Once(q)
        <5>1. SUFFICES ASSUME NEW i \in 1..(n + 1), NEW j \in 1..(n + 1), q[i] = q[j]
                       PROVE  i = j
          BY <4>4 DEF Once
        <5>2. CASE i = n + 1 \/ j = n + 1
          BY <4>4, <5>1, <5>2
        <5>3. CASE i \in 1..n /\ j \in 1..n
          BY <1>1, <4>4, <5>1, <5>3 DEF Once
        <5>4. QED
          BY <4>4, <5>2, <5>3
      <4>6. ToSet(q) = ToSet(c.lru) \cup {e}
        <5>1. ToSet(q) \subseteq ToSet(c.lru) \cup {e}
          BY <4>4 DEF ToSet
        <5>2. \A i \in 1..n : i \in 1..(n + 1)
          BY <4>4
        <5>3. n + 1 \in 1..(n + 1)
          BY <4>4
        <5>4. ToSet(c.lru) \cup {e} \subseteq ToSet(q)
          BY <4>4, <5>2, <5>3 DEF ToSet
        <5>5. QED
          BY <5>1, <5>4
      <4>7. QED
        BY <4>3, <4>5, <4>6
    <3>7. {x \in In(c) : h2[x] = 0} = {x \in In(c) : h[x] = 0} \cup {e}
          /\ {x \in In(c) : h2[x] > 0} = {x \in In(c) : h[x] > 0} \ {e}
      BY <2>1 DEF In
    <3>8. QED
      BY <1>2, <3>2, <3>4, <3>6, <3>7
  <2>2. CASE ~(e \in In(c) /\ h[e] = 1)
    <3>1. d = m
      <4>1. ~(c.entry[e].in_cache /\ h[e] = 1)
        BY <2>2 DEF In
      <4>2. /\ m.entry[e].in_cache = c.entry[e].in_cache
            /\ m.entry[e].refs = h[e] + (IF c.entry[e].in_cache THEN 1 ELSE 0) - 1
        BY <1>1, <1>4
      <4>3. ASSUME m.entry[e].in_cache, m.entry[e].refs = 1 PROVE FALSE
        <5>1. h[e] + 1 - 1 = 1
          BY <4>2, <4>3
        <5>2. QED
          BY <4>1, <4>2, <4>3, <5>1
      <4>4. QED
        BY <1>6, <4>3
    <3>2. {x \in In(c) : h2[x] = 0} = {x \in In(c) : h[x] = 0}
          /\ {x \in In(c) : h2[x] > 0} = {x \in In(c) : h[x] > 0}
      BY <2>2 DEF In
    <3>3. QED
      BY <1>1, <1>2, <1>3, <1>5, <3>1, <3>2
  <2>3. QED
    BY <2>1, <2>2
<1>8. In(d) = In(c) /\ SameKeys(c, d)
  BY <1>4, <1>7 DEF In, SameKeys
<1>9. \A x \in Ids : d.entry[x].refs = h2[x] + (IF d.entry[x].in_cache THEN 1 ELSE 0)
  BY <1>1, <1>4, <1>7 DEF ShardOK, ListsOK
<1>10. ListsOK(d, h2)
  BY <1>7, <1>8, <1>9 DEF ShardOK, ListsOK
<1>11. TableOK(d)
  <2>1. \A x \in Ids : d.entry[x].key = c.entry[x].key
    BY <1>8 DEF SameKeys
  <2>2. QED
    BY <1>7, <1>8, <2>1 DEF ShardOK, TableOK
<1>12. QED
  BY <1>7, <1>8, <1>10, <1>11 DEF ShardOK, d

\* What an insertion of entry e under key f does, but for the others' keys.
InsertedOK(c, d, f, e) ==
  /\ e \in In(d) /\ In(d) \subseteq In(c) \cup {e}
  /\ d.entry[e].key = f
  /\ \A x \in Ids \ {e} : d.entry[x].key = c.entry[x].key
  /\ \A g \in Files : d.table[g] # NULL => g = f \/ c.table[g] # NULL
  /\ d.usage <= Capacity \/ d.lru = << >>

\* The new entry of a shard, with a reference for the cache and one for the
\* caller, before an older one of the same key goes.
WithEntry(c, f, e) ==
  [c EXCEPT !.entry[e] = [key |-> f, refs |-> 2, in_cache |-> TRUE],
            !.in_use = @ \cup {e}, !.usage = @ + 1, !.table[f] = e]

\* What WithEntry is, field by field.
LEMMA WithEntryFields ==
  ASSUME NEW c \in Shard, NEW f \in Files, NEW e \in Ids
  PROVE  LET b == WithEntry(c, f, e) IN
         /\ b \in Shard /\ b.lru = c.lru /\ b.in_use = c.in_use \cup {e}
         /\ b.usage = c.usage + 1 /\ b.table = [c.table EXCEPT ![f] = e]
         /\ b.entry[e].key = f /\ b.entry[e].refs = 2 /\ b.entry[e].in_cache
         /\ \A x \in Ids \ {e} : b.entry[x] = c.entry[x]
<1> DEFINE b == WithEntry(c, f, e)
           r == [key |-> f, refs |-> 2, in_cache |-> TRUE]
<1>1. r \in EntryType /\ c.entry \in [Ids -> EntryType]
  BY DEF EntryType, Shard
<1>2. /\ b.lru = c.lru /\ b.in_use = c.in_use \cup {e}
      /\ b.usage = c.usage + 1 /\ b.table = [c.table EXCEPT ![f] = e]
      /\ b.entry = [c.entry EXCEPT ![e] = r]
  BY DEF WithEntry, Shard, EntryType
<1>3. /\ r.key = f /\ r.refs = 2 /\ r.in_cache
  OBVIOUS
<1> HIDE DEF r
<1>4. /\ b.entry \in [Ids -> EntryType] /\ b.entry[e] = r
      /\ \A x \in Ids \ {e} : b.entry[x] = c.entry[x]
  BY <1>1, <1>2
<1>5. b.usage \in Nat /\ b.in_use \in SUBSET Ids /\ b.lru \in Seq(Ids)
      /\ b.table \in [Files -> Ids \cup {NULL}]
  BY <1>2 DEF Shard, EntryType
<1>6. b \in Shard
  <2>1. PICK E, u, n, t : /\ E = [c.entry EXCEPT ![e] = r] /\ u = c.in_use \cup {e}
                          /\ n = c.usage + 1 /\ t = [c.table EXCEPT ![f] = e]
    OBVIOUS
  <2>2. b = [c EXCEPT !.entry = E, !.in_use = u, !.usage = n, !.table = t]
    BY <2>1 DEF WithEntry, r
  <2>3. /\ E \in [Ids -> EntryType] /\ n \in Nat /\ u \in SUBSET Ids
        /\ t \in [Files -> Ids \cup {NULL}]
    BY <1>2, <1>4, <1>5, <2>1
  <2> HIDE DEF b
  <2>4. QED
    BY <2>2, <2>3 DEF Shard, EntryType
<1>7. QED
  BY <1>2, <1>3, <1>4, <1>6

\* Before the older entry goes, the lists are right and the table is not.
LEMMA WithEntryOK ==
  ASSUME TableCacheAssumption, NEW c, NEW h \in [Ids -> Nat], ShardOK(c, h),
         NEW f \in Files, NEW e \in Ids, c.entry[e].refs = 0
  PROVE  /\ ListsOK(WithEntry(c, f, e), [h EXCEPT ![e] = 1])
         /\ In(WithEntry(c, f, e)) = In(c) \cup {e} /\ e \notin In(c) /\ h[e] = 0
<1> DEFINE b == WithEntry(c, f, e)
           h2 == [h EXCEPT ![e] = 1]
<1>1. /\ c \in Shard /\ c.lru \in Seq(Ids) /\ Once(c.lru) /\ c.usage = Cardinality(In(c))
      /\ ToSet(c.lru) = {x \in In(c) : h[x] = 0} /\ c.in_use = {x \in In(c) : h[x] > 0}
      /\ \A x \in Ids : c.entry[x].refs = h[x] + (IF c.entry[x].in_cache THEN 1 ELSE 0)
  BY DEF ShardOK, ListsOK, Shard, EntryType
<1>2. /\ b \in Shard /\ b.lru = c.lru /\ b.in_use = c.in_use \cup {e}
      /\ b.usage = c.usage + 1 /\ b.table = [c.table EXCEPT ![f] = e]
      /\ b.entry[e].key = f /\ b.entry[e].refs = 2 /\ b.entry[e].in_cache
      /\ \A x \in Ids \ {e} : b.entry[x] = c.entry[x]
  BY <1>1, WithEntryFields
<1> HIDE DEF b
<1>3. ~c.entry[e].in_cache /\ h[e] = 0
  BY <1>1
<1>4. In(b) = In(c) \cup {e} /\ e \notin In(c)
  BY <1>2, <1>3 DEF In
<1>5. b.usage = Cardinality(In(b))
  <2>1. IsFiniteSet(In(c))
    BY InFinite
  <2>2. Cardinality(In(c) \cup {e}) = Cardinality(In(c)) + 1
    BY <1>4, <2>1, FS_AddElement
  <2>3. QED
    BY <1>1, <1>2, <1>4, <2>2
<1>6. ToSet(b.lru) = {x \in In(b) : h2[x] = 0} /\ b.in_use = {x \in In(b) : h2[x] > 0}
  <2>1. In(c) \subseteq Ids
    BY DEF In
  <2>2. \A x \in Ids : h2[x] = IF x = e THEN 1 ELSE h[x]
    OBVIOUS
  <2>3. QED
    BY <1>1, <1>2, <1>4, <2>1, <2>2
<1>7. \A x \in Ids : b.entry[x].refs = h2[x] + (IF b.entry[x].in_cache THEN 1 ELSE 0)
  <2>1. ASSUME NEW x \in Ids PROVE b.entry[x].refs = h2[x] + (IF b.entry[x].in_cache THEN 1 ELSE 0)
    <3>1. CASE x = e
      BY <1>2, <3>1
    <3>2. CASE x # e
      <4>1. b.entry[x] = c.entry[x] /\ h2[x] = h[x]
        BY <1>2, <3>2
      <4>2. QED
        BY <1>1, <4>1
    <3>3. QED
      BY <3>1, <3>2
  <2>2. QED
    BY <2>1
<1>8. QED
  BY <1>1, <1>2, <1>3, <1>4, <1>5, <1>6, <1>7 DEF ListsOK, b

\* Insert: the new entry is there and the caller's, whatever was trimmed.
LEMMA InsertOK ==
  ASSUME TableCacheAssumption, NEW c, NEW h \in [Ids -> Nat], ShardOK(c, h),
         NEW f \in Files, NEW e \in Ids, c.entry[e].refs = 0
  PROVE  LET d == Insert(c, f, e) IN
         ShardOK(d, [h EXCEPT ![e] = 1]) /\ InsertedOK(c, d, f, e)
<1> DEFINE b == WithEntry(c, f, e)
           o == c.table[f]
           m == FinishErase(b, o)
           h2 == [h EXCEPT ![e] = 1]
           d == Insert(c, f, e)
<1>1. d = Trim(m)
  BY DEF Insert, WithEntry
<1>2. /\ c \in Shard /\ o \in Ids \cup {NULL} /\ NULL \notin Ids /\ h2 \in [Ids -> Nat]
      /\ c.table \in [Files -> Ids \cup {NULL}]
  BY IdsFinite DEF ShardOK, ListsOK, Shard, EntryType
<1>3. /\ b.lru = c.lru /\ b.in_use = c.in_use \cup {e}
      /\ b.usage = c.usage + 1 /\ b.table = [c.table EXCEPT ![f] = e]
      /\ b.entry[e].key = f
      /\ \A x \in Ids \ {e} : b.entry[x] = c.entry[x]
  BY <1>2, WithEntryFields
<1>4. ListsOK(b, h2) /\ In(b) = In(c) \cup {e} /\ e \notin In(c) /\ h[e] = 0
  BY WithEntryOK
<1> HIDE DEF b, d, h2
<1>5. o \in Ids => o \in In(c) /\ c.entry[o].key = f /\ o # e
  BY <1>4 DEF ShardOK, TableOK
<1>6. /\ ListsOK(m, h2) /\ SameKeys(b, m) /\ m.table = b.table
      /\ In(m) = (In(c) \cup {e}) \ {o}
  <2>1. CASE o = NULL
    <3>1. m = b
      BY <2>1 DEF FinishErase
    <3>2. NULL \notin In(b)
      BY <1>2 DEF In
    <3>3. QED
      BY <1>4, <2>1, <3>1, <3>2 DEF SameKeys
  <2>2. CASE o \in Ids
    <3>1. o \in In(b)
      BY <1>4, <1>5, <2>2
    <3>2. QED
      BY <1>2, <1>4, <3>1, FinishEraseOK
  <2>3. QED
    BY <1>2, <2>1, <2>2
<1> HIDE DEF m
<1>7. e \in In(m)
  BY <1>2, <1>5, <1>6
<1>8. \A x \in Ids : m.entry[x].key = IF x = e THEN f ELSE c.entry[x].key
  BY <1>3, <1>6 DEF SameKeys
<1>9. \A g \in Files : m.table[g] = IF g = f THEN e ELSE c.table[g]
  BY <1>2, <1>3, <1>6
<1>10. TableOK(m)
  <2>1. SUFFICES ASSUME NEW g \in Files, NEW x \in Ids
                 PROVE  m.table[g] = x <=> x \in In(m) /\ m.entry[x].key = g
    BY DEF TableOK
  <2>2. /\ c.table[g] = x <=> x \in In(c) /\ c.entry[x].key = g
        /\ c.table[f] = x <=> x \in In(c) /\ c.entry[x].key = f
        /\ c.table[g] = e <=> e \in In(c) /\ c.entry[e].key = g
    BY DEF ShardOK, TableOK
  <2>3. CASE x = e
    BY <1>4, <1>7, <1>8, <1>9, <2>2, <2>3
  <2>4. CASE x # e
    BY <1>6, <1>8, <1>9, <2>2, <2>4
  <2>5. QED
    BY <2>3, <2>4
<1>11. ShardOK(m, h2)
  BY <1>6, <1>10 DEF ShardOK
<1>12. TrimmedOK(m, h2, d, Len(m.lru))
  BY <1>1, <1>2, <1>11, TrimOK
<1>13. Len(d.lru) + Len(m.lru) <= Len(m.lru) => d.lru = << >>
  <2>1. m.lru \in Seq(Ids) /\ d.lru \in Seq(Ids)
    BY <1>11, <1>12 DEF TrimmedOK, ShardOK, ListsOK, Shard, EntryType
  <2>2. PICK x, y : x = Len(d.lru) /\ y = Len(m.lru)
    OBVIOUS
  <2>3. x \in Nat /\ y \in Nat
    BY <2>1, <2>2
  <2>4. x + y <= y => x = 0
    BY <2>3
  <2>5. x = 0 => d.lru = << >>
    BY <2>1, <2>2, EmptySeq
  <2>6. QED
    BY <2>2, <2>4, <2>5
<1>14. h2[e] > 0
  BY DEF h2
<1>15. /\ e \in In(d) /\ In(d) \subseteq In(c) \cup {e}
  BY <1>6, <1>7, <1>12, <1>14 DEF TrimmedOK
<1>16. \A x \in Ids : d.entry[x].key = IF x = e THEN f ELSE c.entry[x].key
  BY <1>8, <1>12 DEF TrimmedOK, SameKeys
<1>17. \A g \in Files : d.table[g] # NULL => g = f \/ c.table[g] # NULL
  BY <1>9, <1>12 DEF TrimmedOK
<1>18. d.usage <= Capacity \/ d.lru = << >>
  BY <1>12, <1>13 DEF TrimmedOK
<1>19. InsertedOK(c, d, f, e)
  BY <1>15, <1>16, <1>17, <1>18 DEF InsertedOK
<1>20. QED
  BY <1>12, <1>19 DEF TrimmedOK, d, h2

\* The handles of an entry, when r is what the readers are doing: who has it and
\* for which file.
Holders(r, e) == {p \in Threads \X Files : r[p[1]].handle[p[2]] = e}
Counts(r) == [e \in Ids |-> Cardinality(Holders(r, e))]

HandleType == [Files -> Ids \cup {NULL}]

ReaderType == [pc : {"idle", "reading", "opening", "opened"},
               version : SUBSET Files, file : Files \cup {NULL},
               handle : HandleType]

\* A reader that begins has no handle, one that opens a table names a file of its
\* version that it has no handle of, and a handle is one of its file's table.
ReadersOK ==
  /\ reader \in [Threads -> ReaderType]
  /\ \A t \in Threads :
       /\ reader[t].pc = "idle" => \A f \in Files : reader[t].handle[f] = NULL
       /\ reader[t].pc \in {"opening", "opened"} =>
            reader[t].file \in reader[t].version /\ reader[t].handle[reader[t].file] = NULL
       /\ \A f \in Files : reader[t].handle[f] # NULL =>
            cache.entry[reader[t].handle[f]].key = f
       /\ reader[t].version \subseteq disk

FilesOK ==
  /\ disk \subseteq Files /\ current \subseteq disk
  /\ \A f \in Files : cache.table[f] # NULL => f \in disk

ShardInv == ShardOK(cache, Counts(reader))

CacheIInv == ShardInv /\ ReadersOK /\ FilesOK

\* The handles of an entry can be counted.
LEMMA HoldersFinite ==
  ASSUME TableCacheAssumption, NEW r, NEW e
  PROVE  /\ IsFiniteSet(Holders(r, e)) /\ Cardinality(Holders(r, e)) \in Nat
         /\ Cardinality(Holders(r, e)) = 0 <=> Holders(r, e) = {}
<1>1. Holders(r, e) \in SUBSET (Threads \X Files) /\ IsFiniteSet(Threads \X Files)
  BY IdsFinite DEF Holders
<1>2. IsFiniteSet(Holders(r, e))
  BY <1>1, FS_Subset
<1>3. QED
  BY <1>2, FS_CardinalityType, FS_EmptySet

\* When handles are of the right keys, a reader has at most one of an entry.
LEMMA HoldersFew ==
  ASSUME TableCacheAssumption, ReadersOK, NEW e \in Ids
  PROVE  Cardinality(Holders(reader, e)) <= Cardinality(Threads)
<1> DEFINE H == Holders(reader, e)
           g == [p \in H |-> p[1]]
<1>1. \A p \in H : p \in Threads \X Files /\ p[2] = cache.entry[e].key
  BY IdsFinite DEF Holders, ReadersOK
<1>2. g \in Injection(H, Threads)
  <2>1. g \in [H -> Threads]
    BY <1>1
  <2>2. \A p, q \in H : g[p] = g[q] => p = q
    BY <1>1
  <2>3. QED
    BY <2>1, <2>2 DEF Injection, IsInjective
<1>3. QED
  BY <1>2, FS_Injection DEF TableCacheAssumption

\* Every entry has a number of handles.
LEMMA CountsType ==
  ASSUME TableCacheAssumption, NEW r
  PROVE  Counts(r) \in [Ids -> Nat]
BY HoldersFinite DEF Counts

\* The counts stay when no handle changes ...
LEMMA SameCounts ==
  ASSUME NEW r, NEW s, \A t \in Threads : s[t].handle = r[t].handle
  PROVE  Counts(s) = Counts(r)
<1>1. \A e \in Ids : Holders(s, e) = Holders(r, e)
  BY DEF Holders
<1>2. QED
  BY <1>1 DEF Counts

\* Between r and s, reader t takes a handle e of file f's table.
Takes(r, s, t, f, e) ==
  /\ r[t].handle \in HandleType /\ r[t].handle[f] = NULL
  /\ s[t].handle = [r[t].handle EXCEPT ![f] = e]
  /\ \A u \in Threads \ {t} : s[u].handle = r[u].handle

\* ... one grows when a reader takes a handle ...
LEMMA CountsUp ==
  ASSUME TableCacheAssumption, NEW r, NEW s, NEW t \in Threads, NEW f \in Files, NEW e \in Ids,
         Takes(r, s, t, f, e)
  PROVE  Counts(s) = [Counts(r) EXCEPT ![e] = Counts(r)[e] + 1]
<1> DEFINE p == <<t, f>>
<1>1. NULL \notin Ids
  BY IdsFinite
<1>2. /\ s[t].handle[f] = e
      /\ \A u \in Threads, g \in Files : <<u, g>> # p => s[u].handle[g] = r[u].handle[g]
  BY DEF HandleType, Takes
<1>3. \A q \in Threads \X Files :
         q # p => s[q[1]].handle[q[2]] = r[q[1]].handle[q[2]]
  BY <1>2
<1>4. /\ p \in Threads \X Files /\ p[1] = t /\ p[2] = f
  OBVIOUS
<1> HIDE DEF p
<1>5. p \notin Holders(r, e) /\ Holders(s, e) = Holders(r, e) \cup {p}
  BY <1>1, <1>2, <1>3, <1>4 DEF Holders, Takes
<1>6. \A x \in Ids \ {e} : Holders(s, x) = Holders(r, x)
  BY <1>1, <1>2, <1>3, <1>4 DEF Holders, Takes
<1>7. IsFiniteSet(Holders(r, e))
  BY HoldersFinite
<1>8. Cardinality(Holders(r, e) \cup {p}) = Cardinality(Holders(r, e)) + 1
  BY <1>5, <1>7, FS_AddElement
<1>9. \A x \in Ids : Counts(s)[x] = IF x = e THEN Counts(r)[e] + 1 ELSE Counts(r)[x]
  BY <1>5, <1>6, <1>8 DEF Counts
<1>10. /\ Counts(s) = [x \in Ids |-> Counts(s)[x]]
       /\ Counts(r) = [x \in Ids |-> Counts(r)[x]]
  BY DEF Counts
<1>11. QED
  <2>1. PICK a, b : a = Counts(s) /\ b = Counts(r)
    OBVIOUS
  <2>2. /\ a = [x \in Ids |-> a[x]] /\ b = [x \in Ids |-> b[x]]
        /\ \A x \in Ids : a[x] = IF x = e THEN b[e] + 1 ELSE b[x]
    BY <1>9, <1>10, <2>1
  <2>3. a = [b EXCEPT ![e] = b[e] + 1]
    BY <2>2
  <2>4. QED
    BY <2>1, <2>3

\* ... and shrinks when it gives it back.
LEMMA CountsDown ==
  ASSUME TableCacheAssumption, NEW r, NEW s, NEW t \in Threads, NEW f \in Files, NEW e \in Ids,
         r[t].handle[f] = e, r[t].handle \in HandleType,
         s[t].handle = [r[t].handle EXCEPT ![f] = NULL],
         \A u \in Threads \ {t} : s[u].handle = r[u].handle
  PROVE  Counts(s) = [Counts(r) EXCEPT ![e] = Counts(r)[e] - 1] /\ Counts(r)[e] > 0
<1>1. /\ s[t].handle \in HandleType /\ s[t].handle[f] = NULL
      /\ r[t].handle = [s[t].handle EXCEPT ![f] = e]
  <2>1. PICK a, b : a = r[t].handle /\ b = s[t].handle
    OBVIOUS
  <2>2. a \in HandleType /\ a[f] = e /\ b = [a EXCEPT ![f] = NULL]
    BY <2>1
  <2>3. b \in HandleType /\ b[f] = NULL /\ a = [b EXCEPT ![f] = e]
    BY <2>2 DEF HandleType
  <2>4. QED
    BY <2>1, <2>3
<1>2. Counts(r) = [Counts(s) EXCEPT ![e] = Counts(s)[e] + 1]
  <2>1. Takes(s, r, t, f, e)
    BY <1>1 DEF Takes
  <2>2. QED
    BY <2>1, CountsUp
<1>3. PICK a, b : a = Counts(s) /\ b = Counts(r)
  OBVIOUS
<1>4. a \in [Ids -> Nat] /\ b = [a EXCEPT ![e] = a[e] + 1]
  BY <1>2, <1>3, CountsType
<1>5. a = [b EXCEPT ![e] = b[e] - 1] /\ b[e] > 0
  <2>1. b \in [Ids -> Nat] /\ b[e] = a[e] + 1 /\ a[e] \in Nat /\ \A x \in Ids \ {e} : b[x] = a[x]
    BY <1>4
  <2>2. b[e] - 1 = a[e] /\ b[e] > 0
    BY <2>1
  <2>3. a = [b EXCEPT ![e] = a[e]]
    BY <1>4, <2>1
  <2>4. QED
    BY <2>2, <2>3
<1>6. QED
  BY <1>3, <1>5

\* A count is positive exactly for the entries somebody holds.
LEMMA CountsHeld ==
  ASSUME TableCacheAssumption, NEW e \in Ids
  PROVE  Counts(reader)[e] > 0 <=> e \in Held
<1>1. NULL \notin Ids
  BY IdsFinite
<1>2. e \in Held <=> \E t \in Threads, f \in Files : reader[t].handle[f] = e
  BY <1>1 DEF Held
<1>3. (\E t \in Threads, f \in Files : reader[t].handle[f] = e) <=> Holders(reader, e) # {}
  <2>1. ASSUME NEW t \in Threads, NEW f \in Files, reader[t].handle[f] = e
        PROVE  <<t, f>> \in Holders(reader, e)
    BY <2>1 DEF Holders
  <2>2. ASSUME NEW p \in Holders(reader, e)
        PROVE  p[1] \in Threads /\ p[2] \in Files /\ reader[p[1]].handle[p[2]] = e
    BY DEF Holders
  <2>3. QED
    BY <2>1, <2>2
<1>4. QED
  BY <1>2, <1>3, HoldersFinite DEF Counts

\* A list without repetitions is as long as its set.
LEMMA OnceLength ==
  ASSUME NEW S, NEW s \in Seq(S), Once(s)
  PROVE  Cardinality(ToSet(s)) = Len(s)
<1>1. Len(s) \in Nat /\ DOMAIN s = 1..Len(s)
  OBVIOUS
<1>2. s \in [1..Len(s) -> ToSet(s)]
  BY DEF ToSet
<1>3. s \in Bijection(1..Len(s), ToSet(s))
  <2>1. \A x \in ToSet(s) : \E i \in 1..Len(s) : s[i] = x
    BY <1>1 DEF ToSet
  <2>2. \A i, j \in 1..Len(s) : s[i] = s[j] => i = j
    BY <1>1 DEF Once
  <2>3. s \in Surjection(1..Len(s), ToSet(s))
    BY <1>2, <2>1 DEF Surjection
  <2>4. s \in Injection(1..Len(s), ToSet(s))
    BY <1>2, <2>2 DEF Injection, IsInjective
  <2>5. QED
    BY <2>3, <2>4 DEF Bijection
<1>4. ExistsBijection(1..Len(s), ToSet(s))
  BY <1>3 DEF ExistsBijection
<1>5. QED
  BY <1>1, <1>4, FS_CountingElements

\* The inductive invariant says all that the runs check but for the size.
LEMMA CacheIInvIsStrong ==
  ASSUME TableCacheAssumption, CacheIInv
  PROVE  CacheInv
<1> DEFINE h == Counts(reader)
<1>1. h \in [Ids -> Nat] /\ \A e \in Ids : h[e] > 0 <=> e \in Held
  BY CountsType, CountsHeld
<1>2. \A e \in Ids : h[e] <= Cardinality(Threads)
  BY HoldersFew DEF Counts, CacheIInv
<1>3. /\ cache \in Shard /\ TableOK(cache) /\ Once(cache.lru)
      /\ \A e \in Ids : cache.entry[e].refs = h[e] + (IF cache.entry[e].in_cache THEN 1 ELSE 0)
      /\ ToSet(cache.lru) = {e \in In(cache) : h[e] = 0}
      /\ cache.in_use = {e \in In(cache) : h[e] > 0}
      /\ cache.usage = Cardinality(In(cache))
  BY DEF CacheIInv, ShardInv, ShardOK, ListsOK
<1>4. In(cache) = Cached /\ Cached \subseteq Ids
  BY DEF In, Cached
<1> HIDE DEF h
<1>5. CacheTypeOK
  <2>1. cache.usage \in 0..Cardinality(Ids)
    BY <1>3, InFinite
  <2>2. cache.entry \in [Ids -> Entry]
    <3>1. \A e \in Ids : cache.entry[e] \in EntryType
      BY <1>3 DEF Shard, EntryType
    <3>2. \A e \in Ids : cache.entry[e].refs \in 0..(Cardinality(Threads) + 2)
      <4>1. Cardinality(Threads) \in Nat
        BY IdsFinite
      <4>2. QED
        BY <1>1, <1>2, <1>3, <4>1
    <3>3. cache.entry = [e \in Ids |-> cache.entry[e]]
      BY <1>3 DEF Shard, EntryType
    <3>4. QED
      BY <3>1, <3>2, <3>3 DEF Entry, EntryType
  <2>3. cache \in [entry : [Ids -> Entry], table : [Files -> Ids \cup {NULL}],
                   lru : Seq(Ids), in_use : SUBSET Ids, usage : 0..Cardinality(Ids)]
    BY <1>3, <2>1, <2>2 DEF Shard, EntryType
  <2>4. QED
    BY <2>3 DEF CacheTypeOK, CacheIInv, ReadersOK, FilesOK, ReaderType, HandleType
<1>6. ClosedWhenUnused
  <2>1. Held \subseteq Ids
    BY DEF Held, CacheIInv, ReadersOK, ReaderType, HandleType
  <2>2. \A e \in Ids : cache.entry[e].refs > 0 <=> (h[e] > 0 \/ cache.entry[e].in_cache)
    BY <1>1, <1>3
  <2>3. Alive = Cached \cup Held
    BY <1>1, <2>1, <2>2 DEF Alive, Cached
  <2>4. QED
    BY <2>3 DEF ClosedWhenUnused, CacheIInv, ReadersOK, ReaderType
<1>7. ListsAgree
  <2>1. ToSet(cache.lru) = Cached \ Held /\ cache.in_use = Cached \cap Held
    BY <1>1, <1>3, <1>4
  <2>2. Len(cache.lru) = Cardinality(ToSet(cache.lru))
    BY <1>3, OnceLength DEF Shard, EntryType
  <2>3. \A f \in Files, e \in Ids :
          cache.table[f] = e <=> cache.entry[e].in_cache /\ cache.entry[e].key = f
    BY <1>3 DEF TableOK, In
  <2>4. QED
    BY <1>3, <1>4, <2>1, <2>2, <2>3 DEF ListsAgree
<1>8. NoStaleTable
  BY DEF CacheIInv, ReadersOK, FilesOK, NoStaleTable, ReaderType
<1>9. QED
  BY <1>5, <1>6, <1>7, <1>8 DEF CacheInv

\* Nobody reads and nothing is cached at the beginning.
LEMMA InitCacheIInv ==
  ASSUME TableCacheAssumption, CacheInit
  PROVE  CacheIInv
<1> DEFINE f0 == CHOOSE f \in Files : TRUE
           r0 == [key |-> f0, refs |-> 0, in_cache |-> FALSE]
<1>1. f0 \in Files /\ NULL \notin Ids
  BY IdsFinite DEF TableCacheAssumption
<1>2. /\ cache = [entry |-> [e \in Ids |-> r0], table |-> [f \in Files |-> NULL],
                  lru |-> << >>, in_use |-> {}, usage |-> 0]
      /\ disk = FirstFiles /\ current = FirstFiles
      /\ \A t \in Threads : reader[t] = NoReader
      /\ reader = [t \in Threads |-> NoReader]
  BY DEF CacheInit
<1>3. \A e \in Ids : Counts(reader)[e] = 0
  <2>1. \A e \in Ids : Holders(reader, e) = {}
    <3>1. \A p \in Threads \X Files : reader[p[1]].handle[p[2]] = NULL
      BY <1>2 DEF NoReader
    <3>2. QED
      BY <1>1, <3>1 DEF Holders
  <2>2. QED
    BY <2>1, FS_EmptySet DEF Counts
<1>4. r0 \in EntryType /\ ~r0.in_cache /\ r0.refs = 0
  BY <1>1 DEF EntryType
<1> HIDE DEF r0
<1>5. /\ cache.entry = [e \in Ids |-> r0] /\ cache.table = [f \in Files |-> NULL]
      /\ cache.lru = << >> /\ cache.in_use = {} /\ cache.usage = 0
  BY <1>2
<1>6. cache \in Shard
  BY <1>2, <1>4 DEF Shard, EntryType
<1>7. In(cache) = {}
  BY <1>4, <1>5 DEF In
<1>8. ToSet(cache.lru) = {} /\ Once(cache.lru)
  BY <1>5 DEF ToSet, Once
<1>9. ListsOK(cache, Counts(reader))
  <2>1. \A e \in Ids : cache.entry[e].refs =
           Counts(reader)[e] + (IF cache.entry[e].in_cache THEN 1 ELSE 0)
    BY <1>3, <1>4, <1>5
  <2>2. cache.usage = Cardinality(In(cache))
    BY <1>5, <1>7, FS_EmptySet
  <2>3. QED
    BY <1>5, <1>6, <1>7, <1>8, <2>1, <2>2 DEF ListsOK
<1>10. TableOK(cache)
  BY <1>1, <1>5, <1>7 DEF TableOK
<1>11. ReadersOK
  <2>1. NoReader \in ReaderType
    BY DEF NoReader, ReaderType, HandleType
  <2>2. /\ NoReader.pc = "idle" /\ NoReader.version = {}
        /\ \A f \in Files : NoReader.handle[f] = NULL
    BY DEF NoReader
  <2>3. QED
    BY <1>2, <2>1, <2>2 DEF ReadersOK
<1>12. FilesOK
  BY <1>2, <1>5 DEF FilesOK, TableCacheAssumption
<1>13. QED
  BY <1>9, <1>10, <1>11, <1>12 DEF CacheIInv, ShardInv, ShardOK

\* What a step of one reader has to keep, when it changes nothing else but the
\* shard: r is what the reader does next.
LEMMA ReaderStep ==
  ASSUME ReadersOK, FilesOK, NEW t \in Threads, NEW r \in ReaderType,
         reader' = [reader EXCEPT ![t] = r], UNCHANGED <<disk, current>>,
         r.pc = "idle" => \A f \in Files : r.handle[f] = NULL,
         r.pc \in {"opening", "opened"} => r.file \in r.version /\ r.handle[r.file] = NULL,
         \A f \in Files : r.handle[f] # NULL => cache'.entry[r.handle[f]].key = f,
         r.version \subseteq disk,
         \A u \in Threads \ {t}, f \in Files : reader[u].handle[f] # NULL =>
            cache'.entry[reader[u].handle[f]].key = cache.entry[reader[u].handle[f]].key,
         \A f \in Files : cache'.table[f] # NULL => cache.table[f] # NULL \/ f \in r.version
  PROVE  ReadersOK' /\ FilesOK'
<1>1. /\ \A u \in Threads : reader'[u] = IF u = t THEN r ELSE reader[u]
      /\ disk' = disk /\ current' = current
  BY DEF ReadersOK
<1>2. reader' \in [Threads -> ReaderType]
  BY DEF ReadersOK
<1>3. ReadersOK'
  <2>1. ASSUME NEW u \in Threads
        PROVE  /\ reader'[u].pc = "idle" => \A f \in Files : reader'[u].handle[f] = NULL
               /\ reader'[u].pc \in {"opening", "opened"} =>
                    /\ reader'[u].file \in reader'[u].version
                    /\ reader'[u].handle[reader'[u].file] = NULL
               /\ \A f \in Files : reader'[u].handle[f] # NULL =>
                    cache'.entry[reader'[u].handle[f]].key = f
               /\ reader'[u].version \subseteq disk'
    <3>1. CASE u = t
      BY <1>1, <3>1
    <3>2. CASE u # t
      BY <1>1, <3>2 DEF ReadersOK
    <3>3. QED
      BY <3>1, <3>2
  <2>2. QED
    BY <1>2, <2>1 DEF ReadersOK
<1>4. FilesOK'
  BY <1>1 DEF FilesOK
<1>5. QED
  BY <1>3, <1>4

\* A step of a reader that leaves the shard and all handles alone.
LEMMA QuietStep ==
  ASSUME CacheIInv, NEW t \in Threads, NEW r \in ReaderType,
         reader' = [reader EXCEPT ![t] = r], UNCHANGED <<cache, disk, current>>,
         r.handle = reader[t].handle,
         r.pc = "idle" => \A f \in Files : r.handle[f] = NULL,
         r.pc \in {"opening", "opened"} => r.file \in r.version /\ r.handle[r.file] = NULL,
         r.version \subseteq disk
  PROVE  CacheIInv'
<1>1. \A f \in Files : r.handle[f] # NULL => cache'.entry[r.handle[f]].key = f
  BY DEF CacheIInv, ReadersOK
<1>2. ReadersOK' /\ FilesOK'
  BY <1>1, ReaderStep DEF CacheIInv
<1>3. \A u \in Threads : reader'[u].handle = reader[u].handle
  BY DEF CacheIInv, ReadersOK
<1>4. Counts(reader') = Counts(reader)
  BY <1>3, SameCounts
<1>5. QED
  BY <1>2, <1>4 DEF CacheIInv, ShardInv

\* Two readers that hold nothing have the same handles.
LEMMA NoHandles ==
  ASSUME NEW h \in HandleType, \A f \in Files : h[f] = NULL
  PROVE  h = NoReader.handle
<1>1. h = [f \in Files |-> NULL]
  BY DEF HandleType
<1>2. QED
  BY <1>1 DEF NoReader

\* A reader takes the files of the current version, which are on the disk.
LEMMA BeginReadKeeps ==
  ASSUME CacheIInv, NEW t \in Threads, BeginRead(t)
  PROVE  CacheIInv'
<1> DEFINE r == [NoReader EXCEPT !.pc = "reading", !.version = current]
<1>1. reader' = [reader EXCEPT ![t] = r] /\ UNCHANGED <<cache, disk, current>>
  BY DEF BeginRead, Reads
<1>2. current \subseteq disk /\ disk \subseteq Files
  BY DEF CacheIInv, FilesOK
<1>3. /\ r \in ReaderType /\ r.pc = "reading" /\ r.version = current
      /\ r.handle = NoReader.handle
  BY <1>2 DEF NoReader, ReaderType, HandleType
<1>4. reader[t].handle \in HandleType /\ \A f \in Files : reader[t].handle[f] = NULL
  BY DEF BeginRead, CacheIInv, ReadersOK, ReaderType
<1>5. r.handle = reader[t].handle
  BY <1>3, <1>4, NoHandles
<1> HIDE DEF r
<1>6. QED
  BY <1>1, <1>2, <1>3, <1>5, QuietStep

\* Opening a table changes nothing but what the reader does next.
LEMMA OpenTableKeeps ==
  ASSUME CacheIInv, NEW t \in Threads, OpenTable(t)
  PROVE  CacheIInv'
<1>1. /\ reader[t] \in ReaderType /\ reader[t].pc = "opening"
      /\ reader[t].version \subseteq disk
      /\ reader[t].file \in reader[t].version /\ reader[t].handle[reader[t].file] = NULL
  BY DEF OpenTable, CacheIInv, ReadersOK
<1>2. UNCHANGED <<cache, disk, current>>
  BY DEF OpenTable
<1>3. PICK q : q = reader[t]
  OBVIOUS
<1>4. PICK r : /\ reader' = [reader EXCEPT ![t] = r]
               /\ r = [q EXCEPT !.pc = "opened"] \/ r = [q EXCEPT !.pc = "reading", !.file = NULL]
  BY <1>3 DEF OpenTable, Reads
<1>5. r \in ReaderType /\ r.handle = q.handle /\ r.version = q.version
      /\ (r.pc = "reading" \/ (r.pc = "opened" /\ r.file = q.file))
  BY <1>1, <1>3, <1>4 DEF ReaderType
<1>6. QED
  BY <1>1, <1>2, <1>3, <1>4, <1>5, QuietStep

\* A reader that ends holds nothing.
LEMMA EndReadKeeps ==
  ASSUME CacheIInv, NEW t \in Threads, EndRead(t)
  PROVE  CacheIInv'
<1>1. reader' = [reader EXCEPT ![t] = NoReader] /\ UNCHANGED <<cache, disk, current>>
  BY DEF EndRead, Reads
<1>2. /\ NoReader \in ReaderType /\ NoReader.pc = "idle" /\ NoReader.version = {}
      /\ \A f \in Files : NoReader.handle[f] = NULL
  BY DEF NoReader, ReaderType, HandleType
<1>3. reader[t].handle \in HandleType /\ \A f \in Files : reader[t].handle[f] = NULL
  BY DEF EndRead, CacheIInv, ReadersOK, ReaderType
<1>4. NoReader.handle = reader[t].handle
  BY <1>3, NoHandles
<1>5. QED
  BY <1>1, <1>2, <1>4, QuietStep

\* A table that is found is held once more; one that is not, is opened.
LEMMA FindTableKeeps ==
  ASSUME TableCacheAssumption, CacheIInv, NEW t \in Threads, NEW f \in Files, FindTable(t, f)
  PROVE  /\ CacheIInv'
         /\ \/ cache' = cache
            \/ In(cache') = In(cache) /\ Held' \subseteq Held \cup In(cache)
<1> DEFINE e == cache.table[f]
           h == Counts(reader)
<1>1. /\ reader[t] \in ReaderType /\ reader[t].pc = "reading" /\ reader[t].handle[f] = NULL
      /\ f \in reader[t].version /\ reader[t].version \subseteq disk
      /\ reader[t].handle \in HandleType
      /\ \A g \in Files : reader[t].handle[g] # NULL => cache.entry[reader[t].handle[g]].key = g
      /\ UNCHANGED <<disk, current>>
  BY DEF FindTable, CacheIInv, ReadersOK, ReaderType
<1>2. ShardOK(cache, h) /\ h \in [Ids -> Nat] /\ e \in Ids \cup {NULL} /\ NULL \notin Ids
  BY CountsType, IdsFinite DEF CacheIInv, ShardInv, ShardOK, ListsOK, Shard, EntryType
<1>3. PICK q : q = reader[t]
  OBVIOUS
<1>4. CASE e = NULL
  <2> DEFINE r == [q EXCEPT !.pc = "opening", !.file = f]
  <2>1. reader' = [reader EXCEPT ![t] = r] /\ UNCHANGED cache
    BY <1>3, <1>4 DEF FindTable, Reads
  <2>2. /\ r \in ReaderType /\ r.handle = q.handle /\ r.pc = "opening" /\ r.file = f
        /\ r.version = q.version
    BY <1>1, <1>3 DEF ReaderType
  <2> HIDE DEF r
  <2>3. QED
    BY <1>1, <1>3, <2>1, <2>2, QuietStep
<1>5. CASE e # NULL
  <2> DEFINE hs == [q.handle EXCEPT ![f] = e]
             r == [q EXCEPT !.handle[f] = e]
  <2>1. reader' = [reader EXCEPT ![t] = r] /\ cache' = Ref(cache, e)
    BY <1>3, <1>5 DEF FindTable, Reads
  <2>2. e \in Ids /\ e \in In(cache) /\ cache.entry[e].key = f
    BY <1>2, <1>5 DEF ShardOK, TableOK
  <2>3. hs \in HandleType /\ \A g \in Files : hs[g] = IF g = f THEN e ELSE q.handle[g]
    BY <1>1, <1>3, <2>2 DEF HandleType
  <2>4. r = [q EXCEPT !.handle = hs]
    OBVIOUS
  <2> HIDE DEF hs
  <2>5. /\ r \in ReaderType /\ r.handle = hs /\ r.pc = "reading" /\ r.version = q.version
    BY <1>1, <1>3, <2>3, <2>4 DEF ReaderType
  <2> HIDE DEF r, e
  <2>6. /\ ShardOK(cache', [h EXCEPT ![e] = h[e] + 1]) /\ SameKeys(cache, cache')
        /\ cache'.table = cache.table /\ In(cache') = In(cache)
    BY <1>2, <2>1, <2>2, RefOK
  <2>7. \A u \in Threads : reader'[u] = IF u = t THEN r ELSE reader[u]
    BY <2>1 DEF CacheIInv, ReadersOK
  <2>8. Counts(reader') = [h EXCEPT ![e] = h[e] + 1]
    <3>1. Takes(reader, reader', t, f, e)
      BY <1>1, <1>3, <2>5, <2>7 DEF Takes, hs
    <3>2. QED
      BY <2>2, <3>1, CountsUp
  <2>9. \A x \in Ids : cache'.entry[x].key = cache.entry[x].key
    BY <2>6 DEF SameKeys
  <2>10. \A u \in Threads, g \in Files : reader[u].handle[g] \in Ids \cup {NULL}
    BY DEF CacheIInv, ReadersOK, ReaderType, HandleType
  <2>11. \A g \in Files : r.handle[g] # NULL => cache'.entry[r.handle[g]].key = g
    BY <1>1, <1>3, <2>2, <2>3, <2>5, <2>9, <2>10
  <2>12. \A u \in Threads \ {t}, g \in Files : reader[u].handle[g] # NULL =>
            cache'.entry[reader[u].handle[g]].key = cache.entry[reader[u].handle[g]].key
    BY <2>9, <2>10
  <2>13. ReadersOK' /\ FilesOK'
    BY <1>1, <1>3, <2>1, <2>5, <2>6, <2>11, <2>12, ReaderStep DEF CacheIInv
  <2>14. Held' \subseteq Held \cup In(cache)
    BY <1>3, <2>2, <2>3, <2>5, <2>7 DEF Held
  <2>15. QED
    BY <2>6, <2>8, <2>13, <2>14 DEF CacheIInv, ShardInv
<1>6. QED
  BY <1>4, <1>5

\* A reader gives back what it held; nothing leaves the cache.
LEMMA ReleaseKeeps ==
  ASSUME TableCacheAssumption, CacheIInv, NEW t \in Threads, NEW f \in Files, Release(t, f)
  PROVE  CacheIInv' /\ In(cache') = In(cache) /\ Held' \subseteq Held
<1> DEFINE e == reader[t].handle[f]
           h == Counts(reader)
<1>1. /\ reader[t] \in ReaderType /\ reader[t].pc = "reading" /\ e \in Ids
      /\ reader[t].version \subseteq disk /\ reader[t].handle \in HandleType
      /\ \A g \in Files : reader[t].handle[g] # NULL => cache.entry[reader[t].handle[g]].key = g
      /\ UNCHANGED <<disk, current>> /\ cache' = Unref(cache, e)
  BY DEF Release, CacheIInv, ReadersOK, ReaderType, HandleType
<1>2. ShardOK(cache, h) /\ h \in [Ids -> Nat] /\ NULL \notin Ids
  BY CountsType, IdsFinite DEF CacheIInv, ShardInv
<1>3. PICK q : q = reader[t]
  OBVIOUS
<1> DEFINE hs == [q.handle EXCEPT ![f] = NULL]
           r == [q EXCEPT !.handle[f] = NULL]
<1>4. reader' = [reader EXCEPT ![t] = r]
  BY <1>3 DEF Release, Reads
<1>5. hs \in HandleType /\ \A g \in Files : hs[g] = IF g = f THEN NULL ELSE q.handle[g]
  BY <1>1, <1>3 DEF HandleType
<1>6. r = [q EXCEPT !.handle = hs]
  OBVIOUS
<1> HIDE DEF hs
<1>7. r \in ReaderType /\ r.handle = hs /\ r.pc = "reading" /\ r.version = q.version
  BY <1>1, <1>3, <1>5, <1>6 DEF ReaderType
<1> HIDE DEF r
<1>8. \A u \in Threads : reader'[u] = IF u = t THEN r ELSE reader[u]
  BY <1>4 DEF CacheIInv, ReadersOK
<1>9. Counts(reader') = [h EXCEPT ![e] = h[e] - 1] /\ h[e] > 0
  BY <1>1, <1>3, <1>7, <1>8, CountsDown DEF hs
<1> HIDE DEF h
<1>10. /\ ShardOK(cache', [h EXCEPT ![e] = h[e] - 1]) /\ SameKeys(cache, cache')
       /\ cache'.table = cache.table /\ In(cache') = In(cache)
  BY <1>1, <1>2, <1>9, UnrefOK
<1>11. \A x \in Ids : cache'.entry[x].key = cache.entry[x].key
  BY <1>10 DEF SameKeys
<1>12. \A u \in Threads, g \in Files : reader[u].handle[g] \in Ids \cup {NULL}
  BY DEF CacheIInv, ReadersOK, ReaderType, HandleType
<1>13. \A g \in Files : r.handle[g] # NULL => cache'.entry[r.handle[g]].key = g
  BY <1>1, <1>3, <1>5, <1>7, <1>11, <1>12
<1>14. \A u \in Threads \ {t}, g \in Files : reader[u].handle[g] # NULL =>
          cache'.entry[reader[u].handle[g]].key = cache.entry[reader[u].handle[g]].key
  BY <1>11, <1>12
<1>15. ReadersOK' /\ FilesOK'
  BY <1>1, <1>3, <1>4, <1>7, <1>10, <1>13, <1>14, ReaderStep DEF CacheIInv
<1>16. Held' \subseteq Held
  BY <1>3, <1>5, <1>7, <1>8 DEF Held
<1>17. QED
  BY <1>9, <1>10, <1>15, <1>16 DEF CacheIInv, ShardInv

\* An entry that nobody holds and the cache has not is free.
LEMMA InsertTableKeeps ==
  ASSUME TableCacheAssumption, CacheIInv, NEW t \in Threads, InsertTable(t)
  PROVE  /\ CacheIInv'
         /\ \E e \in In(cache') : e \in Held'
         /\ cache'.usage <= Capacity \/ cache'.lru = << >>
<1> DEFINE h == Counts(reader)
           f == reader[t].file
<1>1. /\ reader[t] \in ReaderType /\ reader[t].pc = "opened"
      /\ f \in reader[t].version /\ reader[t].handle[f] = NULL
      /\ reader[t].version \subseteq disk /\ reader[t].handle \in HandleType
      /\ disk \subseteq Files /\ UNCHANGED <<disk, current>>
      /\ \A g \in Files : reader[t].handle[g] # NULL => cache.entry[reader[t].handle[g]].key = g
  BY DEF InsertTable, CacheIInv, ReadersOK, FilesOK, ReaderType
<1>2. ShardOK(cache, h) /\ h \in [Ids -> Nat] /\ NULL \notin Ids /\ f \in Files
  BY <1>1, CountsType, IdsFinite DEF CacheIInv, ShardInv
<1>3. PICK e \in Ids :
        /\ cache.entry[e].refs = 0 /\ cache' = Insert(cache, f, e)
        /\ Reads(t, [reader[t] EXCEPT !.pc = "reading", !.file = NULL, !.handle[f] = e])
  BY DEF InsertTable
<1>4. PICK q : q = reader[t]
  OBVIOUS
<1> DEFINE hs == [q.handle EXCEPT ![f] = e]
           r == [q EXCEPT !.pc = "reading", !.file = NULL, !.handle[f] = e]
<1>5. reader' = [reader EXCEPT ![t] = r]
  BY <1>3, <1>4 DEF Reads
<1>6. hs \in HandleType /\ \A g \in Files : hs[g] = IF g = f THEN e ELSE q.handle[g]
  BY <1>1, <1>4 DEF HandleType
<1>7. r = [q EXCEPT !.pc = "reading", !.file = NULL, !.handle = hs]
  OBVIOUS
<1> HIDE DEF hs
<1>8. r \in ReaderType /\ r.handle = hs /\ r.pc = "reading" /\ r.version = q.version
  BY <1>1, <1>4, <1>6, <1>7 DEF ReaderType
<1> HIDE DEF r
<1>9. \A u \in Threads : reader'[u] = IF u = t THEN r ELSE reader[u]
  BY <1>5 DEF CacheIInv, ReadersOK
<1>10. Counts(reader') = [h EXCEPT ![e] = h[e] + 1]
  <2>1. Takes(reader, reader', t, f, e)
    BY <1>1, <1>4, <1>8, <1>9 DEF Takes, hs
  <2>2. QED
    BY <1>2, <2>1, CountsUp
<1>11. h[e] = 0
  BY <1>2, <1>3 DEF ShardOK, ListsOK
<1>12. Counts(reader') = [h EXCEPT ![e] = 1]
  BY <1>10, <1>11
<1>13. e \notin Held
  BY <1>11, CountsHeld
<1> HIDE DEF h, f
<1>14. ShardOK(cache', [h EXCEPT ![e] = 1]) /\ InsertedOK(cache, cache', f, e)
  BY <1>2, <1>3, <1>11, InsertOK
<1>15. \A u \in Threads, g \in Files : reader[u].handle[g] # NULL =>
          /\ reader[u].handle[g] \in Ids \ {e}
          /\ cache'.entry[reader[u].handle[g]].key = cache.entry[reader[u].handle[g]].key
  <2>1. SUFFICES ASSUME NEW u \in Threads, NEW g \in Files, reader[u].handle[g] # NULL
                 PROVE  reader[u].handle[g] \in Ids \ {e}
    BY <1>14 DEF InsertedOK
  <2>2. reader[u].handle[g] \in Ids
    BY <2>1 DEF CacheIInv, ReadersOK, ReaderType, HandleType
  <2>3. reader[u].handle[g] \in Held
    BY <2>1 DEF Held
  <2>4. QED
    BY <1>13, <2>2, <2>3
<1>16. \A g \in Files : r.handle[g] # NULL => cache'.entry[r.handle[g]].key = g
  BY <1>1, <1>4, <1>6, <1>8, <1>14, <1>15 DEF InsertedOK
<1>17. \A g \in Files : cache'.table[g] # NULL => cache.table[g] # NULL \/ g \in r.version
  BY <1>1, <1>4, <1>8, <1>14 DEF InsertedOK
<1>18. ReadersOK' /\ FilesOK'
  BY <1>1, <1>4, <1>5, <1>8, <1>15, <1>16, <1>17, ReaderStep DEF CacheIInv
<1>19. CacheIInv'
  BY <1>12, <1>14, <1>18 DEF CacheIInv, ShardInv
<1>20. e \in Held'
  BY <1>2, <1>6, <1>8, <1>9 DEF Held
<1>21. QED
  BY <1>14, <1>19, <1>20 DEF InsertedOK

\* A new version names files that are on the disk.
LEMMA InstallKeeps ==
  ASSUME CacheIInv, NEW f \in Files, NEW old \in SUBSET current, Install(f, old)
  PROVE  CacheIInv'
<1>1. /\ disk' = disk \cup {f} /\ current' = (current \ old) \cup {f}
      /\ UNCHANGED <<cache, reader>>
  BY DEF Install
<1>2. ReadersOK'
  BY <1>1 DEF CacheIInv, ReadersOK, ReaderType
<1>3. FilesOK'
  BY <1>1 DEF CacheIInv, FilesOK
<1>4. ShardInv'
  BY <1>1 DEF CacheIInv, ShardInv
<1>5. QED
  BY <1>2, <1>3, <1>4 DEF CacheIInv

\* A file in no version that somebody holds leaves the disk with its table.
LEMMA DeleteObsoleteKeeps ==
  ASSUME TableCacheAssumption, CacheIInv, NEW f \in Files, DeleteObsolete(f)
  PROVE  CacheIInv' /\ In(cache') \subseteq In(cache)
<1> DEFINE h == Counts(reader)
<1>1. /\ f \in disk \ Live /\ cache' = Erase(cache, f) /\ disk' = disk \ {f}
      /\ UNCHANGED <<current, reader>>
  BY DEF DeleteObsolete
<1>2. ShardOK(cache, h) /\ h \in [Ids -> Nat]
  BY CountsType DEF CacheIInv, ShardInv
<1> HIDE DEF h
<1>3. /\ ShardOK(cache', h) /\ SameKeys(cache, cache')
      /\ In(cache') = In(cache) \ {cache.table[f]}
      /\ cache'.table = [cache.table EXCEPT ![f] = NULL]
  BY <1>1, <1>2, EraseOK
<1>4. f \notin current /\ \A t \in Threads : f \notin reader[t].version
  BY <1>1 DEF Live
<1>5. \A x \in Ids : cache'.entry[x].key = cache.entry[x].key
  BY <1>3 DEF SameKeys
<1>6. \A u \in Threads, g \in Files : reader[u].handle[g] \in Ids \cup {NULL}
  BY DEF CacheIInv, ReadersOK, ReaderType, HandleType
<1>7. ReadersOK'
  BY <1>1, <1>4, <1>5, <1>6 DEF CacheIInv, ReadersOK
<1>8. cache.table \in [Files -> Ids \cup {NULL}]
  BY <1>2 DEF ShardOK, ListsOK, Shard, EntryType
<1>9. FilesOK'
  BY <1>1, <1>3, <1>4, <1>8 DEF CacheIInv, FilesOK
<1>10. ShardInv'
  BY <1>1, <1>3 DEF ShardInv, h
<1>11. QED
  BY <1>3, <1>7, <1>9, <1>10 DEF CacheIInv

\* Every step keeps the inductive invariant.
LEMMA NextCacheIInv ==
  ASSUME TableCacheAssumption, CacheIInv, [CacheNext]_cacheVars
  PROVE  CacheIInv'
<1>1. ASSUME NEW t \in Threads, BeginRead(t) PROVE CacheIInv'
  BY <1>1, BeginReadKeeps
<1>2. ASSUME NEW t \in Threads, NEW f \in Files, FindTable(t, f) PROVE CacheIInv'
  BY <1>2, FindTableKeeps
<1>3. ASSUME NEW t \in Threads, OpenTable(t) PROVE CacheIInv'
  BY <1>3, OpenTableKeeps
<1>4. ASSUME NEW t \in Threads, InsertTable(t) PROVE CacheIInv'
  BY <1>4, InsertTableKeeps
<1>5. ASSUME NEW t \in Threads, NEW f \in Files, Release(t, f) PROVE CacheIInv'
  BY <1>5, ReleaseKeeps
<1>6. ASSUME NEW t \in Threads, EndRead(t) PROVE CacheIInv'
  BY <1>6, EndReadKeeps
<1>7. ASSUME NEW f \in Files, NEW old \in SUBSET current, Install(f, old) PROVE CacheIInv'
  BY <1>7, InstallKeeps
<1>8. ASSUME NEW f \in Files, DeleteObsolete(f) PROVE CacheIInv'
  BY <1>8, DeleteObsoleteKeeps
<1>9. CASE UNCHANGED cacheVars
  BY <1>9 DEF cacheVars, CacheIInv, ShardInv, ReadersOK, FilesOK, ReaderType
<1>10. QED
  BY <1>1, <1>2, <1>3, <1>4, <1>5, <1>6, <1>7, <1>8, <1>9 DEF CacheNext

\* table_cache.cc, cache.cc, AddLiveFiles: for any number of readers, files and
\* any capacity, a table is closed exactly when it is neither cached nor held,
\* the hash table and the two lists agree, and no table of a deleted file stays.
THEOREM TablesAreSound ==
  ASSUME TableCacheAssumption PROVE CacheSpec => []CacheInv
<1>1. CacheInit => CacheIInv
  BY InitCacheIInv
<1>2. CacheIInv /\ [CacheNext]_cacheVars => CacheIInv'
  BY NextCacheIInv
<1>3. CacheIInv => CacheInv
  BY CacheIInvIsStrong
<1>4. QED
  BY <1>1, <1>2, <1>3, PTL DEF CacheSpec

\* After an insertion, either every table in the cache is held, or there are no
\* more than Capacity in the cache and the caller holds one of them.
LEMMA InsertIsBounded ==
  ASSUME TableCacheAssumption, CacheIInv, CacheInv', NEW t \in Threads, InsertTable(t)
  PROVE  Cardinality(Alive') <= Capacity + Cardinality(Held') - 1
<1> DEFINE H == Held' \ Cached'
<1>1. Capacity \in Nat \ {0} /\ IsFiniteSet(Ids)
  BY IdsFinite
<1>2. PICK e \in In(cache') : e \in Held'
  BY InsertTableKeeps
<1>3. /\ Alive' = Cached' \cup Held'
      /\ ToSet(cache'.lru) = Cached' \ Held' /\ cache'.usage = Cardinality(Cached')
  BY DEF CacheInv, ClosedWhenUnused, ListsAgree
<1>4. Cached' = In(cache')
  BY DEF Cached, In
<1>5. Held' \in SUBSET Ids /\ Cached' \in SUBSET Ids
  BY <1>3 DEF Alive, Cached
<1>6. /\ IsFiniteSet(Held') /\ Cardinality(Held') \in Nat
      /\ IsFiniteSet(Cached') /\ Cardinality(Cached') \in Nat
  BY <1>1, <1>5, FS_Subset, FS_CardinalityType
<1>7. CASE cache'.lru = << >>
  <2>1. ToSet(cache'.lru) = {}
    BY <1>7 DEF ToSet
  <2>2. Alive' = Held'
    BY <1>3, <2>1
  <2>3. QED
    BY <1>1, <1>6, <2>2
<1>8. CASE cache'.usage <= Capacity
  <2>1. H \in SUBSET (Held' \ {e}) /\ Alive' = Cached' \cup H /\ Cached' \cap H = {}
    BY <1>2, <1>3, <1>4
  <2>2. IsFiniteSet(Held' \ {e}) /\ Cardinality(Held' \ {e}) = Cardinality(Held') - 1
    BY <1>2, <1>6, FS_RemoveElement
  <2>3. IsFiniteSet(H) /\ Cardinality(H) <= Cardinality(Held' \ {e}) /\ Cardinality(H) \in Nat
    BY <2>1, <2>2, FS_Subset, FS_CardinalityType
  <2>4. Cardinality(Cached' \cup H)
          = Cardinality(Cached') + Cardinality(H) - Cardinality(Cached' \cap H)
    BY <1>6, <2>3, FS_Union
  <2>5. Cardinality(Cached' \cap H) = 0
    BY <2>1, FS_EmptySet
  <2> HIDE DEF H
  <2>6. PICK a, b, c : /\ a = Cardinality(Cached') /\ b = Cardinality(H)
                       /\ c = Cardinality(Held')
    OBVIOUS
  <2>7. a <= Capacity /\ b <= c - 1 /\ a \in Nat /\ b \in Nat /\ c \in Nat
    BY <1>3, <1>6, <1>8, <2>2, <2>3, <2>6
  <2>8. Cardinality(Alive') = a + b
    BY <2>1, <2>4, <2>5, <2>6, <2>7
  <2>9. QED
    BY <1>1, <2>6, <2>7, <2>8
<1>9. QED
  BY <1>7, <1>8, InsertTableKeeps

\* There are finitely many open tables, and fewer of them are no more.
LEMMA AliveFinite ==
  ASSUME TableCacheAssumption
  PROVE  /\ Cardinality(Alive) \in Nat /\ Cardinality(Alive') \in Nat
         /\ Alive' \subseteq Alive => Cardinality(Alive') <= Cardinality(Alive)
<1>1. Alive \in SUBSET Ids /\ Alive' \in SUBSET Ids
  BY DEF Alive
<1>2. IsFiniteSet(Alive) /\ IsFiniteSet(Alive')
  BY <1>1, IdsFinite, FS_Subset
<1>3. QED
  BY <1>2, FS_Subset, FS_CardinalityType

\* Every step but an insertion leaves no table open that was not.
LEMMA OthersOpenNone ==
  ASSUME TableCacheAssumption, CacheIInv, CacheInv, CacheInv', [CacheNext]_cacheVars,
         ~ \E t \in Threads : InsertTable(t)
  PROVE  Alive' \subseteq Alive
<1>1. /\ Alive = Cached \cup Held /\ Alive' = Cached' \cup Held'
      /\ Cached = In(cache) /\ Cached' = In(cache')
  BY DEF CacheInv, ClosedWhenUnused, Cached, In
<1>2. CASE UNCHANGED cache
  BY <1>2 DEF Alive
<1>3. ASSUME NEW t \in Threads, NEW f \in Files, FindTable(t, f), cache' # cache
      PROVE  Alive' \subseteq Alive
  BY <1>1, <1>3, FindTableKeeps
<1>4. ASSUME NEW t \in Threads, NEW f \in Files, Release(t, f) PROVE Alive' \subseteq Alive
  BY <1>1, <1>4, ReleaseKeeps
<1>5. ASSUME NEW f \in Files, DeleteObsolete(f) PROVE Alive' \subseteq Alive
  <2>1. Held' = Held
    BY <1>5 DEF DeleteObsolete, Held
  <2>2. QED
    BY <1>1, <1>5, <2>1, DeleteObsoleteKeeps
<1>6. CASE UNCHANGED cacheVars
  BY <1>2, <1>6 DEF cacheVars
<1>7. CASE CacheNext
  BY <1>2, <1>3, <1>4, <1>5, <1>7 DEF CacheNext, BeginRead, OpenTable, EndRead, Install
<1>8. QED
  BY <1>6, <1>7

\* What OpenTablesBounded says of one step.
Opens == Cardinality(Alive') > Cardinality(Alive)
OpensWithin == Opens => Cardinality(Alive') <= Capacity + Cardinality(Held') - 1

LEMMA NextOpensWithin ==
  ASSUME TableCacheAssumption, CacheIInv, CacheInv, CacheInv', [CacheNext]_cacheVars
  PROVE  OpensWithin
<1>1. CASE \E t \in Threads : InsertTable(t)
  BY <1>1, InsertIsBounded DEF OpensWithin
<1>2. CASE ~ \E t \in Threads : InsertTable(t)
  <2>1. Cardinality(Alive') <= Cardinality(Alive)
    BY <1>2, OthersOpenNone, AliveFinite
  <2>2. QED
    BY <2>1, AliveFinite DEF OpensWithin, Opens
<1>3. QED
  BY <1>1, <1>2

\* LRUCache::Insert trims and Release does not, and still a table is opened only
\* while no more are open than the cache has room for and readers hold but one.
THEOREM TablesAreFew ==
  ASSUME TableCacheAssumption PROVE CacheSpec => OpenTablesBounded
<1>1. CacheInit => CacheIInv
  BY InitCacheIInv
<1>2. CacheIInv /\ [CacheNext]_cacheVars => CacheIInv'
  BY NextCacheIInv
<1>3. CacheIInv => CacheInv
  BY CacheIInvIsStrong
<1>4. CacheIInv /\ CacheInv /\ CacheInv' /\ [CacheNext]_cacheVars => OpensWithin
  BY NextOpensWithin
<1>5. CacheSpec => [][OpensWithin]_cacheVars
  BY <1>1, <1>2, <1>3, <1>4, PTL DEF CacheSpec
<1>6. QED
  BY <1>5 DEF OpenTablesBounded, OpensWithin, Opens

\* So, when all readers together never hold more than k tables (a Get one, an
\* iterator or a compaction one of each file of level 0 and of each deeper
\* level), there are never more open than the capacity and k but one.
THEOREM OpenTablesFollowUse ==
  ASSUME TableCacheAssumption, NEW CONSTANT k \in Nat \ {0}
  PROVE  CacheSpec /\ [](Cardinality(Held) <= k)
           => [](Cardinality(Alive) <= Capacity + k - 1)
<1> DEFINE Use == Cardinality(Held) <= k
           Few == Cardinality(Alive) <= Capacity + k - 1
<1>1. CacheInit => CacheIInv /\ Few
  <2> SUFFICES ASSUME CacheInit PROVE Few
    BY InitCacheIInv
  <2>1. Alive = {}
    BY DEF Alive, CacheInit
  <2>2. QED
    BY <2>1, FS_EmptySet, IdsFinite
<1>2. CacheIInv /\ [CacheNext]_cacheVars => CacheIInv'
  BY NextCacheIInv
<1>3. CacheIInv => CacheInv
  BY CacheIInvIsStrong
<1>4. CacheIInv /\ CacheInv /\ CacheInv' /\ Use' /\ Few /\ [CacheNext]_cacheVars => Few'
  <2> SUFFICES ASSUME CacheIInv, CacheInv, CacheInv', Use', Few, [CacheNext]_cacheVars
               PROVE  Few'
    OBVIOUS
  <2>1. OpensWithin
    BY NextOpensWithin
  <2>2. Cardinality(Held') \in Nat /\ Capacity \in Nat
    <3>1. Held' \in SUBSET Ids
      BY DEF CacheInv, ClosedWhenUnused, Alive
    <3>2. QED
      BY <3>1, IdsFinite, FS_Subset, FS_CardinalityType
  <2>3. PICK a, b, c : /\ a = Cardinality(Alive) /\ b = Cardinality(Alive')
                       /\ c = Cardinality(Held')
    OBVIOUS
  <2>4. /\ a \in Nat /\ b \in Nat /\ c \in Nat
        /\ a <= Capacity + k - 1 /\ c <= k
        /\ b > a => b <= Capacity + c - 1
    BY <2>1, <2>2, <2>3, AliveFinite DEF OpensWithin, Opens
  <2>5. b <= Capacity + k - 1
    BY <2>2, <2>4
  <2>6. QED
    BY <2>3, <2>5
<1> HIDE DEF Use, Few
<1>5. CacheSpec /\ []Use => []Few
  BY <1>1, <1>2, <1>3, <1>4, PTL DEF CacheSpec
<1>6. QED
  BY <1>5 DEF Use, Few

-----------------------------------------------------------------------------
(***************************************************************************)
(* What a log gives back, for blocks of any size, any number of records of *)
(* any length and any cut or hole: CutGivesPrefix and DamageIsContained.   *)
(*                                                                         *)
(* Neither is inductive: they speak of a reader that is done, and say      *)
(* nothing of a file while it is written.  LogIInv says what each phase    *)
(* needs, with two things that are no variables: the file w as it was      *)
(* before the damage, and the set F of its fragments.                      *)
(*                                                                         *)
(*   Written   the file is such a w (WrittenOK), F its layout (Layout):    *)
(*             from every fragment the next one starts where the code of   *)
(*             the writer puts it (FragmentAfter), of the type that the    *)
(*             fragments before it ask for (StateAt, Before).              *)
(*   Reading   what is left of the file differs from w only in damaged     *)
(*             blocks or by its end (Damaged); the reader stands where a   *)
(*             fragment of F begins, in a trailer, at the end or in a      *)
(*             damaged block, its buffer has the rest of a block, and what *)
(*             it has put together is the beginning of a record (ReaderOK, *)
(*             Got).                                                       *)
(*   Finished  what came back is what the properties say.                  *)
(*                                                                         *)
(* ReadRecord returns from many places; a lemma for each says that the     *)
(* reader it leaves is again such a reader.                                *)
(***************************************************************************)

\* The offsets where a block starts.
BlockStart == {x \in Nat : x % kBlockSize = 0}

\* Every offset is in one block.
LEMMA BlockOf ==
    ASSUME LogAssumption, NEW p \in Nat
    PROVE  \E s \in BlockStart : s <= p /\ p < s + kBlockSize
<1> DEFINE B == kBlockSize
           d == p \div B
           m == p % B
<1>1. B \in Nat \ {0}
  BY DEF LogAssumption
<1>2. /\ d \in Nat /\ m \in 0..(B - 1) /\ p = B * d + m
  BY <1>1
<1> HIDE DEF d, m, B
<1>3. (p - m) \in Nat /\ p - m = B * d
  BY <1>1, <1>2
<1>4. (B * d) % B = 0
  BY <1>1, <1>2
<1>5. p - m \in BlockStart
  BY <1>3, <1>4 DEF BlockStart, B
<1>6. QED
  BY <1>1, <1>2, <1>5 DEF B

\* A block starts at a multiple of the size.
LEMMA Multiple ==
    ASSUME LogAssumption, NEW s \in BlockStart
    PROVE  \E d \in Nat : s = kBlockSize * d
<1>1. /\ kBlockSize \in Nat \ {0}
      /\ s \in Nat /\ s % kBlockSize = 0
  BY DEF LogAssumption, BlockStart
<1>2. s \div kBlockSize \in Nat /\ s = kBlockSize * (s \div kBlockSize)
  BY <1>1
<1>3. QED
  BY <1>2

LEMMA MultipleStarts ==
    ASSUME LogAssumption, NEW e \in Int
    PROVE  (kBlockSize * e) % kBlockSize = 0
<1>1. kBlockSize \in Nat \ {0}
  BY DEF LogAssumption
<1>2. QED
  BY <1>1

\* Blocks follow each other.
LEMMA NextBlock ==
    ASSUME LogAssumption, NEW s \in BlockStart
    PROVE  s \in Nat /\ s + kBlockSize \in BlockStart
<1>1. kBlockSize \in Nat \ {0} /\ s \in Nat /\ s % kBlockSize = 0
  BY DEF LogAssumption, BlockStart
<1>2. (s + kBlockSize) % kBlockSize = 0
  <2>1. PICK d \in Nat : s = kBlockSize * d
    BY Multiple
  <2>2. d + 1 \in Int /\ s + kBlockSize = kBlockSize * (d + 1)
    BY <1>1, <2>1
  <2>3. (kBlockSize * (d + 1)) % kBlockSize = 0
    BY <2>2, MultipleStarts
  <2>4. QED
    BY <2>2, <2>3
<1>3. QED
  BY <1>1, <1>2 DEF BlockStart

\* And do not overlap.
LEMMA BlocksApart ==
    ASSUME LogAssumption, NEW s \in BlockStart, NEW t \in BlockStart, s < t
    PROVE  s + kBlockSize <= t
<1>1. /\ kBlockSize \in Nat \ {0}
      /\ s \in Nat /\ s % kBlockSize = 0
      /\ t \in Nat /\ t % kBlockSize = 0
  BY DEF LogAssumption, BlockStart
<1>2. PICK d \in Nat, e \in Nat : s = kBlockSize * d /\ t = kBlockSize * e
  BY Multiple
<1>3. d < e
  <2>1. SUFFICES ASSUME e <= d PROVE FALSE
    OBVIOUS
  <2>2. PICK k \in Nat : d = e + k
    BY <2>1
  <2>3. kBlockSize * k \in Nat /\ kBlockSize * d = kBlockSize * e + kBlockSize * k
    BY <1>1, <2>2
  <2>4. QED
    BY <1>1, <1>2, <2>3
<1>4. PICK k \in Nat : e = d + 1 + k
  <2>1. e - d - 1 \in Nat /\ e = d + 1 + (e - d - 1)
    BY <1>3
  <2>2. QED
    BY <2>1
<1>5. /\ kBlockSize * k \in Nat
      /\ kBlockSize * e = kBlockSize * d + kBlockSize + kBlockSize * k
  BY <1>1, <1>4
<1>6. QED
  BY <1>1, <1>2, <1>5

\* The number of the block of a byte.
LEMMA BlockNumber ==
    ASSUME LogAssumption, NEW s \in BlockStart, NEW b \in Nat,
           s < b, b <= s + kBlockSize
    PROVE  (b - 1) \div kBlockSize = s \div kBlockSize
<1>1. /\ kBlockSize \in Nat \ {0}
      /\ s \in Nat /\ s % kBlockSize = 0
  BY DEF LogAssumption, BlockStart
<1>2. QED
  BY <1>1

\* block_offset_ is right when the file ends that far into a block.
LEMMA OffsetIsRight ==
    ASSUME LogAssumption, NEW s \in BlockStart
    PROVE  (0 - s) % kBlockSize = 0
<1>1. kBlockSize \in Nat \ {0}
  BY DEF LogAssumption
<1>2. PICK d \in Nat : s = kBlockSize * d
  BY Multiple
<1>3. 0 - d \in Int /\ 0 - s = kBlockSize * (0 - d)
  BY <1>1, <1>2
<1>4. (kBlockSize * (0 - d)) % kBlockSize = 0
  BY <1>3, MultipleStarts
<1>5. QED
  BY <1>3, <1>4

LEMMA FirstBlock ==
    ASSUME LogAssumption
    PROVE  0 \in BlockStart
<1>1. kBlockSize \in Nat \ {0}
  BY DEF LogAssumption
<1>2. QED
  BY <1>1 DEF BlockStart

\* The place in the block of an offset, and the block.
LEMMA PlaceInBlock ==
    ASSUME LogAssumption, NEW s \in BlockStart, NEW p \in Nat,
           s <= p, p < s + kBlockSize
    PROVE  p % kBlockSize = p - s
<1> DEFINE m == p % kBlockSize
<1>1. kBlockSize \in Nat \ {0} /\ s \in Nat
  BY DEF LogAssumption, BlockStart
<1>2. m \in 0..(kBlockSize - 1) /\ m \in Nat
  BY <1>1
<1>3. PICK t \in BlockStart : p = t + m
  <2>1. PICK d \in Nat : p = kBlockSize * d + m
    <3>1. p \div kBlockSize \in Nat /\ p = kBlockSize * (p \div kBlockSize) + m
      BY <1>1
    <3>2. QED
      BY <3>1
  <2> HIDE DEF m
  <2>2. kBlockSize * d \in Nat
    BY <1>1
  <2>3. kBlockSize * d \in BlockStart
    BY <2>2, MultipleStarts DEF BlockStart
  <2>4. QED
    BY <2>1, <2>3
<1> HIDE DEF m
<1>4. t \in Nat
  BY DEF BlockStart
<1>5. ~(s < t) /\ ~(t < s)
  BY <1>1, <1>2, <1>3, <1>4, BlocksApart
<1>6. m = p - s
  BY <1>1, <1>2, <1>3, <1>4, <1>5
<1>7. QED
  BY <1>6 DEF m

-----------------------------------------------------------------------------
\* The fragments of a log.

\* Where the fragment begins that follows what ends at p, at a place in a block.
AfterPlace(p, place) ==
    IF kBlockSize - place < kHeaderSize THEN p + (kBlockSize - place) ELSE p

FragmentAfter(p) == AfterPlace(p, p % kBlockSize)

LEMMA AfterIs ==
    ASSUME LogAssumption, NEW s \in BlockStart, NEW p \in Nat,
           s <= p, p < s + kBlockSize
    PROVE  FragmentAfter(p) = IF s + kBlockSize - p < kHeaderSize
                              THEN s + kBlockSize ELSE p
<1>1. p % kBlockSize = p - s
  BY PlaceInBlock
<1>2. s \in Nat /\ kBlockSize \in Nat /\ kHeaderSize \in Nat
  BY DEF LogAssumption, BlockStart
<1>3. FragmentAfter(p) = AfterPlace(p, p - s)
  BY <1>1, Zenon DEF FragmentAfter
<1>4. /\ kBlockSize - (p - s) = s + kBlockSize - p
      /\ p + (kBlockSize - (p - s)) = s + kBlockSize
  BY <1>2
<1>5. QED
  BY <1>3, <1>4 DEF AfterPlace

\* It begins at p or later.
LEMMA AfterIsLater ==
    ASSUME LogAssumption, NEW p \in Nat
    PROVE  FragmentAfter(p) \in Nat /\ p <= FragmentAfter(p)
<1>1. PICK s \in BlockStart : s <= p /\ p < s + kBlockSize
  BY BlockOf
<1>2. s \in Nat /\ kBlockSize \in Nat
  BY DEF LogAssumption, BlockStart
<1>3. QED
  BY <1>1, <1>2, AfterIs

FType == {"full", "first", "middle", "last"}

Byte == {Zero} \cup {Header(t, r, from, n, i) : t \in FType, r \in Nat,
                                                from \in Nat, n \in Nat, i \in Nat}
               \cup {Payload(r, i) : r \in Nat, i \in Nat}

\* Of a fragment: where it ends, whether it begins or ends its record, and
\* whether a record is under way before it and after it.
EndOf(f) == f.q + kHeaderSize + f.n
IsFirst(f) == f.type \in {"full", "first"}
IsLast(f) == f.type \in {"full", "last"}
Before(f) == IF IsFirst(f) THEN "between" ELSE "inside"

\* The fragment f is in the file w.
FragmentOK(w, f) ==
    /\ f.type \in FType
    /\ f.q \in Nat /\ f.n \in Nat /\ f.from \in Nat
    /\ f.r \in DOMAIN lengths
    /\ EndOf(f) <= Len(w)
    /\ f.from + f.n <= lengths[f.r]
    /\ IsFirst(f) => f.from = 0
    /\ IsLast(f) => f.from + f.n = lengths[f.r] /\ f.r \in DOMAIN ends /\ ends[f.r] = EndOf(f)
    /\ \E s \in BlockStart : s <= f.q /\ EndOf(f) <= s + kBlockSize
    /\ \A i \in 1..kHeaderSize : w[f.q + i] = Header(f.type, f.r, f.from, f.n, i)
    /\ \A i \in 1..f.n : w[f.q + kHeaderSize + i] = Payload(f.r, f.from + i)

\* r records end at p or before it.
EndsBefore(p, r) ==
    /\ r \in 0..Len(ends)
    /\ \A e \in DOMAIN ends : ends[e] <= p <=> e <= r

\* The state of the writer at the end of the file: r records are complete and
\* k bytes of the next one written, "inside" once it has a fragment.
AtEnd(r, k, where) ==
    IF begin \/ left > 0
    THEN /\ Len(lengths) = r + 1 /\ k = lengths[r + 1] - left
         /\ where = IF begin THEN "between" ELSE "inside"
    ELSE Len(lengths) = r /\ k = 0 /\ where = "between"

\* The state of the writer when the file was p bytes long, with the fragments F
\* written by now.
StateAt(w, F, p, r, k, where) ==
    /\ p \in 0..Len(w)
    /\ EndsBefore(p, r)
    /\ where \in {"between", "inside"}
    /\ where = "inside" => p > 0 /\ (r = 0 \/ ends[r] < p)
    /\ where = "between" => k = 0
    /\ IF p = Len(w) THEN AtEnd(r, k, where)
       ELSE \E f \in F : /\ f.q = FragmentAfter(p)
                         /\ f.r = r + 1 /\ f.from = k /\ Before(f) = where

\* The file w holds the fragments F, and they follow each other: at the start
\* of every block, and before and after every fragment, the state of the writer
\* is what the next one starts from.
Layout(w, F) ==
    /\ \A f \in F : FragmentOK(w, f)
    /\ StateAt(w, F, 0, 0, 0, "between")
    /\ \A f \in F : StateAt(w, F, f.q, f.r - 1, f.from, Before(f))
    /\ \A f \in F : IF IsLast(f) THEN StateAt(w, F, EndOf(f), f.r, 0, "between")
                    ELSE StateAt(w, F, EndOf(f), f.r - 1, f.from + f.n, "inside")
    /\ \A s \in BlockStart : s < Len(w) => \E f \in F : f.q = s

\* The variables of the writer of the file w.
WrittenOK(w) ==
    /\ w \in Seq(Byte)
    /\ lengths \in Seq(0..MaxLength) /\ ends \in Seq(Nat)
    /\ left \in 0..MaxLength /\ begin \in BOOLEAN
    /\ offset \in 0..kBlockSize /\ Len(w) - offset \in BlockStart
    /\ begin \/ left > 0 =>
          /\ Len(lengths) = Len(ends) + 1
          /\ left <= lengths[Len(lengths)]
    /\ begin => left = lengths[Len(lengths)]
    /\ ~begin /\ left = 0 => Len(lengths) = Len(ends)
    /\ ~begin /\ left > 0 => Len(w) > 0 /\ (ends = <<>> \/ ends[Len(ends)] < Len(w))
    /\ \A e \in DOMAIN ends : 0 < ends[e] /\ ends[e] <= Len(w)
    /\ \A d, e \in DOMAIN ends : d < e => ends[d] < ends[e]

\* The state of the writer at the end.
LEMMA StateAtEnd ==
    ASSUME LogAssumption, NEW w, NEW F, WrittenOK(w)
    PROVE  \E k, where : StateAt(w, F, Len(w), Len(ends), k, where)
<1>1. /\ Len(w) \in Nat /\ Len(ends) \in Nat /\ DOMAIN ends = 1..Len(ends)
      /\ \A e \in DOMAIN ends : ends[e] \in Nat /\ ends[e] <= Len(w)
  BY DEF WrittenOK
<1>2. EndsBefore(Len(w), Len(ends))
  BY <1>1 DEF EndsBefore
<1>3. CASE begin
  <2>1. AtEnd(Len(ends), 0, "between")
    BY <1>3 DEF AtEnd, WrittenOK
  <2>2. StateAt(w, F, Len(w), Len(ends), 0, "between")
    BY <1>1, <1>2, <2>1 DEF StateAt
  <2>3. QED
    BY <2>2
<1>4. CASE ~begin /\ left > 0
  <2> DEFINE k == lengths[Len(ends) + 1] - left
  <2>1. AtEnd(Len(ends), k, "inside")
    BY <1>4 DEF AtEnd, WrittenOK
  <2>2. Len(w) > 0 /\ (Len(ends) = 0 \/ ends[Len(ends)] < Len(w))
    BY <1>4 DEF WrittenOK
  <2> HIDE DEF k
  <2>3. StateAt(w, F, Len(w), Len(ends), k, "inside")
    BY <1>1, <1>2, <2>1, <2>2 DEF StateAt
  <2>4. QED
    BY <2>3
<1>5. CASE ~begin /\ left = 0
  <2>1. AtEnd(Len(ends), 0, "between")
    BY <1>5 DEF AtEnd, WrittenOK
  <2>2. StateAt(w, F, Len(w), Len(ends), 0, "between")
    BY <1>1, <1>2, <2>1 DEF StateAt
  <2>3. QED
    BY <2>2
<1>6. left \in Nat
  BY DEF WrittenOK
<1>7. QED
  BY <1>3, <1>4, <1>5, <1>6

\* The empty file.
LEMMA LayoutInit ==
    ASSUME LogAssumption, LogInit
    PROVE  WrittenOK(file) /\ Layout(file, {})
<1>1. file = <<>> /\ lengths = <<>> /\ ends = <<>> /\ left = 0 /\ begin = FALSE /\ offset = 0
  BY DEF LogInit
<1>2. Len(file) = 0 /\ Len(lengths) = 0 /\ Len(ends) = 0 /\ DOMAIN ends = {}
  BY <1>1
<1>3. WrittenOK(file)
  <2>1. kBlockSize \in Nat /\ MaxLength \in Nat
    BY DEF LogAssumption
  <2>2. Len(file) - offset \in BlockStart
    BY <1>1, <1>2, FirstBlock
  <2>3. file \in Seq(Byte) /\ lengths \in Seq(0..MaxLength) /\ ends \in Seq(Nat)
    BY <1>1
  <2>4. ~(left > 0)
    BY <1>1
  <2>5. left \in 0..MaxLength /\ offset \in 0..kBlockSize
    BY <1>1, <2>1
  <2>6. QED
    BY <1>1, <1>2, <2>2, <2>3, <2>4, <2>5 DEF WrittenOK
<1>4. StateAt(file, {}, 0, 0, 0, "between")
  BY <1>1, <1>2 DEF StateAt, EndsBefore, AtEnd
<1>5. \A s \in BlockStart : ~(s < Len(file))
  BY <1>2 DEF BlockStart
<1>6. QED
  BY <1>3, <1>4, <1>5 DEF Layout

\* A record is handed to AddRecord.
LEMMA LayoutAdd ==
    ASSUME LogAssumption, NEW w, NEW F, WrittenOK(w), Layout(w, F),
           NEW n \in 0..MaxLength, AddRecord(n)
    PROVE  WrittenOK(w)' /\ Layout(w, F)'
<1>1. /\ ~begin /\ left = 0
      /\ lengths' = Append(lengths, n) /\ left' = n /\ begin' = TRUE
      /\ ends' = ends /\ offset' = offset
  BY DEF AddRecord
<1>2. /\ lengths \in Seq(0..MaxLength) /\ Len(lengths) = Len(ends)
      /\ ends \in Seq(Nat)
  BY <1>1 DEF WrittenOK
<1>3. /\ lengths' \in Seq(0..MaxLength) /\ Len(lengths') = Len(lengths) + 1
      /\ lengths'[Len(lengths) + 1] = n
      /\ \A i \in DOMAIN lengths : i \in DOMAIN lengths' /\ lengths'[i] = lengths[i]
  BY <1>1, <1>2
<1>4. WrittenOK(w)'
  BY <1>1, <1>2, <1>3 DEF WrittenOK
<1>5. ASSUME NEW f \in F PROVE FragmentOK(w, f)'
  BY <1>1, <1>3 DEF Layout, FragmentOK, IsFirst, IsLast, EndOf
<1>6. ASSUME NEW p, NEW r, NEW k, NEW where, StateAt(w, F, p, r, k, where)
      PROVE  StateAt(w, F, p, r, k, where)'
  <2>1. CASE p = Len(w)
    <3>1. AtEnd(r, k, where)
      BY <1>6, <2>1 DEF StateAt
    <3>2. Len(lengths) = r /\ k = 0 /\ where = "between"
      BY <1>1, <3>1 DEF AtEnd
    <3>3. AtEnd(r, k, where)'
      <4>1. Len(lengths') = r + 1 /\ lengths'[r + 1] - n = 0
        BY <1>3, <3>2
      <4>2. QED
        BY <1>1, <3>2, <4>1 DEF AtEnd
    <3>4. QED
      BY <1>1, <1>6, <2>1, <3>3 DEF StateAt, EndsBefore
  <2>2. CASE p # Len(w)
    BY <1>1, <1>6, <2>2 DEF StateAt, EndsBefore
  <2>3. QED
    BY <2>1, <2>2
<1>7. QED
  BY <1>4, <1>5, <1>6 DEF Layout

\* What EmitPhysicalRecord writes: filler up to the block b if the rest of the
\* block has no room for a header, and a fragment that fits into the block.
LEMMA Emitted ==
    ASSUME LogAssumption, NEW w, WrittenOK(w), file = w, EmitPhysicalRecord
    PROVE  \E b \in BlockStart, start \in Nat, fill \in Nat, n \in Nat :
              /\ Len(w) + fill = b + start
              /\ start + kHeaderSize + n <= kBlockSize
              /\ FragmentAfter(Len(w)) = b + start
              /\ \A s \in BlockStart : Len(w) <= s /\ s < b + kBlockSize => s = b + start
              /\ n <= left
              /\ file' = w \o Filler(fill)
                           \o Fragment(FragmentType(left = n), Len(lengths),
                                       lengths[Len(lengths)] - left, n)
              /\ offset' = start + kHeaderSize + n
              /\ left' = left - n /\ begin' = FALSE /\ lengths' = lengths
              /\ ends' = IF left = n THEN Append(ends, Len(file')) ELSE ends
<1> DEFINE old == Len(w) - offset
           start == IF Trailer > 0 \/ offset = kBlockSize THEN 0 ELSE offset
           avail == kBlockSize - start - kHeaderSize
           n == IF left < avail THEN left ELSE avail
<1>1. /\ kBlockSize \in Nat /\ kHeaderSize \in Nat /\ kHeaderSize > 1
      /\ kBlockSize > kHeaderSize
  BY DEF LogAssumption
<1>2. /\ Len(w) \in Nat /\ offset \in Nat /\ offset <= kBlockSize
      /\ old \in BlockStart /\ old \in Nat /\ Len(w) = old + offset
      /\ left \in Nat
  BY <1>1 DEF WrittenOK, BlockStart
<1> HIDE DEF old
<1>3. /\ file' = w \o Filler(Trailer)
                   \o Fragment(FragmentType(left = n), Len(lengths),
                               lengths[Len(lengths)] - left, n)
      /\ offset' = start + kHeaderSize + n
      /\ left' = left - n /\ begin' = FALSE /\ lengths' = lengths
      /\ ends' = IF left = n THEN Append(ends, Len(file')) ELSE ends
  BY DEF EmitPhysicalRecord
<1>4. Trailer = IF kBlockSize - offset < kHeaderSize THEN kBlockSize - offset ELSE 0
  BY DEF Trailer
<1>5. Trailer \in Nat
  BY <1>1, <1>2, <1>4
<1>6. start \in Nat /\ start + kHeaderSize <= kBlockSize
  BY <1>1, <1>2, <1>4
<1>7. n \in Nat /\ n <= left /\ start + kHeaderSize + n <= kBlockSize
  <2>1. avail \in Nat
    BY <1>1, <1>6
  <2> HIDE DEF start
  <2>2. QED
    BY <1>1, <1>2, <1>6, <2>1
<1>8. \E b \in BlockStart :
         /\ Len(w) + Trailer = b + start
         /\ FragmentAfter(Len(w)) = b + start
         /\ \A s \in BlockStart : Len(w) <= s /\ s < b + kBlockSize => s = b + start
  <2>1. old + kBlockSize \in BlockStart
    BY <1>2, NextBlock
  <2>2. CASE kBlockSize - offset < kHeaderSize
    <3>1. start = 0 /\ Len(w) + Trailer = old + kBlockSize
      BY <1>1, <1>2, <1>4, <2>2
    <3>2. FragmentAfter(Len(w)) = old + kBlockSize
      <4>1. CASE offset = kBlockSize
        <5>1. /\ Len(w) = old + kBlockSize
              /\ old + kBlockSize <= Len(w)
              /\ Len(w) < old + kBlockSize + kBlockSize
              /\ ~(old + kBlockSize + kBlockSize - Len(w) < kHeaderSize)
          BY <1>1, <1>2, <4>1
        <5>2. QED
          BY <1>2, <2>1, <5>1, AfterIs
      <4>2. CASE offset # kBlockSize
        <5>1. /\ old <= Len(w) /\ Len(w) < old + kBlockSize
              /\ old + kBlockSize - Len(w) < kHeaderSize
          BY <1>1, <1>2, <2>2, <4>2
        <5>2. QED
          BY <1>2, <5>1, AfterIs
      <4>3. QED
        BY <4>1, <4>2
    <3>3. ASSUME NEW s \in BlockStart, Len(w) <= s, s < old + kBlockSize + kBlockSize
          PROVE  s = old + kBlockSize
      <4>1. s \in Nat
        BY DEF BlockStart
      <4>2. old < s
        BY <1>1, <1>2, <2>2, <3>3, <4>1
      <4>3. old + kBlockSize <= s
        BY <1>2, <4>2, BlocksApart
      <4>4. ~(old + kBlockSize < s)
        <5>1. SUFFICES ASSUME old + kBlockSize < s PROVE FALSE
          OBVIOUS
        <5>2. old + kBlockSize + kBlockSize <= s
          BY <2>1, <5>1, BlocksApart
        <5>3. QED
          BY <1>1, <1>2, <3>3, <4>1, <5>2
      <4>5. QED
        BY <1>1, <1>2, <4>1, <4>3, <4>4
    <3> HIDE DEF start
    <3>4. old + kBlockSize \in Nat /\ old + kBlockSize + start = old + kBlockSize
      BY <1>1, <1>2, <3>1
    <3>5. QED
      BY <2>1, <3>1, <3>2, <3>3, <3>4
  <2>3. CASE ~(kBlockSize - offset < kHeaderSize)
    <3>1. start = offset /\ Trailer = 0 /\ Len(w) + Trailer = old + start
      BY <1>1, <1>2, <1>4, <2>3
    <3>2. FragmentAfter(Len(w)) = Len(w)
      <4>1. /\ old <= Len(w) /\ Len(w) < old + kBlockSize
            /\ ~(old + kBlockSize - Len(w) < kHeaderSize)
        BY <1>1, <1>2, <2>3
      <4>2. QED
        BY <1>2, <4>1, AfterIs
    <3>3. ASSUME NEW s \in BlockStart, Len(w) <= s, s < old + kBlockSize
          PROVE  s = Len(w)
      <4>1. s \in Nat
        BY DEF BlockStart
      <4>2. ~(old < s)
        <5>1. SUFFICES ASSUME old < s PROVE FALSE
          OBVIOUS
        <5>2. old + kBlockSize <= s
          BY <1>2, <5>1, BlocksApart
        <5>3. QED
          BY <1>1, <1>2, <3>3, <4>1, <5>2
      <4>3. QED
        BY <1>1, <1>2, <3>3, <4>1, <4>2
    <3>4. Len(w) = old + start
      BY <1>2, <3>1
    <3> HIDE DEF start
    <3>5. QED
      BY <1>2, <3>1, <3>2, <3>3, <3>4
  <2>4. QED
    BY <2>2, <2>3
<1>9. PICK b \in BlockStart :
         /\ Len(w) + Trailer = b + start
         /\ FragmentAfter(Len(w)) = b + start
         /\ \A s \in BlockStart : Len(w) <= s /\ s < b + kBlockSize => s = b + start
  BY <1>8
<1> HIDE DEF start, n
<1>10. QED
  BY <1>3, <1>5, <1>6, <1>7, <1>9

\* The bytes of a fragment.
LEMMA FragmentBytes ==
    ASSUME LogAssumption, NEW type \in FType, NEW r \in Nat, NEW from \in Nat, NEW n \in Nat
    PROVE  /\ Fragment(type, r, from, n) \in Seq(Byte)
           /\ Len(Fragment(type, r, from, n)) = kHeaderSize + n
           /\ \A i \in 1..kHeaderSize :
                 Fragment(type, r, from, n)[i] = Header(type, r, from, n, i)
           /\ \A i \in 1..n :
                 Fragment(type, r, from, n)[kHeaderSize + i] = Payload(r, from + i)
<1> DEFINE head == [i \in 1..kHeaderSize |-> Header(type, r, from, n, i)]
           body == [i \in 1..n |-> Payload(r, from + i)]
<1>1. kHeaderSize \in Nat
  BY DEF LogAssumption
<1>2. head \in Seq(Byte) /\ Len(head) = kHeaderSize
  <2>1. \A i \in 1..kHeaderSize : Header(type, r, from, n, i) \in Byte
    BY DEF Byte
  <2>2. head \in [1..kHeaderSize -> Byte]
    BY <2>1
  <2>3. QED
    BY <1>1, <2>2, SeqDef
<1>3. body \in Seq(Byte) /\ Len(body) = n
  <2>1. \A i \in 1..n : from + i \in Nat /\ Payload(r, from + i) \in Byte
    BY DEF Byte
  <2>2. body \in [1..n -> Byte]
    BY <2>1
  <2>3. QED
    BY <2>2, SeqDef
<1>4. Fragment(type, r, from, n) = head \o body
  BY DEF Fragment, Bytes
<1>5. /\ \A i \in 1..kHeaderSize : head[i] = Header(type, r, from, n, i)
      /\ \A i \in 1..n : body[i] = Payload(r, from + i)
  OBVIOUS
<1> HIDE DEF head, body
<1>6. /\ head \o body \in Seq(Byte) /\ Len(head \o body) = kHeaderSize + n
      /\ \A i \in 1..kHeaderSize : (head \o body)[i] = head[i]
      /\ \A i \in 1..n : (head \o body)[kHeaderSize + i] = body[i]
  <2>1. head \o body \in Seq(Byte) /\ Len(head \o body) = kHeaderSize + n
    BY <1>2, <1>3, ConcatProperties
  <2>2. \A i \in 1..kHeaderSize : (head \o body)[i] = head[i]
    BY <1>1, <1>2, <1>3
  <2>3. \A i \in 1..n : (head \o body)[kHeaderSize + i] = body[i]
    BY <1>1, <1>2, <1>3
  <2>4. QED
    BY <2>1, <2>2, <2>3
<1>7. QED
  BY <1>4, <1>5, <1>6

\* The bytes x are a fragment.
IsFragment(x, type, r, from, n) ==
    /\ x \in Seq(Byte) /\ Len(x) = kHeaderSize + n
    /\ \A i \in 1..kHeaderSize : x[i] = Header(type, r, from, n, i)
    /\ \A i \in 1..n : x[kHeaderSize + i] = Payload(r, from + i)

LEMMA FragmentIs ==
    ASSUME LogAssumption, NEW type \in FType, NEW r \in Nat, NEW from \in Nat, NEW n \in Nat
    PROVE  IsFragment(Fragment(type, r, from, n), type, r, from, n)
BY FragmentBytes DEF IsFragment

\* The bytes of a file to which filler and a sequence were appended.
LEMMA AppendedBytes ==
    ASSUME NEW w \in Seq(Byte), NEW fill \in Nat, NEW v \in Seq(Byte)
    PROVE  /\ w \o Filler(fill) \o v \in Seq(Byte)
           /\ Len(w \o Filler(fill) \o v) = Len(w) + fill + Len(v)
           /\ \A i \in 1..Len(w) : (w \o Filler(fill) \o v)[i] = w[i]
           /\ \A i \in 1..Len(v) : (w \o Filler(fill) \o v)[Len(w) + fill + i] = v[i]
<1>1. Filler(fill) \in Seq(Byte) /\ Len(Filler(fill)) = fill
  <2>1. Filler(fill) \in [1..fill -> Byte]
    BY DEF Filler, Byte
  <2>2. Filler(fill) \in Seq(Byte)
    BY <2>1, SeqDef
  <2>3. Len(Filler(fill)) = fill
    BY <2>2 DEF Filler
  <2>4. QED
    BY <2>2, <2>3
<1>2. PICK z \in Seq(Byte) : z = Filler(fill) /\ Len(z) = fill
  BY <1>1
<1>3. PICK u \in Seq(Byte) : u = w \o z
  BY ConcatProperties
<1>4. Len(u) = Len(w) + fill /\ \A i \in 1..Len(w) : u[i] = w[i]
  <2>1. Len(u) = Len(w) + Len(z)
    BY <1>3, ConcatProperties
  <2>2. \A i \in 1..Len(w) : (w \o z)[i] = w[i]
    BY <1>3
  <2>3. QED
    BY <1>2, <1>3, <2>1, <2>2
<1>5. /\ u \o v \in Seq(Byte) /\ Len(u \o v) = Len(u) + Len(v)
      /\ \A i \in 1..Len(u) : (u \o v)[i] = u[i]
      /\ \A i \in 1..Len(v) : (u \o v)[Len(u) + i] = v[i]
  OBVIOUS
<1>6. QED
  BY <1>2, <1>3, <1>4, <1>5

\* A fragment is written: the ones before stay, and it goes where the state of
\* the writer said that the next one goes.
LEMMA LayoutEmit ==
    ASSUME LogAssumption, NEW w, NEW F, WrittenOK(w), Layout(w, F),
           file = w, EmitPhysicalRecord
    PROVE  \E v, G : file' = v /\ WrittenOK(v)' /\ Layout(v, G)'
<1>1. PICK b \in BlockStart, start \in Nat, fill \in Nat, n \in Nat :
         /\ Len(w) + fill = b + start
         /\ start + kHeaderSize + n <= kBlockSize
         /\ FragmentAfter(Len(w)) = b + start
         /\ \A s \in BlockStart : Len(w) <= s /\ s < b + kBlockSize => s = b + start
         /\ n <= left
         /\ file' = w \o Filler(fill)
                      \o Fragment(FragmentType(left = n), Len(lengths),
                                  lengths[Len(lengths)] - left, n)
         /\ offset' = start + kHeaderSize + n
         /\ left' = left - n /\ begin' = FALSE /\ lengths' = lengths
         /\ ends' = IF left = n THEN Append(ends, Len(file')) ELSE ends
  BY Emitted
<1> DEFINE L == Len(w)
           q == b + start
<1>0. PICK r, type, from : /\ r = Len(ends)
                           /\ type = FragmentType(left = n)
                           /\ from = lengths[r + 1] - left
  OBVIOUS
<1> DEFINE g == [q |-> q, type |-> type, r |-> r + 1, from |-> from, n |-> n]
           G == F \cup {g}
<1>2. /\ kBlockSize \in Nat /\ kHeaderSize \in Nat /\ kHeaderSize > 1
      /\ kBlockSize > kHeaderSize /\ MaxLength \in Nat
  BY DEF LogAssumption
<1>3. begin \/ left > 0
  BY DEF EmitPhysicalRecord
<1>4. /\ w \in Seq(Byte) /\ lengths \in Seq(0..MaxLength) /\ ends \in Seq(Nat)
      /\ begin \in BOOLEAN /\ DOMAIN ends = 1..r
      /\ Len(lengths) = r + 1 /\ DOMAIN lengths = 1..(r + 1)
      /\ begin => left = lengths[r + 1]
  BY <1>0, <1>3 DEF WrittenOK
<1>25. PICK size : size = lengths[r + 1]
  OBVIOUS
<1>26. /\ L \in Nat /\ r \in Nat /\ left \in Nat /\ left <= MaxLength
       /\ size \in Nat /\ left <= size /\ from = size - left
       /\ begin => left = size
  <2>1. r \in Nat /\ L \in Nat
    BY <1>0, <1>4
  <2>2. left \in Nat /\ left <= MaxLength /\ left <= lengths[Len(lengths)]
    BY <1>2, <1>3 DEF WrittenOK
  <2>3. lengths[r + 1] \in 0..MaxLength
    <3>1. r + 1 \in 1..(r + 1)
      BY <2>1
    <3>2. lengths \in Seq(0..MaxLength) /\ r + 1 \in 1..Len(lengths)
      BY <1>4, <3>1
    <3>3. QED
      BY <3>2, ElementOfSeq
  <2>4. size \in Nat
    BY <1>2, <1>25, <2>3
  <2>5. QED
    BY <1>0, <1>4, <1>25, <2>1, <2>2, <2>4
<1>27. /\ L + fill = b + start /\ start + kHeaderSize + n <= kBlockSize
       /\ n <= left /\ b \in Nat
  BY <1>1 DEF BlockStart
<1>28. /\ offset' = start + kHeaderSize + n /\ left' = left - n
       /\ begin' = FALSE /\ lengths' = lengths
       /\ FragmentAfter(L) = q
       /\ \A s \in BlockStart : L <= s /\ s < b + kBlockSize => s = q
  BY <1>1
<1>5. /\ q \in Nat /\ L <= q /\ q + kHeaderSize + n <= b + kBlockSize
      /\ q = L + fill /\ b <= q
  BY <1>2, <1>26, <1>27
<1>6. /\ from \in Nat /\ from + n <= size
      /\ (from + n = size) <=> (left = n)
      /\ begin => from = 0
  BY <1>26, <1>27
<1>7. /\ type \in FType
      /\ (type \in {"full", "first"}) <=> begin
      /\ (type \in {"full", "last"}) <=> (left = n)
  BY <1>0, <1>4 DEF FragmentType, FType
<1>8. PICK v : v = file'
  OBVIOUS
<1>9. /\ v \in Seq(Byte) /\ Len(v) = q + kHeaderSize + n /\ Len(v) \in Nat
      /\ \A i \in 1..L : v[i] = w[i]
      /\ \A i \in 1..kHeaderSize : v[q + i] = Header(type, r + 1, from, n, i)
      /\ \A i \in 1..n : v[q + kHeaderSize + i] = Payload(r + 1, from + i)
  <2>1. PICK x : x = Fragment(type, r + 1, from, n)
    OBVIOUS
  <2>2. v = w \o Filler(fill) \o x
    BY <1>0, <1>1, <1>4, <1>8, <2>1
  <2>3. /\ x \in Seq(Byte) /\ Len(x) = kHeaderSize + n
        /\ \A i \in 1..kHeaderSize : x[i] = Header(type, r + 1, from, n, i)
        /\ \A i \in 1..n : x[kHeaderSize + i] = Payload(r + 1, from + i)
    <3>1. r + 1 \in Nat /\ from \in Nat /\ type \in FType /\ n \in Nat
      BY <1>6, <1>7, <1>26
    <3>2. PICK j \in Nat : j = r + 1
      BY <3>1
    <3>3. IsFragment(Fragment(type, j, from, n), type, j, from, n)
      BY <3>1, FragmentIs
    <3>4. IsFragment(x, type, j, from, n)
      BY <2>1, <3>2, <3>3
    <3>5. QED
      BY <3>2, <3>4 DEF IsFragment
  <2>4. /\ v \in Seq(Byte) /\ Len(v) = L + fill + Len(x)
        /\ \A i \in 1..L : v[i] = w[i]
        /\ \A i \in 1..Len(x) : v[L + fill + i] = x[i]
    <3>1. w \in Seq(Byte) /\ x \in Seq(Byte) /\ fill \in Nat
      BY <1>4, <2>3
    <3>2. /\ w \o Filler(fill) \o x \in Seq(Byte)
          /\ Len(w \o Filler(fill) \o x) = Len(w) + fill + Len(x)
          /\ \A i \in 1..Len(w) : (w \o Filler(fill) \o x)[i] = w[i]
          /\ \A i \in 1..Len(x) : (w \o Filler(fill) \o x)[Len(w) + fill + i] = x[i]
      BY <3>1, AppendedBytes, Zenon
    <3>3. QED
      BY <2>2, <3>2
  <2>5. Len(v) = q + kHeaderSize + n
    BY <1>2, <1>4, <1>26, <1>5, <2>3, <2>4
  <2>6. PICK y, k, c, z : y = Len(x) /\ k = kHeaderSize /\ c = L /\ z = q
    OBVIOUS
  <2>7. /\ y \in Nat /\ k \in Nat /\ c \in Nat /\ z \in Nat
        /\ y = k + n /\ z = c + fill
    BY <1>2, <1>26, <1>5, <2>3, <2>6
  <2>8. /\ \A i \in 1..k : i \in 1..y /\ z + i = c + fill + i
        /\ \A i \in 1..n : k + i \in 1..y /\ z + k + i = c + fill + (k + i)
    BY <2>7
  <2>9. /\ \A i \in 1..k : v[z + i] = x[i]
        /\ \A i \in 1..n : v[z + k + i] = x[k + i]
    BY <2>4, <2>6, <2>8
  <2>10. /\ \A i \in 1..k : v[z + i] = Header(type, r + 1, from, n, i)
         /\ \A i \in 1..n : v[z + k + i] = Payload(r + 1, from + i)
    BY <2>3, <2>6, <2>9
  <2>11. QED
    BY <2>4, <2>5, <2>6, <2>10
<1>29. PICK m \in Nat : m = Len(v)
  BY <1>9
<1>30. m = q + kHeaderSize + n /\ L < m
  BY <1>2, <1>5, <1>9, <1>26, <1>27, <1>29
<1>10. /\ ends' \in Seq(Nat)
       /\ \A e \in DOMAIN ends : e \in DOMAIN ends' /\ ends'[e] = ends[e]
       /\ left # n => ends' = ends
       /\ left = n => Len(ends') = r + 1 /\ ends'[r + 1] = Len(v)
                      /\ DOMAIN ends' = 1..(r + 1)
  <2>1. Len(v) \in Nat
    BY <1>9
  <2>2. ends' = IF left = n THEN Append(ends, Len(v)) ELSE ends
    BY <1>1, <1>8
  <2>3. QED
    BY <1>4, <1>26, <2>1, <2>2
<1> HIDE DEF L, q
<1>11. FragmentOK(v, g)'
  <2>1. \A i \in 1..kHeaderSize : v[q + i] = Header(type, r + 1, from, n, i)
    BY <1>9
  <2>2. g.q = q /\ g.type = type /\ g.r = r + 1 /\ g.from = from /\ g.n = n
    OBVIOUS
  <2> HIDE DEF g
  <2>3. EndOf(g) = Len(v)
    BY <1>9, <2>2 DEF EndOf
  <2>4. /\ \A i \in 1..kHeaderSize : v[g.q + i] = Header(g.type, g.r, g.from, g.n, i)
        /\ \A i \in 1..g.n : v[g.q + kHeaderSize + i] = Payload(g.r, g.from + i)
    BY <1>9, <2>2
  <2>5. IsFirst(g) => g.from = 0
    BY <1>6, <1>7, <2>2 DEF IsFirst
  <2>6. IsLast(g) => g.from + g.n = lengths'[g.r] /\ g.r \in DOMAIN ends' /\ ends'[g.r] = EndOf(g)
    <3>1. r + 1 \in 1..(r + 1)
      BY <1>4, <1>26
    <3>2. QED
      BY <1>27, <1>28, <1>6, <1>7, <1>10, <1>25, <2>2, <2>3, <3>1 DEF IsLast
  <2>7. b \in BlockStart /\ b <= g.q /\ EndOf(g) <= b + kBlockSize
    BY <1>5, <1>29, <1>30, <2>2, <2>3
  <2>8. /\ g.type \in FType /\ g.q \in Nat /\ g.n \in Nat /\ g.from \in Nat
        /\ g.r \in DOMAIN lengths'
        /\ EndOf(g) <= Len(v)
        /\ g.from + g.n <= lengths'[g.r]
    BY <1>27, <1>28, <1>4, <1>26, <1>5, <1>6, <1>7, <1>25, <1>29, <2>2, <2>3
  <2>9. QED
    BY <2>4, <2>5, <2>6, <2>7, <2>8 DEF FragmentOK, EndOf, IsFirst, IsLast
<1> HIDE DEF g
<1>12. g.q = q /\ g.type = type /\ g.r = r + 1 /\ g.from = from /\ g.n = n
  BY DEF g
<1>13. ASSUME NEW f \in F PROVE FragmentOK(v, f)'
  <2>1. FragmentOK(w, f)
    BY DEF Layout
  <2>2. EndOf(f) <= L /\ f.q \in Nat /\ f.n \in Nat /\ EndOf(f) = f.q + kHeaderSize + f.n
    BY <2>1 DEF FragmentOK, EndOf, L
  <2>3. EndOf(f) <= Len(v)
    BY <1>2, <1>5, <1>26, <1>27, <1>29, <1>30, <2>2
  <2>4. /\ \A i \in 1..kHeaderSize : f.q + i \in 1..L
        /\ \A i \in 1..f.n : f.q + kHeaderSize + i \in 1..L
    <3>1. PICK y, z : y = f.q /\ z = f.n
      OBVIOUS
    <3>2. y \in Nat /\ z \in Nat /\ y + kHeaderSize + z <= L
      BY <2>2, <3>1
    <3>3. /\ \A i \in 1..kHeaderSize : y + i \in 1..L
          /\ \A i \in 1..z : y + kHeaderSize + i \in 1..L
      BY <1>2, <1>26, <3>2
    <3>4. QED
      BY <3>1, <3>3
  <2>5. /\ \A i \in 1..kHeaderSize : v[f.q + i] = Header(f.type, f.r, f.from, f.n, i)
        /\ \A i \in 1..f.n : v[f.q + kHeaderSize + i] = Payload(f.r, f.from + i)
    BY <1>9, <2>1, <2>4 DEF FragmentOK
  <2>6. IsLast(f) => f.r \in DOMAIN ends' /\ ends'[f.r] = EndOf(f)
    BY <1>10, <2>1 DEF FragmentOK
  <2>7. QED
    BY <1>27, <1>28, <2>1, <2>3, <2>5, <2>6 DEF FragmentOK, EndOf, IsFirst, IsLast
<1>14. ASSUME NEW p, NEW c, NEW k, NEW where, StateAt(w, F, p, c, k, where)
       PROVE  StateAt(v, G, p, c, k, where)'
  <2>1. p \in 0..L /\ EndsBefore(p, c) /\ c \in 0..r
    BY <1>0, <1>14 DEF StateAt, EndsBefore, L
  <2>2. p \in 0..Len(v) /\ p # Len(v) /\ p < Len(v)
    BY <1>2, <1>5, <1>26, <1>27, <1>29, <1>30, <2>1
  <2>3. EndsBefore(p, c)'
    <3>1. CASE left # n
      BY <1>10, <2>1, <3>1 DEF EndsBefore
    <3>2. CASE left = n
      <4>1. c \in 0..Len(ends')
        BY <1>4, <1>26, <1>10, <2>1, <3>2
      <4>2. ASSUME NEW e \in DOMAIN ends' PROVE ends'[e] <= p <=> e <= c
        <5>1. CASE e \in DOMAIN ends
          BY <1>10, <2>1, <5>1 DEF EndsBefore
        <5>2. CASE e = r + 1
          BY <1>4, <1>26, <1>9, <1>10, <2>1, <2>2, <3>2, <5>2
        <5>3. QED
          BY <1>4, <1>26, <1>10, <3>2, <5>1, <5>2
      <4>3. QED
        BY <4>1, <4>2 DEF EndsBefore
    <3>3. QED
      BY <3>1, <3>2
  <2>4. \E f \in G : f.q = FragmentAfter(p) /\ f.r = c + 1 /\ f.from = k /\ Before(f) = where
    <3>1. CASE p = L
      <4>1. AtEnd(c, k, where)
        BY <1>14, <3>1 DEF StateAt, L
      <4>2. /\ Len(lengths) = c + 1 /\ k = lengths[c + 1] - left
            /\ where = IF begin THEN "between" ELSE "inside"
        BY <1>3, <4>1 DEF AtEnd
      <4>3. c = r
        BY <1>4, <1>26, <2>1, <4>2
      <4>4. g.q = FragmentAfter(p) /\ g.r = c + 1 /\ g.from = k
        BY <1>0, <1>27, <1>28, <1>12, <3>1, <4>2, <4>3 DEF L, q
      <4>5. Before(g) = where
        BY <1>7, <1>12, <4>2 DEF Before, IsFirst
      <4>6. QED
        BY <4>4, <4>5
    <3>2. CASE p # L
      BY <1>14, <3>2 DEF StateAt, L
    <3>3. QED
      BY <3>1, <3>2
  <2>5. where = "inside" => p > 0 /\ (c = 0 \/ ends'[c] < p)
    <3>1. c # 0 => c \in DOMAIN ends
      BY <1>4, <1>26, <2>1
    <3>2. QED
      BY <1>10, <1>14, <3>1 DEF StateAt
  <2>6. where \in {"between", "inside"} /\ (where = "between" => k = 0)
    BY <1>14 DEF StateAt
  <2>7. QED
    BY <2>2, <2>3, <2>4, <2>5, <2>6 DEF StateAt
<1>15. PICK k, where : StateAt(w, F, L, r, k, where)
  BY <1>0, StateAtEnd DEF L
<1>16. /\ k = from /\ where = Before(g)
       /\ where = "inside" => L > 0 /\ (r = 0 \/ ends[r] < L)
  <2>1. AtEnd(r, k, where)
    BY <1>15 DEF StateAt, L
  <2>2. k = from /\ where = IF begin THEN "between" ELSE "inside"
    BY <1>0, <1>3, <2>1 DEF AtEnd
  <2>3. Before(g) = IF begin THEN "between" ELSE "inside"
    BY <1>7, <1>12 DEF Before, IsFirst
  <2>4. QED
    BY <1>15, <2>2, <2>3 DEF StateAt
<1>17. \A e \in DOMAIN ends : ends[e] \in Nat /\ ends[e] <= L
  BY <1>4, <1>26 DEF WrittenOK, L
<1>31. r # 0 => r \in DOMAIN ends /\ ends'[r] = ends[r] /\ ends[r] \in Nat /\ ends[r] <= L
  <2>1. r # 0 => r \in DOMAIN ends
    BY <1>4, <1>26
  <2>2. QED
    BY <1>10, <1>17, <2>1
<1>18. StateAt(v, G, g.q, g.r - 1, g.from, Before(g))'
  <2>1. g.r - 1 = r /\ g.q \in 0..Len(v) /\ g.q < Len(v)
    BY <1>2, <1>5, <1>26, <1>27, <1>29, <1>30, <1>12
  <2>2. EndsBefore(g.q, r)'
    <3>1. r \in 0..Len(ends')
      BY <1>0, <1>4, <1>26, <1>10
    <3>2. ASSUME NEW e \in DOMAIN ends' PROVE ends'[e] <= g.q <=> e <= r
      <4>1. CASE e \in DOMAIN ends
        BY <1>4, <1>26, <1>5, <1>10, <1>12, <1>17, <4>1
      <4>2. CASE e \notin DOMAIN ends
        BY <1>4, <1>26, <1>9, <1>10, <2>1, <4>2
      <4>3. QED
        BY <4>1, <4>2
    <3>3. QED
      BY <3>1, <3>2 DEF EndsBefore
  <2>3. FragmentAfter(g.q) = g.q
    <3>1. /\ b <= q /\ q < b + kBlockSize
          /\ ~(b + kBlockSize - q < kHeaderSize)
      BY <1>27, <1>28, <1>2, <1>5
    <3>2. QED
      BY <1>5, <1>12, <3>1, AfterIs
  <2>4. \E f \in G : /\ f.q = FragmentAfter(g.q) /\ f.r = r + 1 /\ f.from = g.from
                     /\ Before(f) = Before(g)
    BY <1>12, <2>3
  <2>5. Before(g) = "inside" => g.q > 0 /\ (r = 0 \/ ends'[r] < g.q)
    BY <1>5, <1>12, <1>16, <1>26, <1>31
  <2>6. Before(g) \in {"between", "inside"} /\ (Before(g) = "between" => g.from = 0)
    BY <1>11 DEF FragmentOK, Before
  <2>7. g.q \in 0..Len(v) /\ g.q # Len(v)
    BY <2>1
  <2>8. StateAt(v, G, g.q, r, g.from, Before(g))'
    BY <2>2, <2>4, <2>5, <2>6, <2>7 DEF StateAt
  <2>9. QED
    BY <2>1, <2>8
<1>19. EndOf(g) = Len(v)
  BY <1>9, <1>12 DEF EndOf
<1>20. IF IsLast(g) THEN StateAt(v, G, EndOf(g), g.r, 0, "between")'
       ELSE StateAt(v, G, EndOf(g), g.r - 1, g.from + g.n, "inside")'
  <2>1. Len(v) \in 0..Len(v) /\ Len(v) > L /\ Len(v) \in Nat
    BY <1>2, <1>5, <1>26, <1>27, <1>29, <1>30
  <2>2. CASE left = n
    <3>1. IsLast(g)
      BY <1>7, <1>12, <2>2 DEF IsLast
    <3>2. EndsBefore(Len(v), r + 1)'
      <4>1. r + 1 \in 0..Len(ends')
        BY <1>4, <1>26, <1>10, <2>2
      <4>2. ASSUME NEW e \in DOMAIN ends' PROVE ends'[e] <= Len(v) <=> e <= r + 1
        <5>1. CASE e \in DOMAIN ends
          BY <1>4, <1>26, <1>10, <1>17, <2>1, <5>1
        <5>2. CASE e \notin DOMAIN ends
          BY <1>4, <1>26, <1>10, <2>1, <2>2, <5>2
        <5>3. QED
          BY <5>1, <5>2
      <4>3. QED
        BY <4>1, <4>2 DEF EndsBefore
    <3>3. AtEnd(r + 1, 0, "between")'
      <4>1. ~begin' /\ ~(left' > 0)
        BY <1>27, <1>28, <1>4, <1>26, <2>2
      <4>2. QED
        BY <1>27, <1>28, <1>4, <1>26, <4>1 DEF AtEnd
    <3>4. StateAt(v, G, Len(v), r + 1, 0, "between")'
      BY <2>1, <3>2, <3>3 DEF StateAt
    <3>5. QED
      BY <1>12, <1>19, <3>1, <3>4
  <2>3. CASE left # n
    <3>1. ~IsLast(g)
      BY <1>7, <1>12, <2>3 DEF IsLast
    <3>2. EndsBefore(Len(v), r)'
      <4>1. r \in 0..Len(ends')
        BY <1>0, <1>4, <1>26, <1>10, <2>3
      <4>2. ASSUME NEW e \in DOMAIN ends' PROVE ends'[e] <= Len(v) <=> e <= r
        BY <1>4, <1>26, <1>10, <1>17, <2>1, <2>3
      <4>3. QED
        BY <4>1, <4>2 DEF EndsBefore
    <3>3. AtEnd(r, from + n, "inside")'
      <4>1. ~begin' /\ left' > 0
        BY <1>27, <1>28, <1>4, <1>26, <2>3
      <4>2. lengths'[r + 1] - left' = from + n
        BY <1>25, <1>26, <1>27, <1>28
      <4>3. QED
        BY <1>27, <1>28, <1>4, <1>26, <4>1, <4>2 DEF AtEnd
    <3>4. Len(v) > 0 /\ (r = 0 \/ ends'[r] < Len(v))
      BY <1>26, <1>31, <2>1
    <3>5. StateAt(v, G, Len(v), r, from + n, "inside")'
      BY <2>1, <3>2, <3>3, <3>4 DEF StateAt
    <3>6. g.r - 1 = r /\ g.from + g.n = from + n
      BY <1>4, <1>26, <1>12
    <3>7. QED
      BY <1>19, <3>1, <3>5, <3>6
  <2>4. QED
    BY <2>2, <2>3
<1>21. ASSUME NEW s \in BlockStart, s < Len(v)
       PROVE  \E f \in G : f.q = s
  <2>1. CASE s < L
    BY <2>1 DEF Layout, L
  <2>2. CASE ~(s < L)
    <3>1. s \in Nat
      BY DEF BlockStart
    <3>2. L <= s /\ s < b + kBlockSize
      BY <1>2, <1>5, <1>26, <1>27, <1>29, <1>30, <1>21, <2>2, <3>1
    <3>3. s = q
      BY <1>27, <1>28, <3>2 DEF L, q
    <3>4. QED
      BY <1>12, <3>3
  <2>3. QED
    BY <2>1, <2>2
<1>22. WrittenOK(v)'
  <2>1. /\ v \in Seq(Byte) /\ lengths' \in Seq(0..MaxLength) /\ ends' \in Seq(Nat)
        /\ left' \in 0..MaxLength /\ begin' \in BOOLEAN
    <3>1. left' \in 0..MaxLength
      BY <1>2, <1>26, <1>27, <1>28
    <3>2. QED
      BY <1>4, <1>9, <1>10, <1>28, <3>1
  <2>2. offset' \in 0..kBlockSize /\ Len(v) - offset' = b
    BY <1>2, <1>5, <1>27, <1>28, <1>29, <1>30 DEF q
  <2>3. left' > 0 => /\ Len(lengths') = Len(ends') + 1
                     /\ left' <= lengths'[Len(lengths')]
                     /\ Len(v) > 0
                     /\ (ends' = <<>> \/ ends'[Len(ends')] < Len(v))
    <3>1. SUFFICES ASSUME left' > 0
                   PROVE  /\ Len(lengths') = Len(ends') + 1
                          /\ left' <= lengths'[Len(lengths')]
                          /\ Len(v) > 0
                          /\ (ends' = <<>> \/ ends'[Len(ends')] < Len(v))
      OBVIOUS
    <3>2. left # n /\ ends' = ends
      BY <1>27, <1>28, <1>4, <1>26, <1>10, <3>1
    <3>3. Len(lengths') = r + 1 /\ Len(ends') = r /\ left' <= lengths'[r + 1]
      BY <1>0, <1>4, <1>25, <1>26, <1>27, <1>28, <3>2
    <3>4. Len(v) > L /\ Len(v) > 0
      BY <1>2, <1>5, <1>26, <1>27, <1>29, <1>30
    <3>5. ends # <<>> => r # 0
      BY <1>4, <1>26
    <3>6. ends' = <<>> \/ ends'[r] < Len(v)
      <4>1. PICK x : x = ends[r]
        OBVIOUS
      <4>2. r # 0 => x \in Nat /\ x <= L /\ ends'[r] = x
        BY <1>31, <4>1
      <4>3. r # 0 => ends'[r] < Len(v)
        BY <1>26, <1>29, <3>4, <4>2
      <4>4. QED
        BY <3>2, <3>5, <4>3
    <3>7. QED
      BY <3>3, <3>4, <3>6
  <2>4. left' = 0 => Len(lengths') = Len(ends')
    BY <1>27, <1>28, <1>4, <1>26, <1>10
  <2>5. /\ \A e \in DOMAIN ends' : 0 < ends'[e] /\ ends'[e] <= Len(v)
        /\ \A d, e \in DOMAIN ends' : d < e => ends'[d] < ends'[e]
    <3>1. L < m /\ Len(v) = m
      BY <1>29, <1>30
    <3>2. /\ \A d, e \in DOMAIN ends : d < e => ends[d] < ends[e]
          /\ \A e \in DOMAIN ends : 0 < ends[e]
      BY DEF WrittenOK
    <3>3. ASSUME NEW e \in DOMAIN ends' PROVE 0 < ends'[e] /\ ends'[e] <= m
      <4>1. CASE e \in DOMAIN ends
        <5>1. PICK x \in Nat : x = ends[e] /\ x <= L /\ 0 < x
          BY <1>17, <3>2, <4>1
        <5>2. ends'[e] = x
          BY <1>10, <4>1, <5>1
        <5>3. QED
          BY <1>26, <3>1, <5>1, <5>2
      <4>2. CASE e \notin DOMAIN ends
        <5>1. ends'[e] = m
          BY <1>4, <1>26, <1>10, <3>1, <4>2
        <5>2. QED
          BY <1>26, <3>1, <5>1
      <4>3. QED
        BY <4>1, <4>2
    <3>4. ASSUME NEW d \in DOMAIN ends', NEW e \in DOMAIN ends', d < e
          PROVE  ends'[d] < ends'[e]
      <4>1. d \in DOMAIN ends
        BY <1>4, <1>26, <1>10, <3>4
      <4>2. PICK y \in Nat : y = ends[d] /\ y <= L /\ ends'[d] = y
        BY <1>10, <1>17, <4>1
      <4>3. CASE e \in DOMAIN ends
        <5>1. ends'[e] = ends[e] /\ ends[d] < ends[e]
          BY <1>10, <3>2, <3>4, <4>1, <4>3
        <5>2. QED
          BY <4>2, <5>1
      <4>4. CASE e \notin DOMAIN ends
        <5>1. ends'[e] = m
          BY <1>4, <1>26, <1>10, <3>1, <4>4
        <5>2. QED
          BY <1>26, <3>1, <4>2, <5>1
      <4>5. QED
        BY <4>3, <4>4
    <3>5. QED
      BY <3>1, <3>3, <3>4
  <2>6. ~begin'
    BY <1>27, <1>28
  <2>7. QED
    BY <2>1, <2>2, <2>3, <2>4, <2>5, <2>6 DEF WrittenOK
<1>23. Layout(v, G)'
  <2>1. StateAt(v, G, 0, 0, 0, "between")'
    BY <1>14 DEF Layout
  <2>2. ASSUME NEW f \in G
        PROVE  /\ FragmentOK(v, f)'
               /\ StateAt(v, G, f.q, f.r - 1, f.from, Before(f))'
               /\ IF IsLast(f) THEN StateAt(v, G, EndOf(f), f.r, 0, "between")'
                  ELSE StateAt(v, G, EndOf(f), f.r - 1, f.from + f.n, "inside")'
    <3>1. CASE f = g
      BY <1>11, <1>18, <1>20, <3>1
    <3>2. CASE f \in F
      <4>1. /\ StateAt(w, F, f.q, f.r - 1, f.from, Before(f))
            /\ IF IsLast(f) THEN StateAt(w, F, EndOf(f), f.r, 0, "between")
               ELSE StateAt(w, F, EndOf(f), f.r - 1, f.from + f.n, "inside")
        BY <3>2 DEF Layout
      <4>2. QED
        BY <1>13, <1>14, <3>2, <4>1
    <3>3. QED
      BY <3>1, <3>2
  <2> HIDE DEF G
  <2>3. QED
    BY <1>21, <2>1, <2>2 DEF Layout, Before, IsFirst, IsLast, EndOf
<1>24. QED
  BY <1>8, <1>22, <1>23

-----------------------------------------------------------------------------
\* The bytes of records.

LEMMA BytesAre ==
    ASSUME NEW r \in Nat, NEW from \in Nat, NEW n \in Nat
    PROVE  /\ Bytes(r, from, n) \in Seq(Byte)
           /\ Len(Bytes(r, from, n)) = n
           /\ \A i \in 1..n : Bytes(r, from, n)[i] = Payload(r, from + i)
<1>1. \A i \in 1..n : from + i \in Nat /\ Payload(r, from + i) \in Byte
  BY DEF Byte
<1>2. Bytes(r, from, n) \in [1..n -> Byte]
  BY <1>1 DEF Bytes
<1>3. Bytes(r, from, n) \in Seq(Byte)
  BY <1>2, SeqDef
<1>4. Len(Bytes(r, from, n)) = n
  BY <1>3 DEF Bytes
<1>5. QED
  BY <1>3, <1>4 DEF Bytes

\* What was gathered, with what comes next.
LEMMA BytesJoin ==
    ASSUME NEW r \in Nat, NEW k \in Nat, NEW n \in Nat
    PROVE  Bytes(r, 0, k) \o Bytes(r, k, n) = Bytes(r, 0, k + n)
<1>1. PICK x \in Seq(Byte) : x = Bytes(r, 0, k) /\ Len(x) = k
                             /\ \A i \in 1..k : x[i] = Payload(r, 0 + i)
  <2>1. 0 \in Nat
    OBVIOUS
  <2>2. QED
    BY <2>1, BytesAre, ZenonT(40)
<1>2. PICK y \in Seq(Byte) : y = Bytes(r, k, n) /\ Len(y) = n
                             /\ \A i \in 1..n : y[i] = Payload(r, k + i)
  BY BytesAre
<1>3. PICK z \in Seq(Byte) : z = Bytes(r, 0, k + n) /\ Len(z) = k + n
                             /\ \A i \in 1..(k + n) : z[i] = Payload(r, 0 + i)
  <2>1. k + n \in Nat /\ 0 \in Nat
    OBVIOUS
  <2>2. QED
    BY <2>1, BytesAre, ZenonT(40)
<1>4. x \o y \in Seq(Byte) /\ Len(x \o y) = k + n
  BY <1>1, <1>2, ConcatProperties, ZenonT(40)
<1>5. ASSUME NEW i \in 1..(k + n) PROVE (x \o y)[i] = z[i]
  <2>1. CASE i <= k
    <3>1. i \in 1..k /\ (x \o y)[i] = x[i]
      BY <1>1, <1>2, <2>1
    <3>2. QED
      BY <1>1, <1>3, <3>1
  <2>2. CASE ~(i <= k)
    <3>1. i - k \in 1..n /\ (x \o y)[i] = y[i - k] /\ k + (i - k) = 0 + i
      BY <1>1, <1>2, <2>2
    <3>2. QED
      BY <1>2, <1>3, <3>1
  <2>3. QED
    BY <2>1, <2>2
<1>6. x \o y = z
  BY <1>3, <1>4, <1>5, SeqEqual
<1>7. QED
  BY <1>1, <1>2, <1>3, <1>6

\* What a byte of a header says.
LEMMA HeaderSays ==
    ASSUME NEW t, NEW r, NEW from, NEW n, NEW i
    PROVE  /\ Header(t, r, from, n, i)[2] = t /\ Header(t, r, from, n, i)[3] = r
           /\ Header(t, r, from, n, i)[4] = from /\ Header(t, r, from, n, i)[5] = n
           /\ Header(t, r, from, n, i) # Zero
<1>1. Zero[1] # Header(t, r, from, n, i)[1]
  BY DEF Header, Zero
<1>2. QED
  BY <1>1 DEF Header

\* No byte of a fragment is filler.
LEMMA PayloadIsNotZero ==
    ASSUME NEW r, NEW i
    PROVE  Payload(r, i) # Zero
<1>1. Zero[1] # Payload(r, i)[1]
  BY DEF Payload, Zero
<1>2. QED
  BY <1>1

-----------------------------------------------------------------------------
\* What is read.

\* The file has been cut or has a hole; it was w before.
Damaged(w) ==
    /\ file \in Seq(Byte) /\ Len(file) <= Len(w)
    /\ damage \subseteq 1..Len(w)
    /\ \A b \in 1..Len(w) : b \notin damage => b <= Len(file) /\ file[b] = w[b]
    /\ \A b \in damage : b <= Len(file) => file[b] = Zero
    /\ IF IsCut THEN damage = Len(file) + 1 .. Len(w) ELSE Len(file) = Len(w)

\* Where the e-th record begins, at the latest.
From(e) == IF e = 1 THEN 0 ELSE ends[e - 1]

BlockNo(b) == (b - 1) \div kBlockSize

\* A block of the e-th record is damaged.
Hit(e) == \E b \in damage : \E c \in From(e) + 1 .. ends[e] : BlockNo(b) = BlockNo(c)

LogReaderType ==
    [buffer : Seq(Byte), at : Nat, eof : BOOLEAN, scratch : Seq(Byte),
     inFragmented : BOOLEAN, records : Seq(Seq(Byte)), dropped : BOOLEAN]

\* Where the reader R is: the buffer has what is between there and R.at.
Place(R) == R.at - Len(R.buffer)

BufferOK(R) ==
    /\ Len(R.buffer) <= R.at /\ R.at <= Len(file)
    /\ \A i \in 1..Len(R.buffer) : R.buffer[i] = file[Place(R) + i]
    /\ IF R.eof THEN R.at = Len(file) ELSE R.at \in BlockStart
    /\ Len(R.buffer) > 0 =>
          \E s \in BlockStart : /\ s <= Place(R) /\ R.at <= s + kBlockSize
                                /\ R.at = s + kBlockSize \/ R.eof

\* What the reader R has of the records, where r are complete and k bytes of the
\* next one written.
Got(R, r, k, where) ==
    /\ R.inFragmented => where = "inside" /\ R.scratch = Bytes(r + 1, 0, k)
    /\ ~R.inFragmented => R.scratch = <<>>
    /\ \E f \in [DOMAIN R.records -> 1..r] :
          /\ \A i \in DOMAIN f : R.records[i] = Original(f[i])
          /\ \A i, j \in DOMAIN f : i < j => f[i] <= f[j]
    /\ \A e \in 1..r : Hit(e) \/ \E i \in DOMAIN R.records : R.records[i] = Original(e)
    /\ where = "inside" /\ ~R.inFragmented /\ r + 1 \in DOMAIN ends => Hit(r + 1)
    /\ IsCut => /\ ~R.dropped
                /\ where = "inside" => R.inFragmented
                /\ R.records = [i \in 1..r |-> Original(i)]

ReaderOK(w, F, R) ==
    /\ R \in LogReaderType
    /\ BufferOK(R)
    /\ \E r, k, where : StateAt(w, F, Place(R), r, k, where) /\ Got(R, r, k, where)

\* Nothing is read yet.
LEMMA NewReaderOK ==
    ASSUME LogAssumption, NEW w, NEW F, WrittenOK(w), Layout(w, F), file \in Seq(Byte)
    PROVE  ReaderOK(w, F, NewReader)
<1> DEFINE R == NewReader
<1>1. R.buffer = <<>> /\ R.at = 0 /\ R.eof = FALSE /\ R.scratch = <<>>
      /\ R.inFragmented = FALSE /\ R.records = <<>> /\ R.dropped = FALSE
  BY DEF NewReader
<1>2. R \in LogReaderType
  BY DEF NewReader, LogReaderType
<1> HIDE DEF R
<1>3. Len(R.buffer) = 0 /\ Place(R) = 0
  <2>1. Len(R.buffer) = 0
    BY <1>1
  <2>2. Place(R) = 0 - 0
    BY <1>1, <2>1 DEF Place
  <2>3. QED
    BY <2>1, <2>2
<1>4. BufferOK(R)
  BY <1>1, <1>3, FirstBlock DEF BufferOK
<1>5. StateAt(w, F, 0, 0, 0, "between")
  BY DEF Layout
<1>6. Got(R, 0, 0, "between")
  <2>1. R.records = [i \in 1..0 |-> Original(i)]
    BY <1>1
  <2>2. \E f \in [DOMAIN R.records -> 1..0] :
           /\ \A i \in DOMAIN f : R.records[i] = Original(f[i])
           /\ \A i, j \in DOMAIN f : i < j => f[i] <= f[j]
    <3>1. DOMAIN R.records = {}
      BY <1>1
    <3>2. [i \in {} |-> 1] \in [DOMAIN R.records -> 1..0]
      BY <3>1
    <3>3. QED
      BY <3>2
  <2>3. QED
    BY <1>1, <2>1, <2>2 DEF Got
<1>7. QED
  BY <1>2, <1>3, <1>4, <1>5, <1>6 DEF ReaderOK, R

\* A cut.
LEMMA CutIsDamaged ==
    ASSUME LogAssumption, NEW w, WrittenOK(w), file = w, NEW c \in 0..Len(file), Cut(c)
    PROVE  Damaged(w)'
<1>1. /\ file' = SubSeq(w, 1, c) /\ damage' = c + 1 .. Len(w)
      /\ w \in Seq(Byte) /\ c \in Nat /\ c <= Len(w) /\ Len(w) \in Nat
  BY DEF Cut, WrittenOK
<1>2. PICK v : v = SubSeq(w, 1, c)
  OBVIOUS
<1>3. v \in Seq(Byte) /\ Len(v) = c /\ \A i \in 1..c : v[i] = w[i]
  BY <1>1, <1>2, SubSeqProperties
<1>4. IsCut'
  <2>1. CASE c = Len(w)
    BY <1>1, <2>1 DEF IsCut
  <2>2. CASE c < Len(w)
    <3>1. Len(w) \in damage'
      BY <1>1, <2>2
    <3>3. \A x \in damage' \cup {0} : x <= Len(w)
      BY <1>1
    <3>4. Max(damage' \cup {0}) = Len(w)
      BY <1>1, <3>1, <3>3 DEF Max
    <3>5. QED
      BY <1>1, <1>2, <1>3, <2>2, <3>4 DEF IsCut
  <2>3. QED
    BY <1>1, <2>1, <2>2
<1>5. QED
  BY <1>1, <1>2, <1>3, <1>4 DEF Damaged

\* A hole.
LEMMA HoleIsDamaged ==
    ASSUME LogAssumption, NEW w, WrittenOK(w), file = w,
           NEW i \in DOMAIN file, NEW j \in i..Len(file), Hole(i, j)
    PROVE  Damaged(w)'
<1>1. /\ file' = [x \in DOMAIN w |-> IF x \in i..j THEN Zero ELSE w[x]]
      /\ damage' = i..j
      /\ w \in Seq(Byte) /\ Len(w) \in Nat /\ DOMAIN w = 1..Len(w)
      /\ i \in Nat /\ j \in Nat /\ 1 <= i /\ i <= j /\ j <= Len(w)
  BY DEF Hole, WrittenOK
<1>2. PICK v : v = [x \in 1..Len(w) |-> IF x \in i..j THEN Zero ELSE w[x]]
  OBVIOUS
<1>3. v \in Seq(Byte) /\ Len(v) = Len(w)
  <2>1. v \in [1..Len(w) -> Byte]
    <3>1. Zero \in Byte
      BY DEF Byte
    <3>2. \A x \in 1..Len(w) : w[x] \in Byte
      BY <1>1
    <3>3. QED
      BY <1>2, <3>1, <3>2
  <2>2. v \in Seq(Byte)
    BY <1>1, <2>1, SeqDef
  <2>3. QED
    BY <1>1, <1>2, <2>2
<1>4. ~IsCut'
  <2>1. \A x \in damage' \cup {0} : x <= j
    BY <1>1
  <2>2. j \in damage' \cup {0}
    BY <1>1
  <2>3. Max(damage' \cup {0}) = j
    BY <1>1, <2>1, <2>2 DEF Max
  <2>4. QED
    BY <1>1, <1>2, <1>3, <2>2, <2>3 DEF IsCut
<1>5. QED
  BY <1>1, <1>2, <1>3, <1>4 DEF Damaged

-----------------------------------------------------------------------------
\* What the steps of the reader rest on.

LEMMA EndsAre ==
    ASSUME LogAssumption, NEW w, WrittenOK(w), NEW e \in DOMAIN ends
    PROVE  /\ e \in Nat /\ 1 <= e /\ e <= Len(ends) /\ Len(ends) \in Nat
           /\ ends[e] \in Nat /\ ends[e] <= Len(w) /\ Len(w) \in Nat
           /\ From(e) \in Nat /\ From(e) < ends[e]
           /\ ends[e] \in From(e) + 1 .. ends[e]
           /\ \A d \in DOMAIN ends : d < e => ends[d] < ends[e]
           /\ \A d \in 1..e : d \in DOMAIN ends
<1>1. /\ ends \in Seq(Nat) /\ w \in Seq(Byte) /\ DOMAIN ends = 1..Len(ends)
      /\ Len(ends) \in Nat /\ Len(w) \in Nat
  BY DEF WrittenOK
<1>2. /\ 0 < ends[e] /\ ends[e] <= Len(w) /\ ends[e] \in Nat
      /\ \A d \in DOMAIN ends : d < e => ends[d] < ends[e]
  BY <1>1 DEF WrittenOK
<1>3. e \in Nat /\ 1 <= e /\ e <= Len(ends) /\ \A d \in 1..e : d \in DOMAIN ends
  BY <1>1
<1>4. From(e) \in Nat /\ From(e) < ends[e]
  <2>1. CASE e = 1
    BY <1>2, <2>1 DEF From
  <2>2. CASE e # 1
    <3>1. e - 1 \in DOMAIN ends /\ e - 1 < e
      BY <1>1, <1>3, <2>2
    <3>2. ends[e - 1] \in Nat /\ ends[e - 1] < ends[e]
      BY <1>1, <1>2, <3>1
    <3>3. QED
      BY <2>2, <3>2 DEF From
  <2>3. QED
    BY <2>1, <2>2
<1>5. PICK x, y : x = From(e) /\ y = ends[e]
  OBVIOUS
<1>6. y \in x + 1 .. y
  BY <1>2, <1>4, <1>5
<1>7. QED
  BY <1>1, <1>2, <1>3, <1>4, <1>5, <1>6

\* A byte of the record is in the block of a byte that is damaged.
LEMMA HitBy ==
    ASSUME LogAssumption, NEW s \in BlockStart, NEW b \in damage, NEW e,
           NEW c \in From(e) + 1 .. ends[e], b \in Nat, c \in Nat,
           s < b, b <= s + kBlockSize, s < c, c <= s + kBlockSize
    PROVE  Hit(e)
<1>1. BlockNo(b) = s \div kBlockSize /\ BlockNo(c) = s \div kBlockSize
  BY BlockNumber DEF BlockNo
<1>2. QED
  BY <1>1 DEF Hit

\* The fragment that follows.
LEMMA FragmentNext ==
    ASSUME NEW w, NEW F, Layout(w, F),
           NEW p, NEW r, NEW k, NEW where, StateAt(w, F, p, r, k, where), p # Len(w)
    PROVE  \E f \in F : /\ FragmentOK(w, f) /\ f.q = FragmentAfter(p)
                        /\ f.r = r + 1 /\ f.from = k /\ Before(f) = where
BY DEF StateAt, Layout

\* A trailer may be passed over.
LEMMA PassTrailer ==
    ASSUME LogAssumption, NEW w, NEW F, WrittenOK(w), Layout(w, F),
           NEW p, NEW r, NEW k, NEW where, StateAt(w, F, p, r, k, where),
           FragmentAfter(p) <= Len(w)
    PROVE  StateAt(w, F, FragmentAfter(p), r, k, where)
<1>1. Len(w) \in Nat /\ p \in Nat /\ p <= Len(w) /\ r \in Nat
  <2>1. Len(w) \in Nat /\ Len(ends) \in Nat
    BY DEF WrittenOK
  <2>2. p \in 0..Len(w) /\ r \in 0..Len(ends)
    BY DEF StateAt, EndsBefore
  <2>3. QED
    BY <2>1, <2>2
<1>2. FragmentAfter(p) \in Nat /\ p <= FragmentAfter(p)
  BY <1>1, AfterIsLater
<1>3. CASE FragmentAfter(p) = p
  BY <1>3
<1>4. CASE FragmentAfter(p) # p
  <2>1. p # Len(w)
    BY <1>1, <1>2, <1>4
  <2>2. PICK f \in F : /\ f.q = FragmentAfter(p)
                       /\ f.r = r + 1 /\ f.from = k /\ Before(f) = where
    BY <2>1, FragmentNext
  <2>3. f.r - 1 = r
    BY <1>1, <2>2
  <2>4. StateAt(w, F, f.q, f.r - 1, f.from, Before(f))
    BY DEF Layout
  <2>5. QED
    BY <2>2, <2>3, <2>4
<1>5. QED
  BY <1>3, <1>4

LEMMA GotSame ==
    ASSUME NEW R, NEW x, NEW r, NEW k, NEW where, Got(R, r, k, where),
           x.scratch = R.scratch, x.inFragmented = R.inFragmented,
           x.records = R.records, x.dropped = R.dropped
    PROVE  Got(x, r, k, where)
BY DEF Got

\* The numbers of a reader.
LEMMA PlaceIs ==
    ASSUME LogAssumption, NEW w, WrittenOK(w), Damaged(w),
           NEW R \in LogReaderType, BufferOK(R)
    PROVE  \E p \in Nat, at \in Nat, len \in Nat, L \in Nat :
              /\ p = Place(R) /\ at = R.at /\ len = Len(R.buffer) /\ L = Len(file)
              /\ p = at - len /\ p + len = at /\ at <= L /\ L <= Len(w)
              /\ Len(w) \in Nat
<1>1. R.at \in Nat /\ R.buffer \in Seq(Byte) /\ Len(R.buffer) \in Nat
  BY DEF LogReaderType
<1>2. Len(file) \in Nat /\ Len(file) <= Len(w) /\ Len(w) \in Nat
  BY DEF Damaged, WrittenOK
<1>3. Len(R.buffer) <= R.at /\ R.at <= Len(file)
  BY DEF BufferOK
<1>4. PICK p : p = Place(R)
  OBVIOUS
<1>5. p = R.at - Len(R.buffer)
  BY <1>4 DEF Place
<1>6. p \in Nat /\ p + Len(R.buffer) = R.at
  BY <1>1, <1>3, <1>5
<1>7. QED
  BY <1>1, <1>2, <1>3, <1>4, <1>5, <1>6

-----------------------------------------------------------------------------
\* The next block is read.
BlockRead(R, x) ==
    LET to    == R.at + kBlockSize
        block == SubSeq(file, R.at + 1, IF to < Len(file) THEN to ELSE Len(file))
    IN  /\ x.buffer = block /\ x.at = R.at + Len(block)
        /\ x.eof = (Len(block) < kBlockSize)
        /\ x.scratch = R.scratch /\ x.inFragmented = R.inFragmented
        /\ x.records = R.records /\ x.dropped = R.dropped

LEMMA ReadBlockOK ==
    ASSUME LogAssumption, NEW w, NEW F, WrittenOK(w), Layout(w, F), Damaged(w),
           NEW R, ReaderOK(w, F, R), Len(R.buffer) < kHeaderSize, ~R.eof,
           NEW x \in LogReaderType, BlockRead(R, x)
    PROVE  ReaderOK(w, F, x)
<1>1. R \in LogReaderType /\ BufferOK(R)
  BY DEF ReaderOK
<1>2. PICK p \in Nat, at \in Nat, len \in Nat, L \in Nat :
         /\ p = Place(R) /\ at = R.at /\ len = Len(R.buffer) /\ L = Len(file)
         /\ p = at - len /\ p + len = at /\ at <= L /\ L <= Len(w)
         /\ Len(w) \in Nat
  BY <1>1, PlaceIs
<1>3. PICK r, k, where : StateAt(w, F, p, r, k, where) /\ Got(R, r, k, where)
  BY <1>2 DEF ReaderOK
<1>4. /\ kBlockSize \in Nat /\ kHeaderSize \in Nat /\ kHeaderSize > 1
      /\ kBlockSize > kHeaderSize
  BY DEF LogAssumption
<1>5. at \in BlockStart
  BY <1>1, <1>2 DEF BufferOK
<1>14. PICK u : u = at + kBlockSize
  OBVIOUS
<1>17. /\ p \in Nat /\ at \in Nat /\ len \in Nat /\ L \in Nat
       /\ p = at - len /\ p + len = at /\ at <= L
  BY <1>2
<1>18. len < kHeaderSize
  BY <1>2
<1>6. PICK t \in Nat :
         /\ t = (IF u < L THEN u ELSE L)
         /\ at <= t /\ t <= L /\ t <= u /\ (t < u => t = L) /\ (~(t < u) => t = u)
  <2>1. u \in Nat /\ at < u
    BY <1>4, <1>14, <1>17
  <2>2. QED
    BY <1>2, <2>1
<1>15. PICK block : /\ block = SubSeq(file, at + 1, t)
                    /\ x.buffer = block /\ x.at = at + Len(block)
                    /\ x.eof = (Len(block) < kBlockSize)
  BY <1>2, <1>6, <1>14 DEF BlockRead
<1>16. /\ x.scratch = R.scratch /\ x.inFragmented = R.inFragmented
       /\ x.records = R.records /\ x.dropped = R.dropped
  BY DEF BlockRead
<1>7. PICK n \in Nat :
         /\ n = t - at /\ at + n = t
         /\ block \in Seq(Byte) /\ Len(block) = n
         /\ \A i \in 1..n : block[i] = file[at + i]
  <2>1. file \in Seq(Byte)
    BY DEF Damaged
  <2>2. PICK n \in Nat : n = t - at /\ at + n = t
    BY <1>6
  <2>3. \A i \in at + 1 .. t : i \in 1..Len(file)
    BY <1>2, <1>6, SMTT(25)
  <2>4. SubSeq(file, at + 1, t) \in Seq(Byte)
    BY <2>1, <2>3, SubSeqProperties
  <2>5. Len(SubSeq(file, at + 1, t)) = IF at + 1 <= t THEN t - (at + 1) + 1 ELSE 0
    BY <2>1, <2>3, SubSeqProperties
  <2>6. Len(SubSeq(file, at + 1, t)) = n
    <3>1. (at + 1 <= t => t - (at + 1) + 1 = n) /\ (~(at + 1 <= t) => n = 0)
      BY <1>6, <1>17, <2>2
    <3>2. QED
      BY <2>5, <3>1
  <2>7. \A i \in 1..(t - (at + 1) + 1) : SubSeq(file, at + 1, t)[i] = file[at + 1 + i - 1]
    BY <2>1, <2>3, SubSeqProperties
  <2>8. \A i \in 1..n : i \in 1..(t - (at + 1) + 1) /\ at + 1 + i - 1 = at + i
    BY <1>6, <1>17, <2>2
  <2>9. block = SubSeq(file, at + 1, t)
    BY <1>15
  <2>10. QED
    BY <2>2, <2>4, <2>6, <2>7, <2>8, <2>9
<1>8. x.at = t /\ Place(x) = at /\ (x.eof <=> t < u)
  <2>1. x.at = t
    BY <1>7, <1>15
  <2>2. Place(x) = t - n
    BY <1>7, <1>15, <2>1 DEF Place
  <2>3. t - n = at
    BY <1>6, <1>7
  <2>4. x.eof <=> n < kBlockSize
    BY <1>7, <1>15
  <2>5. (n < kBlockSize) <=> (t < u)
    <3>1. PICK B \in Nat : B = kBlockSize
      BY <1>4
    <3>2. n = t - at /\ u = at + B
      BY <1>7, <1>14, <3>1
    <3>3. (n < B) <=> (t < u)
      BY <3>2
    <3>4. QED
      BY <3>1, <3>3
  <2>6. QED
    BY <2>1, <2>2, <2>3, <2>4, <2>5
<1>9. BufferOK(x)
  <2>1. Len(x.buffer) <= x.at /\ x.at <= Len(file)
    <3>1. n <= t
      BY <1>6, <1>7
    <3>2. QED
      BY <1>2, <1>6, <1>7, <1>8, <1>15, <3>1
  <2>2. \A i \in 1..Len(x.buffer) : x.buffer[i] = file[Place(x) + i]
    BY <1>7, <1>8, <1>15
  <2>3. ~x.eof => t = u
    BY <1>6, <1>8
  <2>4. IF x.eof THEN x.at = Len(file) ELSE x.at \in BlockStart
    <3>1. CASE x.eof
      BY <1>2, <1>6, <1>8, <3>1
    <3>2. CASE ~x.eof
      BY <1>5, <1>8, <1>14, <2>3, <3>2, NextBlock
    <3>3. QED
      BY <3>1, <3>2
  <2>5. at <= Place(x) /\ x.at <= at + kBlockSize /\ (x.at = at + kBlockSize \/ x.eof)
    BY <1>2, <1>6, <1>8, <1>14, <2>3
  <2>6. QED
    BY <1>5, <2>1, <2>2, <2>4, <2>5 DEF BufferOK
<1>10. FragmentAfter(p) = at
  <2>1. CASE len = 0
    <3>1. p = at /\ at <= p /\ p < at + kBlockSize /\ ~(at + kBlockSize - p < kHeaderSize)
      BY <1>2, <1>4, <2>1
    <3>2. QED
      BY <1>5, <3>1, AfterIs
  <2>2. CASE len > 0
    <3>1. PICK s \in BlockStart : s <= p /\ at = s + kBlockSize
      BY <1>1, <1>2, <2>2 DEF BufferOK
    <3>2. s \in Nat
      BY DEF BlockStart
    <3>3. p < s + kBlockSize /\ s + kBlockSize - p < kHeaderSize
      <4>1. s + kBlockSize - p = len
        BY <1>17, <1>4, <3>1, <3>2
      <4>2. QED
        BY <1>17, <1>18, <1>4, <2>2, <3>1, <3>2, <4>1
    <3>4. QED
      BY <3>1, <3>3, AfterIs
  <2>3. QED
    BY <1>2, <2>1, <2>2
<1>11. StateAt(w, F, at, r, k, where)
  <2>1. at <= Len(w)
    BY <1>2
  <2>2. QED
    BY <1>3, <1>10, <2>1, PassTrailer
<1>12. Got(x, r, k, where)
  BY <1>3, <1>16, GotSame
<1>13. QED
  BY <1>8, <1>9, <1>11, <1>12 DEF ReaderOK

-----------------------------------------------------------------------------
\* What the buffer begins with.

LEMMA GoodHeader ==
    ASSUME NEW buf, NEW t, NEW r, NEW from, NEW n, Head(buf) = Header(t, r, from, n, 1)
    PROVE  HeaderAt(buf).type = t /\ HeaderAt(buf).n = n
<1>1. Head(buf) # Zero /\ Head(buf)[2] = t /\ Head(buf)[5] = n
  BY HeaderSays
<1>2. HeaderAt(buf) = [type |-> t, n |-> n]
  BY <1>1 DEF HeaderAt
<1>3. QED
  BY <1>2

LEMMA GoodChecksum ==
    ASSUME NEW buf, NEW t, NEW r, NEW from, NEW n, Head(buf) = Header(t, r, from, n, 1),
           NEW z, z = SubSeq(buf, 1, kHeaderSize + n)
    PROVE  /\ ChecksumOK(buf) => z = Fragment(t, r, from, n)
           /\ z = Fragment(t, r, from, n) => ChecksumOK(buf)
<1>1. /\ Head(buf) # Zero /\ Head(buf)[2] = t /\ Head(buf)[3] = r
      /\ Head(buf)[4] = from /\ Head(buf)[5] = n
  BY HeaderSays
<1>2. HeaderAt(buf).n = n
  BY GoodHeader
<1>3. QED
  BY <1>1, <1>2 DEF ChecksumOK

LEMMA LostHeader ==
    ASSUME LogAssumption, NEW buf, Head(buf) = Zero, Len(buf) >= kHeaderSize,
           Len(buf) \in Nat
    PROVE  ~ChecksumOK(buf) /\ ~Truncated(buf)
<1>1. HeaderAt(buf).n = 0
  BY DEF HeaderAt
<1>2. kHeaderSize \in Nat
  BY DEF LogAssumption
<1>3. QED
  BY <1>1, <1>2 DEF ChecksumOK, Truncated

\* The buffer begins with a fragment f of the file, in the block at s, or with
\* what the damage has made of its header.
Here(w, R, p, at, L, s, f) ==
    /\ p \in Nat /\ at \in Nat /\ L \in Nat /\ s \in BlockStart /\ s \in Nat
    /\ p = Place(R) /\ at = R.at /\ L = Len(file) /\ L <= Len(w) /\ Len(w) \in Nat
    /\ Len(R.buffer) = at - p /\ R.buffer \in Seq(Byte)
    /\ s <= p /\ p + kHeaderSize <= at /\ at <= L /\ at <= s + kBlockSize
    /\ (at = s + kBlockSize \/ R.eof)
    /\ FragmentOK(w, f) /\ f.q = p /\ EndOf(f) <= s + kBlockSize
    /\ \A i \in 1..(at - p) : R.buffer[i] = file[p + i]
    /\ \/ Head(R.buffer) = Zero /\ p + 1 \in damage
       \/ Head(R.buffer) = Header(f.type, f.r, f.from, f.n, 1)

LEMMA FragmentHere ==
    ASSUME LogAssumption, NEW w, NEW F, WrittenOK(w), Layout(w, F), Damaged(w),
           NEW R \in LogReaderType, BufferOK(R), Len(R.buffer) >= kHeaderSize,
           NEW r, NEW k, NEW where, StateAt(w, F, Place(R), r, k, where)
    PROVE  \E p, at, L, s : \E f \in F :
              /\ Here(w, R, p, at, L, s, f)
              /\ f.r = r + 1 /\ f.from = k /\ Before(f) = where
<1>2. PICK p \in Nat, at \in Nat, len \in Nat, L \in Nat :
         /\ p = Place(R) /\ at = R.at /\ len = Len(R.buffer) /\ L = Len(file)
         /\ p = at - len /\ p + len = at /\ at <= L /\ L <= Len(w)
         /\ Len(w) \in Nat
  BY PlaceIs
<1>3. /\ p \in Nat /\ at \in Nat /\ len \in Nat /\ L \in Nat
      /\ p = at - len /\ p + len = at /\ at <= L
  BY <1>2
<1>4. /\ kBlockSize \in Nat /\ kHeaderSize \in Nat /\ kHeaderSize > 1
      /\ kBlockSize > kHeaderSize
  BY DEF LogAssumption
<1>5. len >= kHeaderSize
  BY <1>2
<1>6. len > 0 /\ p < at
  BY <1>3, <1>4, <1>5
<1>7. PICK s \in BlockStart : /\ s <= p /\ at <= s + kBlockSize
                              /\ at = s + kBlockSize \/ R.eof
  BY <1>2, <1>6 DEF BufferOK
<1>8. s \in Nat
  BY DEF BlockStart
<1>9. FragmentAfter(p) = p
  <2>1. p < s + kBlockSize /\ ~(s + kBlockSize - p < kHeaderSize)
    BY <1>3, <1>4, <1>5, <1>7, <1>8
  <2>2. QED
    BY <1>7, <2>1, AfterIs
<1>10. PICK f \in F : /\ FragmentOK(w, f) /\ f.q = p
                      /\ f.r = r + 1 /\ f.from = k /\ Before(f) = where
  <2>1. StateAt(w, F, p, r, k, where) /\ p # Len(w)
    BY <1>2, <1>6
  <2>2. QED
    BY <1>9, <2>1, FragmentNext
<1>11. EndOf(f) <= s + kBlockSize
  <2>1. PICK t \in BlockStart : t <= f.q /\ EndOf(f) <= t + kBlockSize
    BY <1>10 DEF FragmentOK
  <2>2. PICK z \in Nat : z = EndOf(f) /\ p < z
    <3>1. PICK n \in Nat : n = f.n
      BY <1>10 DEF FragmentOK
    <3>2. EndOf(f) = p + kHeaderSize + n
      BY <1>10, <3>1 DEF EndOf
    <3>3. QED
      BY <1>3, <1>4, <3>2
  <2>3. t \in Nat /\ t <= p /\ z <= t + kBlockSize
    BY <1>10, <2>1, <2>2 DEF BlockStart
  <2>4. ~(s < t) /\ ~(t < s)
    <3>1. ASSUME s < t PROVE FALSE
      <4>1. s + kBlockSize <= t
        BY <3>1, BlocksApart
      <4>2. QED
        BY <1>3, <1>4, <1>6, <1>7, <1>8, <2>3, <4>1
    <3>2. ASSUME t < s PROVE FALSE
      <4>1. t + kBlockSize <= s
        BY <3>2, BlocksApart
      <4>2. QED
        BY <1>3, <1>4, <1>7, <1>8, <2>2, <2>3, <4>1
    <3>3. QED
      BY <3>1, <3>2
  <2>5. s = t
    BY <1>8, <2>3, <2>4
  <2>6. QED
    BY <2>1, <2>5
<1>12. Len(R.buffer) = at - p /\ R.buffer \in Seq(Byte)
       /\ \A i \in 1..(at - p) : R.buffer[i] = file[p + i]
  <2>1. len = at - p
    BY <1>3
  <2>2. QED
    BY <1>2, <2>1 DEF BufferOK, LogReaderType
<1>13. Head(R.buffer) = file[p + 1]
  <2>1. 1 \in 1..(at - p)
    BY <1>3, <1>6
  <2>2. Head(R.buffer) = R.buffer[1]
    BY <1>12, <2>1
  <2>3. QED
    BY <1>12, <2>1, <2>2
<1>14. \/ Head(R.buffer) = Zero /\ p + 1 \in damage
       \/ Head(R.buffer) = Header(f.type, f.r, f.from, f.n, 1)
  <2>1. p + 1 <= Len(file) /\ p + 1 \in 1..Len(w)
    <3>1. p + 1 <= L
      BY <1>3, <1>6
    <3>2. QED
      BY <1>2, <3>1
  <2>2. CASE p + 1 \in damage
    BY <1>13, <2>1, <2>2 DEF Damaged
  <2>3. CASE p + 1 \notin damage
    <3>1. file[p + 1] = w[p + 1]
      BY <2>1, <2>3 DEF Damaged
    <3>2. 1 \in 1..kHeaderSize
      BY <1>4
    <3>3. w[p + 1] = Header(f.type, f.r, f.from, f.n, 1)
      BY <1>10, <3>2 DEF FragmentOK
    <3>4. QED
      BY <1>13, <3>1, <3>3
  <2>4. QED
    BY <2>2, <2>3
<1>15. p + kHeaderSize <= at
  BY <1>3, <1>4, <1>5
<1>16. Here(w, R, p, at, L, s, f)
  BY <1>2, <1>7, <1>8, <1>10, <1>11, <1>12, <1>14, <1>15 DEF Here
<1>17. QED
  BY <1>10, <1>16

\* The numbers of the fragment at the beginning of the buffer.
LEMMA HereIs ==
    ASSUME LogAssumption, NEW w, NEW R, NEW p, NEW at, NEW L, NEW s, NEW f,
           WrittenOK(w), Here(w, R, p, at, L, s, f)
    PROVE  \E n \in Nat, h \in Nat, B \in Nat :
              /\ n = f.n /\ h = kHeaderSize /\ B = kBlockSize /\ h > 1 /\ B > h
              /\ EndOf(f) = p + h + n /\ p + h + n <= s + B /\ p + h + n <= Len(w)
              /\ p \in Nat /\ at \in Nat /\ s \in Nat /\ L \in Nat
              /\ s <= p /\ p + h <= at /\ at <= L /\ at <= s + B
              /\ f.type \in FType /\ f.r \in Nat /\ f.from \in Nat
<1>1. PICK h \in Nat, B \in Nat : /\ h = kHeaderSize /\ B = kBlockSize /\ h > 1 /\ B > h
  BY DEF LogAssumption
<1>2. PICK n \in Nat : n = f.n
  BY DEF Here, FragmentOK
<1>3. EndOf(f) = p + h + n
  BY <1>1, <1>2 DEF EndOf, Here
<1>4. p + h + n <= s + B /\ p + h + n <= Len(w)
  BY <1>1, <1>3 DEF Here, FragmentOK
<1>5. f.type \in FType /\ f.r \in Nat /\ f.from \in Nat
  <2>1. lengths \in Seq(0..MaxLength)
    BY DEF WrittenOK
  <2>2. f.r \in DOMAIN lengths
    BY DEF Here, FragmentOK
  <2>3. f.r \in Nat
    BY <2>1, <2>2
  <2>4. QED
    BY <2>3 DEF Here, FragmentOK
<1>6. /\ p \in Nat /\ at \in Nat /\ s \in Nat /\ L \in Nat
      /\ s <= p /\ p + h <= at /\ at <= L /\ at <= s + B
  BY <1>1 DEF Here
<1>7. QED
  BY <1>1, <1>2, <1>3, <1>4, <1>5, <1>6

\* The buffer ends inside the fragment only if the file does.
LEMMA CutShort ==
    ASSUME LogAssumption, NEW w, NEW R, NEW p, NEW at, NEW L, NEW s, NEW f,
           WrittenOK(w), Here(w, R, p, at, L, s, f), Head(R.buffer) # Zero
    PROVE  /\ Truncated(R.buffer) <=> (at < EndOf(f))
           /\ Truncated(R.buffer) => R.eof
<1>1. PICK n \in Nat, h \in Nat, B \in Nat :
         /\ n = f.n /\ h = kHeaderSize /\ B = kBlockSize /\ h > 1 /\ B > h
         /\ EndOf(f) = p + h + n /\ p + h + n <= s + B /\ p + h + n <= Len(w)
         /\ p \in Nat /\ at \in Nat /\ s \in Nat /\ L \in Nat
         /\ s <= p /\ p + h <= at /\ at <= L /\ at <= s + B
  BY HereIs
<1>2. HeaderAt(R.buffer).n = n
  <2>1. Head(R.buffer) = Header(f.type, f.r, f.from, f.n, 1)
    BY DEF Here
  <2>2. PICK buf, t, r, from, m : buf = R.buffer /\ t = f.type /\ r = f.r /\ from = f.from /\ m = f.n
    OBVIOUS
  <2>3. Head(buf) = Header(t, r, from, m, 1)
    BY <2>1, <2>2
  <2>4. HeaderAt(buf).n = m
    BY <2>3, GoodHeader
  <2>5. QED
    BY <1>1, <2>2, <2>4
<1>3. Len(R.buffer) = at - p
  BY DEF Here
<1>4. Truncated(R.buffer) <=> (at - p >= h => h + n > at - p)
  BY <1>1, <1>2, <1>3 DEF Truncated
<1>5. (at - p >= h => h + n > at - p) <=> (at < p + h + n)
  BY <1>1
<1>6. Truncated(R.buffer) <=> (at < EndOf(f))
  BY <1>1, <1>4, <1>5
<1>7. at < p + h + n => at # s + B
  BY <1>1
<1>8. at = s + B \/ R.eof
  BY <1>1 DEF Here
<1>9. QED
  BY <1>4, <1>5, <1>6, <1>7, <1>8

\* A check that fails has met a byte that is damaged.
LEMMA BadIsDamaged ==
    ASSUME LogAssumption, NEW w, WrittenOK(w), Damaged(w),
           NEW R, NEW p, NEW at, NEW L, NEW s, NEW f,
           Here(w, R, p, at, L, s, f),
           ZeroHeader(R.buffer) \/ Truncated(R.buffer) \/ ~ChecksumOK(R.buffer),
           ~(R.eof /\ Truncated(R.buffer))
    PROVE  \E b \in damage : b \in Nat /\ p < b /\ b <= at
<1>1. PICK n \in Nat, h \in Nat, B \in Nat :
         /\ n = f.n /\ h = kHeaderSize /\ B = kBlockSize /\ h > 1 /\ B > h
         /\ EndOf(f) = p + h + n /\ p + h + n <= s + B /\ p + h + n <= Len(w)
         /\ p \in Nat /\ at \in Nat /\ s \in Nat /\ L \in Nat
         /\ s <= p /\ p + h <= at /\ at <= L /\ at <= s + B
         /\ f.type \in FType /\ f.r \in Nat /\ f.from \in Nat
  BY HereIs
<1>2. CASE Head(R.buffer) = Zero
  <2>1. p + 1 \in damage \/ Head(R.buffer) = Header(f.type, f.r, f.from, f.n, 1)
    BY DEF Here
  <2>2. p + 1 \in damage
    BY <1>2, <2>1, HeaderSays
  <2>3. p + 1 \in Nat /\ p < p + 1 /\ p + 1 <= at
    BY <1>1
  <2>4. QED
    BY <2>2, <2>3
<1>3. CASE Head(R.buffer) # Zero
  <2>1. Head(R.buffer) = Header(f.type, f.r, f.from, f.n, 1)
    BY <1>3 DEF Here
  <2>2. PICK buf \in Seq(Byte) : buf = R.buffer /\ Len(buf) = at - p
    BY DEF Here
  <2>3. ~ZeroHeader(buf)
    <3>1. 1 \in 1..kHeaderSize /\ Head(buf) = buf[1]
      BY <1>1, <2>2
    <3>2. QED
      BY <1>3, <2>2, <3>1 DEF ZeroHeader
  <2>4. ~Truncated(buf)
    BY <1>3, <2>2, CutShort
  <2>5. p + h + n <= at
    <3>1. ~(at < EndOf(f))
      BY <1>3, <2>2, <2>4, CutShort
    <3>2. QED
      BY <1>1, <3>1
  <2>6. SubSeq(buf, 1, h + n) # Fragment(f.type, f.r, f.from, f.n)
    <3>1. ~ChecksumOK(buf)
      BY <2>2, <2>3, <2>4
    <3>2. Head(buf) = Header(f.type, f.r, f.from, f.n, 1)
      BY <2>1, <2>2
    <3>3. PICK z : z = SubSeq(buf, 1, kHeaderSize + f.n)
      OBVIOUS
    <3>4. z = Fragment(f.type, f.r, f.from, f.n) => ChecksumOK(buf)
      BY <3>2, <3>3, GoodChecksum
    <3>5. QED
      BY <1>1, <3>1, <3>3, <3>4
  <2>7. SUFFICES ASSUME \A b \in damage : ~(b \in Nat /\ p < b /\ b <= at)
                 PROVE  FALSE
    OBVIOUS
  <2>15. PICK m \in Nat : m = Len(w) /\ p + h + n <= m
    BY <1>1 DEF Here
  <2>8. \A i \in 1..(h + n) : /\ i \in 1..(at - p) /\ p + i \in Nat
                              /\ p < p + i /\ p + i <= at /\ p + i \in 1..m
    <3>1. /\ n \in Nat /\ h \in Nat /\ p \in Nat /\ at \in Nat
          /\ p + h + n <= m /\ p + h + n <= at
      BY <1>1, <2>5, <2>15
    <3>2. QED
      BY <3>1
  <2>9. \A i \in 1..(h + n) : buf[i] = w[p + i]
    <3>1. ASSUME NEW i \in 1..(h + n) PROVE buf[i] = w[p + i]
      <4>1. p + i \notin damage
        BY <2>7, <2>8
      <4>2. file[p + i] = w[p + i]
        BY <2>8, <2>15, <4>1 DEF Damaged
      <4>3. buf[i] = file[p + i]
        BY <2>2, <2>8 DEF Here
      <4>4. QED
        BY <4>2, <4>3
    <3>2. QED
      BY <3>1
  <2>10. PICK g \in Seq(Byte) :
            /\ g = Fragment(f.type, f.r, f.from, f.n) /\ Len(g) = h + n
            /\ \A i \in 1..h : g[i] = Header(f.type, f.r, f.from, f.n, i)
            /\ \A i \in 1..n : g[h + i] = Payload(f.r, f.from + i)
    <3>1. PICK t \in FType, r \in Nat, from \in Nat : t = f.type /\ r = f.r /\ from = f.from
      BY <1>1
    <3>2. Fragment(t, r, from, n) \in Seq(Byte) /\ Len(Fragment(t, r, from, n)) = kHeaderSize + n
      BY FragmentBytes, ZenonT(40)
    <3>3. ASSUME NEW i \in 1..kHeaderSize
          PROVE  Fragment(t, r, from, n)[i] = Header(t, r, from, n, i)
      BY FragmentBytes
    <3>4. ASSUME NEW i \in 1..n
          PROVE  Fragment(t, r, from, n)[kHeaderSize + i] = Payload(r, from + i)
      BY FragmentBytes
    <3>5. QED
      BY <1>1, <3>1, <3>2, <3>3, <3>4
  <2>11. \A i \in 1..(h + n) : w[p + i] = g[i]
    <3>1. ASSUME NEW i \in 1..(h + n) PROVE w[p + i] = g[i]
      <4>1. CASE i <= h
        <5>1. i \in 1..h
          BY <1>1, <4>1
        <5>2. w[f.q + i] = Header(f.type, f.r, f.from, f.n, i)
          BY <1>1, <5>1 DEF Here, FragmentOK
        <5>3. f.q = p
          BY DEF Here
        <5>4. QED
          BY <2>10, <5>1, <5>2, <5>3
      <4>2. CASE ~(i <= h)
        <5>1. PICK j \in 1..n : h + j = i /\ p + h + j = p + i
          <6>1. i - h \in 1..n /\ h + (i - h) = i /\ p + h + (i - h) = p + i
            BY <1>1, <4>2, SMTT(25)
          <6>2. QED
            BY <6>1
        <5>2. w[f.q + kHeaderSize + j] = Payload(f.r, f.from + j)
          BY <1>1, <5>1 DEF Here, FragmentOK
        <5>3. f.q = p /\ kHeaderSize = h
          BY <1>1 DEF Here
        <5>4. w[p + i] = Payload(f.r, f.from + j)
          BY <5>1, <5>2, <5>3
        <5>5. QED
          BY <2>10, <5>1, <5>4
      <4>3. QED
        BY <4>1, <4>2
    <3>2. QED
      BY <3>1
  <2>12. PICK z \in Seq(Byte) : z = SubSeq(buf, 1, h + n) /\ Len(z) = h + n
                                /\ \A i \in 1..(h + n) : z[i] = buf[i]
    <3>1. \A i \in 1..(h + n) : buf[i] \in Byte
      BY <2>2, <2>8
    <3>6. h + n \in Int /\ 1 \in Int
      BY <1>1
    <3>2. /\ SubSeq(buf, 1, h + n) \in Seq(Byte)
          /\ Len(SubSeq(buf, 1, h + n)) = (IF 1 <= h + n THEN h + n - 1 + 1 ELSE 0)
          /\ \A i \in 1..(h + n - 1 + 1) : SubSeq(buf, 1, h + n)[i] = buf[1 + i - 1]
      BY <3>1, <3>6, SubSeqProperties
    <3>3. (IF 1 <= h + n THEN h + n - 1 + 1 ELSE 0) = h + n
      BY <1>1, SMTT(25)
    <3>4. \A i \in 1..(h + n) : i \in 1..(h + n - 1 + 1) /\ 1 + i - 1 = i
      BY <1>1, SMTT(25)
    <3>5. QED
      BY <3>2, <3>3, <3>4
  <2>13. z = g
    BY <2>9, <2>10, <2>11, <2>12, SeqEqual
  <2>14. QED
    BY <2>6, <2>10, <2>12, <2>13
<1>4. QED
  BY <1>2, <1>3

-----------------------------------------------------------------------------
\* The rest of a block is skipped: the next one begins with a fragment, or the
\* file has ended, and the records that were skipped are hit.
LEMMA SkippedOK ==
    ASSUME LogAssumption, NEW w, NEW F, WrittenOK(w), Layout(w, F), Damaged(w),
           NEW R, NEW p, NEW at, NEW L, NEW s, NEW f, Here(w, R, p, at, L, s, f),
           NEW r, NEW k, NEW where, StateAt(w, F, p, r, k, where), Got(R, r, k, where),
           NEW b \in damage, b \in Nat, p < b, b <= at,
           R.eof => at = L,
           NEW x, ~x.inFragmented, x.scratch = <<>>, x.records = R.records
    PROVE  \E d, j, there : StateAt(w, F, at, d, j, there) /\ Got(x, d, j, there)
<1>1. PICK n \in Nat, h \in Nat, B \in Nat :
         /\ n = f.n /\ h = kHeaderSize /\ B = kBlockSize /\ h > 1 /\ B > h
         /\ EndOf(f) = p + h + n /\ p + h + n <= s + B /\ p + h + n <= Len(w)
         /\ p \in Nat /\ at \in Nat /\ s \in Nat /\ L \in Nat
         /\ s <= p /\ p + h <= at /\ at <= L /\ at <= s + B
  BY HereIs
<1>2. L = Len(file) /\ L <= Len(w) /\ Len(w) \in Nat /\ s \in BlockStart
      /\ (at = s + B \/ R.eof)
  BY <1>1 DEF Here
<1>3. ~IsCut /\ L = Len(w)
  <2>1. b <= Len(file)
    BY <1>1, <1>2
  <2>2. ~(b \in Len(file) + 1 .. Len(w))
    BY <1>1, <1>2, <2>1
  <2>3. QED
    BY <1>2, <2>2 DEF Damaged
<1>4. \E d, j, there : StateAt(w, F, at, d, j, there)
  <2>1. CASE at = Len(w)
    BY <2>1, StateAtEnd
  <2>2. CASE at # Len(w)
    <3>1. at = s + kBlockSize /\ at < Len(w)
      BY <1>1, <1>2, <1>3, <2>2
    <3>2. at \in BlockStart
      BY <1>2, <3>1, NextBlock
    <3>3. PICK g \in F : g.q = at
      BY <3>1, <3>2 DEF Layout
    <3>4. StateAt(w, F, g.q, g.r - 1, g.from, Before(g))
      BY DEF Layout
    <3>5. QED
      BY <3>3, <3>4
  <2>3. QED
    BY <2>1, <2>2
<1>5. PICK d, j, there : StateAt(w, F, at, d, j, there)
  BY <1>4
<1>6. /\ r \in 0..Len(ends) /\ \A e \in DOMAIN ends : ends[e] <= p <=> e <= r
      /\ d \in 0..Len(ends) /\ \A e \in DOMAIN ends : ends[e] <= at <=> e <= d
      /\ there = "inside" => at > 0 /\ (d = 0 \/ ends[d] < at)
      /\ Len(ends) \in Nat /\ DOMAIN ends = 1..Len(ends)
  BY <1>5 DEF StateAt, EndsBefore, WrittenOK
<1>7. r \in Nat /\ d \in Nat /\ r <= d
  <2>1. r \in Nat /\ d \in Nat
    BY <1>6
  <2>2. r # 0 => r <= d
    <3>1. SUFFICES ASSUME r # 0 PROVE r <= d
      OBVIOUS
    <3>2. r \in DOMAIN ends
      BY <1>6, <2>1, <3>1
    <3>3. ends[r] \in Nat
      BY <3>2, EndsAre
    <3>4. ends[r] <= p
      BY <1>6, <2>1, <3>2
    <3>5. ends[r] <= at
      BY <1>1, <3>3, <3>4
    <3>6. QED
      BY <1>6, <3>2, <3>5
  <2>3. QED
    BY <2>1, <2>2
<1>8. s < b /\ b <= s + kBlockSize
  BY <1>1
<1>9. ASSUME NEW e \in DOMAIN ends, NEW c \in From(e) + 1 .. ends[e], c \in Nat, p < c, c <= at
      PROVE  Hit(e)
  <2>1. s < c /\ c <= s + kBlockSize
    BY <1>1, <1>9
  <2>2. QED
    BY <1>2, <1>8, <1>9, <2>1, HitBy
<1>10. ASSUME NEW e \in 1..d, ~(e <= r)
       PROVE  Hit(e)
  <2>1. e \in DOMAIN ends
    BY <1>6, <1>7
  <2>2. ends[e] \in Nat /\ ends[e] \in From(e) + 1 .. ends[e]
    BY <2>1, EndsAre
  <2>3. ~(ends[e] <= p) /\ ends[e] <= at
    BY <1>6, <1>7, <1>10, <2>1
  <2>4. p < ends[e]
    BY <1>1, <2>2, <2>3
  <2>5. QED
    BY <1>9, <2>1, <2>2, <2>3, <2>4
<1>11. there = "inside" /\ d + 1 \in DOMAIN ends => Hit(d + 1)
  <2>1. SUFFICES ASSUME there = "inside", d + 1 \in DOMAIN ends PROVE Hit(d + 1)
    OBVIOUS
  <2>2. PICK e \in DOMAIN ends : e = d + 1
    BY <2>1
  <2>3. ends[e] \in Nat /\ ~(ends[e] <= at) /\ From(e) \in Nat
    <3>1. ~(e <= d)
      BY <1>7, <2>2
    <3>2. QED
      BY <1>6, <3>1, EndsAre
  <2>4. From(e) < at
    <3>1. CASE d = 0
      <4>1. From(e) = 0
        BY <2>2, <3>1 DEF From
      <4>2. QED
        BY <1>6, <2>1, <4>1
    <3>2. CASE d # 0
      <4>1. e # 1 /\ e - 1 = d
        BY <1>7, <2>2, <3>2
      <4>2. From(e) = ends[d]
        BY <4>1 DEF From
      <4>3. QED
        BY <1>6, <2>1, <3>2, <4>2
    <3>3. QED
      BY <3>1, <3>2
  <2>5. PICK y \in Nat, z \in Nat : y = From(e) /\ z = ends[e] /\ y < at /\ ~(z <= at)
    BY <2>3, <2>4
  <2>6. at \in y + 1 .. z /\ p < at
    BY <1>1, <2>5
  <2>7. QED
    BY <1>1, <1>9, <2>2, <2>5, <2>6
<1>12. Got(x, d, j, there)
  <2>1. \E g \in [DOMAIN x.records -> 1..d] :
           /\ \A i \in DOMAIN g : x.records[i] = Original(g[i])
           /\ \A i, l \in DOMAIN g : i < l => g[i] <= g[l]
    <3>1. PICK g \in [DOMAIN R.records -> 1..r] :
             /\ \A i \in DOMAIN g : R.records[i] = Original(g[i])
             /\ \A i, l \in DOMAIN g : i < l => g[i] <= g[l]
      BY DEF Got
    <3>2. \A i \in 1..r : i \in 1..d
      BY <1>7
    <3>3. g \in [DOMAIN x.records -> 1..d]
      BY <3>2
    <3>4. QED
      BY <3>1, <3>3
  <2>2. \A e \in 1..d : Hit(e) \/ \E i \in DOMAIN x.records : x.records[i] = Original(e)
    <3>1. ASSUME NEW e \in 1..d
          PROVE  Hit(e) \/ \E i \in DOMAIN x.records : x.records[i] = Original(e)
      <4>1. CASE e <= r
        <5>1. e \in 1..r
          BY <1>7, <4>1
        <5>2. QED
          BY <5>1 DEF Got
      <4>2. CASE ~(e <= r)
        BY <1>10, <4>2
      <4>3. QED
        BY <4>1, <4>2
    <3>2. QED
      BY <3>1
  <2>3. QED
    BY <1>3, <1>11, <2>1, <2>2 DEF Got
<1>13. QED
  BY <1>5, <1>12

\* What a reader that skips the rest of its block becomes.
Skips(R, x) ==
    /\ x.buffer = <<>> /\ x.at = R.at /\ x.eof = R.eof
    /\ ~x.inFragmented /\ x.scratch = <<>> /\ x.records = R.records

LEMMA BadRecordOK ==
    ASSUME LogAssumption, NEW w, NEW F, WrittenOK(w), Layout(w, F), Damaged(w),
           NEW R \in LogReaderType, BufferOK(R),
           NEW p, NEW at, NEW L, NEW s, NEW f, Here(w, R, p, at, L, s, f),
           NEW r, NEW k, NEW where, StateAt(w, F, p, r, k, where), Got(R, r, k, where),
           ZeroHeader(R.buffer) \/ Truncated(R.buffer) \/ ~ChecksumOK(R.buffer),
           ~(R.eof /\ Truncated(R.buffer)),
           NEW x \in LogReaderType, Skips(R, x)
    PROVE  ReaderOK(w, F, x)
<1>1. PICK b \in damage : b \in Nat /\ p < b /\ b <= at
  BY BadIsDamaged
<1>2. R.eof => at = L
  BY DEF BufferOK, Here
<1>3. ~x.inFragmented /\ x.scratch = <<>> /\ x.records = R.records
  BY DEF Skips
<1>4. PICK d, j, there : StateAt(w, F, at, d, j, there) /\ Got(x, d, j, there)
  BY <1>1, <1>2, <1>3, SkippedOK
<1>5. Len(x.buffer) = 0 /\ x.at = at /\ x.eof = R.eof /\ at = R.at
      /\ at \in Nat /\ L \in Nat /\ at <= L /\ L = Len(file)
  <2>1. at = R.at /\ at \in Nat /\ L \in Nat /\ at <= L /\ L = Len(file)
    BY DEF Here
  <2>2. x.buffer = <<>> /\ x.at = R.at /\ x.eof = R.eof
    BY DEF Skips
  <2>3. Len(x.buffer) = 0
    BY <2>2
  <2>4. QED
    BY <2>1, <2>2, <2>3
<1>6. Place(x) = at
  BY <1>5 DEF Place
<1>7. BufferOK(x)
  <2>1. IF R.eof THEN R.at = Len(file) ELSE R.at \in BlockStart
    BY DEF BufferOK
  <2>2. IF x.eof THEN x.at = Len(file) ELSE x.at \in BlockStart
    BY <1>5, <2>1
  <2>3. Len(x.buffer) <= x.at /\ x.at <= Len(file) /\ ~(Len(x.buffer) > 0)
    BY <1>5
  <2>4. \A i \in 1..Len(x.buffer) : x.buffer[i] = file[Place(x) + i]
    BY <1>5
  <2>5. QED
    BY <2>2, <2>3, <2>4 DEF BufferOK
<1>8. QED
  BY <1>4, <1>6, <1>7 DEF ReaderOK

-----------------------------------------------------------------------------
\* A fragment is taken.

\* It is in the buffer.
LEMMA PayloadIs ==
    ASSUME LogAssumption, NEW w, WrittenOK(w),
           NEW R, NEW p, NEW at, NEW L, NEW s, NEW f, Here(w, R, p, at, L, s, f),
           ~Truncated(R.buffer), ChecksumOK(R.buffer)
    PROVE  /\ EndOf(f) <= at
           /\ Head(R.buffer) = Header(f.type, f.r, f.from, f.n, 1)
           /\ SubSeq(R.buffer, kHeaderSize + 1, kHeaderSize + f.n) = Bytes(f.r, f.from, f.n)
<1>1. PICK n \in Nat, h \in Nat, B \in Nat :
         /\ n = f.n /\ h = kHeaderSize /\ B = kBlockSize /\ h > 1 /\ B > h
         /\ EndOf(f) = p + h + n /\ p + h + n <= s + B /\ p + h + n <= Len(w)
         /\ p \in Nat /\ at \in Nat /\ s \in Nat /\ L \in Nat
         /\ s <= p /\ p + h <= at /\ at <= L /\ at <= s + B
         /\ f.type \in FType /\ f.r \in Nat /\ f.from \in Nat
  BY HereIs
<1>2. Head(R.buffer) # Zero /\ Head(R.buffer) = Header(f.type, f.r, f.from, f.n, 1)
  BY DEF ChecksumOK, Here
<1>3. p + h + n <= at
  <2>1. ~(at < EndOf(f))
    BY <1>2, CutShort
  <2>2. QED
    BY <1>1, <2>1
<1>4. PICK buf \in Seq(Byte) : buf = R.buffer /\ Len(buf) = at - p
  BY DEF Here
<1>5. PICK t \in FType, r \in Nat, from \in Nat : t = f.type /\ r = f.r /\ from = f.from
  BY <1>1
<1>13. /\ n \in Nat /\ h \in Nat /\ p \in Nat /\ at \in Nat
       /\ h > 1 /\ p + h + n <= at
  BY <1>1, <1>3
<1>6. SubSeq(buf, 1, h + n) = Fragment(t, r, from, n)
  <2>1. Head(buf) = Header(t, r, from, n, 1)
    BY <1>1, <1>2, <1>4, <1>5
  <2>2. PICK z : z = SubSeq(buf, 1, kHeaderSize + n)
    OBVIOUS
  <2>3. z = Fragment(t, r, from, n)
    BY <1>4, <2>1, <2>2, GoodChecksum, ZenonT(40)
  <2>4. QED
    BY <1>1, <2>2, <2>3
<1>7. \A i \in 1..(h + n) : i \in 1..(at - p)
  BY <1>1, <1>3
<1>8. ASSUME NEW i \in 1..n PROVE buf[h + i] = Payload(r, from + i)
  <2>1. h + i \in 1..(h + n) /\ h + i \in 1..(h + n - 1 + 1) /\ 1 + (h + i) - 1 = h + i
    BY <1>13
  <2>2. \A l \in 1..(h + n) : buf[l] \in Byte
    BY <1>4, <1>7
  <2>3. h + n \in Int /\ 1 \in Int
    BY <1>1
  <2>4. \A l \in 1..(h + n - 1 + 1) : SubSeq(buf, 1, h + n)[l] = buf[1 + l - 1]
    BY <2>2, <2>3, SubSeqProperties
  <2>5. SubSeq(buf, 1, h + n)[h + i] = buf[h + i]
    BY <2>1, <2>4
  <2>6. Fragment(t, r, from, n)[kHeaderSize + i] = Payload(r, from + i)
    BY FragmentBytes
  <2>7. QED
    BY <1>1, <1>6, <2>5, <2>6
<1>9. PICK y \in Seq(Byte) : y = Bytes(r, from, n) /\ Len(y) = n
                             /\ \A i \in 1..n : y[i] = Payload(r, from + i)
  BY BytesAre, ZenonT(40)
<1>10. PICK z \in Seq(Byte) : z = SubSeq(buf, h + 1, h + n) /\ Len(z) = n
                              /\ \A i \in 1..n : z[i] = buf[h + i]
  <2>1. \A l \in h + 1 .. h + n : buf[l] \in Byte
    <3>1. \A l \in h + 1 .. h + n : l \in 1..(at - p)
      BY <1>1, <1>3
    <3>2. QED
      BY <1>4, <3>1
  <2>2. h + n \in Int /\ h + 1 \in Int
    BY <1>1
  <2>3. /\ SubSeq(buf, h + 1, h + n) \in Seq(Byte)
        /\ Len(SubSeq(buf, h + 1, h + n)) = (IF h + 1 <= h + n THEN h + n - (h + 1) + 1 ELSE 0)
        /\ \A i \in 1..(h + n - (h + 1) + 1) : SubSeq(buf, h + 1, h + n)[i] = buf[h + 1 + i - 1]
    BY <2>1, <2>2, SubSeqProperties
  <2>4. (IF h + 1 <= h + n THEN h + n - (h + 1) + 1 ELSE 0) = n
    BY <1>13
  <2>5. \A i \in 1..n : i \in 1..(h + n - (h + 1) + 1) /\ h + 1 + i - 1 = h + i
    BY <1>13
  <2>6. QED
    BY <2>3, <2>4, <2>5
<1>11. z = y
  BY <1>8, <1>9, <1>10, SeqEqual
<1>12. QED
  BY <1>1, <1>2, <1>3, <1>4, <1>5, <1>9, <1>10, <1>11

\* What is left in the buffer is what follows the fragment.
Rests(R, f, x) ==
    /\ x.buffer = SubSeq(R.buffer, kHeaderSize + f.n + 1, Len(R.buffer))
    /\ x.at = R.at /\ x.eof = R.eof

LEMMA RestOK ==
    ASSUME LogAssumption, NEW w, WrittenOK(w), NEW R \in LogReaderType, BufferOK(R),
           NEW p, NEW at, NEW L, NEW s, NEW f, Here(w, R, p, at, L, s, f), EndOf(f) <= at,
           NEW x, Rests(R, f, x)
    PROVE  BufferOK(x) /\ Place(x) = EndOf(f) /\ x.buffer \in Seq(Byte)
<1>1. PICK n \in Nat, h \in Nat, B \in Nat :
         /\ n = f.n /\ h = kHeaderSize /\ B = kBlockSize /\ h > 1 /\ B > h
         /\ EndOf(f) = p + h + n /\ p + h + n <= s + B /\ p + h + n <= Len(w)
         /\ p \in Nat /\ at \in Nat /\ s \in Nat /\ L \in Nat
         /\ s <= p /\ p + h <= at /\ at <= L /\ at <= s + B
  BY HereIs
<1>2. PICK buf \in Seq(Byte) : /\ buf = R.buffer /\ Len(buf) = at - p
                               /\ \A i \in 1..(at - p) : buf[i] = file[p + i]
  BY DEF Here
<1>3. PICK e \in Nat : e = EndOf(f) /\ e = p + h + n /\ e <= at
  BY <1>1
<1>9. /\ n \in Nat /\ h \in Nat /\ p \in Nat /\ at \in Nat /\ e \in Nat
      /\ e = p + h + n /\ e <= at
  BY <1>1, <1>3
<1>4. PICK len \in Nat : len = at - e /\ at - len = e /\ len <= at
  BY <1>9
<1>5. PICK z \in Seq(Byte) : z = x.buffer /\ Len(z) = len
                             /\ \A i \in 1..len : z[i] = file[e + i]
  <2>1. PICK a \in Nat, m \in Nat : a = h + n + 1 /\ m = at - p
    BY <1>1
  <2>2. \A l \in a .. m : buf[l] \in Byte
    <3>1. \A l \in a .. m : l \in 1..(at - p)
      BY <1>1, <2>1, SMTT(25)
    <3>2. QED
      BY <1>2, <3>1
  <2>3. /\ SubSeq(buf, a, m) \in Seq(Byte)
        /\ Len(SubSeq(buf, a, m)) = (IF a <= m THEN m - a + 1 ELSE 0)
        /\ \A i \in 1..(m - a + 1) : SubSeq(buf, a, m)[i] = buf[a + i - 1]
    BY <2>2, SubSeqProperties
  <2>4. (IF a <= m THEN m - a + 1 ELSE 0) = len
    BY <1>9, <1>4, <2>1
  <2>5. \A i \in 1..len : /\ i \in 1..(m - a + 1) /\ a + i - 1 \in 1..(at - p)
                          /\ p + (a + i - 1) = e + i
    BY <1>9, <1>4, <2>1
  <2>6. ASSUME NEW i \in 1..len PROVE SubSeq(buf, a, m)[i] = file[e + i]
    BY <1>2, <2>3, <2>5
  <2>7. x.buffer = SubSeq(buf, a, m)
    BY <1>1, <1>2, <2>1 DEF Rests
  <2>8. QED
    BY <2>3, <2>4, <2>6, <2>7
<1>6. Place(x) = e
  <2>1. x.at = at /\ Len(x.buffer) = len
    BY <1>5 DEF Here, Rests
  <2>2. QED
    BY <1>4, <2>1 DEF Place
<1>7. BufferOK(x)
  <2>1. x.at = at /\ x.eof = R.eof /\ at = R.at /\ L = Len(file)
    BY DEF Here, Rests
  <2>2. Len(x.buffer) <= x.at /\ x.at <= Len(file)
    BY <1>1, <1>4, <1>5, <2>1
  <2>3. \A i \in 1..Len(x.buffer) : x.buffer[i] = file[Place(x) + i]
    BY <1>5, <1>6
  <2>4. IF x.eof THEN x.at = Len(file) ELSE x.at \in BlockStart
    BY <2>1 DEF BufferOK
  <2>5. s \in BlockStart /\ s <= Place(x) /\ x.at <= s + kBlockSize
        /\ (x.at = s + kBlockSize \/ x.eof)
    <3>1. s <= e
      BY <1>1, <1>3
    <3>2. QED
      BY <1>1, <1>6, <2>1, <3>1 DEF Here
  <2>6. QED
    BY <2>2, <2>3, <2>4, <2>5 DEF BufferOK
<1>8. QED
  BY <1>3, <1>5, <1>6, <1>7

\* A record is complete.
LEMMA GotRecord ==
    ASSUME NEW R \in LogReaderType, NEW r \in Nat, NEW k, NEW where, Got(R, r, k, where),
           NEW x, x.records = Append(R.records, Original(r + 1)),
           x.scratch = <<>>, ~x.inFragmented, IsCut => ~x.dropped
    PROVE  Got(x, r + 1, 0, "between")
<1>8. R.records \in Seq(Seq(Byte))
  BY DEF LogReaderType
<1>9. PICK S \in Seq(Seq(Byte)) : S = R.records
  BY <1>8
<1>10. PICK m \in Nat : m = Len(S)
  BY <1>9
<1>11. PICK o : o = Original(r + 1)
  OBVIOUS
<1>12. PICK T : T = Append(S, o)
  OBVIOUS
<1>1. S = R.records /\ m = Len(S) /\ o = Original(r + 1) /\ T = x.records
  BY <1>9, <1>10, <1>11, <1>12
<1>2. /\ DOMAIN S = 1..m /\ DOMAIN T = 1..(m + 1)
      /\ \A i \in 1..m : T[i] = S[i]
      /\ T[m + 1] = o
  BY <1>10, <1>12
<1>3. PICK g \in [1..m -> 1..r] : /\ \A i \in 1..m : S[i] = Original(g[i])
                                  /\ \A i, l \in 1..m : i < l => g[i] <= g[l]
  <2>1. PICK g \in [DOMAIN R.records -> 1..r] :
           /\ \A i \in DOMAIN g : R.records[i] = Original(g[i])
           /\ \A i, j \in DOMAIN g : i < j => g[i] <= g[j]
    BY DEF Got
  <2>2. DOMAIN g = 1..m /\ g \in [1..m -> 1..r]
    BY <1>1, <1>2, <2>1
  <2>3. QED
    BY <1>1, <2>1, <2>2
<1>4. \E f \in [1..(m + 1) -> 1..(r + 1)] :
         /\ \A i \in DOMAIN f : T[i] = Original(f[i])
         /\ \A i, l \in DOMAIN f : i < l => f[i] <= f[l]
  <2> DEFINE f == [i \in 1..(m + 1) |-> IF i = m + 1 THEN r + 1 ELSE g[i]]
  <2>1. \A i \in 1..(m + 1) : i # m + 1 => i \in 1..m
    BY <1>1
  <2>2. \A i \in 1..m : g[i] \in Nat /\ g[i] <= r /\ g[i] \in 1..(r + 1)
    BY <1>3
  <2>3. r + 1 \in 1..(r + 1)
    OBVIOUS
  <2>4. f \in [1..(m + 1) -> 1..(r + 1)]
    BY <2>1, <2>2, <2>3
  <2>5. \A i \in 1..(m + 1) : T[i] = Original(f[i])
    BY <1>1, <1>2, <1>3, <2>1
  <2>6. ASSUME NEW i \in 1..(m + 1), NEW l \in 1..(m + 1), i < l
        PROVE  f[i] <= f[l]
    <3>1. i # m + 1 /\ i \in 1..m /\ f[i] = g[i]
      <4>1. i # m + 1
        BY <1>1, <2>6
      <4>2. QED
        BY <2>1, <4>1
    <3>2. CASE l = m + 1
      BY <2>2, <3>1, <3>2
    <3>3. CASE l # m + 1
      BY <1>3, <2>1, <2>6, <3>1, <3>3
    <3>4. QED
      BY <3>2, <3>3
  <2> HIDE DEF f
  <2>7. DOMAIN f = 1..(m + 1)
    BY <2>4
  <2>8. QED
    BY <2>4, <2>5, <2>6, <2>7
<1>5. ASSUME NEW e \in 1..(r + 1)
      PROVE  Hit(e) \/ \E i \in 1..(m + 1) : T[i] = Original(e)
  <2>1. CASE e \in 1..r
    <3>1. Hit(e) \/ \E i \in 1..m : S[i] = Original(e)
      BY <1>1, <1>2, <2>1 DEF Got
    <3>2. ASSUME NEW i \in 1..m, S[i] = Original(e)
          PROVE  \E l \in 1..(m + 1) : T[l] = Original(e)
      <4>1. i \in 1..(m + 1) /\ T[i] = Original(e)
        BY <1>2, <1>10, <3>2
      <4>2. QED
        BY <4>1
    <3>3. QED
      BY <3>1, <3>2
  <2>2. CASE e = r + 1
    <3>1. m + 1 \in 1..(m + 1)
      BY <1>10
    <3>2. T[m + 1] = Original(e)
      BY <1>1, <1>2, <2>2
    <3>3. QED
      BY <3>1, <3>2
  <2>3. e \in 1..r \/ e = r + 1
    OBVIOUS
  <2>4. QED
    BY <2>1, <2>2, <2>3
<1>6. IsCut => T = [i \in 1..(r + 1) |-> Original(i)]
  <2>1. SUFFICES ASSUME IsCut PROVE T = [i \in 1..(r + 1) |-> Original(i)]
    OBVIOUS
  <2>2. S = [i \in 1..r |-> Original(i)]
    BY <1>1, <2>1 DEF Got
  <2>3. m = r
    BY <1>1, <2>2
  <2>4. \A i \in 1..(m + 1) : i # m + 1 => i \in 1..m
    BY <1>1
  <2>5. \A i \in 1..(m + 1) : T[i] = Original(i)
    BY <1>1, <1>2, <2>2, <2>3, <2>4
  <2>6. T = [i \in 1..(m + 1) |-> T[i]]
    <3>1. S \in Seq(Seq(Byte) \cup {o}) /\ o \in Seq(Byte) \cup {o}
      BY <1>9
    <3>2. T \in Seq(Seq(Byte) \cup {o})
      BY <1>12, <3>1
    <3>3. Len(T) = m + 1
      BY <1>10, <1>12
    <3>4. QED
      BY <3>2, <3>3
  <2>7. QED
    BY <2>3, <2>5, <2>6
<1>13. DOMAIN x.records = 1..(m + 1)
  BY <1>1, <1>2
<1>14. /\ \E f \in [DOMAIN x.records -> 1..(r + 1)] :
             /\ \A i \in DOMAIN f : x.records[i] = Original(f[i])
             /\ \A i, j \in DOMAIN f : i < j => f[i] <= f[j]
       /\ \A e \in 1..(r + 1) : Hit(e) \/ \E i \in DOMAIN x.records : x.records[i] = Original(e)
       /\ IsCut => x.records = [i \in 1..(r + 1) |-> Original(i)]
  BY <1>1, <1>4, <1>5, <1>6, <1>13
<1>7. QED
  BY <1>14 DEF Got

\* A record whose beginning was lost has ended.
LEMMA GotNoRecord ==
    ASSUME NEW R \in LogReaderType, NEW r \in Nat, NEW k, NEW where, Got(R, r, k, where),
           where = "inside", ~R.inFragmented, r + 1 \in DOMAIN ends,
           NEW x, x.records = R.records, x.scratch = <<>>, ~x.inFragmented
    PROVE  Got(x, r + 1, 0, "between")
<1>1. ~IsCut /\ Hit(r + 1)
  BY DEF Got
<1>2. \A i \in 1..(r + 1) : i \in 1..r \/ i = r + 1
  OBVIOUS
<1>3. \A i \in 1..r : i \in 1..(r + 1)
  OBVIOUS
<1>4. \A e \in 1..(r + 1) : Hit(e) \/ \E i \in DOMAIN x.records : x.records[i] = Original(e)
  BY <1>1, <1>2 DEF Got
<1>5. \E f \in [DOMAIN x.records -> 1..(r + 1)] :
         /\ \A i \in DOMAIN f : x.records[i] = Original(f[i])
         /\ \A i, j \in DOMAIN f : i < j => f[i] <= f[j]
  <2>1. PICK f \in [DOMAIN R.records -> 1..r] :
           /\ \A i \in DOMAIN f : R.records[i] = Original(f[i])
           /\ \A i, j \in DOMAIN f : i < j => f[i] <= f[j]
    BY DEF Got
  <2>2. f \in [DOMAIN x.records -> 1..(r + 1)]
    BY <1>3
  <2>3. QED
    BY <2>1, <2>2
<1>6. QED
  BY <1>1, <1>4, <1>5 DEF Got

\* A part of a record is added.
LEMMA GotPart ==
    ASSUME NEW R, NEW r, NEW k, NEW where, Got(R, r, k, where),
           NEW x, NEW j, x.records = R.records, x.inFragmented, IsCut => ~x.dropped,
           x.scratch = Bytes(r + 1, 0, j)
    PROVE  Got(x, r, j, "inside")
BY DEF Got

\* Or lost.
LEMMA GotNoPart ==
    ASSUME NEW R, NEW r, NEW k, NEW where, Got(R, r, k, where),
           where = "inside", ~R.inFragmented,
           NEW x, NEW j, x.records = R.records, x.scratch = <<>>, ~x.inFragmented
    PROVE  Got(x, r, j, "inside")
BY DEF Got

\* What the switch of ReadRecord does, field by field.
Switched(R, type, bytes, x) ==
    /\ x.buffer = R.buffer /\ x.at = R.at /\ x.eof = R.eof
    /\ x \in LogReaderType
    /\ type = "full" =>
          /\ x.records = Append(R.records, bytes) /\ x.scratch = <<>> /\ ~x.inFragmented
          /\ ~R.dropped /\ R.scratch = <<>> => ~x.dropped
    /\ type = "first" =>
          /\ x.records = R.records /\ x.scratch = bytes /\ x.inFragmented
          /\ ~R.dropped /\ R.scratch = <<>> => ~x.dropped
    /\ type = "middle" /\ R.inFragmented =>
          /\ x.records = R.records /\ x.scratch = R.scratch \o bytes
          /\ x.inFragmented /\ (~R.dropped => ~x.dropped)
    /\ type = "last" /\ R.inFragmented =>
          /\ x.records = Append(R.records, R.scratch \o bytes)
          /\ x.scratch = <<>> /\ ~x.inFragmented /\ (~R.dropped => ~x.dropped)
    /\ type \in {"middle", "last"} /\ ~R.inFragmented =>
          /\ x.records = R.records /\ x.scratch = R.scratch /\ ~x.inFragmented

LEMMA TakeFields ==
    ASSUME NEW R \in LogReaderType, NEW type, NEW bytes \in Seq(Byte),
           NEW x, x = TakeFragment(R, type, bytes)
    PROVE  Switched(R, type, bytes, x)
<1>1. /\ R.scratch \in Seq(Byte) /\ R.records \in Seq(Seq(Byte)) /\ <<>> \in Seq(Byte)
      /\ R.dropped \in BOOLEAN /\ (R.dropped \/ R.scratch # <<>>) \in BOOLEAN
  BY DEF LogReaderType
<1>2. /\ R.scratch \o bytes \in Seq(Byte)
      /\ Append(R.records, bytes) \in Seq(Seq(Byte))
  BY <1>1
<1>3. Append(R.records, R.scratch \o bytes) \in Seq(Seq(Byte))
  BY <1>1, <1>2
<1>4. CASE type = "full"
  <2>1. x = [R EXCEPT !.records = Append(@, bytes), !.scratch = <<>>,
                      !.inFragmented = FALSE, !.dropped = @ \/ R.scratch # <<>>]
    BY <1>4 DEF TakeFragment
  <2>2. QED
    BY <1>1, <1>2, <1>4, <2>1 DEF LogReaderType, Switched
<1>5. CASE type = "first"
  <2>1. x = [R EXCEPT !.scratch = bytes, !.inFragmented = TRUE,
                      !.dropped = @ \/ R.scratch # <<>>]
    BY <1>5 DEF TakeFragment
  <2>2. QED
    BY <1>1, <1>2, <1>5, <2>1 DEF LogReaderType, Switched
<1>6. CASE type = "middle" /\ R.inFragmented
  <2>1. x = [R EXCEPT !.scratch = @ \o bytes]
    BY <1>6 DEF TakeFragment
  <2>2. QED
    BY <1>1, <1>2, <1>6, <2>1 DEF LogReaderType, Switched
<1>7. CASE type = "last" /\ R.inFragmented
  <2>1. x = [R EXCEPT !.records = Append(@, R.scratch \o bytes),
                      !.scratch = <<>>, !.inFragmented = FALSE]
    BY <1>7 DEF TakeFragment
  <2>2. QED
    BY <1>1, <1>3, <1>7, <2>1 DEF LogReaderType, Switched
<1>8. CASE ~(type \in {"full", "first"}) /\ ~(type \in {"middle", "last"} /\ R.inFragmented)
  <2>1. x = [R EXCEPT !.dropped = TRUE]
    BY <1>8 DEF TakeFragment
  <2>2. QED
    BY <1>1, <1>8, <2>1 DEF LogReaderType, Switched
<1>9. QED
  BY <1>4, <1>5, <1>6, <1>7, <1>8

LEMMA TakeOK ==
    ASSUME LogAssumption, NEW w, NEW F, WrittenOK(w), Layout(w, F), Damaged(w),
           NEW R \in LogReaderType, BufferOK(R),
           NEW p, NEW at, NEW L, NEW s, NEW f \in F, Here(w, R, p, at, L, s, f),
           NEW r, NEW k, NEW where, StateAt(w, F, p, r, k, where), Got(R, r, k, where),
           f.r = r + 1, f.from = k, Before(f) = where,
           ~Truncated(R.buffer), ChecksumOK(R.buffer),
           NEW z, z = SubSeq(R.buffer, kHeaderSize + f.n + 1, Len(R.buffer)),
           NEW x, x = TakeFragment([R EXCEPT !.buffer = z], f.type,
                                   SubSeq(R.buffer, kHeaderSize + 1, kHeaderSize + f.n))
    PROVE  ReaderOK(w, F, x)
<1>1. /\ EndOf(f) <= at
      /\ SubSeq(R.buffer, kHeaderSize + 1, kHeaderSize + f.n) = Bytes(f.r, f.from, f.n)
  BY PayloadIs
<1>2. f.r \in Nat /\ f.from \in Nat /\ f.n \in Nat /\ f.type \in FType
  <2>1. \E n \in Nat, h \in Nat, B \in Nat :
           n = f.n /\ f.type \in FType /\ f.r \in Nat /\ f.from \in Nat
    BY HereIs, SMTT(25)
  <2>2. QED
    BY <2>1
<1>3. r \in Nat /\ k \in Nat
  <2>1. r \in 0..Len(ends) /\ Len(ends) \in Nat
    BY DEF StateAt, EndsBefore, WrittenOK
  <2>2. QED
    BY <1>2, <2>1
<1>4. PICK n \in Nat : n = f.n
  BY <1>2
<1>5. PICK bytes \in Seq(Byte) : bytes = Bytes(r + 1, k, n)
  <2>1. r + 1 \in Nat
    BY <1>3
  <2>2. QED
    BY <1>3, <2>1, BytesAre
<1>6. PICK rest : rest = [R EXCEPT !.buffer = z]
  OBVIOUS
<1>7. z \in Seq(Byte)
  <2>1. PICK buf \in Seq(Byte) : buf = R.buffer
    BY DEF LogReaderType
  <2>2. PICK m \in Nat : m = kHeaderSize + f.n + 1
    BY <1>2, SMTT(25) DEF LogAssumption
  <2>3. \A i \in m..Len(buf) : buf[i] \in Byte
    <3>1. m >= 1
      BY <1>2, <2>2, SMTT(25) DEF LogAssumption
    <3>2. \A i \in m..Len(buf) : i \in 1..Len(buf)
      BY <2>1, <3>1
    <3>3. QED
      BY <2>1, <3>2
  <2>4. SubSeq(buf, m, Len(buf)) \in Seq(Byte)
    BY <2>1, <2>3, SubSeqProperties
  <2>5. QED
    BY <2>1, <2>2, <2>4
<1>8. /\ rest \in LogReaderType /\ rest.buffer = z /\ rest.at = R.at /\ rest.eof = R.eof
      /\ rest.records = R.records /\ rest.scratch = R.scratch
      /\ rest.inFragmented = R.inFragmented /\ rest.dropped = R.dropped
  BY <1>6, <1>7 DEF LogReaderType
<1>9. x = TakeFragment(rest, f.type, bytes)
  BY <1>1, <1>4, <1>5, <1>6
<1>23. Switched(rest, f.type, bytes, x)
  BY <1>8, <1>9, TakeFields, SMTT(25)
<1>10. /\ x.buffer = z /\ x.at = R.at /\ x.eof = R.eof /\ x \in LogReaderType
  BY <1>8, <1>23 DEF Switched
<1>11. BufferOK(x) /\ Place(x) = EndOf(f)
  <2>1. x.buffer = SubSeq(R.buffer, kHeaderSize + f.n + 1, Len(R.buffer))
    BY <1>10
  <2>2. x.at = R.at /\ x.eof = R.eof
    BY <1>10
  <2>3. Rests(R, f, x)
    BY <2>1, <2>2 DEF Rests
  <2>4. EndOf(f) <= at
    BY <1>1
  <2>5. QED
    BY <2>3, <2>4, RestOK
<1>12. IF IsLast(f) THEN StateAt(w, F, EndOf(f), f.r, 0, "between")
       ELSE StateAt(w, F, EndOf(f), f.r - 1, f.from + f.n, "inside")
  BY DEF Layout
<1>13. f.r - 1 = r /\ f.from + f.n = k + n
  BY <1>3, <1>4
<1>14. IsLast(f) => /\ r + 1 \in DOMAIN ends
                    /\ k + n = lengths[r + 1]
  BY <1>4 DEF Here, FragmentOK
<1>15. IsFirst(f) => k = 0
  BY DEF Here, FragmentOK
<1>16. IsCut => ~R.dropped
  BY DEF Got
<1>17. where = "between" => ~R.inFragmented /\ R.scratch = <<>>
  BY DEF Got
<1>18. CASE f.type = "full"
  <2>1. IsLast(f) /\ IsFirst(f) /\ where = "between"
    BY <1>18 DEF IsLast, IsFirst, Before
  <2>2. bytes = Original(r + 1)
    BY <1>3, <1>4, <1>5, <1>14, <1>15, <2>1 DEF Original
  <2>3. /\ x.records = Append(R.records, Original(r + 1)) /\ x.scratch = <<>> /\ ~x.inFragmented
        /\ ~R.dropped => ~x.dropped
    BY <1>8, <1>23, <1>17, <1>18, <2>1, <2>2 DEF Switched
  <2>4. Got(x, r + 1, 0, "between")
    BY <1>3, <1>16, <2>3, GotRecord
  <2>5. QED
    BY <1>10, <1>11, <1>12, <2>1, <2>4 DEF ReaderOK
<1>19. CASE f.type = "first"
  <2>1. ~IsLast(f) /\ IsFirst(f) /\ where = "between"
    BY <1>19 DEF IsLast, IsFirst, Before
  <2>2. /\ x.records = R.records /\ x.scratch = bytes /\ x.inFragmented
        /\ ~R.dropped => ~x.dropped
    BY <1>8, <1>23, <1>17, <1>19, <2>1 DEF Switched
  <2>3. bytes = Bytes(r + 1, 0, k + n)
    BY <1>4, <1>5, <1>15, <2>1
  <2>4. Got(x, r, k + n, "inside")
    BY <1>16, <2>2, <2>3, GotPart
  <2>5. QED
    BY <1>10, <1>11, <1>12, <1>13, <2>1, <2>4 DEF ReaderOK
<1>20. CASE f.type \in {"middle", "last"} /\ ~R.inFragmented
  <2>1. where = "inside"
    BY <1>20 DEF IsFirst, Before
  <2>2. x.records = R.records /\ x.scratch = R.scratch /\ ~x.inFragmented
    BY <1>8, <1>23, <1>20 DEF Switched
  <2>3. x.scratch = <<>>
    BY <1>20, <2>2 DEF Got
  <2>4. CASE IsLast(f)
    <3>1. Got(x, r + 1, 0, "between")
      BY <1>3, <1>14, <1>20, <2>1, <2>2, <2>3, <2>4, GotNoRecord
    <3>2. QED
      BY <1>10, <1>11, <1>12, <2>4, <3>1 DEF ReaderOK
  <2>5. CASE ~IsLast(f)
    <3>1. Got(x, r, k + n, "inside")
      BY <1>20, <2>1, <2>2, <2>3, GotNoPart
    <3>2. QED
      BY <1>10, <1>11, <1>12, <1>13, <2>5, <3>1 DEF ReaderOK
  <2>6. QED
    BY <2>4, <2>5
<1>21. CASE f.type \in {"middle", "last"} /\ R.inFragmented
  <2>1. R.scratch = Bytes(r + 1, 0, k)
    BY <1>21 DEF Got
  <2>2. R.scratch \o bytes = Bytes(r + 1, 0, k + n)
    <3>1. PICK j \in Nat : j = r + 1
      BY <1>3
    <3>2. Bytes(j, 0, k) \o Bytes(j, k, n) = Bytes(j, 0, k + n)
      BY <1>3, BytesJoin
    <3>3. QED
      BY <1>5, <2>1, <3>1, <3>2
  <2>3. CASE f.type = "middle"
    <3>1. ~IsLast(f)
      BY <2>3 DEF IsLast
    <3>2. /\ x.records = R.records /\ x.scratch = R.scratch \o bytes
          /\ x.inFragmented /\ (~R.dropped => ~x.dropped)
      BY <1>8, <1>23, <1>21, <2>3 DEF Switched
    <3>3. Got(x, r, k + n, "inside")
      BY <1>16, <2>2, <3>2, GotPart
    <3>4. QED
      BY <1>10, <1>11, <1>12, <1>13, <3>1, <3>3 DEF ReaderOK
  <2>4. CASE f.type = "last"
    <3>1. IsLast(f)
      BY <2>4 DEF IsLast
    <3>2. R.scratch \o bytes = Original(r + 1)
      BY <1>14, <2>2, <3>1 DEF Original
    <3>3. /\ x.records = Append(R.records, R.scratch \o bytes)
          /\ x.scratch = <<>> /\ ~x.inFragmented /\ (~R.dropped => ~x.dropped)
      BY <1>8, <1>23, <1>21, <2>4 DEF Switched
    <3>4. Got(x, r + 1, 0, "between")
      BY <1>3, <1>16, <3>2, <3>3, GotRecord
    <3>5. QED
      BY <1>10, <1>11, <1>12, <3>1, <3>4 DEF ReaderOK
  <2>5. QED
    BY <1>21, <2>3, <2>4
<1>22. QED
  BY <1>2, <1>18, <1>19, <1>20, <1>21 DEF FType

-----------------------------------------------------------------------------
\* The steps of the reader.

LEMMA ReadPhysicalOK ==
    ASSUME LogAssumption, NEW w, NEW F, WrittenOK(w), Layout(w, F), Damaged(w),
           NEW R, ReaderOK(w, F, R), R = logReader, ReadPhysicalRecord,
           NEW x, x = logReader'
    PROVE  ReaderOK(w, F, x)
<1>1. R \in LogReaderType /\ BufferOK(R)
  BY DEF ReaderOK
<1>2. PICK r, k, where : StateAt(w, F, Place(R), r, k, where) /\ Got(R, r, k, where)
  BY DEF ReaderOK
<1>3. Len(R.buffer) >= kHeaderSize /\ ~(R.eof /\ Truncated(R.buffer))
  BY DEF ReadPhysicalRecord
<1>4. PICK p, at, L, s : \E f \in F : /\ Here(w, R, p, at, L, s, f)
                                      /\ f.r = r + 1 /\ f.from = k /\ Before(f) = where
  BY <1>1, <1>2, <1>3, FragmentHere
<1>5. PICK f \in F : /\ Here(w, R, p, at, L, s, f)
                     /\ f.r = r + 1 /\ f.from = k /\ Before(f) = where
  BY <1>4
<1>6. StateAt(w, F, p, r, k, where)
  BY <1>2, <1>5 DEF Here
<1>7. CASE ZeroHeader(R.buffer) \/ Truncated(R.buffer) \/ ~ChecksumOK(R.buffer)
  <2>1. x = BadRecord(R) \/ x = [BadRecord(R) EXCEPT !.dropped = TRUE]
    BY <1>7 DEF ReadPhysicalRecord
  <2>2. x \in LogReaderType
    <3>1. R.inFragmented \in BOOLEAN /\ R.dropped \in BOOLEAN /\ <<>> \in Seq(Byte)
      BY <1>1 DEF LogReaderType
    <3>2. (R.dropped \/ R.inFragmented) \in BOOLEAN
      BY <3>1
    <3>3. PICK y : y = BadRecord(R)
      OBVIOUS
    <3>4. y \in LogReaderType
      BY <1>1, <3>1, <3>2, <3>3 DEF BadRecord, LogReaderType
    <3>5. [y EXCEPT !.dropped = TRUE] \in LogReaderType
      BY <3>4 DEF LogReaderType
    <3>6. QED
      BY <2>1, <3>3, <3>4, <3>5
  <2>3. Skips(R, x)
    BY <1>1, <2>1 DEF BadRecord, LogReaderType, Skips
  <2>4. QED
    BY <1>1, <1>2, <1>3, <1>5, <1>6, <1>7, <2>2, <2>3, BadRecordOK
<1>8. CASE ~ZeroHeader(R.buffer) /\ ~Truncated(R.buffer) /\ ChecksumOK(R.buffer)
  <2>1. HeaderAt(R.buffer).type = f.type /\ HeaderAt(R.buffer).n = f.n
    <3>1. Head(R.buffer) = Header(f.type, f.r, f.from, f.n, 1)
      BY <1>5, <1>8, PayloadIs
    <3>2. PICK buf, t, g, from, n : /\ buf = R.buffer /\ t = f.type /\ g = f.r
                                    /\ from = f.from /\ n = f.n
      OBVIOUS
    <3>3. Head(buf) = Header(t, g, from, n, 1)
      BY <3>1, <3>2
    <3>4. HeaderAt(buf).type = t /\ HeaderAt(buf).n = n
      BY <3>3, GoodHeader
    <3>5. QED
      BY <3>2, <3>4
  <2>2. PICK z : z = SubSeq(R.buffer, kHeaderSize + f.n + 1, Len(R.buffer))
    OBVIOUS
  <2>3. x = TakeFragment([R EXCEPT !.buffer = z], f.type,
                         SubSeq(R.buffer, kHeaderSize + 1, kHeaderSize + f.n))
    BY <1>8, <2>1, <2>2 DEF ReadPhysicalRecord
  <2>4. QED
    BY <1>1, <1>2, <1>5, <1>6, <1>8, <2>2, <2>3, TakeOK
<1>9. QED
  BY <1>7, <1>8

LEMMA BlockIsRead ==
    ASSUME LogAssumption, NEW w, NEW F, WrittenOK(w), Layout(w, F), Damaged(w),
           NEW R, ReaderOK(w, F, R), R = logReader, ReadBlock,
           NEW x, x = logReader'
    PROVE  ReaderOK(w, F, x)
<1>1. R \in LogReaderType /\ BufferOK(R)
  BY DEF ReaderOK
<1>2. PICK to : to = R.at + kBlockSize
  OBVIOUS
<1>3. PICK block : block = SubSeq(file, R.at + 1, IF to < Len(file) THEN to ELSE Len(file))
  OBVIOUS
<1>4. /\ Len(R.buffer) < kHeaderSize /\ ~R.eof
      /\ x = [R EXCEPT !.buffer = block, !.at = @ + Len(block),
                       !.eof = Len(block) < kBlockSize]
  BY <1>2, <1>3 DEF ReadBlock
<1>5. block \in Seq(Byte)
  <2>1. PICK v \in Seq(Byte), L \in Nat : v = file /\ L = Len(v)
    BY DEF Damaged
  <2>2. PICK at \in Nat, B \in Nat : at = R.at /\ B = kBlockSize
    BY <1>1 DEF LogReaderType, LogAssumption
  <2>3. PICK m \in Nat : m = (IF at + B < L THEN at + B ELSE L) /\ m <= L
    BY <2>1, <2>2
  <2>4. \A i \in at + 1 .. m : v[i] \in Byte
    BY <2>1, <2>2, <2>3
  <2>5. at + 1 \in Int /\ m \in Int
    BY <2>2, <2>3
  <2>6. SubSeq(v, at + 1, m) \in Seq(Byte)
    BY <2>4, <2>5, SubSeqProperties
  <2>7. block = SubSeq(v, at + 1, m)
    BY <1>2, <1>3, <2>1, <2>2, <2>3
  <2>8. QED
    BY <2>6, <2>7
<1>6. x \in LogReaderType
  <2>1. Len(block) \in Nat
    BY <1>5
  <2>2. R.at + Len(block) \in Nat
    BY <1>1, <2>1 DEF LogReaderType
  <2>3. (Len(block) < kBlockSize) \in BOOLEAN
    OBVIOUS
  <2>4. QED
    BY <1>1, <1>4, <1>5, <2>2, <2>3 DEF LogReaderType
<1>7. BlockRead(R, x)
  <2>1. /\ x.buffer = block /\ x.at = R.at + Len(block)
        /\ x.eof = (Len(block) < kBlockSize)
        /\ x.scratch = R.scratch /\ x.inFragmented = R.inFragmented
        /\ x.records = R.records /\ x.dropped = R.dropped
    BY <1>1, <1>4 DEF LogReaderType
  <2>2. QED
    BY <1>2, <1>3, <2>1 DEF BlockRead
<1>8. QED
  BY <1>4, <1>6, <1>7, ReadBlockOK

-----------------------------------------------------------------------------
\* The end of the file.

LEMMA FragmentEnds ==
    ASSUME LogAssumption, NEW w, NEW F, WrittenOK(w), Layout(w, F),
           NEW f \in F, FragmentOK(w, f), f.r \in DOMAIN ends
    PROVE  EndOf(f) <= ends[f.r]
<1>1. CASE IsLast(f)
  <2>1. ends[f.r] = EndOf(f) /\ ends[f.r] \in Nat
    BY <1>1, EndsAre DEF FragmentOK
  <2>2. QED
    BY <2>1
<1>2. CASE ~IsLast(f)
  <2>1. EndsBefore(EndOf(f), f.r - 1)
    BY <1>2 DEF Layout, StateAt
  <2>2. PICK e \in DOMAIN ends : e = f.r
    OBVIOUS
  <2>3. e \in Nat /\ ends[e] \in Nat
    BY EndsAre
  <2>4. ~(e <= e - 1)
    BY <2>3
  <2>5. ~(ends[e] <= EndOf(f))
    BY <2>1, <2>2, <2>4 DEF EndsBefore
  <2>6. EndOf(f) \in Nat
    BY DEF EndOf, FragmentOK, LogAssumption
  <2>7. QED
    BY <2>2, <2>3, <2>5, <2>6
<1>3. QED
  BY <1>1, <1>2

\* Where the reader stops, every record that ends in the file has been passed.
LEMMA NoMore ==
    ASSUME LogAssumption, NEW w, NEW F, WrittenOK(w), Layout(w, F), Damaged(w),
           NEW R \in LogReaderType, BufferOK(R), R.eof, Truncated(R.buffer),
           NEW r, NEW k, NEW where, StateAt(w, F, Place(R), r, k, where),
           NEW e \in DOMAIN ends
    PROVE  /\ ends[e] <= Len(file) => e <= r
           /\ e <= r => ends[e] <= Len(file)
<1>1. PICK p \in Nat, at \in Nat, len \in Nat, L \in Nat :
         /\ p = Place(R) /\ at = R.at /\ len = Len(R.buffer) /\ L = Len(file)
         /\ p = at - len /\ p + len = at /\ at <= L /\ L <= Len(w)
         /\ Len(w) \in Nat
  BY PlaceIs
<1>2. /\ p \in Nat /\ at \in Nat /\ len \in Nat /\ L \in Nat
      /\ p + len = at
  BY <1>1
<1>3. at = L
  BY <1>1 DEF BufferOK
<1>4. /\ r \in 0..Len(ends) /\ \A d \in DOMAIN ends : ends[d] <= p <=> d <= r
      /\ Len(ends) \in Nat /\ DOMAIN ends = 1..Len(ends)
  <2>1. StateAt(w, F, p, r, k, where)
    BY <1>1
  <2>2. EndsBefore(p, r)
    BY <2>1 DEF StateAt
  <2>3. ends \in Seq(Nat)
    BY DEF WrittenOK
  <2>4. Len(ends) \in Nat /\ DOMAIN ends = 1..Len(ends)
    BY <2>3
  <2>5. QED
    BY <2>2, <2>4 DEF EndsBefore
<1>5. e \in Nat /\ 1 <= e /\ e <= Len(ends) /\ ends[e] \in Nat
  BY EndsAre
<1>6. ASSUME e <= r PROVE ends[e] <= L
  <2>1. ends[e] <= p
    BY <1>4, <1>6
  <2>2. QED
    BY <1>2, <1>3, <1>5, <2>1
<1>7. ASSUME ends[e] <= L, ~(e <= r) PROVE FALSE
  <2>1. PICK j \in Nat : j = r
    BY <1>4
  <2>2. j + 1 \in DOMAIN ends /\ j + 1 <= e
    BY <1>4, <1>5, <1>7, <2>1
  <2>3. PICK d \in DOMAIN ends : d = j + 1 /\ d <= e
    BY <2>2
  <2>4. d \in Nat /\ ends[d] \in Nat /\ ends[d] <= Len(w)
    BY EndsAre
  <2>5. ends[d] <= L
    <3>1. CASE d = e
      BY <1>7, <3>1
    <3>2. CASE d # e
      <4>1. d < e
        BY <1>5, <2>3, <2>4, <3>2
      <4>2. ends[d] < ends[e]
        BY <4>1, EndsAre
      <4>3. QED
        BY <1>2, <1>5, <1>7, <2>4, <4>2
    <3>3. QED
      BY <3>1, <3>2
  <2>6. ~(ends[d] <= p)
    <3>1. ~(d <= j)
      BY <2>1, <2>3
    <3>2. QED
      BY <1>4, <2>1, <3>1
  <2>7. p # Len(w)
    BY <2>4, <2>6
  <2>8. StateAt(w, F, p, r, k, where)
    BY <1>1
  <2>9. PICK f \in F : /\ FragmentOK(w, f) /\ f.q = FragmentAfter(p)
                       /\ f.r = r + 1 /\ f.from = k /\ Before(f) = where
    BY <2>7, <2>8, FragmentNext
  <2>10. f.r = d
    BY <2>1, <2>3, <2>9
  <2>11. EndOf(f) <= ends[d]
    BY <2>9, <2>10, FragmentEnds
  <2>12. PICK q \in Nat, h \in Nat, n \in Nat :
            /\ q = f.q /\ h = kHeaderSize /\ n = f.n /\ EndOf(f) = q + h + n
            /\ p <= q
    <3>1. FragmentAfter(p) \in Nat /\ p <= FragmentAfter(p)
      BY AfterIsLater
    <3>2. kHeaderSize \in Nat /\ f.q \in Nat /\ f.n \in Nat
      BY <2>9 DEF LogAssumption, FragmentOK
    <3>3. EndOf(f) = f.q + kHeaderSize + f.n
      BY DEF EndOf
    <3>4. QED
      BY <2>9, <3>1, <3>2, <3>3
  <2>13. len >= h
    <3>1. q + h + n <= L
      <4>1. PICK y \in Nat : y = ends[d] /\ y <= L /\ q + h + n <= y
        BY <2>4, <2>5, <2>11, <2>12
      <4>2. QED
        BY <1>2, <4>1
    <3>2. QED
      BY <1>2, <1>3, <2>12, <3>1
  <2>14. Len(R.buffer) >= kHeaderSize
    BY <1>1, <2>12, <2>13
  <2>15. PICK p2, at2, L2, s2 : \E g \in F :
            /\ Here(w, R, p2, at2, L2, s2, g)
            /\ g.r = r + 1 /\ g.from = k /\ Before(g) = where
    BY <2>14, FragmentHere
  <2>16. PICK g \in F : /\ Here(w, R, p2, at2, L2, s2, g) /\ g.r = r + 1
    BY <2>15
  <2>17. CASE Head(R.buffer) = Zero
    <3>1. ~Truncated(R.buffer)
      <4>1. Len(R.buffer) \in Nat
        BY <1>1
      <4>2. QED
        BY <2>14, <2>17, <4>1, LostHeader
    <3>2. QED
      BY <3>1
  <2>18. CASE Head(R.buffer) # Zero
    <3>1. at2 < EndOf(g)
      BY <2>16, <2>18, CutShort
    <3>2. at2 = L
      BY <1>1, <1>3, <2>16 DEF Here
    <3>3. FragmentOK(w, g) /\ g.r = d
      BY <2>1, <2>3, <2>16 DEF Here
    <3>4. EndOf(g) <= ends[d]
      BY <3>3, FragmentEnds
    <3>5. EndOf(g) \in Nat
      BY <3>3 DEF EndOf, FragmentOK, LogAssumption
    <3>6. QED
      BY <1>2, <2>4, <2>5, <3>1, <3>2, <3>4, <3>5
  <2>19. QED
    BY <2>17, <2>18
<1>8. QED
  BY <1>1, <1>6, <1>7

\* What the reader R has given back.
GivesPrefix(R) ==
    IsCut =>
        /\ R.records =
             [r \in 1..Cardinality({e \in DOMAIN ends : ends[e] <= Len(file)})
                 |-> Original(r)]
        /\ ~R.dropped

GivesWhole(R) ==
    \E f \in [DOMAIN R.records -> DOMAIN lengths] :
        /\ \A i \in DOMAIN f : R.records[i] = Original(f[i])
        /\ \A i, j \in DOMAIN f : i < j => f[i] <= f[j]

GivesRest(R) ==
    \A r \in DOMAIN ends :
        LET from == IF r = 1 THEN 0 ELSE ends[r - 1]
            hit  == {(b - 1) \div kBlockSize : b \in damage}
            in   == {(b - 1) \div kBlockSize : b \in from + 1 .. ends[r]}
        IN  hit \cap in = {} => \E i \in DOMAIN R.records : R.records[i] = Original(r)

LEMMA RecordsAre ==
    ASSUME LogAssumption, NEW w, NEW F, WrittenOK(w), Damaged(w),
           NEW R, ReaderOK(w, F, R)
    PROVE  GivesWhole(R)
<1>1. PICK r, k, where : StateAt(w, F, Place(R), r, k, where) /\ Got(R, r, k, where)
  BY DEF ReaderOK
<1>2. \A e \in 1..r : e \in DOMAIN lengths
  <2>1. PICK m \in Nat, n \in Nat : m = Len(ends) /\ n = Len(lengths)
                                    /\ DOMAIN lengths = 1..n /\ m <= n
    <3>1. PICK m \in Nat, n \in Nat : m = Len(ends) /\ n = Len(lengths)
                                      /\ DOMAIN lengths = 1..n
      BY DEF WrittenOK
    <3>2. left = 0 \/ left > 0
      BY DEF WrittenOK, LogAssumption
    <3>3. n = m + 1 \/ n = m
      BY <3>1, <3>2 DEF WrittenOK
    <3>4. m <= n
      BY <3>1, <3>3
    <3>5. QED
      BY <3>1, <3>4
  <2>2. r \in 0..m
    BY <1>1, <2>1 DEF StateAt, EndsBefore
  <2>3. QED
    BY <2>1, <2>2
<1>3. PICK f \in [DOMAIN R.records -> 1..r] :
         /\ \A i \in DOMAIN f : R.records[i] = Original(f[i])
         /\ \A i, j \in DOMAIN f : i < j => f[i] <= f[j]
  BY <1>1 DEF Got
<1>4. f \in [DOMAIN R.records -> DOMAIN lengths]
  BY <1>2, <1>3
<1>5. QED
  BY <1>3, <1>4 DEF GivesWhole

LEMMA EndOK ==
    ASSUME LogAssumption, NEW w, NEW F, WrittenOK(w), Layout(w, F), Damaged(w),
           NEW R, ReaderOK(w, F, R), R.eof, Truncated(R.buffer)
    PROVE  GivesPrefix(R) /\ GivesRest(R)
<1>1. R \in LogReaderType /\ BufferOK(R)
  BY DEF ReaderOK
<1>2. PICK r, k, where : StateAt(w, F, Place(R), r, k, where) /\ Got(R, r, k, where)
  BY DEF ReaderOK
<1>3. r \in 0..Len(ends) /\ DOMAIN ends = 1..Len(ends) /\ Len(ends) \in Nat /\ r \in Nat
  BY <1>2 DEF StateAt, EndsBefore, WrittenOK
<1>4. ASSUME NEW e \in DOMAIN ends
      PROVE  /\ ends[e] <= Len(file) => e <= r
             /\ e <= r => ends[e] <= Len(file)
  BY <1>1, <1>2, NoMore
<1>5. GivesPrefix(R)
  <2>1. {e \in DOMAIN ends : ends[e] <= Len(file)} = 1..r
    BY <1>3, <1>4
  <2>2. Cardinality(1..r) = r
    <3>1. Cardinality(1..r) = IF 1 > r THEN 0 ELSE r - 1 + 1
      BY <1>3, FS_Interval
    <3>2. QED
      BY <1>3, <3>1
  <2>3. IsCut => ~R.dropped /\ R.records = [i \in 1..r |-> Original(i)]
    BY <1>2 DEF Got
  <2>4. QED
    BY <2>1, <2>2, <2>3 DEF GivesPrefix
<1>6. GivesRest(R)
  <2>1. ASSUME NEW e \in DOMAIN ends,
               {(b - 1) \div kBlockSize : b \in damage}
                 \cap {(b - 1) \div kBlockSize : b \in From(e) + 1 .. ends[e]} = {}
        PROVE  \E i \in DOMAIN R.records : R.records[i] = Original(e)
    <3>1. ~Hit(e)
      BY <2>1 DEF Hit, BlockNo
    <3>2. e \in Nat /\ 1 <= e /\ ends[e] \in Nat /\ ends[e] <= Len(w)
          /\ ends[e] \in From(e) + 1 .. ends[e] /\ Len(w) \in Nat
      BY EndsAre
    <3>3. CASE e <= r
      <4>1. e \in 1..r
        BY <1>3, <3>2, <3>3
      <4>2. QED
        BY <1>2, <3>1, <4>1 DEF Got
    <3>4. CASE ~(e <= r)
      <4>1. ~(ends[e] <= Len(file)) /\ Len(file) \in Nat
        BY <1>4, <3>4 DEF Damaged
      <4>2. IsCut
        <5>1. Len(file) # Len(w)
          BY <3>2, <4>1
        <5>2. QED
          BY <5>1 DEF Damaged
      <4>3. ends[e] \in Len(file) + 1 .. Len(w)
        BY <3>2, <4>1
      <4>4. ends[e] \in damage
        BY <4>2, <4>3 DEF Damaged
      <4>5. Hit(e)
        BY <3>2, <4>4 DEF Hit
      <4>6. QED
        BY <3>1, <4>5
    <3>5. QED
      BY <3>3, <3>4
  <2>2. QED
    BY <2>1 DEF GivesRest, From
<1>7. QED
  BY <1>5, <1>6

-----------------------------------------------------------------------------
\* The inductive invariant.

Written == \E w, F : w = file /\ WrittenOK(w) /\ Layout(w, F)

Reading ==
    \E w, F, R : /\ WrittenOK(w) /\ Layout(w, F) /\ Damaged(w)
                 /\ R = logReader /\ ReaderOK(w, F, R)

Finished ==
    \E R \in LogReaderType : /\ R = logReader
                          /\ GivesPrefix(R) /\ GivesWhole(R) /\ GivesRest(R)

LogIInv ==
    /\ phase \in {"write", "read", "done"}
    /\ \E w : WrittenOK(w)
    /\ phase = "write" => Written /\ logReader = NewReader
    /\ phase = "read" => Reading
    /\ phase = "done" => Finished

\* What the reader does leaves these as they are.
LEMMA FrameWriter ==
    ASSUME UNCHANGED <<logWriter, damage>>, NEW w, WrittenOK(w)
    PROVE  WrittenOK(w)'
BY DEF WrittenOK, logWriter

LEMMA FrameLayout ==
    ASSUME UNCHANGED <<logWriter, damage>>, NEW w, NEW F, Layout(w, F)
    PROVE  Layout(w, F)'
<1>1. ends' = ends /\ lengths' = lengths /\ left' = left /\ begin' = begin
  BY DEF logWriter
<1>2. ASSUME NEW p, NEW r, NEW k, NEW where, StateAt(w, F, p, r, k, where)
      PROVE  StateAt(w, F, p, r, k, where)'
  BY <1>1, <1>2 DEF StateAt, EndsBefore, AtEnd
<1>3. ASSUME NEW f, FragmentOK(w, f)
      PROVE  FragmentOK(w, f)'
  BY <1>1, <1>3 DEF FragmentOK
<1>4. QED
  BY <1>2, <1>3 DEF Layout

LEMMA FrameDamaged ==
    ASSUME UNCHANGED <<logWriter, damage>>, NEW w, Damaged(w)
    PROVE  Damaged(w)'
BY DEF Damaged, IsCut, logWriter

LEMMA FrameReader ==
    ASSUME UNCHANGED <<logWriter, damage>>, NEW w, NEW F, NEW R, ReaderOK(w, F, R)
    PROVE  ReaderOK(w, F, R)'
<1>1. /\ ends' = ends /\ lengths' = lengths /\ left' = left /\ begin' = begin
      /\ file' = file /\ damage' = damage
  BY DEF logWriter
<1>2. ASSUME NEW p, NEW r, NEW k, NEW where, StateAt(w, F, p, r, k, where)
      PROVE  StateAt(w, F, p, r, k, where)'
  BY <1>1, <1>2 DEF StateAt, EndsBefore, AtEnd
<1>3. BufferOK(R)'
  BY <1>1 DEF BufferOK, ReaderOK
<1>4. ASSUME NEW r, NEW k, NEW where, Got(R, r, k, where)
      PROVE  Got(R, r, k, where)'
  <2>1. IsCut' = IsCut
    BY <1>1 DEF IsCut
  <2>2. \A e : Hit(e)' = Hit(e)
    BY <1>1 DEF Hit, From
  <2>3. \A e : Original(e)' = Original(e)
    BY <1>1 DEF Original
  <2>4. QED
    BY <1>1, <1>4, <2>1, <2>2, <2>3 DEF Got
<1>5. QED
  BY <1>2, <1>3, <1>4 DEF ReaderOK

LEMMA FrameGiven ==
    ASSUME UNCHANGED <<logWriter, damage>>, NEW R,
           GivesPrefix(R), GivesWhole(R), GivesRest(R)
    PROVE  (GivesPrefix(R) /\ GivesWhole(R) /\ GivesRest(R))'
<1>1. /\ ends' = ends /\ lengths' = lengths /\ file' = file /\ damage' = damage
  BY DEF logWriter
<1>2. IsCut' = IsCut /\ \A e : Original(e)' = Original(e)
  BY <1>1 DEF IsCut, Original
<1>3. GivesPrefix(R)'
  BY <1>1, <1>2 DEF GivesPrefix
<1>4. GivesWhole(R)'
  BY <1>1, <1>2 DEF GivesWhole
<1>5. GivesRest(R)'
  BY <1>1, <1>2 DEF GivesRest
<1>6. QED
  BY <1>3, <1>4, <1>5

LEMMA LogIInvInit ==
    ASSUME LogAssumption, LogInit
    PROVE  LogIInv
<1>1. PICK w : w = file
  OBVIOUS
<1>2. WrittenOK(file) /\ Layout(file, {})
  BY LayoutInit
<1>3. WrittenOK(w) /\ Layout(w, {})
  BY <1>1, <1>2
<1>4. Written
  BY <1>1, <1>3 DEF Written
<1>5. phase = "write" /\ logReader = NewReader
  BY DEF LogInit
<1>6. QED
  BY <1>3, <1>4, <1>5 DEF LogIInv

\* The reader begins.
LEMMA ReadingStarts ==
    ASSUME LogAssumption, NEW w, NEW F, WrittenOK(w), Layout(w, F),
           file \in Seq(Byte), Damaged(w), logReader = NewReader
    PROVE  Reading
<1>1. ReaderOK(w, F, NewReader)
  BY NewReaderOK
<1>2. QED
  BY <1>1 DEF Reading

LEMMA ReadingStartsThen ==
    ASSUME LogAssumption
    PROVE  (\A w, F : /\ WrittenOK(w) /\ Layout(w, F) /\ file \in Seq(Byte) /\ Damaged(w)
                      /\ logReader = NewReader
                      => Reading)'
<1>1. \A w, F : /\ WrittenOK(w) /\ Layout(w, F) /\ file \in Seq(Byte) /\ Damaged(w)
                /\ logReader = NewReader
                => Reading
  BY ReadingStarts
<1>2. QED
  BY <1>1, PTL

LEMMA LogIInvNext ==
    ASSUME LogAssumption, LogIInv, [LogNext]_logVars
    PROVE  LogIInv'
<1>1. CASE UNCHANGED logVars
  <2>1. /\ UNCHANGED <<logWriter, damage>> /\ phase' = phase /\ logReader' = logReader
        /\ file' = file
    BY <1>1 DEF logVars, logWriter
  <2>2. \E w : WrittenOK(w)'
    BY <2>1, FrameWriter DEF LogIInv
  <2>3. phase = "write" => Written'
    BY <2>1, FrameWriter, FrameLayout DEF LogIInv, Written
  <2>4. phase = "read" => Reading'
    BY <2>1, FrameWriter, FrameLayout, FrameDamaged, FrameReader DEF LogIInv, Reading
  <2>5. phase = "done" => Finished'
    <3>1. SUFFICES ASSUME phase = "done" PROVE Finished'
      OBVIOUS
    <3>2. PICK R \in LogReaderType : /\ R = logReader
                                 /\ GivesPrefix(R) /\ GivesWhole(R) /\ GivesRest(R)
      BY <3>1 DEF LogIInv, Finished
    <3>3. (GivesPrefix(R) /\ GivesWhole(R) /\ GivesRest(R))'
      BY <2>1, <3>2, FrameGiven
    <3>4. R = logReader'
      BY <2>1, <3>2
    <3>5. QED
      BY <3>3, <3>4 DEF Finished
  <2>6. QED
    BY <2>1, <2>2, <2>3, <2>4, <2>5 DEF LogIInv, NewReader
<1>2. ASSUME NEW n \in 0..MaxLength, AddRecord(n) PROVE LogIInv'
  <2>1. phase = "write" /\ phase' = phase /\ file' = file /\ logReader' = logReader
    BY <1>2 DEF AddRecord
  <2>2. PICK w, F : w = file /\ WrittenOK(w) /\ Layout(w, F)
    BY <2>1 DEF LogIInv, Written
  <2>3. WrittenOK(w)' /\ Layout(w, F)'
    BY <1>2, <2>2, LayoutAdd
  <2>4. Written'
    BY <2>1, <2>2, <2>3 DEF Written
  <2>5. QED
    BY <2>1, <2>3, <2>4 DEF LogIInv, NewReader
<1>3. CASE EmitPhysicalRecord
  <2>1. phase = "write" /\ phase' = phase /\ logReader' = logReader
    BY <1>3 DEF EmitPhysicalRecord
  <2>2. PICK w, F : w = file /\ WrittenOK(w) /\ Layout(w, F)
    BY <2>1 DEF LogIInv, Written
  <2>3. PICK v, G : file' = v /\ WrittenOK(v)' /\ Layout(v, G)'
    BY <1>3, <2>2, LayoutEmit
  <2>4. Written'
    BY <2>3 DEF Written
  <2>5. QED
    BY <2>1, <2>3, <2>4 DEF LogIInv, NewReader
<1>4. ASSUME phase = "write", phase' = "read", logReader' = logReader,
             lengths' = lengths, ends' = ends, left' = left, begin' = begin, offset' = offset,
             \A w : WrittenOK(w) /\ w = file => Damaged(w)'
      PROVE  LogIInv'
  <2>1. PICK w, F : w = file /\ WrittenOK(w) /\ Layout(w, F)
    BY <1>4 DEF LogIInv, Written
  <2>2. WrittenOK(w)'
    BY <1>4, <2>1 DEF WrittenOK
  <2>3. Layout(w, F)'
    <3>1. ASSUME NEW p, NEW r, NEW k, NEW where, StateAt(w, F, p, r, k, where)
          PROVE  StateAt(w, F, p, r, k, where)'
      BY <1>4, <3>1 DEF StateAt, EndsBefore, AtEnd
    <3>2. ASSUME NEW f, FragmentOK(w, f)
          PROVE  FragmentOK(w, f)'
      BY <1>4, <3>2 DEF FragmentOK
    <3>3. QED
      BY <2>1, <3>1, <3>2 DEF Layout
  <2>4. Damaged(w)' /\ (file \in Seq(Byte))'
    BY <1>4, <2>1 DEF Damaged
  <2>5. (logReader = NewReader)'
    BY <1>4 DEF LogIInv, NewReader
  <2>6. Reading'
    BY <2>2, <2>3, <2>4, <2>5, ReadingStartsThen
  <2>7. QED
    BY <1>4, <2>2, <2>6 DEF LogIInv
<1>5. ASSUME NEW c \in 0..Len(file), Cut(c) PROVE LogIInv'
  <2>1. /\ phase = "write" /\ phase' = "read" /\ logReader' = logReader
        /\ lengths' = lengths /\ ends' = ends /\ left' = left /\ begin' = begin
        /\ offset' = offset
    BY <1>5 DEF Cut
  <2>2. ASSUME NEW w, WrittenOK(w), w = file PROVE Damaged(w)'
    BY <1>5, <2>2, CutIsDamaged
  <2>3. QED
    BY <1>4, <2>1, <2>2
<1>6. ASSUME NEW i \in DOMAIN file, NEW j \in i..Len(file), Hole(i, j) PROVE LogIInv'
  <2>1. /\ phase = "write" /\ phase' = "read" /\ logReader' = logReader
        /\ lengths' = lengths /\ ends' = ends /\ left' = left /\ begin' = begin
        /\ offset' = offset
    BY <1>6 DEF Hole
  <2>2. ASSUME NEW w, WrittenOK(w), w = file PROVE Damaged(w)'
    BY <1>6, <2>2, HoleIsDamaged
  <2>3. QED
    BY <1>4, <2>1, <2>2
<1>7. ASSUME phase = "read", phase' = phase, UNCHANGED <<logWriter, damage>>,
             ReadBlock \/ ReadPhysicalRecord
      PROVE  LogIInv'
  <2>1. PICK w, F, R : /\ WrittenOK(w) /\ Layout(w, F) /\ Damaged(w)
                       /\ R = logReader /\ ReaderOK(w, F, R)
    BY <1>7 DEF LogIInv, Reading
  <2>2. PICK x : x = logReader'
    OBVIOUS
  <2>3. ReaderOK(w, F, x)
    <3>1. CASE ReadBlock
      BY <2>1, <2>2, <3>1, BlockIsRead
    <3>2. CASE ReadPhysicalRecord
      BY <2>1, <2>2, <3>2, ReadPhysicalOK
    <3>3. QED
      BY <1>7, <3>1, <3>2
  <2>4. WrittenOK(w)' /\ Layout(w, F)' /\ Damaged(w)' /\ ReaderOK(w, F, x)'
    BY <1>7, <2>1, <2>3, FrameWriter, FrameLayout, FrameDamaged, FrameReader
  <2>5. Reading'
    BY <2>2, <2>4 DEF Reading
  <2>6. QED
    BY <1>7, <2>4, <2>5 DEF LogIInv
<1>8. CASE ReadEnd
  <2>1. /\ phase = "read" /\ phase' = "done" /\ UNCHANGED <<logWriter, damage>>
        /\ logReader.eof /\ Truncated(logReader.buffer)
    BY <1>8 DEF ReadEnd
  <2>2. PICK w, F, R : /\ WrittenOK(w) /\ Layout(w, F) /\ Damaged(w)
                       /\ R = logReader /\ ReaderOK(w, F, R)
    BY <2>1 DEF LogIInv, Reading
  <2>3. PICK x : x = logReader'
    OBVIOUS
  <2>4. R \in LogReaderType
    BY <2>2 DEF ReaderOK
  <2>5. x = [R EXCEPT !.buffer = <<>>, !.scratch = <<>>, !.inFragmented = FALSE]
    BY <1>8, <2>2, <2>3 DEF ReadEnd
  <2>6. /\ x \in LogReaderType /\ x.records = R.records /\ x.dropped = R.dropped
    <3>1. <<>> \in Seq(Byte)
      OBVIOUS
    <3>2. x \in LogReaderType
      BY <2>4, <2>5, <3>1 DEF LogReaderType
    <3>3. x.records = R.records
      BY <2>4, <2>5 DEF LogReaderType
    <3>4. x.dropped = R.dropped
      BY <2>4, <2>5 DEF LogReaderType
    <3>5. QED
      BY <3>2, <3>3, <3>4
  <2>7. GivesPrefix(R) /\ GivesWhole(R) /\ GivesRest(R)
    BY <2>1, <2>2, EndOK, RecordsAre
  <2>8. GivesPrefix(x) /\ GivesWhole(x) /\ GivesRest(x)
    BY <2>6, <2>7 DEF GivesPrefix, GivesWhole, GivesRest
  <2>9. (GivesPrefix(x) /\ GivesWhole(x) /\ GivesRest(x))'
    BY <2>1, <2>8, FrameGiven
  <2>10. Finished'
    BY <2>3, <2>6, <2>9 DEF Finished
  <2>11. WrittenOK(w)'
    BY <2>1, <2>2, FrameWriter
  <2>12. QED
    BY <2>1, <2>10, <2>11 DEF LogIInv
<1>9. CASE ReadBlock
  BY <1>7, <1>9 DEF ReadBlock
<1>10. CASE ReadPhysicalRecord
  BY <1>7, <1>10 DEF ReadPhysicalRecord
<1>11. QED
  BY <1>1, <1>2, <1>3, <1>5, <1>6, <1>8, <1>9, <1>10 DEF LogNext

-----------------------------------------------------------------------------
\* What the invariant gives.

LEMMA LogIInvPrefix ==
    ASSUME LogIInv
    PROVE  CutGivesPrefix
<1>1. SUFFICES ASSUME phase = "done" PROVE CutGivesPrefix
  BY DEF CutGivesPrefix
<1>2. GivesPrefix(logReader)
  BY <1>1 DEF LogIInv, Finished
<1>3. QED
  BY <1>2 DEF GivesPrefix, CutGivesPrefix

LEMMA LogIInvWhole ==
    ASSUME LogAssumption, LogIInv
    PROVE  OnlyWholeRecords
<1>1. GivesWhole(logReader)
  <2>1. CASE phase = "write"
    <3>1. logReader.records = <<>>
      BY <2>1 DEF LogIInv, NewReader
    <3>2. DOMAIN logReader.records = {}
      BY <3>1
    <3>3. [i \in {} |-> 1] \in [DOMAIN logReader.records -> DOMAIN lengths]
      BY <3>2
    <3>4. QED
      BY <3>3 DEF GivesWhole
  <2>2. CASE phase = "read"
    BY <2>2, RecordsAre DEF LogIInv, Reading
  <2>3. CASE phase = "done"
    BY <2>3 DEF LogIInv, Finished
  <2>4. QED
    BY <2>1, <2>2, <2>3 DEF LogIInv
<1>2. QED
  BY <1>1 DEF GivesWhole, OnlyWholeRecords

LEMMA LogIInvLocal ==
    ASSUME LogIInv
    PROVE  DamageIsLocal
<1>1. SUFFICES ASSUME phase = "done" PROVE DamageIsLocal
  BY DEF DamageIsLocal
<1>2. GivesRest(logReader)
  BY <1>1 DEF LogIInv, Finished
<1>3. QED
  BY <1>2 DEF GivesRest, DamageIsLocal

LEMMA LogIInvTypes ==
    ASSUME LogAssumption, LogIInv
    PROVE  LogTypeOK
<1>1. /\ lengths \in Seq(0..MaxLength)
      /\ left \in 0..MaxLength /\ begin \in BOOLEAN /\ offset \in 0..kBlockSize
  BY DEF LogIInv, WrittenOK
<1>2. phase = "write" => (offset - Len(file)) % kBlockSize = 0
  <2>1. SUFFICES ASSUME phase = "write" PROVE (offset - Len(file)) % kBlockSize = 0
    OBVIOUS
  <2>2. PICK w : w = file /\ WrittenOK(w)
    BY <2>1 DEF LogIInv, Written
  <2>3. PICK s \in BlockStart : s = Len(w) - offset
    BY <2>2 DEF WrittenOK
  <2>4. (0 - s) % kBlockSize = 0
    BY OffsetIsRight
  <2>5. 0 - s = offset - Len(file)
    <3>1. PICK m \in Nat, o \in Nat : m = Len(w) /\ o = offset
      BY <2>2 DEF WrittenOK, LogAssumption
    <3>2. QED
      BY <2>2, <2>3, <3>1
  <2>6. QED
    BY <2>4, <2>5
<1>3. logReader.eof \in BOOLEAN /\ logReader.inFragmented \in BOOLEAN
  <2>1. CASE phase = "write"
    <3>1. logReader = NewReader
      BY <2>1 DEF LogIInv
    <3>2. QED
      BY <3>1 DEF NewReader
  <2>2. CASE phase # "write"
    <3>1. logReader \in LogReaderType
      BY <2>2, Zenon DEF LogIInv, Reading, ReaderOK, Finished
    <3>2. QED
      BY <3>1 DEF LogReaderType
  <2>3. QED
    BY <2>1, <2>2
<1>4. QED
  BY <1>1, <1>2, <1>3 DEF LogIInv, LogTypeOK

\* db/log_reader.cc, ReadRecord: from a log that was cut short anywhere, which
\* is what a crash in the middle of AddRecord leaves, recovery gets exactly the
\* records that were complete, and reports none as corrupt.
THEOREM LogsSurviveCuts ==
    ASSUME LogAssumption
    PROVE  LogSpec => []CutGivesPrefix
<1>1. LogInit => LogIInv
  BY LogIInvInit
<1>2. LogIInv /\ [LogNext]_logVars => LogIInv'
  BY LogIInvNext
<1>3. LogIInv => CutGivesPrefix
  BY LogIInvPrefix
<1>4. QED
  BY <1>1, <1>2, <1>3, PTL DEF LogSpec

\* db/log_writer.cc, AddRecord, and db/log_reader.cc, ReadRecord: fragments stay
\* inside blocks; whatever blocks are damaged, only whole records come back, in
\* their order, and all those none of whose blocks is damaged.
THEOREM DamageStaysLocal ==
    ASSUME LogAssumption
    PROVE  LogSpec => []DamageIsContained
<1>1. LogInit => LogIInv
  BY LogIInvInit
<1>2. LogIInv /\ [LogNext]_logVars => LogIInv'
  BY LogIInvNext
<1>3. LogIInv => DamageIsContained
  BY LogIInvTypes, LogIInvWhole, LogIInvLocal DEF DamageIsContained
<1>4. QED
  BY <1>1, <1>2, <1>3, PTL DEF LogSpec

-----------------------------------------------------------------------------
(***************************************************************************)
(* The list of a memtable is right for any number of keys and levels, any  *)
(* number of inserts and any reader that runs while they happen.           *)
(*                                                                         *)
(* ListInv is not inductive.  SkipInv adds where Insert will link its node *)
(* on the levels still to come (WriterOK), that memory nobody linked was   *)
(* not written but for the node being linked (UnlinkedOK), that levels     *)
(* above max_height_ are empty (HeightsOK), and where a search stands      *)
(* (IterOK).                                                               *)
(***************************************************************************)

\* k belongs right after p on level i.
Between(i, p, k) == p \in OnLevel(i) \cup {head_} /\ p < k /\ k < next[i][p]

\* max_height_ is the greatest of its values, and there is nothing above it.
HeightsOK ==
  /\ \E h \in heights : \A g \in heights : g <= h
  /\ \A i \in Level : (\A h \in heights : h <= i) => next[i][head_] = Nil

\* A search stands on a node linked on its level, before its key.
SearchOK(s) ==
  /\ s.x \in OnLevel(s.level) \cup {head_}
  /\ s.mode # "last" => s.x < s.key

\* While it searches, Insert has found the place on the levels above.
InsertSearches ==
  LET s == writer.search IN
  /\ writer.height = 0 /\ s.mode = "ge" /\ SearchOK(s)
  /\ s.key \notin OnLevel(0)
  /\ \E h \in heights : s.level < h
  /\ \A i \in Level :
       i > s.level /\ (\E h \in heights : i < h) => Between(i, writer.prev[i], s.key)

\* While it links, Insert is done with the levels below and has the place on
\* the others.
InsertLinks ==
  /\ writer.level < writer.height
  /\ \E h \in heights : writer.height <= h
  /\ \A i \in Level :
       /\ i < writer.level => X \in OnLevel(i)
       /\ i >= writer.level => X \notin OnLevel(i)
       /\ i >= writer.level /\ i < writer.height => Between(i, writer.prev[i], X)
  /\ writer.filled => next[writer.level][X] = next[writer.level][writer.prev[writer.level]]

WriterOK ==
  /\ writer.search.pc = "find" => InsertSearches
  /\ writer.height > 0 => InsertLinks

\* Only the node being linked has a pointer before it is linked.
UnlinkedOK ==
  \A i \in Level : \A n \in Key \ OnLevel(i) :
    \/ next[i][n] = Garbage
    \/ writer.height > 0 /\ writer.level = i /\ writer.filled /\ n = X

\* Every node is on the lowest level.
AllOnBottom == \A i \in Level : OnLevel(i) \subseteq OnLevel(0)

IterOK ==
  /\ iter.node \in OnLevel(0) \cup {Nil}
  /\ iter.search.pc = "find" => SearchOK(iter.search)
  /\ iter.search.pc = "find" /\ iter.pass.on =>
       /\ iter.search.mode = "ge"
       /\ \A k \in iter.pass.due : iter.search.key <= k /\ k \in OnLevel(0)

SkipInv ==
  /\ ListTypeOK /\ LevelsAreSublists /\ HeightsOK /\ WriterOK
  /\ UnlinkedOK /\ AllOnBottom /\ IterOK /\ PassMissesNothing

USE SkipListAssumption DEF Key, head_, Nil, Garbage, Node, Level, Pointer

----------------------------------------------------------------------------
(* Facts about the list and the searches.                                  *)

\* GetMaxHeight is the greatest value max_height_ has had.
LEMMA MaxHeightIs ==
  ASSUME ListTypeOK, HeightsOK
  PROVE  /\ GetMaxHeight \in heights /\ GetMaxHeight \in 1..MaxHeight
         /\ \A g \in heights : g <= GetMaxHeight
  BY DEF ListTypeOK, HeightsOK, GetMaxHeight

\* What is linked on a level depends on its pointers alone.
LEMMA SameLevels ==
  ASSUME next' = next
  PROVE  \A i : OnLevel(i)' = OnLevel(i)
  BY DEF OnLevel

\* The pointer of a node that is linked, or of head_, has been written.
LEMMA Successor ==
  ASSUME LevelsAreSublists, NEW i \in Level, NEW n \in OnLevel(i) \cup {head_}
  PROVE  /\ n \in Node /\ n < next[i][n]
         /\ next[i][n] \in OnLevel(i) \cup {Nil}
         /\ next[i][n] \in Key \cup {Nil}
         /\ \A k \in OnLevel(i) : k <= n \/ next[i][n] <= k
  BY DEF LevelsAreSublists, OnLevel

\* A turn of the loop of a search leaves it on a linked node before its key.
LEMMA StepKeepsSearch ==
  ASSUME ListTypeOK, LevelsAreSublists, NEW s \in SearchState, SearchOK(s), ~Ends(s)
  PROVE  /\ FindStep(s) \in SearchState /\ SearchOK(FindStep(s))
         /\ FindStep(s).pc = s.pc /\ FindStep(s).mode = s.mode
         /\ FindStep(s).key = s.key
<1>1. NextOf(s) \in OnLevel(s.level) \cup {Nil} /\ NextOf(s) \in Key \cup {Nil}
  BY Successor DEF NextOf, SearchOK, SearchState
<1>2. CASE Descends(s)
  <2>1. FindStep(s) = [s EXCEPT !.level = s.level - 1]
    BY <1>2 DEF FindStep
  <2>2. s.level > 0 /\ s.level - 1 \in Level
    BY <1>2 DEF Descends, SearchState
  <2>3. OnLevel(s.level) \subseteq OnLevel(s.level - 1)
    BY <2>2 DEF LevelsAreSublists, SearchState
  <2>4. QED
    BY <2>1, <2>2, <2>3 DEF SearchState, SearchOK
<1>3. CASE ~Descends(s)
  <2>1. FindStep(s) = [s EXCEPT !.x = NextOf(s)]
    BY <1>3 DEF FindStep
  <2>2. KeyIsAfterNode(s, NextOf(s))
    BY <1>3 DEF Descends, Ends, SearchState
  <2>3. NextOf(s) \in OnLevel(s.level) /\ NextOf(s) \in Node
    BY <1>1, <2>2 DEF KeyIsAfterNode, SearchState
  <2>4. s.mode # "last" => NextOf(s) < s.key
    BY <2>2 DEF KeyIsAfterNode
  <2>5. QED
    BY <2>1, <2>3, <2>4 DEF SearchState, SearchOK
<1>4. QED
  BY <1>2, <1>3

\* A search that begins stands on head_.
LEMMA SearchBegins ==
  ASSUME NEW mode \in {"ge", "lt", "last"}, NEW k \in Key, NEW h \in 1..MaxHeight
  PROVE  /\ Search(mode, k, h) \in SearchState /\ SearchOK(Search(mode, k, h))
         /\ Search(mode, k, h).pc = "find" /\ Search(mode, k, h).mode = mode
         /\ Search(mode, k, h).key = k /\ Search(mode, k, h).level = h - 1
  BY DEF Search, SearchState, SearchOK

\* What a search returns at its end is the node the list has for it.
LEMMA SearchEnds ==
  ASSUME ListTypeOK, LevelsAreSublists, NEW s \in SearchState, SearchOK(s), Ends(s)
  PROVE  /\ Result(s) \in OnLevel(0) \cup {Nil}
         /\ s.mode = "ge" =>
              \A k \in OnLevel(0) : k >= s.key <=> Result(s) <= k
         /\ s.mode = "ge" /\ Result(s) # Nil => Result(s) >= s.key
         /\ s.mode # "ge" /\ Result(s) # Nil =>
              \A k \in OnLevel(0) : (s.mode = "lt" => k < s.key) => k <= Result(s)
         /\ s.mode # "ge" /\ Result(s) = Nil =>
              \A k \in OnLevel(0) : s.mode = "lt" /\ s.key <= k
         /\ s.mode = "lt" /\ Result(s) # Nil => Result(s) < s.key
<1>1. s.level = 0 /\ ~KeyIsAfterNode(s, NextOf(s)) /\ NextOf(s) = next[0][s.x]
  BY DEF Ends, NextOf
<1>2. /\ s.x \in OnLevel(0) \cup {head_} /\ s.x \in Node
      /\ NextOf(s) \in OnLevel(0) \cup {Nil} /\ NextOf(s) \in Key \cup {Nil}
      /\ s.x < NextOf(s)
      /\ \A k \in OnLevel(0) : k <= s.x \/ NextOf(s) <= k
  BY <1>1, Successor DEF SearchOK, SearchState
<1>3. OnLevel(0) \subseteq Key /\ s.key \in Key
  BY DEF OnLevel, SearchState
<1>4. CASE s.mode = "ge"
  BY <1>1, <1>2, <1>3, <1>4 DEF Result, KeyIsAfterNode, SearchOK
<1>5. CASE s.mode = "lt"
  BY <1>1, <1>2, <1>3, <1>5 DEF Result, KeyIsAfterNode, SearchOK
<1>6. CASE s.mode = "last"
  BY <1>1, <1>2, <1>3, <1>6 DEF Result, KeyIsAfterNode, SearchOK
<1>7. QED
  BY <1>4, <1>5, <1>6 DEF SearchState

----------------------------------------------------------------------------
(* The iterator.  It changes nothing but itself.                           *)

IterState ==
  [search : SearchState, node : Key \cup {Nil}, pass : [on : BOOLEAN, due : SUBSET Key]]

\* A step of the iterator leaves the list and the writer as they are.
LEMMA IterOnly ==
  ASSUME SkipInv, UNCHANGED <<next, heights, writer>>,
         iter' \in IterState, IterOK', PassMissesNothing'
  PROVE  SkipInv'
<1>1. \A i : OnLevel(i)' = OnLevel(i)
  BY SameLevels
<1>2. ListTypeOK'
  BY DEF SkipInv, ListTypeOK, IterState
<1>3. LevelsAreSublists' /\ AllOnBottom'
  BY <1>1 DEF SkipInv, LevelsAreSublists, AllOnBottom
<1>4. HeightsOK'
  BY DEF SkipInv, HeightsOK
<1>5. WriterOK'
  BY <1>1 DEF SkipInv, WriterOK, InsertSearches, InsertLinks, SearchOK, Between, X
<1>6. UnlinkedOK'
  BY <1>1 DEF SkipInv, UnlinkedOK, X
<1>7. QED
  BY <1>2, <1>3, <1>4, <1>5, <1>6 DEF SkipInv

\* Seek, SeekToLast, Prev: a search begins; only Seek begins a pass.
LEMMA IterBegins ==
  ASSUME SkipInv, UNCHANGED <<next, heights, writer>>,
         NEW mode \in {"ge", "lt", "last"}, NEW k \in Key, NEW h \in heights,
         NEW pass \in [on : BOOLEAN, due : SUBSET Key],
         pass.on => mode = "ge" /\ \A j \in pass.due : k <= j /\ j \in OnLevel(0),
         iter' = [search |-> Search(mode, k, h), node |-> Nil, pass |-> pass]
  PROVE  SkipInv'
<1>1. OnLevel(0)' = OnLevel(0) /\ \A i : OnLevel(i)' = OnLevel(i)
  BY SameLevels
<1>2. h \in 1..MaxHeight
  BY DEF SkipInv, ListTypeOK
<1>3. /\ iter'.search \in SearchState /\ SearchOK(iter'.search)
      /\ iter'.search.pc = "find" /\ iter'.search.mode = mode /\ iter'.search.key = k
  BY <1>2, SearchBegins
<1>4. iter' \in IterState
  BY <1>3 DEF IterState
<1>5. IterOK'
  BY <1>1, <1>3 DEF IterOK, SearchOK
<1>6. PassMissesNothing'
  BY <1>3 DEF PassMissesNothing
<1>7. QED
  BY <1>4, <1>5, <1>6, IterOnly

\* SeekToFirst: every key after the first one is still to be met.
LEMMA SeekToFirstStep == ASSUME SkipInv, SeekToFirst PROVE SkipInv'
<1>1. OnLevel(0)' = OnLevel(0) /\ OnLevel(0) \subseteq Key
  BY DEF SeekToFirst, OnLevel
<1>2. /\ next[0][head_] \in OnLevel(0) \cup {Nil} /\ next[0][head_] \in Key \cup {Nil}
      /\ \A k \in OnLevel(0) : next[0][head_] <= k
  BY Successor, <1>1 DEF SkipInv
<1>3. iter' \in IterState
  BY <1>1, <1>2 DEF SeekToFirst, IterState, SearchState, Idle
<1>4. IterOK'
  BY <1>1, <1>2 DEF SeekToFirst, IterOK, Idle
<1>5. PassMissesNothing'
  BY <1>1, <1>2 DEF SeekToFirst, PassMissesNothing
<1>6. QED
  BY <1>3, <1>4, <1>5, IterOnly DEF SeekToFirst

\* Next: the keys still to be met come after the one just reached.
LEMMA IterNextStep == ASSUME SkipInv, IterNext PROVE SkipInv'
<1> DEFINE n == next[0][iter.node]
<1>1. OnLevel(0)' = OnLevel(0) /\ OnLevel(0) \subseteq Key
  BY DEF IterNext, OnLevel
<1>2. iter.node \in OnLevel(0) /\ iter \in IterState /\ iter.search.pc = "idle"
  BY DEF IterNext, Valid, SkipInv, IterOK, ListTypeOK, IterState
<1>3. /\ n \in OnLevel(0) \cup {Nil} /\ n \in Key \cup {Nil}
      /\ \A k \in OnLevel(0) : k <= iter.node \/ n <= k
  BY <1>2, Successor DEF SkipInv
<1>4. iter' = [search |-> iter.search, node |-> n,
               pass |-> [on |-> iter.pass.on, due |-> iter.pass.due \ {n}]]
  BY <1>2 DEF IterNext, Meets, IterState
<1>5. iter' \in IterState
  BY <1>2, <1>3, <1>4 DEF IterState
<1>6. IterOK'
  BY <1>1, <1>2, <1>3, <1>4 DEF IterOK
<1>7. \A k \in iter.pass.due \ {n} : iter.pass.on => n < k /\ k \in OnLevel(0)
  BY <1>1, <1>2, <1>3 DEF SkipInv, PassMissesNothing
<1>8. PassMissesNothing'
  BY <1>1, <1>4, <1>7 DEF PassMissesNothing
<1>9. QED
  BY <1>5, <1>6, <1>8, IterOnly DEF IterNext

\* A turn of the loop of a search.
LEMMA IterFindStep == ASSUME SkipInv, IterFind PROVE SkipInv'
<1> DEFINE s == FindStep(iter.search)
<1>1. OnLevel(0)' = OnLevel(0) /\ \A i : OnLevel(i)' = OnLevel(i)
  BY SameLevels DEF IterFind
<1>2. iter \in IterState /\ SearchOK(iter.search)
  BY DEF IterFind, SkipInv, IterOK, ListTypeOK, IterState
<1>3. /\ s \in SearchState /\ SearchOK(s) /\ s.pc = "find"
      /\ s.mode = iter.search.mode /\ s.key = iter.search.key
  BY <1>2, StepKeepsSearch DEF IterFind, SkipInv, IterState
<1>4. iter' = [search |-> s, node |-> iter.node, pass |-> iter.pass]
  BY <1>2 DEF IterFind, IterState
<1>5. iter' \in IterState
  BY <1>2, <1>3, <1>4 DEF IterState
<1>6. SearchOK(iter.search)'
  BY <1>1, <1>3, <1>4 DEF SearchOK
<1>7. IterOK'
  BY <1>1, <1>3, <1>4, <1>6 DEF IterOK, SkipInv, IterFind
<1>8. PassMissesNothing'
  BY <1>3, <1>4 DEF PassMissesNothing
<1>9. QED
  BY <1>5, <1>7, <1>8, IterOnly DEF IterFind

\* A search returns; a pass goes on after the node it returned.
LEMMA IterFoundStep == ASSUME SkipInv, IterFound PROVE SkipInv'
<1> DEFINE r == Result(iter.search)
<1>1. OnLevel(0)' = OnLevel(0) /\ OnLevel(0) \subseteq Key
  BY DEF IterFound, OnLevel
<1>2. iter \in IterState /\ SearchOK(iter.search) /\ iter.search.pc = "find"
  BY DEF IterFound, SkipInv, IterOK, ListTypeOK, IterState
<1>3. /\ r \in OnLevel(0) \cup {Nil} /\ r \in Key \cup {Nil}
      /\ iter.search.mode = "ge" =>
           \A k \in OnLevel(0) : k >= iter.search.key <=> r <= k
  BY <1>1, <1>2, SearchEnds DEF IterFound, SkipInv, IterState
<1>4. iter' = [search |-> Idle, node |-> r,
               pass |-> [on |-> iter.pass.on, due |-> iter.pass.due \ {r}]]
  BY <1>2 DEF IterFound, Meets, IterState
<1>5. iter' \in IterState
  BY <1>2, <1>3, <1>4 DEF IterState, SearchState, Idle
<1>6. IterOK'
  BY <1>1, <1>3, <1>4 DEF IterOK, Idle
<1>7. ASSUME iter.pass.on, NEW k \in iter.pass.due \ {r} PROVE r < k /\ k \in OnLevel(0)
  <2>1. k \in OnLevel(0) /\ iter.search.key <= k /\ iter.search.mode = "ge"
    BY <1>2, <1>7 DEF SkipInv, IterOK
  <2>2. iter.search.key \in Key
    BY <1>2 DEF IterState, SearchState
  <2>3. QED
    BY <1>1, <1>3, <2>1, <2>2
<1>8. PassMissesNothing'
  BY <1>1, <1>4, <1>7 DEF PassMissesNothing
<1>9. QED
  BY <1>5, <1>6, <1>8, IterOnly DEF IterFound

\* Every operation of the iterator keeps the invariant.
LEMMA IterStep ==
  ASSUME SkipInv,
         \/ \E k \in Key : Seek(k)
         \/ SeekToFirst \/ SeekToLast \/ IterNext \/ IterPrev \/ IterFind \/ IterFound
  PROVE  SkipInv'
<1>1. ASSUME NEW k \in Key, Seek(k) PROVE SkipInv'
  <2> DEFINE pass == [on |-> TRUE, due |-> {j \in OnLevel(0) : j >= k}]
  <2>1. PICK h \in heights :
          iter' = [search |-> Search("ge", k, h), node |-> Nil, pass |-> pass]
    BY <1>1 DEF Seek
  <2>2. OnLevel(0) \subseteq Key
    BY DEF OnLevel
  <2>3. /\ pass \in [on : BOOLEAN, due : SUBSET Key]
        /\ \A j \in pass.due : k <= j /\ j \in OnLevel(0)
    BY <2>2
  <2>4. QED
    BY <1>1, <2>1, <2>3, IterBegins DEF Seek
<1>2. CASE SeekToLast
  <2>1. PICK h \in heights :
          iter' = [search |-> Search("last", 1, h), node |-> Nil, pass |-> NoPass]
    BY <1>2 DEF SeekToLast
  <2>2. NoPass \in [on : BOOLEAN, due : SUBSET Key] /\ ~NoPass.on /\ 1 \in Key
    BY DEF NoPass
  <2>3. QED
    BY <1>2, <2>1, <2>2, IterBegins DEF SeekToLast
<1>3. CASE IterPrev
  <2>1. PICK h \in heights :
          iter' = [search |-> Search("lt", iter.node, h), node |-> Nil, pass |-> NoPass]
    BY <1>3 DEF IterPrev
  <2>2. NoPass \in [on : BOOLEAN, due : SUBSET Key] /\ ~NoPass.on /\ iter.node \in Key
    BY <1>3 DEF NoPass, IterPrev, Valid
  <2>3. QED
    BY <1>3, <2>1, <2>2, IterBegins DEF IterPrev
<1>4. QED
  BY <1>1, <1>2, <1>3, SeekToFirstStep, IterNextStep, IterFindStep, IterFoundStep

----------------------------------------------------------------------------
(* Insert, up to its stores.                                               *)

WriterState ==
  [search : SearchState, prev : [Level -> Node], height : 0..MaxHeight,
   level : 0..MaxHeight, filled : BOOLEAN]

\* A step of Insert without a store leaves the list and the iterator.
LEMMA WriterOnly ==
  ASSUME SkipInv, UNCHANGED <<next, iter>>, heights' \subseteq 1..MaxHeight,
         writer' \in WriterState, HeightsOK', WriterOK', UnlinkedOK'
  PROVE  SkipInv'
<1>1. OnLevel(0)' = OnLevel(0) /\ \A i : OnLevel(i)' = OnLevel(i)
  BY SameLevels
<1>2. ListTypeOK'
  BY DEF SkipInv, ListTypeOK, WriterState, HeightsOK
<1>3. LevelsAreSublists' /\ AllOnBottom'
  BY <1>1 DEF SkipInv, LevelsAreSublists, AllOnBottom
<1>4. IterOK' /\ PassMissesNothing'
  BY <1>1 DEF SkipInv, IterOK, PassMissesNothing, SearchOK
<1>5. QED
  BY <1>2, <1>3, <1>4 DEF SkipInv

LEMMA InsertStartStep == ASSUME SkipInv, NEW k \in Key, InsertStart(k) PROVE SkipInv'
<1> DEFINE s == Search("ge", k, GetMaxHeight)
<1>1. /\ OnLevel(0)' = OnLevel(0) /\ \A i : OnLevel(i)' = OnLevel(i)
      /\ heights' = heights
  BY SameLevels DEF InsertStart
<1>2. /\ GetMaxHeight \in heights /\ GetMaxHeight \in 1..MaxHeight
      /\ \A g \in heights : g <= GetMaxHeight
  BY MaxHeightIs DEF SkipInv
<1>3. /\ s \in SearchState /\ SearchOK(s) /\ s.mode = "ge"
      /\ s.key = k /\ s.level = GetMaxHeight - 1
  BY <1>2, SearchBegins
<1>4. /\ writer \in WriterState /\ writer.height = 0
      /\ writer' = [writer EXCEPT !.search = s] /\ k \notin OnLevel(0)
  BY DEF InsertStart, SkipInv, ListTypeOK, WriterState
<1>5. /\ writer' \in WriterState /\ writer'.search = s /\ writer'.height = 0
  BY <1>3, <1>4 DEF WriterState
<1>6. InsertSearches'
  <2>1. SearchOK(writer.search)'
    BY <1>1, <1>3, <1>5 DEF SearchOK
  <2>2. \E h \in heights : s.level < h
    BY <1>2, <1>3
  <2>3. ~\E i \in Level, h \in heights : i > s.level /\ i < h
    BY <1>2, <1>3 DEF SkipInv, ListTypeOK
  <2>4. QED
    BY <1>1, <1>3, <1>4, <1>5, <2>1, <2>2, <2>3 DEF InsertSearches
<1>7. WriterOK'
  BY <1>5, <1>6 DEF WriterOK
<1>8. UnlinkedOK'
  BY <1>1, <1>4 DEF UnlinkedOK, SkipInv, InsertStart
<1>9. HeightsOK'
  BY <1>1 DEF HeightsOK, SkipInv, InsertStart
<1>10. QED
  BY <1>1, <1>5, <1>7, <1>8, <1>9, WriterOnly DEF InsertStart, SkipInv, ListTypeOK

\* Where a search for a key that is absent turns down, the key belongs right
\* after the node it stands on.
LEMMA PlaceFound ==
  ASSUME SkipInv, NEW s \in SearchState, SearchOK(s), s.mode = "ge",
         s.key \notin OnLevel(0), ~KeyIsAfterNode(s, NextOf(s))
  PROVE  Between(s.level, s.x, s.key)
<1>1. /\ NextOf(s) \in OnLevel(s.level) \cup {Nil} /\ NextOf(s) \in Key \cup {Nil}
      /\ s.x \in OnLevel(s.level) \cup {head_} /\ s.x < s.key
  BY Successor DEF NextOf, SearchOK, SearchState, SkipInv
<1>2. s.key \in Key /\ s.key \notin OnLevel(s.level)
  BY DEF SkipInv, AllOnBottom, SearchState
<1>3. QED
  BY <1>1, <1>2 DEF KeyIsAfterNode, Between, NextOf

LEMMA InsertFindStep == ASSUME SkipInv, InsertFind PROVE SkipInv'
<1> DEFINE s == writer.search
           t == FindStep(writer.search)
<1>1. /\ OnLevel(0)' = OnLevel(0) /\ \A i : OnLevel(i)' = OnLevel(i)
      /\ heights' = heights /\ next' = next
  BY SameLevels DEF InsertFind
<1>2. /\ writer \in WriterState /\ s \in SearchState /\ InsertSearches
      /\ SearchOK(s) /\ ~Ends(s) /\ s.pc = "find"
  BY DEF InsertFind, SkipInv, ListTypeOK, WriterState, WriterOK, InsertSearches
<1>3. /\ t \in SearchState /\ SearchOK(t) /\ t.pc = "find"
      /\ t.mode = "ge" /\ t.key = s.key
  BY <1>2, StepKeepsSearch DEF SkipInv, InsertSearches
<1>4. /\ writer' \in WriterState /\ writer'.search = t /\ writer'.height = 0
  BY <1>2, <1>3 DEF InsertFind, WriterState, InsertSearches, SearchState
<1>5. SearchOK(writer.search)'
  BY <1>1, <1>3, <1>4 DEF SearchOK
<1>6. InsertSearches'
  <2>1. CASE Descends(s)
    <3>1. t.level = s.level - 1 /\ s.level \in Level
      BY <2>1, <1>2 DEF FindStep, SearchState
    <3>2. writer'.prev = [writer.prev EXCEPT ![s.level] = s.x]
      BY <2>1, <1>2 DEF InsertFind, WriterState
    <3>3. Between(s.level, s.x, s.key)
      BY <2>1, <1>2, PlaceFound DEF Descends, InsertSearches
    <3>4. \E h \in heights : t.level < h
      BY <1>2, <3>1 DEF InsertSearches, SkipInv, ListTypeOK
    <3>5. ASSUME NEW i \in Level, i > t.level, \E h \in heights : i < h
          PROVE  Between(i, writer'.prev[i], t.key)
      <4>1. CASE i = s.level
        BY <4>1, <3>2, <3>3, <1>2, <1>3 DEF WriterState
      <4>2. CASE i > s.level
        BY <4>2, <3>2, <1>2, <1>3, <3>5 DEF WriterState, InsertSearches
      <4>3. QED
        BY <4>1, <4>2, <3>1, <3>5
    <3>6. QED
      BY <1>1, <1>2, <1>3, <1>4, <1>5, <3>4, <3>5 DEF InsertSearches, Between
  <2>2. CASE ~Descends(s)
    <3>1. t.level = s.level /\ writer'.prev = writer.prev
      BY <2>2, <1>2 DEF FindStep, SearchState, InsertFind, WriterState
    <3>2. QED
      BY <1>1, <1>2, <1>3, <1>4, <1>5, <3>1 DEF InsertSearches, Between
  <2>3. QED
    BY <2>1, <2>2
<1>7. WriterOK'
  BY <1>4, <1>6 DEF WriterOK
<1>8. UnlinkedOK'
  BY <1>1, <1>2 DEF UnlinkedOK, SkipInv, InsertSearches
<1>9. HeightsOK'
  BY <1>1 DEF HeightsOK, SkipInv
<1>10. QED
  BY <1>1, <1>4, <1>7, <1>8, <1>9, WriterOnly DEF InsertFind, SkipInv, ListTypeOK

LEMMA InsertHeightStep ==
  ASSUME SkipInv, NEW h \in 1..MaxHeight, InsertHeight(h) PROVE SkipInv'
<1> DEFINE s == writer.search
           m == GetMaxHeight
<1>1. /\ OnLevel(0)' = OnLevel(0) /\ \A i : OnLevel(i)' = OnLevel(i)
      /\ next' = next
  BY SameLevels DEF InsertHeight
<1>2. /\ writer \in WriterState /\ s \in SearchState /\ InsertSearches
      /\ SearchOK(s) /\ Ends(s)
  BY DEF InsertHeight, SkipInv, ListTypeOK, WriterState, WriterOK, InsertSearches
<1>3. m \in heights /\ m \in 1..MaxHeight /\ \A g \in heights : g <= m
  BY MaxHeightIs DEF SkipInv
<1>4. heights' = heights \cup (IF h > m THEN {h} ELSE {})
  BY DEF InsertHeight
<1>5. /\ heights' \subseteq 1..MaxHeight /\ heights \subseteq heights'
      /\ \E g \in heights' : h <= g
  BY <1>3, <1>4 DEF SkipInv, ListTypeOK
<1>6. HeightsOK'
  <2>1. \E g \in heights' : \A e \in heights' : e <= g
    BY <1>3, <1>4 DEF SkipInv, ListTypeOK
  <2>2. QED
    BY <1>1, <1>5, <2>1 DEF HeightsOK, SkipInv
<1> DEFINE prev == [i \in Level |->
              IF i = 0 THEN s.x ELSE IF i >= m /\ i < h THEN head_ ELSE writer.prev[i]]
           done == [s EXCEPT !.pc = "idle"]
<1>7. writer' = [search |-> done, prev |-> prev, height |-> h,
                 level |-> 0, filled |-> FALSE]
  BY <1>2 DEF InsertHeight, WriterState
<1>8. /\ writer' \in WriterState /\ writer'.search.key = s.key
      /\ writer'.search.pc = "idle"
  <2>1. done \in SearchState /\ done.key = s.key /\ done.pc = "idle"
    BY <1>2 DEF SearchState
  <2>2. prev \in [Level -> Node]
    BY <1>2 DEF SearchState, WriterState
  <2> HIDE DEF done, prev
  <2>3. QED
    BY <2>1, <2>2, <1>7 DEF WriterState
<1>9. s.level = 0 /\ Between(0, s.x, s.key)
  BY <1>2, PlaceFound DEF Ends, InsertSearches
<1>10. ASSUME NEW i \in Level, i < h PROVE Between(i, writer'.prev[i], s.key)
  <2>1. CASE i = 0
    BY <2>1, <1>7, <1>9
  <2>2. CASE i > 0 /\ i >= m
    <3>1. writer'.prev[i] = head_ /\ next[i][head_] = Nil
      BY <2>2, <1>3, <1>7, <1>10 DEF SkipInv, HeightsOK, ListTypeOK
    <3>2. QED
      BY <3>1, <1>2 DEF Between, SearchState
  <2>3. CASE i > 0 /\ i < m
    BY <2>3, <1>2, <1>3, <1>7, <1>9 DEF InsertSearches
  <2>4. QED
    BY <2>1, <2>2, <2>3, <1>3
<1>11. \A i \in Level : s.key \notin OnLevel(i)
  BY <1>2 DEF InsertSearches, SkipInv, AllOnBottom
<1>12. InsertLinks'
  BY <1>1, <1>5, <1>7, <1>8, <1>10, <1>11 DEF InsertLinks, X, Between
<1>13. WriterOK'
  BY <1>8, <1>12 DEF WriterOK
<1>14. UnlinkedOK'
  BY <1>1, <1>2 DEF UnlinkedOK, SkipInv, InsertSearches
<1>15. QED
  BY <1>1, <1>5, <1>6, <1>8, <1>13, <1>14, WriterOnly DEF InsertHeight

----------------------------------------------------------------------------
(* The two stores of Insert.                                               *)

\* What is known when Insert is about to store on a level.
LEMMA AtStore ==
  ASSUME SkipInv, Linking
  PROVE  /\ writer \in WriterState /\ InsertLinks /\ writer.search.pc = "idle"
         /\ writer.level \in Level /\ X \in Key /\ X \notin OnLevel(writer.level)
         /\ Prev(writer.level) \in Node /\ Prev(writer.level) # X
         /\ Between(writer.level, Prev(writer.level), X)
         /\ next \in [Level -> [Node -> Pointer]]
<1>1. writer \in WriterState /\ writer.height > 0 /\ next \in [Level -> [Node -> Pointer]]
  BY DEF SkipInv, ListTypeOK, WriterState, Linking
<1>2. InsertLinks /\ writer.search.pc = "idle"
  BY <1>1 DEF SkipInv, WriterOK, InsertSearches, WriterState, SearchState
<1>3. writer.level \in Level /\ X \in Key /\ writer.search \in SearchState
  BY <1>1 DEF Linking, WriterState, X, SearchState
<1>4. X \notin OnLevel(writer.level) /\ Between(writer.level, Prev(writer.level), X)
  BY <1>2, <1>3 DEF InsertLinks, Prev, Linking
<1>5. Prev(writer.level) \in Node
  BY <1>1, <1>3 DEF Prev, WriterState
<1>6. Prev(writer.level) # X
  BY <1>3, <1>4, <1>5 DEF Between
<1>7. QED
  BY <1>1, <1>2, <1>3, <1>4, <1>5, <1>6

\* The store into the new node: no level changes, since nothing points to it
\* on this level and it pointed nowhere.
LEMMA InsertFillStep == ASSUME SkipInv, InsertFill PROVE SkipInv'
<1> DEFINE i == writer.level
           p == Prev(writer.level)
<1>1. /\ writer \in WriterState /\ InsertLinks /\ writer.search.pc = "idle"
      /\ i \in Level /\ X \in Key /\ X \notin OnLevel(i)
      /\ p \in Node /\ p # X /\ Between(i, p, X)
      /\ next \in [Level -> [Node -> Pointer]]
  BY AtStore DEF InsertFill
<1>2. next[i][X] = Garbage /\ ~writer.filled /\ writer.height > 0
  BY <1>1 DEF InsertFill, SkipInv, UnlinkedOK, Linking
<1>3. /\ next' \in [Level -> [Node -> Pointer]]
      /\ \A j \in Level, n \in Node :
           next'[j][n] = IF j = i /\ n = X THEN next[i][p] ELSE next[j][n]
  BY <1>1 DEF InsertFill
<1>4. /\ heights' = heights /\ iter' = iter
      /\ writer' = [writer EXCEPT !.filled = TRUE]
  BY DEF InsertFill
<1>5. /\ writer' \in WriterState /\ writer'.search = writer.search
      /\ writer'.prev = writer.prev /\ writer'.height = writer.height
      /\ writer'.level = i /\ writer'.filled = TRUE
  BY <1>1, <1>4 DEF WriterState
<1>6. \A j \in Level : OnLevel(j)' = OnLevel(j)
  <2> SUFFICES ASSUME NEW j \in Level, NEW k \in Key
               PROVE  k \in OnLevel(j)' <=> k \in OnLevel(j)
    BY DEF OnLevel
  <2>1. k \in OnLevel(j)' => k \in OnLevel(j)
    BY <1>1, <1>3 DEF OnLevel
  <2>2. k \in OnLevel(j) => k \in OnLevel(j)'
    BY <1>1, <1>2, <1>3 DEF OnLevel
  <2>3. QED
    BY <2>1, <2>2
<1>7. \A j \in Level : \A n \in OnLevel(j) \cup {head_} : n \in Node /\ next'[j][n] = next[j][n]
  BY <1>1, <1>3 DEF OnLevel
<1>8. ListTypeOK'
  BY <1>3, <1>4, <1>5 DEF SkipInv, ListTypeOK, WriterState
<1>9. 0 \in Level
  OBVIOUS
<1>10. LevelsAreSublists' /\ AllOnBottom'
  BY <1>6, <1>7, <1>9 DEF SkipInv, LevelsAreSublists, AllOnBottom
<1>11. HeightsOK'
  BY <1>4, <1>7 DEF SkipInv, HeightsOK
<1>12. InsertLinks'
  BY <1>1, <1>3, <1>4, <1>5, <1>6, <1>7 DEF InsertLinks, Between, X, Prev
<1>13. WriterOK'
  BY <1>1, <1>5, <1>12 DEF WriterOK
<1>14. UnlinkedOK'
  BY <1>1, <1>2, <1>3, <1>5, <1>6 DEF SkipInv, UnlinkedOK, X
<1>15. IterOK' /\ PassMissesNothing'
  <2>1. iter.search.pc = "find" => iter.search.level \in Level
    BY DEF SkipInv, ListTypeOK, SearchState
  <2>2. QED
    BY <1>4, <1>6, <1>9, <2>1 DEF SkipInv, IterOK, PassMissesNothing, SearchOK
<1>16. QED
  BY <1>8, <1>10, <1>11, <1>13, <1>14, <1>15 DEF SkipInv

\* The store that publishes the node adds it to the level, in its place.
LEMMA InsertPublishStep == ASSUME SkipInv, InsertPublish PROVE SkipInv'
<1>1. PICK i \in Level, p \in Node, x \in Key :
        /\ i = writer.level /\ p = Prev(i) /\ x = X
        /\ writer \in WriterState /\ InsertLinks /\ writer.search.pc = "idle"
        /\ x \notin OnLevel(i) /\ p # x /\ Between(i, p, x)
        /\ next \in [Level -> [Node -> Pointer]]
  BY AtStore DEF InsertPublish
<1>2. next[i][x] = next[i][p] /\ writer.height > 0 /\ i < writer.height
  BY <1>1 DEF InsertPublish, InsertLinks, Prev, Linking
<1>3. /\ next' \in [Level -> [Node -> Pointer]]
      /\ \A j \in Level, n \in Node :
           next'[j][n] = IF j = i /\ n = p THEN x ELSE next[j][n]
  BY <1>1 DEF InsertPublish
<1>4. heights' = heights /\ iter' = iter
  BY DEF InsertPublish
<1>5. /\ writer' \in WriterState /\ writer'.search = writer.search
      /\ writer'.prev = writer.prev /\ writer'.level = i + 1 /\ writer'.filled = FALSE
      /\ writer'.height = IF i + 1 = writer.height THEN 0 ELSE writer.height
  <2> DEFINE g == IF i + 1 = writer.height THEN 0 ELSE writer.height
  <2>1. writer' = [writer EXCEPT !.level = i + 1, !.filled = FALSE, !.height = g]
    BY <1>1 DEF InsertPublish, NextLevel, WriterState
  <2>2. i + 1 \in 0..MaxHeight /\ g \in 0..MaxHeight
    BY <1>1 DEF WriterState
  <2> HIDE DEF g
  <2>3. /\ writer' \in WriterState /\ writer'.search = writer.search
        /\ writer'.prev = writer.prev /\ writer'.level = i + 1
        /\ writer'.filled = FALSE /\ writer'.height = g
    BY <1>1, <2>1, <2>2 DEF WriterState
  <2>4. QED
    BY <2>3 DEF g
<1>6. /\ OnLevel(i)' = OnLevel(i) \cup {x}
      /\ \A j \in Level : j # i => OnLevel(j)' = OnLevel(j)
  <2>1. ASSUME NEW k \in Key PROVE k \in OnLevel(i)' <=> k \in OnLevel(i) \cup {x}
    <3>1. k \in OnLevel(i)' => k \in OnLevel(i) \cup {x}
      BY <1>1, <1>3 DEF OnLevel
    <3>2. x \in OnLevel(i)'
      BY <1>1, <1>3 DEF OnLevel
    <3>3. ASSUME NEW n \in Node, next[i][n] = k PROVE k \in OnLevel(i)'
      <4>1. CASE n = p
        <5>1. x \in Node /\ next'[i][x] = k
          BY <4>1, <1>1, <1>2, <1>3, <3>3
        <5>2. QED
          BY <5>1 DEF OnLevel
      <4>2. CASE n # p
        BY <4>2, <1>1, <1>3, <3>3 DEF OnLevel
      <4>3. QED
        BY <4>1, <4>2
    <3>4. QED
      BY <3>1, <3>2, <3>3 DEF OnLevel
  <2>2. ASSUME NEW j \in Level, j # i PROVE OnLevel(j)' = OnLevel(j)
    BY <1>3, <2>2 DEF OnLevel
  <2>3. OnLevel(i)' \subseteq Key /\ OnLevel(i) \subseteq Key
    BY DEF OnLevel
  <2>4. QED
    BY <1>1, <2>1, <2>2, <2>3
<1>7. \A j \in Level : OnLevel(j) \subseteq OnLevel(j)' /\ OnLevel(j) \subseteq Key
  BY <1>6 DEF OnLevel
<1>8. ListTypeOK'
  BY <1>3, <1>4, <1>5 DEF SkipInv, ListTypeOK, WriterState
<1>9. 0 \in Level
  OBVIOUS
<1>10. LevelsAreSublists'
  <2>1. ASSUME NEW j \in Level, j > 0 PROVE OnLevel(j)' \subseteq OnLevel(j - 1)'
    <3>1. OnLevel(j) \subseteq OnLevel(j - 1) /\ j - 1 \in Level
      BY <2>1 DEF SkipInv, LevelsAreSublists
    <3>2. j = i => x \in OnLevel(j - 1)
      BY <1>1, <2>1, <3>1 DEF InsertLinks
    <3>3. QED
      BY <1>6, <1>7, <3>1, <3>2
  <2>2. ASSUME NEW j \in Level, NEW n \in OnLevel(j)' \cup {head_}
        PROVE  /\ n < next'[j][n]
               /\ next'[j][n] \in OnLevel(j)' \cup {Nil}
               /\ \A k \in OnLevel(j)' : k <= n \/ next'[j][n] <= k
    <3>1. CASE j # i
      <4>1. n \in OnLevel(j) \cup {head_} /\ n \in Node
        BY <3>1, <2>2, <1>6, <1>7
      <4>2. next'[j][n] = next[j][n] /\ OnLevel(j)' = OnLevel(j)
        BY <3>1, <4>1, <1>3, <1>6
      <4>3. QED
        BY <4>1, <4>2, Successor DEF SkipInv
    <3>2. CASE j = i /\ n = p
      <4>1. /\ p < x /\ x < next[i][p]
            /\ \A k \in OnLevel(i) : k <= p \/ next[i][p] <= k
        BY <1>1, Successor DEF Between, SkipInv
      <4>2. next'[j][n] = x
        BY <3>2, <1>1, <1>3
      <4>3. next[i][p] \in Key \cup {Nil}
        BY <1>1, Successor DEF Between, SkipInv
      <4>4. QED
        BY <3>2, <4>1, <4>2, <4>3, <1>1, <1>6, <1>7
    <3>3. CASE j = i /\ n = x
      <4>1. /\ p < x /\ x < next[i][p] /\ next[i][p] \in OnLevel(i) \cup {Nil}
            /\ \A k \in OnLevel(i) : k <= p \/ next[i][p] <= k
        BY <1>1, Successor DEF Between, SkipInv
      <4>2. next'[j][n] = next[i][p]
        BY <3>3, <1>1, <1>2, <1>3
      <4>3. QED
        BY <3>3, <4>1, <4>2, <1>1, <1>6, <1>7
    <3>4. CASE j = i /\ n # p /\ n # x
      <4>1. n \in OnLevel(i) \cup {head_} /\ n \in Node
        BY <3>4, <2>2, <1>6, <1>7
      <4>2. /\ n < next[i][n] /\ next[i][n] \in OnLevel(i) \cup {Nil}
            /\ next[i][n] \in Key \cup {Nil}
            /\ \A k \in OnLevel(i) : k <= n \/ next[i][n] <= k
        BY <4>1, <1>1, Successor DEF SkipInv
      <4>3. next'[j][n] = next[i][n]
        BY <3>4, <4>1, <1>1, <1>3
      <4>4. /\ p \in OnLevel(i) \cup {head_} /\ p < x /\ x < next[i][p]
            /\ next[i][p] \in Key \cup {Nil}
            /\ \A k \in OnLevel(i) : k <= p \/ next[i][p] <= k
        BY <1>1, Successor DEF Between, SkipInv
      <4>5. x <= n \/ next[i][n] <= x
        BY <3>4, <4>1, <4>2, <4>4, <1>1, SMTT(25)
      <4>6. QED
        BY <3>4, <4>2, <4>3, <4>5, <1>1, <1>6, <1>7
    <3>5. QED
      BY <3>1, <3>2, <3>3, <3>4
  <2>3. QED
    BY <2>1, <2>2 DEF LevelsAreSublists
<1>11. AllOnBottom'
  <2>1. x \in OnLevel(0)'
    BY <1>1, <1>6, <1>7, <1>9 DEF InsertLinks
  <2>2. QED
    BY <1>6, <1>7, <1>9, <2>1 DEF AllOnBottom, SkipInv
<1>12. HeightsOK'
  <2>1. PICK h \in heights : i < h
    BY <1>1, <1>2 DEF InsertLinks, SkipInv, ListTypeOK, WriterState
  <2>2. ASSUME NEW j \in Level, \A g \in heights : g <= j PROVE next'[j][head_] = next[j][head_]
    BY <2>1, <2>2, <1>1, <1>3 DEF SkipInv, ListTypeOK
  <2>3. QED
    BY <1>4, <2>2 DEF HeightsOK, SkipInv
<1>13. ASSUME writer'.height > 0 PROVE InsertLinks'
  <2>1. writer'.height = writer.height /\ i + 1 < writer.height
    BY <1>1, <1>2, <1>5, <1>13 DEF WriterState
  <2>2. X' = x
    BY <1>1, <1>5 DEF X
  <2>3. ASSUME NEW j \in Level
        PROVE  /\ j < i + 1 => x \in OnLevel(j)'
               /\ j >= i + 1 => x \notin OnLevel(j)'
               /\ j >= i + 1 /\ j < writer.height => Between(j, writer.prev[j], X)'
    <3>1. j < i + 1 => x \in OnLevel(j)'
      BY <1>1, <1>6 DEF InsertLinks
    <3>2. ASSUME j >= i + 1 PROVE j # i /\ OnLevel(j)' = OnLevel(j) /\ x \notin OnLevel(j)
      BY <3>2, <1>1, <1>6 DEF InsertLinks, WriterState
    <3>3. ASSUME j >= i + 1, j < writer.height PROVE Between(j, writer.prev[j], X)'
      <4>1. Between(j, writer.prev[j], x)
        BY <3>3, <1>1 DEF InsertLinks, WriterState
      <4>2. writer.prev[j] \in Node /\ next'[j][writer.prev[j]] = next[j][writer.prev[j]]
        BY <3>2, <3>3, <1>1, <1>3 DEF WriterState
      <4>3. QED
        BY <3>2, <3>3, <4>1, <4>2, <1>5, <2>2 DEF Between
    <3>4. QED
      BY <3>1, <3>2, <3>3
  <2>4. QED
    BY <2>1, <2>2, <2>3, <1>1, <1>4, <1>5 DEF InsertLinks
<1>14. WriterOK'
  BY <1>1, <1>5, <1>13 DEF WriterOK
<1>15. UnlinkedOK'
  <2> SUFFICES ASSUME NEW j \in Level, NEW n \in Key, n \notin OnLevel(j)'
               PROVE  next'[j][n] = Garbage
    BY DEF UnlinkedOK
  <2>1. n \notin OnLevel(j) /\ ~(j = i /\ n = x)
    BY <1>6, <1>7
  <2>2. next[j][n] = Garbage
    BY <1>1, <2>1 DEF SkipInv, UnlinkedOK
  <2>3. ~(j = i /\ n = p)
    BY <2>1, <1>1 DEF Between
  <2>4. QED
    BY <2>2, <2>3, <1>3
<1>16. IterOK' /\ PassMissesNothing'
  <2>1. iter.search.pc = "find" => iter.search.level \in Level
    BY DEF SkipInv, ListTypeOK, SearchState
  <2>2. QED
    BY <1>4, <1>7, <1>9, <2>1 DEF SkipInv, IterOK, PassMissesNothing, SearchOK
<1>17. QED
  BY <1>8, <1>10, <1>11, <1>12, <1>14, <1>15, <1>16 DEF SkipInv

----------------------------------------------------------------------------
(* The theorems.                                                           *)

\* The list starts empty on every level.
LEMMA InitSkip == ListInit => SkipInv
<1> SUFFICES ASSUME ListInit PROVE SkipInv
  OBVIOUS
<1>1. \A i \in Level : OnLevel(i) = {}
  <2>1. \A i \in Level, n \in Node : next[i][n] \notin Key
    BY DEF ListInit
  <2>2. QED
    BY <2>1 DEF OnLevel
<1>2. ListTypeOK
  BY DEF ListInit, ListTypeOK, SearchState, Idle, NoPass
<1>3. LevelsAreSublists /\ AllOnBottom /\ UnlinkedOK
  <2>1. \A i \in Level : next[i][head_] = Nil /\ \A n \in Key : next[i][n] = Garbage
    <3> SUFFICES ASSUME NEW i \in Level
                 PROVE  next[i][head_] = Nil /\ \A n \in Key : next[i][n] = Garbage
      OBVIOUS
    <3>1. next[i] = [n \in Node |-> IF n = head_ THEN Nil ELSE Garbage]
      BY DEF ListInit
    <3>2. head_ \in Node /\ \A n \in Key : n \in Node /\ n # head_
      OBVIOUS
    <3>3. QED
      BY <3>1, <3>2
  <2>2. QED
    BY <1>1, <2>1 DEF LevelsAreSublists, AllOnBottom, UnlinkedOK
<1>4. HeightsOK
  BY DEF ListInit, HeightsOK
<1>5. WriterOK
  BY DEF ListInit, WriterOK, Idle
<1>6. IterOK /\ PassMissesNothing
  BY DEF ListInit, IterOK, PassMissesNothing, Idle, NoPass
<1>7. QED
  BY <1>2, <1>3, <1>4, <1>5, <1>6 DEF SkipInv

\* Every step of the writer and of the reader keeps the invariant.
LEMMA NextSkip == SkipInv /\ [ListNext]_listVars => SkipInv'
<1> SUFFICES ASSUME SkipInv, [ListNext]_listVars PROVE SkipInv'
  OBVIOUS
<1>1. CASE UNCHANGED listVars
  <2>1. \A i : OnLevel(i)' = OnLevel(i)
    BY <1>1, SameLevels DEF listVars
  <2>2. iter' \in IterState /\ IterOK' /\ PassMissesNothing'
    BY <1>1, <2>1 DEF listVars, SkipInv, ListTypeOK, IterState, IterOK, PassMissesNothing, SearchOK
  <2>3. QED
    BY <1>1, <2>2, IterOnly DEF listVars
<1>2. QED
  BY <1>1, InsertStartStep, InsertFindStep, InsertHeightStep, InsertFillStep,
     InsertPublishStep, IterStep DEF ListNext

\* SkipList::Insert and SkipList::Iterator: at every instant, between any two
\* stores of an insert, each level is a sorted list that is part of the level
\* below, a reader without a lock follows no pointer that was not written, and
\* a pass forward misses no key that was there when it began.
THEOREM ListIsSound == ListSpec => []ListInv
<1>1. SkipInv => ListInv
  <2> SUFFICES ASSUME SkipInv PROVE ListInv
    OBVIOUS
  <2>1. ASSUME NEW s \in SearchState, SearchOK(s) PROVE NextOf(s) # Garbage
    BY <2>1, Successor DEF NextOf, SearchOK, SearchState, SkipInv
  <2>2. iter.search \in SearchState /\ writer.search \in SearchState
    BY DEF SkipInv, ListTypeOK
  <2>3. /\ iter.search.pc = "find" => SearchOK(iter.search)
        /\ writer.search.pc = "find" => SearchOK(writer.search)
    BY DEF SkipInv, IterOK, WriterOK, InsertSearches
  <2>4. QED
    BY <2>1, <2>2, <2>3 DEF ListInv, ReadsInitialised, SkipInv
<1>2. QED
  BY InitSkip, NextSkip, <1>1, PTL DEF ListSpec

\* FindGreaterOrEqual, FindLessThan and FindLast: a search that overlaps any
\* number of inserts returns what the list holds when it returns.
THEOREM SearchesAreExact == ListSpec => SearchIsExact
<1> DEFINE s == iter.search
           r == iter'.node
           fits == CASE s.mode = "ge" -> {k \in OnLevel(0) : k >= s.key}
                     [] s.mode = "lt" -> {k \in OnLevel(0) : k < s.key}
                     [] s.mode = "last" -> OnLevel(0)
           Exact == IF fits = {} THEN r = Nil
                    ELSE /\ r \in fits
                         /\ \A k \in fits : IF s.mode = "ge" THEN r <= k ELSE k <= r
<1>1. ASSUME SkipInv, ListNext, s.pc = "find", iter'.search.pc = "idle" PROVE Exact
  <2>1. IterFound
    <3>1. CASE IterFind
      <4>1. iter'.search = FindStep(s) /\ FindStep(s).pc = "find"
        BY <3>1, <1>1, StepKeepsSearch DEF IterFind, SkipInv, ListTypeOK, IterOK
      <4>2. QED
        BY <4>1, <1>1
    <3>2. QED
      BY <1>1, <3>1 DEF ListNext, InsertStart, InsertFind, InsertHeight, InsertFill,
         InsertPublish, Seek, SeekToFirst, SeekToLast, IterNext, IterPrev, Valid
  <2>2. r = Result(s) /\ Ends(s) /\ s \in SearchState /\ SearchOK(s)
    BY <2>1, <1>1 DEF IterFound, SkipInv, ListTypeOK, IterOK
  <2>3. /\ r \in OnLevel(0) \cup {Nil}
        /\ s.mode = "ge" => \A k \in OnLevel(0) : k >= s.key <=> r <= k
        /\ s.mode = "ge" /\ r # Nil => r >= s.key
        /\ s.mode # "ge" /\ r # Nil =>
             \A k \in OnLevel(0) : (s.mode = "lt" => k < s.key) => k <= r
        /\ s.mode # "ge" /\ r = Nil =>
             \A k \in OnLevel(0) : s.mode = "lt" /\ s.key <= k
        /\ s.mode = "lt" /\ r # Nil => r < s.key
    BY <2>2, <1>1, SearchEnds DEF SkipInv
  <2>4. OnLevel(0) \subseteq Key /\ s.key \in Key
    BY <2>2 DEF OnLevel, SearchState
  <2>5. CASE s.mode = "ge"
    <3>1. fits = {k \in OnLevel(0) : k >= s.key}
      BY <2>5
    <3>2. QED
      BY <2>3, <2>4, <2>5, <3>1
  <2>6. CASE s.mode = "lt"
    <3>1. fits = {k \in OnLevel(0) : k < s.key}
      BY <2>6
    <3>2. QED
      BY <2>3, <2>4, <2>6, <3>1
  <2>7. CASE s.mode = "last"
    <3>1. fits = OnLevel(0)
      BY <2>7
    <3>2. QED
      BY <2>3, <2>4, <2>7, <3>1
  <2>8. QED
    BY <2>2, <2>5, <2>6, <2>7 DEF SearchState
<1>2. SkipInv /\ [ListNext]_listVars => [ReturnsExact]_listVars
  BY <1>1 DEF ReturnsExact
<1>3. QED
  BY InitSkip, NextSkip, <1>2, PTL DEF ListSpec, SearchIsExact
=============================================================================
