-------------------------- MODULE MapPollingProofs --------------------------
(***************************************************************************)
(* The pin shows somebody who was the partner, and never goes back to an   *)
(* older position of the same partner, for any number of partners,         *)
(* versions and reads in flight.                                           *)
(***************************************************************************)
EXTENDS MapPolling, SequenceTheorems, TLAPS

Callback == [id : DocId, ver : Nat]

\* The document id has the version ver.
Exists(id, ver) == ver \in DOMAIN docs[id]

\* The own document named p at some time.
Named(p) == \E v \in DOMAIN docs[Me] : docs[Me][v] = p

Types ==
    /\ docs \in [DocId -> Seq(Person \cup {None, "here", "gone"})]
    /\ reads \in [DocId -> Nat]
    /\ answer \in [DocId -> Nat]
    /\ cache \in [DocId -> Nat]
    /\ main \in Seq(Callback)
    /\ pin # NoPin => pin \in Person \X Nat

\* Only versions that exist are sent, kept and shown.
VersionsExist ==
    /\ \A id \in DocId : Exists(id, Latest(id))
    /\ \A id \in DocId : answer[id] # 0 => Exists(id, answer[id])
    /\ \A id \in DocId : cache[id] # 0 => Exists(id, cache[id])
    /\ \A i \in DOMAIN main : main[i].ver # 0 => Exists(main[i].id, main[i].ver)

\* The callbacks about a document are given ever newer versions, none newer
\* than the one the phone keeps.
CallbacksOrdered ==
    /\ \A i \in DOMAIN main : main[i].ver <= cache[main[i].id]
    /\ \A i, j \in DOMAIN main :
          i < j /\ main[i].id = main[j].id => main[i].ver <= main[j].ver

\* Nothing older than the pin is to come.
PinIsOldest ==
    pin # NoPin =>
        /\ pin[2] <= cache[pin[1]]
        /\ \A i \in DOMAIN main : main[i].id = pin[1] => pin[2] <= main[i].ver

\* Who is read was named by the own document.
ReadsNamed ==
    /\ \A p \in Person : reads[p] # 0 => Named(p)
    /\ \A i \in DOMAIN main : main[i].id \in Person => Named(main[i].id)

\* The pin is a version that exists.
PinNamed ==
    pin # NoPin =>
        /\ Named(pin[1])
        /\ Exists(pin[1], pin[2])
        /\ docs[pin[1]][pin[2]] = "here"

PinInv ==
    /\ Types
    /\ VersionsExist
    /\ CallbacksOrdered
    /\ PinIsOldest
    /\ ReadsNamed
    /\ PinNamed

-----------------------------------------------------------------------------

\* The versions of a document are numbered from 1.
LEMMA Versions ==
    ASSUME Types, NEW id \in DocId
    PROVE  Latest(id) \in Nat /\ DOMAIN docs[id] = 1..Latest(id)
  BY LenProperties DEF Types, Latest

\* The callbacks are numbered from 1.
LEMMA Callbacks ==
    ASSUME Types
    PROVE  /\ Len(main) \in Nat /\ DOMAIN main = 1..Len(main)
           /\ \A i \in DOMAIN main :
                 main[i] \in Callback /\ main[i].id \in DocId /\ main[i].ver \in Nat
  <1>1. main \in Seq(Callback)
    BY DEF Types
  <1>2. Len(main) \in Nat /\ DOMAIN main = 1..Len(main)
    BY <1>1, LenProperties
  <1>3. \A i \in 1..Len(main) : main[i] \in Callback
    BY <1>1, ElementOfSeq
  <1> QED
    BY <1>2, <1>3 DEF Callback

\* A sequence of the same callback.
LEMMA SameCallback ==
    ASSUME NEW n \in Nat, NEW a \in Callback
    PROVE  /\ [i \in 1..n |-> a] \in Seq(Callback)
           /\ Len([i \in 1..n |-> a]) = n
  <1> DEFINE s == [i \in 1..n |-> a]
  <1>1. s \in [1..n -> Callback]
    OBVIOUS
  <1>2. s \in Seq(Callback)
    BY <1>1, SeqDef
  <1>3. Len(s) \in Nat /\ 1..Len(s) = 1..n
    BY <1>1, <1>2, LenProperties
  <1> QED
    BY <1>2, <1>3

\* What Append does to a document: it gains a version and keeps the others.
LEMMA AppendVersion ==
    ASSUME NEW S, NEW s \in Seq(S), NEW c \in S
    PROVE  /\ Append(s, c) \in Seq(S)
           /\ Len(Append(s, c)) = Len(s) + 1
           /\ DOMAIN Append(s, c) = 1..(Len(s) + 1)
           /\ \A i \in DOMAIN s : i \in DOMAIN Append(s, c) /\ Append(s, c)[i] = s[i]
           /\ Append(s, c)[Len(s) + 1] = c
  OBVIOUS

\* Whoever writes a document (Written, WrittenHere), nothing that exists goes.
LEMMA WrittenKeeps ==
    ASSUME Types, NEW id \in DocId, NEW c \in Content(id),
           docs' = [docs EXCEPT ![id] = Append(@, c)]
    PROVE  /\ docs' \in [DocId -> Seq(Person \cup {None, "here", "gone"})]
           /\ Len(docs'[id]) = Latest(id) + 1
           /\ Len(docs'[id]) \in DOMAIN docs'[id]
           /\ \A d \in DocId : d # id => docs'[d] = docs[d]
           /\ \A d \in DocId : \A v \in DOMAIN docs[d] :
                 v \in DOMAIN docs'[d] /\ docs'[d][v] = docs[d][v]
  <1> DEFINE Text == Person \cup {None, "here", "gone"}
  <1>1. c \in Text /\ docs[id] \in Seq(Text)
    BY DEF Content, Types
  <1> HIDE DEF Text
  <1>2. docs'[id] = Append(docs[id], c) /\ \A d \in DocId : d # id => docs'[d] = docs[d]
    BY DEF Types
  <1>3. docs' \in [DocId -> Seq(Text)]
    BY <1>1, AppendVersion DEF Types, Text
  <1> QED
    BY <1>1, <1>2, <1>3, AppendVersion DEF Latest, Text

\* What Deliver does to the main queue.
LEMMA Delivered ==
    ASSUME Types, NEW id \in DocId, NEW ver \in Nat, Deliver(id, ver)
    PROVE  /\ main' \in Seq(Callback)
           /\ reads' \in [DocId -> Nat]
           /\ reads'[id] = 0
           /\ \A d \in DocId : d # id => reads'[d] = reads[d]
           /\ \A i \in DOMAIN main' :
                 \/ i \in DOMAIN main /\ main'[i] = main[i]
                 \/ /\ i > Len(main)
                    /\ main'[i] = [id |-> id, ver |-> ver]
                    /\ reads[id] # 0
  <1> DEFINE new == [i \in 1..reads[id] |-> [id |-> id, ver |-> ver]]
  <1>1. reads[id] \in Nat /\ main \in Seq(Callback)
    BY DEF Types
  <1>2. new \in Seq(Callback) /\ Len(new) = reads[id]
    BY <1>1, SameCallback DEF Callback
  <1>3. /\ reads' \in [DocId -> Nat] /\ reads'[id] = 0
        /\ \A d \in DocId : d # id => reads'[d] = reads[d]
    BY DEF Deliver, Types
  <1>4. main' = main \o new
    BY DEF Deliver
  <1>5. ASSUME NEW i \in DOMAIN new
        PROVE  new[i] = [id |-> id, ver |-> ver] /\ reads[id] # 0
    BY <1>1
  <1> HIDE DEF new
  <1>6. main' \in Seq(Callback) /\ Len(main') = Len(main) + Len(new)
    BY <1>1, <1>2, <1>4, ConcatProperties
  <1>7. ASSUME NEW i \in DOMAIN main'
        PROVE  \/ i \in DOMAIN main /\ main'[i] = main[i]
               \/ /\ i > Len(main)
                  /\ main'[i] = [id |-> id, ver |-> ver]
                  /\ reads[id] # 0
    <2>1. CASE i <= Len(main)
      BY <1>1, <1>2, <1>4, <1>6, <2>1
    <2>2. CASE i > Len(main)
      <3>1. i - Len(main) \in DOMAIN new /\ main'[i] = new[i - Len(main)]
        BY <1>1, <1>2, <1>4, <1>6, <2>2
      <3> QED
        BY <3>1, <1>5, <2>2
    <2> QED
      BY <2>1, <2>2, <1>1, <1>6
  <1> QED
    BY <1>3, <1>6, <1>7

\* What is left of the main queue when its head has run.
LEMMA TailOfMain ==
    ASSUME Types, main # <<>>, main' = Tail(main)
    PROVE  /\ main' \in Seq(Callback)
           /\ Head(main) = main[1] /\ 1 \in DOMAIN main /\ main[1] \in Callback
           /\ \A i \in DOMAIN main' :
                 i + 1 \in DOMAIN main /\ 1 < i + 1 /\ main'[i] = main[i + 1]
  BY DEF Types

-----------------------------------------------------------------------------

\* A document gains a version.
LEMMA WriteStep ==
    ASSUME PinInv, NEW id \in DocId, NEW c \in Content(id),
           docs' = [docs EXCEPT ![id] = Append(@, c)],
           cache' = cache \/ cache' = [cache EXCEPT ![id] = Latest(id) + 1],
           UNCHANGED <<reads, answer, main, pin>>
    PROVE  PinInv'
  <1> USE DEF PinInv
  <1>1. /\ docs' \in [DocId -> Seq(Person \cup {None, "here", "gone"})]
        /\ Len(docs'[id]) = Latest(id) + 1
        /\ Len(docs'[id]) \in DOMAIN docs'[id]
        /\ \A d \in DocId : d # id => docs'[d] = docs[d]
        /\ \A d \in DocId : \A v \in DOMAIN docs[d] :
              v \in DOMAIN docs'[d] /\ docs'[d][v] = docs[d][v]
    BY WrittenKeeps
  <1>2. /\ \A d \in DocId : Latest(d) \in Nat
        /\ \A d \in DocId : cache[d] \in Nat /\ cache[d] <= Latest(d)
    <2>1. ASSUME NEW d \in DocId
          PROVE  Latest(d) \in Nat /\ cache[d] \in Nat /\ cache[d] <= Latest(d)
      <3>1. Latest(d) \in Nat /\ DOMAIN docs[d] = 1..Latest(d) /\ cache[d] \in Nat
        BY Versions DEF Types
      <3>2. cache[d] = 0 \/ cache[d] \in 1..Latest(d)
        BY <3>1 DEF VersionsExist, Exists
      <3> QED
        BY <3>1, <3>2
    <2> QED
      BY <2>1
  <1>3. /\ cache' \in [DocId -> Nat]
        /\ \A d \in DocId : cache[d] <= cache'[d]
        /\ \A d \in DocId : cache'[d] = cache[d] \/ cache'[d] = Len(docs'[d])
    <2>1. \A d \in DocId :
             \/ cache'[d] = cache[d]
             \/ d = id /\ cache'[d] = Latest(id) + 1
      BY DEF Types
    <2>2. cache' \in [DocId -> Nat]
      BY <1>2 DEF Types
    <2> QED
      BY <1>1, <1>2, <2>1, <2>2
  <1>4. \A p : Named(p) => Named(p)'
    BY <1>1 DEF Named, DocId
  <1>5. Types'
    BY <1>1, <1>3 DEF Types
  <1>6. VersionsExist'
    <2>1. \A d \in DocId : \A v : Exists(d, v) => Exists(d, v)'
      BY <1>1 DEF Exists
    <2>2. \A d \in DocId : Exists(d, Latest(d))'
      BY <1>1 DEF Exists, Latest, Types, VersionsExist
    <2>3. \A d \in DocId : cache'[d] # 0 => cache'[d] \in DOMAIN docs'[d]
      BY <1>1, <1>3, <2>2 DEF Latest, VersionsExist, Exists
    <2>4. \A i \in DOMAIN main :
             main[i].ver # 0 => main[i].ver \in DOMAIN docs'[main[i].id]
      BY <1>1, Callbacks DEF VersionsExist, Exists
    <2>5. \A d \in DocId : answer[d] # 0 => answer[d] \in DOMAIN docs'[d]
      BY <1>1 DEF VersionsExist, Exists
    <2> QED
      BY <2>2, <2>3, <2>4, <2>5 DEF VersionsExist, Exists
  <1>7. \A i \in DOMAIN main : main[i].id \in DocId /\ main[i].ver \in Nat
    BY Callbacks
  <1>8. CallbacksOrdered'
    <2>1. \A i \in DOMAIN main : main[i].ver <= cache'[main[i].id]
      <3>1. ASSUME NEW i \in DOMAIN main
            PROVE  main[i].ver <= cache'[main[i].id]
        <4>1. /\ main[i].ver \in Nat /\ main[i].ver <= cache[main[i].id]
              /\ cache[main[i].id] \in Nat /\ cache'[main[i].id] \in Nat
              /\ cache[main[i].id] <= cache'[main[i].id]
          BY <1>2, <1>3, <1>7 DEF CallbacksOrdered
        <4> QED
          BY <4>1
      <3> QED
        BY <3>1
    <2> QED
      BY <2>1 DEF CallbacksOrdered
  <1>9. PinIsOldest'
    BY <1>2, <1>3, <1>7 DEF PinIsOldest, Types, DocId
  <1>10. ReadsNamed'
    BY <1>4 DEF ReadsNamed
  <1>11. PinNamed'
    BY <1>1, <1>4 DEF PinNamed, Exists, Types, DocId
  <1> QED
    BY <1>5, <1>6, <1>8, <1>9, <1>10, <1>11

\* The reads of a document are answered, by the server or from the cache: with
\* a version the phone keeps from then on, and none older than before.
LEMMA DeliverStep ==
    ASSUME PinInv, NEW id \in DocId, NEW ver \in Nat, Deliver(id, ver),
           cache[id] <= ver, ver # 0 => Exists(id, ver),
           cache' = [cache EXCEPT ![id] = ver],
           answer' = answer \/ answer' = [answer EXCEPT ![id] = 0],
           UNCHANGED <<docs, pin>>
    PROVE  PinInv'
  <1> USE DEF PinInv
  <1>1. /\ main' \in Seq(Callback)
        /\ reads' \in [DocId -> Nat]
        /\ reads'[id] = 0
        /\ \A d \in DocId : d # id => reads'[d] = reads[d]
        /\ \A i \in DOMAIN main' :
              \/ i \in DOMAIN main /\ main'[i] = main[i]
              \/ /\ i > Len(main)
                 /\ main'[i] = [id |-> id, ver |-> ver]
                 /\ reads[id] # 0
    BY Delivered
  <1>2. /\ cache' \in [DocId -> Nat] /\ cache'[id] = ver
        /\ \A d \in DocId : d # id => cache'[d] = cache[d]
        /\ \A d \in DocId : cache[d] \in Nat /\ cache[d] <= cache'[d]
    BY DEF Types
  <1>3. /\ answer' \in [DocId -> Nat]
        /\ \A d \in DocId : answer'[d] # 0 => answer'[d] = answer[d]
    BY DEF Types
  <1>4. /\ \A i \in DOMAIN main : main[i] \in Callback
        /\ \A i \in DOMAIN main : i \in Nat /\ i <= Len(main)
        /\ \A i \in DOMAIN main' : i \in Nat
        /\ Len(main) \in Nat
    BY <1>1, Callbacks, LenProperties
  <1>5. \A i \in DOMAIN main : main[i].id \in DocId /\ main[i].ver \in Nat
    BY Callbacks
  <1>6. Types'
    BY <1>1, <1>2, <1>3 DEF Types
  <1>7. VersionsExist'
    BY <1>1, <1>2, <1>3 DEF VersionsExist, Exists, Latest
  <1>8. CallbacksOrdered'
    <2>1. \A i \in DOMAIN main' : main'[i].ver <= cache'[main'[i].id]
      BY <1>1, <1>2, <1>5 DEF CallbacksOrdered
    <2>2. ASSUME NEW i \in DOMAIN main', NEW j \in DOMAIN main',
                 i < j, main'[i].id = main'[j].id
          PROVE  main'[i].ver <= main'[j].ver
      <3>1. CASE j \in DOMAIN main /\ main'[j] = main[j]
        BY <1>1, <1>4, <2>2, <3>1 DEF CallbacksOrdered
      <3>2. CASE main'[j] = [id |-> id, ver |-> ver]
        BY <2>1, <2>2, <3>2, <1>2
      <3> QED
        BY <3>1, <3>2, <1>1
    <2> QED
      BY <2>1, <2>2 DEF CallbacksOrdered
  <1>9. PinIsOldest'
    <2>1. SUFFICES ASSUME pin # NoPin
                   PROVE  /\ pin[2] <= cache'[pin[1]]
                          /\ \A i \in DOMAIN main' :
                                main'[i].id = pin[1] => pin[2] <= main'[i].ver
      BY DEF PinIsOldest
    <2>2. pin[1] \in DocId /\ pin[2] \in Nat /\ pin[2] <= cache[pin[1]]
      BY <2>1 DEF PinIsOldest, Types, DocId
    <2>3. pin[2] <= cache'[pin[1]]
      BY <1>2, <2>2
    <2>4. ASSUME NEW i \in DOMAIN main', main'[i].id = pin[1]
          PROVE  pin[2] <= main'[i].ver
      <3>1. CASE i \in DOMAIN main /\ main'[i] = main[i]
        BY <2>1, <2>4, <3>1 DEF PinIsOldest
      <3>2. CASE main'[i] = [id |-> id, ver |-> ver]
        BY <1>2, <2>3, <2>4, <3>2
      <3> QED
        BY <1>1, <3>1, <3>2
    <2> QED
      BY <2>3, <2>4
  <1>10. ReadsNamed'
    BY <1>1 DEF ReadsNamed, Named, DocId
  <1>11. PinNamed'
    BY DEF PinNamed, Named, Exists
  <1> QED
    BY <1>6, <1>7, <1>8, <1>9, <1>10, <1>11

\* What is on its way changes, not what is read or shown.
LEMMA AnswerStep ==
    ASSUME PinInv, answer' \in [DocId -> Nat],
           \A d \in DocId : answer'[d] # 0 => Exists(d, answer'[d]),
           UNCHANGED <<docs, reads, cache, main, pin>>
    PROVE  PinInv'
  BY DEF PinInv, Types, VersionsExist, Exists, Latest, CallbacksOrdered,
         PinIsOldest, ReadsNamed, Named, PinNamed

\* One more document is read: the own, or one that the own document named.
LEMMA ReadStep ==
    ASSUME PinInv, reads' \in [DocId -> Nat],
           \A p \in Person : reads'[p] # 0 => Named(p),
           UNCHANGED <<docs, answer, cache, main, pin>>
    PROVE  PinInv'
  BY DEF PinInv, Types, VersionsExist, Exists, Latest, CallbacksOrdered,
         PinIsOldest, ReadsNamed, Named, PinNamed

\* A callback has run: documents that the own document named may be read, and
\* the pin may be moved to what the callback was given.
LEMMA CallbackStep ==
    ASSUME PinInv, main # <<>>, main' = Tail(main),
           reads' \in [DocId -> Nat],
           \A p \in Person : reads'[p] # 0 => Named(p),
           \/ pin' = pin
           \/ /\ main[1].id \in Person /\ Given(main[1]) = "here"
              /\ pin' = <<main[1].id, main[1].ver>>,
           UNCHANGED <<docs, answer, cache>>
    PROVE  PinInv'
  <1> USE DEF PinInv
  <1>1. /\ main' \in Seq(Callback)
        /\ 1 \in DOMAIN main
        /\ \A i \in DOMAIN main' :
              i + 1 \in DOMAIN main /\ 1 < i + 1 /\ main'[i] = main[i + 1]
    BY TailOfMain
  <1>2. main[1].id \in DocId /\ main[1].ver \in Nat
    BY <1>1, Callbacks
  <1>3. Given(main[1]) = "here" =>
           /\ main[1].ver # 0
           /\ Exists(main[1].id, main[1].ver)
           /\ docs[main[1].id][main[1].ver] = "here"
    BY <1>1 DEF Given, VersionsExist
  <1>4. Types'
    BY <1>1, <1>2 DEF Types
  <1>5. VersionsExist'
    BY <1>1 DEF VersionsExist, Exists, Latest
  <1>6. CallbacksOrdered'
    <2>1. \A i \in DOMAIN main' : i \in Nat
      BY <1>1, LenProperties
    <2> QED
      BY <1>1, <2>1 DEF CallbacksOrdered
  <1>7. PinIsOldest'
    <2>1. CASE pin' = pin
      BY <1>1, <2>1 DEF PinIsOldest
    <2>2. CASE pin' = <<main[1].id, main[1].ver>>
      BY <1>1, <2>2 DEF PinIsOldest, CallbacksOrdered
    <2> QED
      BY <2>1, <2>2
  <1>8. ReadsNamed'
    BY <1>1 DEF ReadsNamed, Named
  <1>9. PinNamed'
    <2>1. CASE pin' = pin
      BY <2>1 DEF PinNamed, Named, Exists
    <2>2. CASE /\ main[1].id \in Person /\ Given(main[1]) = "here"
               /\ pin' = <<main[1].id, main[1].ver>>
      BY <1>1, <1>3, <2>2 DEF PinNamed, ReadsNamed, Named, Exists
    <2> QED
      BY <2>1, <2>2
  <1> QED
    BY <1>4, <1>5, <1>6, <1>7, <1>8, <1>9

\* The callback of the first read reads whom the own document names.
LEMMA OwnCallbackStep ==
    ASSUME PinInv, OwnCallback
    PROVE  PinInv'
  <1> USE DEF PinInv
  <1>1. /\ main # <<>> /\ main' = Tail(main)
        /\ UNCHANGED <<docs, answer, cache, pin>>
        /\ Head(main) = main[1] /\ 1 \in DOMAIN main
        /\ main[1].id = Me
    BY TailOfMain DEF OwnCallback
  <1> DEFINE p == Given(main[1])
  <1>2. reads' = IF p \in Person THEN [reads EXCEPT ![p] = @ + 1] ELSE reads
    BY <1>1 DEF OwnCallback
  <1>3. p \in Person => Named(p)
    <2>1. CASE main[1].ver = 0
      BY <2>1, PollingAssumption DEF Given
    <2>2. CASE main[1].ver # 0
      BY <1>1, <2>2 DEF Given, VersionsExist, Exists, Named
    <2> QED
      BY <2>1, <2>2
  <1>4. reads' \in [DocId -> Nat]
    BY <1>2 DEF Types, DocId
  <1>5. \A q \in Person : reads'[q] # 0 => Named(q)
    BY <1>2, <1>3 DEF ReadsNamed, Types, DocId
  <1> QED
    BY <1>1, <1>4, <1>5, CallbackStep

\* The callback of the second read moves the pin or leaves it.
LEMMA PartnerCallbackStep ==
    ASSUME PinInv, PartnerCallback
    PROVE  PinInv'
  <1>1. /\ main # <<>> /\ main' = Tail(main)
        /\ UNCHANGED <<docs, reads, answer, cache>>
        /\ Head(main) = main[1] /\ main[1].id \in Person
        /\ pin' = IF Given(main[1]) = "here"
                  THEN <<main[1].id, main[1].ver>> ELSE pin
    BY TailOfMain DEF PinInv, PartnerCallback
  <1>2. reads' \in [DocId -> Nat] /\ \A p \in Person : reads'[p] # 0 => Named(p)
    BY <1>1 DEF PinInv, Types, ReadsNamed
  <1> QED
    BY <1>1, <1>2, CallbackStep

-----------------------------------------------------------------------------

LEMMA InitPin == Init => PinInv
  <1> SUFFICES ASSUME Init PROVE PinInv
    OBVIOUS
  <1>1. \A id \in DocId :
           /\ docs[id] \in Seq(Person \cup {None, "here", "gone"})
           /\ Len(docs[id]) = 1
    BY DEF Init
  <1>2. Types
    BY <1>1 DEF Init, Types
  <1>3. VersionsExist
    BY <1>1, LenProperties DEF Init, VersionsExist, Exists, Latest
  <1>4. DOMAIN main = {} /\ pin = NoPin
    BY DEF Init
  <1>5. \A p \in Person : reads[p] = 0
    BY DEF Init, DocId
  <1> QED
    BY <1>2, <1>3, <1>4, <1>5
       DEF PinInv, CallbacksOrdered, PinIsOldest, ReadsNamed, PinNamed

\* Every step keeps the invariant, one lemma for each kind of step.
LEMMA NextPin == PinInv /\ [Next]_vars => PinInv'
  <1> SUFFICES ASSUME PinInv, [Next]_vars PROVE PinInv'
    OBVIOUS
  <1>1. Types /\ VersionsExist
    BY DEF PinInv
  <1>2. ASSUME NEW id \in DocId, NEW c \in Content(id), Written(id, c)
        PROVE  PinInv'
    BY <1>2, WriteStep DEF Written
  <1>3. ASSUME NEW c \in Content(Me), WrittenHere(c)
        PROVE  PinInv'
    BY <1>3, WriteStep DEF WrittenHere, DocId
  <1>4. ASSUME NEW id \in DocId, Listen(id)
        PROVE  PinInv'
    <2>1. /\ answer' = [answer EXCEPT ![id] = Latest(id)]
          /\ UNCHANGED <<docs, reads, cache, main, pin>>
      BY <1>4 DEF Listen
    <2>2. Latest(id) \in Nat
      BY <1>1, Versions
    <2>3. answer' \in [DocId -> Nat]
      BY <1>1, <2>1, <2>2 DEF Types
    <2>4. \A d \in DocId : answer'[d] # 0 => Exists(d, answer'[d])
      BY <1>1, <2>1 DEF Types, VersionsExist
    <2> QED
      BY <2>1, <2>3, <2>4, AnswerStep
  <1>5. ASSUME NEW id \in DocId, Arrive(id)
        PROVE  PinInv'
    <2> DEFINE v == IF answer[id] >= cache[id] THEN answer[id] ELSE cache[id]
    <2>1. /\ cache' = [cache EXCEPT ![id] = v]
          /\ Deliver(id, v)
          /\ answer' = [answer EXCEPT ![id] = 0]
          /\ UNCHANGED <<docs, pin>>
      BY <1>5 DEF Arrive
    <2>2. v \in Nat /\ cache[id] <= v /\ (v # 0 => Exists(id, v))
      BY <1>1 DEF Types, VersionsExist
    <2> HIDE DEF v
    <2> QED
      BY <2>1, <2>2, DeliverStep
  <1>6. ASSUME NEW id \in DocId, AnswerFromCache(id)
        PROVE  PinInv'
    <2>1. /\ Deliver(id, cache[id])
          /\ UNCHANGED <<docs, answer, cache, pin>>
      BY <1>6 DEF AnswerFromCache
    <2>2. /\ cache[id] \in Nat /\ cache[id] <= cache[id]
          /\ cache' = [cache EXCEPT ![id] = cache[id]]
          /\ cache[id] # 0 => Exists(id, cache[id])
      BY <1>1, <2>1 DEF Types, VersionsExist
    <2> QED
      BY <2>1, <2>2, DeliverStep
  <1>7. CASE StreamBreaks
    BY <1>1, <1>7, AnswerStep DEF StreamBreaks, VersionsExist
  <1>8. CASE updatePin
    <2>1. /\ reads' = [reads EXCEPT ![Me] = @ + 1]
          /\ UNCHANGED <<docs, answer, cache, main, pin>>
      BY <1>8 DEF updatePin
    <2>2. reads' \in [DocId -> Nat] /\ \A p \in Person : reads'[p] = reads[p]
      BY <1>1, <2>1, PollingAssumption DEF Types, DocId
    <2> QED
      BY <2>1, <2>2, ReadStep DEF PinInv, ReadsNamed
  <1>9. CASE OwnCallback
    BY <1>9, OwnCallbackStep
  <1>10. CASE PartnerCallback
    BY <1>10, PartnerCallbackStep
  <1>11. CASE UNCHANGED vars
    BY <1>1, <1>11, AnswerStep DEF vars, Types, VersionsExist
  <1> QED
    BY <1>2, <1>3, <1>4, <1>5, <1>6, <1>7, <1>8, <1>9, <1>10, <1>11
       DEF Next, World, Reading, Polling

LEMMA PinInvariant == Spec => []PinInv
  BY InitPin, NextPin, PTL DEF Spec

\* The pin is somebody whom the own document named as the partner, at the
\* position of a version that was there (updatePin).
THEOREM PinProvenance == Spec => []PinWasPartner
  <1>1. PinInv => PinWasPartner
    BY DEF PinInv, PinNamed, Named, PinWasPartner
  <1> QED
    BY <1>1, PinInvariant, PTL

\* The pin never goes back to an older position of the same partner
\* (updatePin, applyRemoteEvent).
THEOREM PinMonotone == Spec => PinNeverGoesBack
  <1> DEFINE Forth == pin # NoPin /\ pin'[1] = pin[1] => pin'[2] >= pin[2]
  <1>1. PinInv /\ [Next]_vars => [Forth]_pin
    <2> SUFFICES ASSUME PinInv, Next, pin' # pin, pin # NoPin, pin'[1] = pin[1]
                 PROVE  pin'[2] >= pin[2]
      BY DEF vars
    <2>1. PartnerCallback
      BY DEF Next, World, Reading, Polling, Written, WrittenHere, Listen, Arrive,
             AnswerFromCache, StreamBreaks, updatePin, OwnCallback
    <2>2. /\ main # <<>> /\ pin' = <<main[1].id, main[1].ver>>
          /\ 1 \in DOMAIN main
      BY <2>1, TailOfMain DEF PinInv, PartnerCallback
    <2>3. pin[2] \in Nat /\ main[1].ver \in Nat
      BY <2>2, Callbacks DEF PinInv, Types
    <2> QED
      BY <2>2, <2>3 DEF PinInv, PinIsOldest
  <1> QED
    BY <1>1, PinInvariant, PTL DEF Spec, PinNeverGoesBack
=============================================================================
