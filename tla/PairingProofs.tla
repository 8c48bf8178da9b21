--------------------------- MODULE PairingProofs ---------------------------
(***************************************************************************)
(* Theorems about Pairing and its bounded instances, for every set of      *)
(* accounts, codes, positions and phones, and any number of operations,    *)
(* failures and restarts.                                                  *)
(*                                                                         *)
(* The first part is about Pairing: types, answers, accounts, and who may  *)
(* be named as a partner.  The second is about MCPairing, a step of which  *)
(* only counts and remembers: it adds nothing to what the phones and the   *)
(* servers do, and what it remembers is what the properties of the runs    *)
(* are about: sign-ups, withdrawals, agreements and positions survive      *)
(* whatever is lost, sent twice or answered late, for every budget.  The   *)
(* third is about what the operators of UserDocs compute of a queue of any *)
(* length (MCUserDocs).                                                    *)
(***************************************************************************)
EXTENDS MCPairing, MCUserDocs, SequenceTheorems, WellFoundedInduction, TLAPS

USE DocAssumption, NoDocAssumption

-----------------------------------------------------------------------------
(* The operators on documents and mutations.                               *)

\* The writes of the app are mutations.
LEMMA WritesAreMutations ==
    /\ \A u \in User : setData(u) \in Mutation /\ deleteDoc(u) \in Mutation
    /\ \A id \in DocId, p \in DocId \cup {Absent} :
          updatePartner(id, p) \in Mutation
    /\ \A u \in User, l \in Loc : updateLocation(u, l) \in Mutation
BY DEF setData, deleteDoc, updatePartner, updateLocation, Mutation, Field,
       Partner, Position, DocId

\* A mutation takes a document, or none, to a document, or none.
LEMMA ApplyType ==
    ASSUME NEW m \in Mutation, NEW x \in MaybeDoc
    PROVE  applyTo(m, x) \in MaybeDoc
BY DEF applyTo, IsValidFor, patchObjectValue, Mutation, MaybeDoc, Doc

-----------------------------------------------------------------------------
(* What a phone shows, put together from the last write of every field: a  *)
(* closed form of the iteration documentForKey, to reason about queues of  *)
(* any length.                                                             *)

\* The last index of a set of indices, 0 if there is none.
LastOf(S) == IF S = {} THEN 0 ELSE CHOOSE i \in S : \A j \in S : j <= i

\* Among indices of a sequence there is a last one, so LastOf picks one.
LEMMA LastOfIsMember ==
    ASSUME NEW n \in Nat, NEW S, S \subseteq 1..n, S # {}
    PROVE  LastOf(S) \in S
<1> DEFINE T == {k \in Nat : \E i \in S : k + i = n}
<1>1. T # {}
  <2>1. PICK i \in S : TRUE
    OBVIOUS
  <2>2. n - i \in T
    BY <2>1
  <2>3. QED
    BY <2>2
<1>2. PICK x \in T : \A y \in T : ~ (<<y, x>> \in OpToRel(<, Nat))
  <2>1. T \subseteq Nat
    OBVIOUS
  <2> HIDE DEF T
  <2>2. QED
    BY <1>1, <2>1, NatLessThanWellFounded, WFMin
<1>3. \A y \in T : ~(y < x)
  BY <1>2 DEF OpToRel
<1>4. PICK i \in S : x + i = n
  OBVIOUS
<1>5. \A j \in S : j <= i
  <2>1. SUFFICES ASSUME NEW j \in S
                 PROVE  j <= i
    OBVIOUS
  <2>2. n - j \in T
    OBVIOUS
  <2>3. ~(n - j < x)
    BY <1>3, <2>2
  <2>4. QED
    BY <1>4, <2>3
<1>6. QED
  BY <1>5 DEF LastOf

\* Among numbers there is a least one.
LEMMA LeastNumber ==
    ASSUME NEW S, S \subseteq Nat, S # {}
    PROVE  \E x \in S : \A y \in S : x <= y
<1>1. PICK x \in S : \A y \in S : ~ (<<y, x>> \in OpToRel(<, Nat))
  BY NatLessThanWellFounded, WFMin
<1>2. \A y \in S : ~(y < x)
  BY <1>1 DEF OpToRel
<1>3. QED
  BY <1>2

\* The function of documentForKey, over the first n mutations of w.
ReplaySteps(w, id, b, n, t) ==
    t = [i \in 0..n |->
            IF i = 0 THEN b
            ELSE IF w[i].id = id THEN applyTo(w[i], t[i - 1])
                 ELSE t[i - 1]]

\* There is one for every number of mutations.
LEMMA ReplayStepsExist ==
    ASSUME NEW w, NEW id, NEW b, NEW n \in Nat
    PROVE  \E t : ReplaySteps(w, id, b, n, t)
<1> DEFINE Step(i, x) == IF w[i].id = id THEN applyTo(w[i], x) ELSE x
           Bad == {k \in Nat : ~ \E t : ReplaySteps(w, id, b, k, t)}
<1>1. \A k, t : ReplaySteps(w, id, b, k, t) <=>
                t = [i \in 0..k |-> IF i = 0 THEN b ELSE Step(i, t[i - 1])]
  BY DEF ReplaySteps
<1> HIDE DEF Step
<1>2. SUFFICES ASSUME Bad # {} PROVE FALSE
  OBVIOUS
<1>3. PICK k \in Bad : \A j \in Bad : k <= j
  <2>1. Bad \subseteq Nat
    OBVIOUS
  <2> HIDE DEF Bad
  <2>2. QED
    BY <1>2, <2>1, LeastNumber
<1>4. k # 0
  <2> DEFINE t == [i \in 0..0 |-> b]
  <2>1. t = [i \in 0..0 |-> IF i = 0 THEN b ELSE Step(i, t[i - 1])]
    OBVIOUS
  <2>2. ReplaySteps(w, id, b, 0, t)
    BY <1>1, <2>1
  <2>3. QED
    BY <2>2
<1>5. k \in Nat /\ k - 1 \in Nat /\ k - 1 \notin Bad
  BY <1>3, <1>4
<1>6. PICK t : ReplaySteps(w, id, b, k - 1, t)
  BY <1>5
<1>7. t = [i \in 0..(k - 1) |-> IF i = 0 THEN b ELSE Step(i, t[i - 1])]
  BY <1>1, <1>6
<1> DEFINE u == [i \in 0..k |-> IF i = k THEN Step(k, t[k - 1]) ELSE t[i]]
<1>8. \A i \in 0..(k - 1) : u[i] = t[i]
  BY <1>5
<1>9. ASSUME NEW i \in 0..k
      PROVE  u[i] = IF i = 0 THEN b ELSE Step(i, u[i - 1])
  <2>1. CASE i = k
    <3>1. u[k] = Step(k, t[k - 1]) /\ u[k - 1] = t[k - 1]
      BY <1>5, <1>8
    <3>2. QED
      BY <1>4, <2>1, <3>1
  <2>2. CASE i # k
    <3>1. i \in 0..(k - 1) /\ u[i] = t[i]
      BY <1>5, <1>8, <2>2
    <3>2. t[i] = IF i = 0 THEN b ELSE Step(i, t[i - 1])
      BY <1>7, <3>1
    <3>3. CASE i = 0
      BY <3>1, <3>2, <3>3
    <3>4. CASE i # 0
      <4>1. u[i - 1] = t[i - 1]
        BY <1>5, <1>8, <3>1, <3>4
      <4>2. QED
        BY <3>1, <3>2, <3>4, <4>1
    <3>5. QED
      BY <3>3, <3>4
  <2>3. QED
    BY <2>1, <2>2
<1>10. u = [i \in 0..k |-> u[i]]
  OBVIOUS
<1> HIDE DEF u
<1>11. u = [i \in 0..k |-> IF i = 0 THEN b ELSE Step(i, u[i - 1])]
  BY <1>9, <1>10
<1>12. QED
  BY <1>1, <1>3, <1>11

\* What the first k mutations of w make of a document: up to k, the mutations
\* that do not depend on what was there, those that write a field, and the
\* field's last value.
ResetsTo(w, id, k) == {i \in 1..k : w[i].id = id /\ w[i].kind # "patch"}
WritesTo(w, id, f, k) == {i \in 1..k : w[i].id = id /\ f \in w[i].mask}
ValueOf(p, f, w, b) == IF p = 0 THEN b[f] ELSE w[p][f]

ViewTo(w, id, b, k) ==
    LET r == LastOf(ResetsTo(w, id, k))
    IN  IF (r = 0 /\ b = NoDoc) \/ (r # 0 /\ w[r].kind = "delete")
        THEN NoDoc
        ELSE [partner |-> ValueOf(LastOf(WritesTo(w, id, "partner", k)), "partner", w, b),
              loc |-> ValueOf(LastOf(WritesTo(w, id, "loc", k)), "loc", w, b)]

\* The last of indices up to k is k, if it is one of them.
LEMMA LastIsNew ==
    ASSUME NEW k \in Nat, NEW S, S \subseteq 1..k, k \in S
    PROVE  LastOf(S) = k
<1>1. \A i \in S : i \in Nat /\ i <= k
  OBVIOUS
<1>2. LastOf(S) \in S /\ \A j \in S : j <= LastOf(S)
  BY <1>1 DEF LastOf
<1>3. k <= LastOf(S) /\ LastOf(S) <= k /\ LastOf(S) \in Nat
  BY <1>1, <1>2
<1>4. QED
  BY <1>3

\* The last of indices is 0 or one of them.
LEMMA LastIsOne ==
    ASSUME NEW k \in Nat, NEW S, S \subseteq 1..k
    PROVE  IF S = {} THEN LastOf(S) = 0 ELSE LastOf(S) \in S /\ LastOf(S) # 0
<1>1. CASE S = {}
  BY <1>1 DEF LastOf
<1>2. CASE S # {}
  <2>1. LastOf(S) \in S
    BY <1>2, LastOfIsMember
  <2>2. 0 \notin S
    OBVIOUS
  <2>3. LastOf(S) # 0
    BY <2>1, <2>2
  <2>4. QED
    BY <1>2, <2>1, <2>3
<1>3. QED
  BY <1>1, <1>2

\* No mutation: the document is what it was.
LEMMA ViewToNothing ==
    ASSUME NEW w, NEW id, NEW b \in MaybeDoc
    PROVE  ViewTo(w, id, b, 0) = b
<1>1. ResetsTo(w, id, 0) = {} /\ \A f : WritesTo(w, id, f, 0) = {}
  BY DEF ResetsTo, WritesTo
<1>2. LastOf({}) = 0
  BY DEF LastOf
<1>3. QED
  BY <1>1, <1>2 DEF ViewTo, ValueOf, MaybeDoc, Doc

\* It is a document, unless there is none or it was deleted.
LEMMA ViewToIsDoc ==
    ASSUME NEW w \in Seq(Mutation), NEW id, NEW b \in MaybeDoc,
           NEW k \in 0..Len(w),
           ~(LastOf(ResetsTo(w, id, k)) = 0 /\ b = NoDoc)
    PROVE  /\ ValueOf(LastOf(WritesTo(w, id, "partner", k)), "partner", w, b) \in Partner
           /\ ValueOf(LastOf(WritesTo(w, id, "loc", k)), "loc", w, b) \in Position
<1> DEFINE R == ResetsTo(w, id, k)
           W(f) == WritesTo(w, id, f, k)
<1>1. k \in Nat /\ \A i \in 1..k : w[i] \in Mutation
  OBVIOUS
<1>2. \A f \in Field : R \subseteq W(f)
  BY <1>1 DEF ResetsTo, WritesTo, Mutation
<1>3. IF R = {} THEN LastOf(R) = 0 ELSE LastOf(R) \in R /\ LastOf(R) # 0
  BY <1>1, LastIsOne DEF ResetsTo
<1>4. ASSUME NEW f \in Field
      PROVE  IF W(f) = {} THEN LastOf(W(f)) = 0 /\ b \in Doc
             ELSE LastOf(W(f)) \in W(f) /\ LastOf(W(f)) # 0
  <2>1. IF W(f) = {} THEN LastOf(W(f)) = 0
        ELSE LastOf(W(f)) \in W(f) /\ LastOf(W(f)) # 0
    BY <1>1, LastIsOne DEF WritesTo
  <2>2. W(f) = {} => b \in Doc
    BY <1>2, <1>3 DEF MaybeDoc
  <2>3. QED
    BY <2>1, <2>2
<1>5. ASSUME NEW f \in Field
      PROVE  \/ LastOf(W(f)) = 0 /\ b \in Doc
             \/ LastOf(W(f)) # 0 /\ w[LastOf(W(f))] \in Mutation
  BY <1>1, <1>4 DEF WritesTo
<1>6. ValueOf(LastOf(W("partner")), "partner", w, b) \in Partner
  <2>1. PICK n : n = LastOf(W("partner"))
    OBVIOUS
  <2>2. (n = 0 /\ b \in Doc) \/ (n # 0 /\ w[n] \in Mutation)
    BY <1>5, <2>1 DEF Field
  <2>3. ValueOf(n, "partner", w, b) \in Partner
    BY <2>2 DEF ValueOf, Doc, Mutation
  <2>4. QED
    BY <2>1, <2>3
<1>7. ValueOf(LastOf(W("loc")), "loc", w, b) \in Position
  <2>1. PICK n : n = LastOf(W("loc"))
    OBVIOUS
  <2>2. (n = 0 /\ b \in Doc) \/ (n # 0 /\ w[n] \in Mutation)
    BY <1>5, <2>1 DEF Field
  <2>3. ValueOf(n, "loc", w, b) \in Position
    BY <2>2 DEF ValueOf, Doc, Mutation
  <2>4. QED
    BY <2>1, <2>3
<1>8. QED
  BY <1>6, <1>7

\* One more mutation does to what is shown what it does to a document.
LEMMA ViewStep ==
    ASSUME NEW w \in Seq(Mutation), NEW id, NEW b \in MaybeDoc,
           NEW k \in 1..Len(w)
    PROVE  ViewTo(w, id, b, k) =
              IF w[k].id = id THEN applyTo(w[k], ViewTo(w, id, b, k - 1))
              ELSE ViewTo(w, id, b, k - 1)
<1>1. Len(w) \in Nat /\ w[k] \in Mutation /\ k \in Nat /\ k - 1 \in Nat
  OBVIOUS
<1>2. CASE w[k].id # id
  <2>1. /\ ResetsTo(w, id, k) = ResetsTo(w, id, k - 1)
        /\ \A f : WritesTo(w, id, f, k) = WritesTo(w, id, f, k - 1)
    BY <1>2 DEF ResetsTo, WritesTo
  <2>2. QED
    BY <1>2, <2>1 DEF ViewTo
<1>3. CASE w[k].id = id /\ w[k].kind # "patch"
  <2>1. LastOf(ResetsTo(w, id, k)) = k
    BY <1>1, <1>3, LastIsNew DEF ResetsTo
  <2>2. \A f \in Field : LastOf(WritesTo(w, id, f, k)) = k
    <3>1. w[k].mask = Field
      BY <1>1, <1>3 DEF Mutation
    <3>2. QED
      BY <1>1, <1>3, <3>1, LastIsNew DEF WritesTo
  <2>3. ViewTo(w, id, b, k) =
           IF w[k].kind = "delete" THEN NoDoc
           ELSE [partner |-> w[k].partner, loc |-> w[k].loc]
    BY <1>1, <2>1, <2>2 DEF ViewTo, ValueOf, Field
  <2>4. w[k].kind \in {"set", "delete"}
    BY <1>1, <1>3 DEF Mutation
  <2>5. QED
    BY <1>3, <2>3, <2>4 DEF applyTo, IsValidFor
<1>4. CASE w[k].id = id /\ w[k].kind = "patch"
  <2> DEFINE old == ViewTo(w, id, b, k - 1)
             r == LastOf(ResetsTo(w, id, k - 1))
  <2>1. ResetsTo(w, id, k) = ResetsTo(w, id, k - 1)
    BY <1>1, <1>4 DEF ResetsTo
  <2>2. ASSUME NEW f \in Field
        PROVE  LastOf(WritesTo(w, id, f, k)) =
                  IF f \in w[k].mask THEN k ELSE LastOf(WritesTo(w, id, f, k - 1))
    <3>1. CASE f \in w[k].mask
      BY <1>1, <1>4, <3>1, LastIsNew DEF WritesTo
    <3>2. CASE f \notin w[k].mask
      <4>1. WritesTo(w, id, f, k) = WritesTo(w, id, f, k - 1)
        BY <1>1, <3>2 DEF WritesTo
      <4>2. QED
        BY <3>2, <4>1
    <3>3. QED
      BY <3>1, <3>2
  <2>3. CASE (r = 0 /\ b = NoDoc) \/ (r # 0 /\ w[r].kind = "delete")
    <3>1. old = NoDoc /\ ViewTo(w, id, b, k) = NoDoc
      BY <2>1, <2>3 DEF ViewTo
    <3>2. QED
      BY <1>4, <3>1 DEF applyTo, IsValidFor
  <2>4. CASE ~((r = 0 /\ b = NoDoc) \/ (r # 0 /\ w[r].kind = "delete"))
    <3> DEFINE p == ValueOf(LastOf(WritesTo(w, id, "partner", k - 1)), "partner", w, b)
               l == ValueOf(LastOf(WritesTo(w, id, "loc", k - 1)), "loc", w, b)
               p2 == ValueOf(LastOf(WritesTo(w, id, "partner", k)), "partner", w, b)
               l2 == ValueOf(LastOf(WritesTo(w, id, "loc", k)), "loc", w, b)
    <3>1. /\ old = [partner |-> p, loc |-> l]
          /\ ViewTo(w, id, b, k) = [partner |-> p2, loc |-> l2]
      BY <2>1, <2>4 DEF ViewTo
    <3>2. /\ p2 = IF "partner" \in w[k].mask THEN w[k].partner ELSE p
          /\ l2 = IF "loc" \in w[k].mask THEN w[k].loc ELSE l
      BY <1>1, <2>2 DEF ValueOf, Field
    <3> HIDE DEF p, l, p2, l2
    <3>3. old # NoDoc
      <4>1. p \in Partner /\ l \in Position
        BY <1>1, <2>4, ViewToIsDoc DEF p, l
      <4>2. QED
        BY <3>1, <4>1 DEF Doc
    <3>4. QED
      BY <1>4, <3>1, <3>2, <3>3 DEF applyTo, IsValidFor, patchObjectValue
  <2>5. QED
    BY <2>3, <2>4
<1>5. QED
  BY <1>2, <1>3, <1>4

\* The iteration gives, after the first k mutations, the closed form of them.
LEMMA StepsAreViews ==
    ASSUME NEW w \in Seq(Mutation), NEW id, NEW b \in MaybeDoc,
           NEW t, ReplaySteps(w, id, b, Len(w), t)
    PROVE  t[Len(w)] = ViewTo(w, id, b, Len(w))
<1> DEFINE n == Len(w)
<1>1. n \in Nat
  OBVIOUS
<1>2. \A k \in 0..n : t[k] = IF k = 0 THEN b
                             ELSE IF w[k].id = id THEN applyTo(w[k], t[k - 1])
                                  ELSE t[k - 1]
  BY DEF ReplaySteps
<1> HIDE DEF n
<1> DEFINE Bad == {k \in 0..n : t[k] # ViewTo(w, id, b, k)}
<1>3. Bad = {}
  <2>1. SUFFICES ASSUME Bad # {} PROVE FALSE
    OBVIOUS
  <2>2. PICK k \in Bad : \A j \in Bad : k <= j
    <3>1. Bad \subseteq Nat
      BY <1>1
    <3> HIDE DEF Bad
    <3>2. QED
      BY <2>1, <3>1, LeastNumber
  <2>3. k # 0
    BY <1>1, <1>2, ViewToNothing
  <2>4. k \in 1..n /\ k - 1 \in 0..n /\ k - 1 \notin Bad
    BY <1>1, <2>2, <2>3
  <2>5. t[k - 1] = ViewTo(w, id, b, k - 1)
    BY <2>4
  <2>6. ViewTo(w, id, b, k) =
           IF w[k].id = id THEN applyTo(w[k], ViewTo(w, id, b, k - 1))
           ELSE ViewTo(w, id, b, k - 1)
    BY <2>4, ViewStep DEF n
  <2>7. t[k] = IF w[k].id = id THEN applyTo(w[k], t[k - 1]) ELSE t[k - 1]
    BY <1>2, <2>3, <2>4
  <2>8. QED
    BY <2>2, <2>5, <2>6, <2>7
<1>4. t[n] = ViewTo(w, id, b, n)
  BY <1>1, <1>3
<1>5. QED
  BY <1>4 DEF n

\* A phone shows the closed form of its whole queue.
LEMMA ShownIsViewTo ==
    ASSUME NEW w \in Seq(Mutation), NEW id, NEW b \in MaybeDoc
    PROVE  documentForKey(w, id, b) = ViewTo(w, id, b, Len(w))
<1> DEFINE t == CHOOSE s : ReplaySteps(w, id, b, Len(w), s)
<1>1. documentForKey(w, id, b) = t[Len(w)]
  BY DEF documentForKey, ReplaySteps
<1>2. ReplaySteps(w, id, b, Len(w), t)
  BY ReplayStepsExist
<1> HIDE DEF t
<1>3. QED
  BY <1>1, <1>2, StepsAreViews

\* What a phone shows of a document is a document, or none.
LEMMA ViewType ==
    ASSUME NEW q \in Seq(Mutation), NEW id \in DocId, NEW base \in MaybeDoc
    PROVE  documentForKey(q, id, base) \in MaybeDoc
<1> DEFINE n == Len(q)
           r == LastOf(ResetsTo(q, id, n))
<1>1. documentForKey(q, id, base) = ViewTo(q, id, base, n)
  BY ShownIsViewTo
<1>2. CASE (r = 0 /\ base = NoDoc) \/ (r # 0 /\ q[r].kind = "delete")
  BY <1>1, <1>2 DEF ViewTo, MaybeDoc
<1>3. CASE ~((r = 0 /\ base = NoDoc) \/ (r # 0 /\ q[r].kind = "delete"))
  <2>1. n \in 0..Len(q)
    OBVIOUS
  <2>2. /\ ValueOf(LastOf(WritesTo(q, id, "partner", n)), "partner", q, base) \in Partner
        /\ ValueOf(LastOf(WritesTo(q, id, "loc", n)), "loc", q, base) \in Position
    BY <1>3, <2>1, ViewToIsDoc
  <2>3. QED
    BY <1>1, <1>3, <2>2 DEF ViewTo, MaybeDoc, Doc
<1>4. QED
  BY <1>2, <1>3
-----------------------------------------------------------------------------
(* Types, and what they need to be inductive.                              *)

\* A sign-in that is under way is not on the main screen, and once Auth has
\* answered it, somebody is signed in.
SignInUnderWay ==
    \A d \in Device :
        /\ auth[d] # "idle" => screen[d] # "main"
        /\ auth[d] \in {"created", "signedIn"} => session[d] \in User

\* The read of a removal is about an account.
RemovalHasUser ==
    \A d \in Device : removal[d].st # "idle" => removal[d].uid \in User

TypeInv == TypeOK /\ AnswersMatchPending /\ SignInUnderWay /\ RemovalHasUser
                  /\ MainIsSettled

\* Nothing is under way at the start.
LEMMA TypeInit == Init => TypeInv
<1>1. Init => accounts \subseteq User
  BY RegisteredAssumption DEF Init
<1>2. QED
  BY <1>1 DEF Init, TypeInv, TypeOK, AnswersMatchPending, SignInUnderWay,
         RemovalHasUser, MainIsSettled, Pending, MaybeDoc, Doc, Fresh, Partner,
         Position, DocId, Owner, Screen, AuthState, Removal, NoRemoval

\* The writes of one handler keep the queues well typed and at least as long.
LEMMA EnqueueType ==
    ASSUME TypeInv, NEW d \in Device, NEW ms \in Seq(Mutation), Enqueue(d, ms)
    PROVE  /\ queue' \in [Device -> [Owner -> Seq(Mutation)]]
           /\ \A e \in Device, o \in Owner : Len(queue[e][o]) <= Len(queue'[e][o])
<1>1. queue \in [Device -> [Owner -> Seq(Mutation)]] /\ fsUser[d] \in Owner
  BY DEF TypeInv, TypeOK
<1>2. queue[d][fsUser[d]] \in Seq(Mutation)
  BY <1>1
<1> DEFINE q == queue[d][fsUser[d]] \o ms
<1>3. q \in Seq(Mutation) /\ Len(q) >= Len(queue[d][fsUser[d]])
  BY <1>2, ConcatProperties
<1>4. queue' = [queue EXCEPT ![d] = [queue[d] EXCEPT ![fsUser[d]] = q]]
  BY <1>1 DEF Enqueue
<1>5. \A e \in Device, o \in Owner :
        queue'[e][o] = IF e = d /\ o = fsUser[d] THEN q ELSE queue[e][o]
  BY <1>1, <1>4
<1>6. \A e \in Device, o \in Owner : Len(queue[e][o]) \in Nat
  BY <1>1
<1> HIDE DEF q
<1>7. QED
  BY <1>1, <1>3, <1>4, <1>5, <1>6

\* Queues and answers have a length.
LEMMA Lengths ==
    ASSUME TypeOK
    PROVE  \A e \in Device :
              /\ Len(resp[e]) \in Nat
              /\ \A o \in Owner : Len(queue[e][o]) \in Nat
<1>1. \A e \in Device : resp[e] \in Seq(Response)
  BY DEF TypeOK
<1>2. \A e \in Device, o \in Owner : queue[e][o] \in Seq(Mutation)
  BY DEF TypeOK
<1>3. QED
  BY <1>1, <1>2, LenProperties

\* When no queue gets shorter, no account changes and no answer arrives,
\* every answer still has its write.
LEMMA AnswersKept ==
    ASSUME TypeInv, TypeOK', fsUser' = fsUser, resp' = resp,
           \A e \in Device, o \in Owner : Len(queue[e][o]) <= Len(queue'[e][o])
    PROVE  AnswersMatchPending'
<1>1. \A e \in Device : fsUser[e] \in Owner
  BY DEF TypeInv, TypeOK
<1>2. \A e \in Device : /\ Len(resp[e]) \in Nat
                        /\ \A o \in Owner : /\ Len(queue[e][o]) \in Nat
                                            /\ Len(queue'[e][o]) \in Nat
  BY Lengths DEF TypeInv
<1>3. QED
  BY <1>1, <1>2 DEF TypeInv, AnswersMatchPending, Pending

\* Reading a document from the server changes one entry of the cache and only
\* marks the answers.
LEMMA CacheDocType ==
    ASSUME TypeInv, NEW d \in Device, NEW id \in DocId, CacheDoc(d, id)
    PROVE  /\ cache' \in [Device -> [DocId -> MaybeDoc]]
           /\ resp' \in [Device -> Seq(Response)]
           /\ \A e \in Device : Len(resp'[e]) = Len(resp[e])
<1>1. /\ cache \in [Device -> [DocId -> MaybeDoc]]
      /\ docs[id] \in MaybeDoc
      /\ resp \in [Device -> Seq(Response)]
  BY DEF TypeInv, TypeOK
<1>2. cache' \in [Device -> [DocId -> MaybeDoc]]
  BY <1>1 DEF CacheDoc
<1> DEFINE r == [i \in DOMAIN resp[d] |->
                   IF Pending(d)[i].id = id
                   THEN [resp[d][i] EXCEPT !.seen = TRUE] ELSE resp[d][i]]
<1>3. resp' = [resp EXCEPT ![d] = r]
  BY <1>1 DEF CacheDoc
<1>4. /\ resp[d] \in Seq(Response)
      /\ DOMAIN resp[d] = 1..Len(resp[d])
      /\ Len(resp[d]) \in Nat
      /\ \A i \in 1..Len(resp[d]) : resp[d][i] \in Response
  BY <1>1, LenProperties, ElementOfSeq
<1>5. r \in [1..Len(resp[d]) -> Response]
  BY <1>4 DEF Response
<1>6. r \in Seq(Response) /\ Len(r) = Len(resp[d])
  <2> HIDE DEF r
  <2>1. QED
    BY <1>4, <1>5
<1>7. QED
  <2> HIDE DEF r
  <2>1. QED
    BY <1>1, <1>2, <1>3, <1>6

\* The timer of the map reads documents of accounts or of typed codes.
LEMMA PolledType ==
    ASSUME TypeInv, NEW d \in Device, session[d] # None
    PROVE  Polled(d) \subseteq DocId
<1> DEFINE own == View(d, session[d], docs[session[d]])
<1>1. session[d] \in User /\ session[d] \in DocId
  BY DEF TypeInv, TypeOK, Owner, DocId
<1>2. own \in MaybeDoc
  BY <1>1, ViewType DEF View, Pending, TypeInv, TypeOK
<1> HIDE DEF own
<1>3. own # NoDoc => UserDataPartner(own) \in DocId \cup {None}
  BY <1>2 DEF UserDataPartner, MaybeDoc, Doc, Partner
<1>4. QED
  BY <1>1, <1>3 DEF Polled, own

\* Every step keeps the types and what they rest on.
LEMMA TypeStep ==
    ASSUME TypeInv, [Next]_vars
    PROVE  TypeInv'
<1>1. ASSUME NEW d \in Device, handleSignUp(d)
      PROVE  TypeInv'
  <2>1. TypeOK'
    BY <1>1 DEF handleSignUp, TypeInv, TypeOK, SignInUnderWay, MainIsSettled,
           server, sdk, app, Owner, AuthState, Screen
  <2>2. AnswersMatchPending'
    BY <1>1 DEF handleSignUp, TypeInv, TypeOK, SignInUnderWay, MainIsSettled,
           server, sdk, app, AnswersMatchPending, Pending
  <2>8. SignInUnderWay' /\ RemovalHasUser' /\ MainIsSettled'
    BY <1>1, <2>1
    DEF handleSignUp, TypeInv, SignInUnderWay, RemovalHasUser, MainIsSettled,
           server, sdk, app, TypeOK, Owner, AuthState, Screen
  <2>9. QED
    BY <2>1, <2>2, <2>8 DEF TypeInv
<1>2. ASSUME NEW d \in Device, handleLogin(d)
      PROVE  TypeInv'
  <2>1. TypeOK'
    BY <1>2 DEF handleLogin, TypeInv, TypeOK, SignInUnderWay, MainIsSettled,
           server, sdk, app, Owner, AuthState, Screen
  <2>2. AnswersMatchPending'
    BY <1>2 DEF handleLogin, TypeInv, TypeOK, SignInUnderWay, MainIsSettled,
           server, sdk, app, AnswersMatchPending, Pending
  <2>8. SignInUnderWay' /\ RemovalHasUser' /\ MainIsSettled'
    BY <1>2, <2>1
    DEF handleLogin, TypeInv, SignInUnderWay, RemovalHasUser, MainIsSettled,
           server, sdk, app, TypeOK, Owner, AuthState, Screen
  <2>9. QED
    BY <2>1, <2>2, <2>8 DEF TypeInv
<1>3. ASSUME NEW d \in Device, LoginCompletion(d)
      PROVE  TypeInv'
  <2>1. TypeOK'
    BY <1>3 DEF LoginCompletion, TypeInv, TypeOK, SignInUnderWay, MainIsSettled,
           server, sdk, app, Owner, AuthState, Screen
  <2>2. AnswersMatchPending'
    BY <1>3 DEF LoginCompletion, TypeInv, TypeOK, SignInUnderWay, MainIsSettled,
           server, sdk, app, AnswersMatchPending, Pending
  <2>8. SignInUnderWay' /\ RemovalHasUser' /\ MainIsSettled'
    BY <1>3, <2>1
    DEF LoginCompletion, TypeInv, SignInUnderWay, RemovalHasUser, MainIsSettled,
           server, sdk, app, TypeOK, Owner, AuthState, Screen
  <2>9. QED
    BY <2>1, <2>2, <2>8 DEF TypeInv
<1>4. ASSUME NEW d \in Device, AuthError(d)
      PROVE  TypeInv'
  <2>1. TypeOK'
    BY <1>4 DEF AuthError, TypeInv, TypeOK, SignInUnderWay, MainIsSettled,
           server, sdk, app, Owner, AuthState, Screen
  <2>2. AnswersMatchPending'
    BY <1>4 DEF AuthError, TypeInv, TypeOK, SignInUnderWay, MainIsSettled,
           server, sdk, app, AnswersMatchPending, Pending
  <2>8. SignInUnderWay' /\ RemovalHasUser' /\ MainIsSettled'
    BY <1>4, <2>1
    DEF AuthError, TypeInv, SignInUnderWay, RemovalHasUser, MainIsSettled,
           server, sdk, app, TypeOK, Owner, AuthState, Screen
  <2>9. QED
    BY <2>1, <2>2, <2>8 DEF TypeInv
<1>5. ASSUME NEW d \in Device, signOut(d)
      PROVE  TypeInv'
  <2>1. TypeOK'
    BY <1>5 DEF signOut, TypeInv, TypeOK, SignInUnderWay, MainIsSettled,
           server, sdk, app, Owner, Screen
  <2>2. AnswersMatchPending'
    BY <1>5 DEF signOut, TypeInv, TypeOK, SignInUnderWay, MainIsSettled,
           server, sdk, app, AnswersMatchPending, Pending
  <2>8. SignInUnderWay' /\ RemovalHasUser' /\ MainIsSettled'
    BY <1>5, <2>1
    DEF signOut, TypeInv, SignInUnderWay, RemovalHasUser, MainIsSettled,
           server, sdk, app, TypeOK, Owner, Screen
  <2>9. QED
    BY <2>1, <2>2, <2>8 DEF TypeInv
<1>6. ASSUME NEW d \in Device, handlePartnerRemove(d)
      PROVE  TypeInv'
  <2>1. TypeOK'
    BY <1>6 DEF handlePartnerRemove, TypeInv, TypeOK, SignInUnderWay, MainIsSettled,
           server, sdk, app, Removal, Owner, MaybeDoc
  <2>2. AnswersMatchPending'
    BY <1>6 DEF handlePartnerRemove, TypeInv, TypeOK, SignInUnderWay, MainIsSettled,
           server, sdk, app, AnswersMatchPending, Pending
  <2>8. SignInUnderWay' /\ RemovalHasUser' /\ MainIsSettled'
    BY <1>6, <2>1
    DEF handlePartnerRemove, TypeInv, SignInUnderWay, RemovalHasUser, MainIsSettled,
           server, sdk, app, TypeOK, Removal, Owner, MaybeDoc
  <2>9. QED
    BY <2>1, <2>2, <2>8 DEF TypeInv
<1>7. ASSUME NEW d \in Device, NEW u \in User, CreateUser(d, u)
      PROVE  TypeInv'
  <2>0. /\ accounts' \subseteq User
        /\ session' \in [Device -> Owner]
        /\ auth' \in [Device -> AuthState]
    <3>1. accounts' \subseteq User
      BY <1>7 DEF CreateUser, TypeInv, TypeOK
    <3>2. session' \in [Device -> Owner]
      <4>1. session \in [Device -> Owner] /\ u \in Owner
        BY DEF TypeInv, TypeOK, Owner
      <4>2. QED
        BY <1>7, <4>1 DEF CreateUser
    <3>3. auth' \in [Device -> AuthState]
      BY <1>7 DEF CreateUser, TypeInv, TypeOK, AuthState
    <3>4. QED
      BY <3>1, <3>2, <3>3
  <2>1. TypeOK'
    BY <1>7, <2>0 DEF CreateUser, TypeInv, TypeOK, SignInUnderWay, MainIsSettled,
           server, sdk, app, Owner, AuthState, Screen
  <2>2. AnswersMatchPending'
    BY <1>7 DEF CreateUser, TypeInv, TypeOK, SignInUnderWay, MainIsSettled,
           server, sdk, app, AnswersMatchPending, Pending
  <2>8. SignInUnderWay' /\ RemovalHasUser' /\ MainIsSettled'
    BY <1>7, <2>1
    DEF CreateUser, TypeInv, SignInUnderWay, RemovalHasUser, MainIsSettled,
           server, sdk, app, TypeOK, Owner, AuthState, Screen
  <2>9. QED
    BY <2>1, <2>2, <2>8 DEF TypeInv
<1>8. ASSUME NEW d \in Device, NEW u \in User, SignIn(d, u)
      PROVE  TypeInv'
  <2>1. TypeOK'
    BY <1>8 DEF SignIn, TypeInv, TypeOK, SignInUnderWay, MainIsSettled,
           server, sdk, app, Owner, AuthState, Screen
  <2>2. AnswersMatchPending'
    BY <1>8 DEF SignIn, TypeInv, TypeOK, SignInUnderWay, MainIsSettled,
           server, sdk, app, AnswersMatchPending, Pending
  <2>8. SignInUnderWay' /\ RemovalHasUser' /\ MainIsSettled'
    BY <1>8, <2>1
    DEF SignIn, TypeInv, SignInUnderWay, RemovalHasUser, MainIsSettled,
           server, sdk, app, TypeOK, Owner, AuthState, Screen
  <2>9. QED
    BY <2>1, <2>2, <2>8 DEF TypeInv
<1>9. ASSUME NEW d \in Device, Interrupt(d)
      PROVE  TypeInv'
  <2>0. resp' \in [Device -> Seq(Response)]
    BY <1>9, EmptySeq DEF Interrupt, TypeInv, TypeOK, SignInUnderWay, MainIsSettled,
           server, sdk, app
  <2>1. TypeOK'
    BY <1>9, <2>0 DEF Interrupt, TypeInv, TypeOK, SignInUnderWay, MainIsSettled,
           server, sdk, app
  <2>2. AnswersMatchPending'
    <3>1. \A e \in Device : /\ Pending(e)' \in Seq(Mutation)
                            /\ e # d => Pending(e)' = Pending(e)
                            /\ resp'[e] = IF e = d THEN <<>> ELSE resp[e]
      BY <1>9, <2>1 DEF Interrupt, TypeInv, TypeOK, SignInUnderWay, MainIsSettled,
           server, sdk, app, Pending
    <3>2. \A e \in Device : Len(Pending(e)') \in Nat
      BY <3>1, LenProperties
    <3>3. QED
      BY <3>1, <3>2 DEF TypeInv, AnswersMatchPending
  <2>8. SignInUnderWay' /\ RemovalHasUser' /\ MainIsSettled'
    BY <1>9, <2>1
    DEF Interrupt, TypeInv, SignInUnderWay, RemovalHasUser, MainIsSettled,
           server, sdk, app, TypeOK
  <2>9. QED
    BY <2>1, <2>2, <2>8 DEF TypeInv
<1>10. ASSUME NEW d \in Device, UserDidChange(d)
      PROVE  TypeInv'
  <2>0. resp' \in [Device -> Seq(Response)]
    BY <1>10, EmptySeq DEF UserDidChange, TypeInv, TypeOK, SignInUnderWay, MainIsSettled,
           server, sdk, app
  <2>1. TypeOK'
    BY <1>10, <2>0 DEF UserDidChange, TypeInv, TypeOK, SignInUnderWay, MainIsSettled,
           server, sdk, app, Owner
  <2>2. AnswersMatchPending'
    <3>1. \A e \in Device : /\ Pending(e)' \in Seq(Mutation)
                            /\ e # d => Pending(e)' = Pending(e)
                            /\ resp'[e] = IF e = d THEN <<>> ELSE resp[e]
      BY <1>10, <2>1 DEF UserDidChange, TypeInv, TypeOK, SignInUnderWay, MainIsSettled,
           server, sdk, app, Pending
    <3>2. \A e \in Device : Len(Pending(e)') \in Nat
      BY <3>1, LenProperties
    <3>3. QED
      BY <3>1, <3>2 DEF TypeInv, AnswersMatchPending
  <2>8. SignInUnderWay' /\ RemovalHasUser' /\ MainIsSettled'
    BY <1>10, <2>1
    DEF UserDidChange, TypeInv, SignInUnderWay, RemovalHasUser, MainIsSettled,
           server, sdk, app, TypeOK, Owner
  <2>9. QED
    BY <2>1, <2>2, <2>8 DEF TypeInv
<1>11. ASSUME NEW d \in Device, Relaunch(d)
      PROVE  TypeInv'
  <2>0. resp' \in [Device -> Seq(Response)]
    BY <1>11, EmptySeq DEF Relaunch, TypeInv, TypeOK, SignInUnderWay, MainIsSettled,
           server, sdk, app
  <2>1. TypeOK'
    BY <1>11, <2>0 DEF Relaunch, TypeInv, TypeOK, SignInUnderWay, MainIsSettled,
           server, sdk, app, Removal, NoRemoval, Owner, MaybeDoc, AuthState, Screen
  <2>2. AnswersMatchPending'
    <3>1. \A e \in Device : /\ Pending(e)' \in Seq(Mutation)
                            /\ e # d => Pending(e)' = Pending(e)
                            /\ resp'[e] = IF e = d THEN <<>> ELSE resp[e]
      BY <1>11, <2>1 DEF Relaunch, TypeInv, TypeOK, SignInUnderWay, MainIsSettled,
           server, sdk, app, Pending
    <3>2. \A e \in Device : Len(Pending(e)') \in Nat
      BY <3>1, LenProperties
    <3>3. QED
      BY <3>1, <3>2 DEF TypeInv, AnswersMatchPending
  <2>8. SignInUnderWay' /\ RemovalHasUser' /\ MainIsSettled'
    BY <1>11, <2>1
    DEF Relaunch, TypeInv, SignInUnderWay, RemovalHasUser, MainIsSettled,
           server, sdk, app, TypeOK, Removal, NoRemoval, Owner, MaybeDoc, AuthState, Screen
  <2>9. QED
    BY <2>1, <2>2, <2>8 DEF TypeInv
<1>12. ASSUME NEW d \in Device, SignUpCompletion(d)
      PROVE  TypeInv'
  <2>1. session[d] \in User
    BY <1>12 DEF SignUpCompletion, TypeInv, TypeOK, SignInUnderWay, MainIsSettled,
           server, sdk, app, Owner
  <2>2. <<setData(session[d])>> \in Seq(Mutation)
    BY <1>12, <2>1, WritesAreMutations DEF DocId
  <2>3. Enqueue(d, <<setData(session[d])>>)
    BY <1>12 DEF SignUpCompletion
  <2>4. /\ queue' \in [Device -> [Owner -> Seq(Mutation)]]
        /\ \A e \in Device, o \in Owner : Len(queue[e][o]) <= Len(queue'[e][o])
    BY <2>2, <2>3, EnqueueType
  <2>5. TypeOK'
    BY <1>12, <2>1, <2>4 DEF SignUpCompletion, TypeInv, TypeOK, SignInUnderWay, MainIsSettled,
           server, sdk, app, Owner, AuthState, Screen
  <2>6. AnswersMatchPending'
    BY <1>12, <2>4, <2>5, AnswersKept DEF SignUpCompletion, sdk
  <2>8. SignInUnderWay' /\ RemovalHasUser' /\ MainIsSettled'
    BY <1>12, <2>1
    DEF SignUpCompletion, TypeInv, SignInUnderWay, RemovalHasUser, MainIsSettled,
           server, sdk, app, TypeOK, Owner, AuthState, Screen
  <2>9. QED
    BY <2>1, <2>5, <2>6, <2>8 DEF TypeInv
<1>13. ASSUME NEW d \in Device, NEW code \in DocId, handleCode(d, code)
      PROVE  TypeInv'
  <2>1. session[d] \in User
    BY <1>13 DEF handleCode, TypeInv, TypeOK, SignInUnderWay, MainIsSettled,
           server, sdk, app, Owner
  <2>2. <<updatePartner(code, session[d]), updatePartner(session[d], code)>> \in Seq(Mutation)
    BY <1>13, <2>1, WritesAreMutations DEF DocId
  <2>3. Enqueue(d, <<updatePartner(code, session[d]), updatePartner(session[d], code)>>)
    BY <1>13 DEF handleCode
  <2>4. /\ queue' \in [Device -> [Owner -> Seq(Mutation)]]
        /\ \A e \in Device, o \in Owner : Len(queue[e][o]) <= Len(queue'[e][o])
    BY <2>2, <2>3, EnqueueType
  <2>40. invited' \subseteq User \X DocId
    BY <1>13, <2>1 DEF handleCode, TypeInv, TypeOK
  <2>5. TypeOK'
    BY <1>13, <2>1, <2>4, <2>40 DEF handleCode, TypeInv, TypeOK, SignInUnderWay, MainIsSettled,
           server, sdk, app, Owner
  <2>6. AnswersMatchPending'
    BY <1>13, <2>4, <2>5, AnswersKept DEF handleCode, sdk
  <2>8. SignInUnderWay' /\ RemovalHasUser' /\ MainIsSettled'
    BY <1>13, <2>1
    DEF handleCode, TypeInv, SignInUnderWay, RemovalHasUser, MainIsSettled,
           server, sdk, app, TypeOK, Owner
  <2>9. QED
    BY <2>1, <2>5, <2>6, <2>8 DEF TypeInv
<1>14. ASSUME NEW d \in Device, handleWithdraw(d)
      PROVE  TypeInv'
  <2>1. session[d] \in User
    BY <1>14 DEF handleWithdraw, TypeInv, TypeOK, SignInUnderWay, MainIsSettled,
           server, sdk, app, Owner
  <2>2. <<deleteDoc(session[d])>> \in Seq(Mutation)
    BY <1>14, <2>1, WritesAreMutations DEF DocId
  <2>3. Enqueue(d, <<deleteDoc(session[d])>>)
    BY <1>14 DEF handleWithdraw
  <2>4. /\ queue' \in [Device -> [Owner -> Seq(Mutation)]]
        /\ \A e \in Device, o \in Owner : Len(queue[e][o]) <= Len(queue'[e][o])
    BY <2>2, <2>3, EnqueueType
  <2>5. TypeOK'
    BY <1>14, <2>1, <2>4 DEF handleWithdraw, TypeInv, TypeOK, SignInUnderWay, MainIsSettled,
           server, sdk, app, Owner, Screen, AuthState
  <2>6. AnswersMatchPending'
    BY <1>14, <2>4, <2>5, AnswersKept DEF handleWithdraw, sdk
  <2>8. SignInUnderWay' /\ RemovalHasUser' /\ MainIsSettled'
    BY <1>14, <2>1
    DEF handleWithdraw, TypeInv, SignInUnderWay, RemovalHasUser, MainIsSettled,
           server, sdk, app, TypeOK, Owner, Screen, AuthState
  <2>9. QED
    BY <2>1, <2>5, <2>6, <2>8 DEF TypeInv
<1>15. ASSUME NEW d \in Device, NEW l \in Loc, didUpdateLocations(d, l)
      PROVE  TypeInv'
  <2>1. session[d] \in User
    BY <1>15 DEF didUpdateLocations, TypeInv, TypeOK, SignInUnderWay, MainIsSettled,
           server, sdk, app, Owner
  <2>2. <<updateLocation(session[d], l)>> \in Seq(Mutation)
    BY <1>15, <2>1, WritesAreMutations DEF DocId
  <2>3. Enqueue(d, <<updateLocation(session[d], l)>>)
    BY <1>15 DEF didUpdateLocations
  <2>4. /\ queue' \in [Device -> [Owner -> Seq(Mutation)]]
        /\ \A e \in Device, o \in Owner : Len(queue[e][o]) <= Len(queue'[e][o])
    BY <2>2, <2>3, EnqueueType
  <2>5. TypeOK'
    BY <1>15, <2>1, <2>4 DEF didUpdateLocations, TypeInv, TypeOK, SignInUnderWay, MainIsSettled,
           server, sdk, app, Owner
  <2>6. AnswersMatchPending'
    BY <1>15, <2>4, <2>5, AnswersKept DEF didUpdateLocations, sdk
  <2>8. SignInUnderWay' /\ RemovalHasUser' /\ MainIsSettled'
    BY <1>15, <2>1
    DEF didUpdateLocations, TypeInv, SignInUnderWay, RemovalHasUser, MainIsSettled,
           server, sdk, app, TypeOK, Owner
  <2>9. QED
    BY <2>1, <2>5, <2>6, <2>8 DEF TypeInv
<1>16. ASSUME NEW d \in Device, Serve(d)
      PROVE  TypeInv'
  <2> DEFINE n == Len(resp[d]) + 1
             w == Pending(d)[n]
  <2>1. /\ Pending(d) \in Seq(Mutation)
        /\ n \in 1..Len(Pending(d))
        /\ resp[d] \in Seq(Response)
    BY <1>16, Lengths DEF Serve, Pending, TypeInv, TypeOK
  <2>2. w \in Mutation /\ w.id \in DocId
    BY <2>1 DEF Mutation
  <2>3. docs' \in [DocId -> MaybeDoc]
    <3>1. docs \in [DocId -> MaybeDoc]
      BY DEF TypeInv, TypeOK
    <3>2. applyTo(w, docs[w.id]) \in MaybeDoc
      BY <2>2, <3>1, ApplyType
    <3>3. docs' = docs \/ docs' = [docs EXCEPT ![w.id] = applyTo(w, docs[w.id])]
      BY <1>16 DEF Serve
    <3> HIDE DEF w
    <3>4. QED
      BY <2>2, <3>1, <3>2, <3>3
  <2>4. PICK r \in Response : resp' = [resp EXCEPT ![d] = Append(@, r)]
    BY <1>16 DEF Serve, Response
  <2>5. /\ resp' \in [Device -> Seq(Response)]
        /\ \A e \in Device : Len(resp'[e]) = IF e = d THEN n ELSE Len(resp[e])
    BY <2>1, <2>4, AppendProperties DEF TypeInv, TypeOK
  <2>6. TypeOK'
    BY <1>16, <2>3, <2>5 DEF Serve, TypeInv, TypeOK, app
  <2>7. AnswersMatchPending'
    BY <1>16, <2>1, <2>5 DEF Serve, Pending, TypeInv, AnswersMatchPending
  <2>8. SignInUnderWay' /\ RemovalHasUser' /\ MainIsSettled'
    BY <1>16 DEF Serve, TypeInv, SignInUnderWay, RemovalHasUser, MainIsSettled,
           app
  <2>9. QED
    BY <2>6, <2>7, <2>8 DEF TypeInv
<1>17. ASSUME NEW d \in Device, ReceiveAck(d)
      PROVE  TypeInv'
  <2> DEFINE p == Pending(d)
  <2>1. /\ resp[d] \in Seq(Response) /\ resp[d] # <<>>
        /\ p \in Seq(Mutation) /\ fsUser[d] \in Owner
    BY <1>17 DEF ReceiveAck, Pending, TypeInv, TypeOK
  <2>2. /\ Len(resp[d]) \in Nat /\ Len(resp[d]) > 0
        /\ Len(p) \in Nat /\ Len(resp[d]) <= Len(p)
    BY <2>1, EmptySeq, LenProperties DEF TypeInv, AnswersMatchPending
  <2>3. p # <<>>
    BY <2>2
  <2>4. /\ Head(p) \in Mutation
        /\ Tail(p) \in Seq(Mutation)
        /\ Len(Tail(p)) = Len(p) - 1
    BY <2>1, <2>3, HeadTailProperties
  <2>5. /\ queue' \in [Device -> [Owner -> Seq(Mutation)]]
        /\ \A e \in Device : Pending(e)' = IF e = d THEN Tail(p) ELSE Pending(e)
    <3>1. queue' = [queue EXCEPT ![d] = [queue[d] EXCEPT ![fsUser[d]] = Tail(p)]]
      BY <1>17, <2>1 DEF ReceiveAck, Pending, TypeInv, TypeOK
    <3>2. fsUser' = fsUser
      BY <1>17 DEF ReceiveAck
    <3> HIDE DEF p
    <3>3. QED
      BY <2>1, <2>4, <3>1, <3>2 DEF Pending, TypeInv, TypeOK
  <2>6. PICK r \in Seq(Response) :
            resp' = [resp EXCEPT ![d] = r] /\ Len(r) <= Len(resp[d]) - 1 /\ Len(r) \in Nat
    <3>1. /\ Tail(resp[d]) \in Seq(Response)
          /\ Len(Tail(resp[d])) \in Nat
          /\ Len(Tail(resp[d])) <= Len(resp[d]) - 1
      BY <2>1, <2>2, HeadTailProperties, EmptySeq
    <3>2. resp' = [resp EXCEPT ![d] = Tail(resp[d])]
      BY <1>17 DEF ReceiveAck
    <3>3. QED
      BY <3>1, <3>2
  <2>7. cache' \in [Device -> [DocId -> MaybeDoc]]
    <3>1. Head(p).id \in DocId /\ cache[d] \in [DocId -> MaybeDoc]
      BY <2>4 DEF Mutation, TypeInv, TypeOK
    <3>2. applyTo(Head(p), cache[d][Head(p).id]) \in MaybeDoc
      BY <2>4, <3>1, ApplyType
    <3> DEFINE c == IF Head(resp[d]).seen THEN cache[d][Head(p).id]
                    ELSE applyTo(Head(p), cache[d][Head(p).id])
    <3>3. cache' = [cache EXCEPT ![d] = [cache[d] EXCEPT ![Head(p).id] = c]]
      BY <1>17, <3>1 DEF ReceiveAck, TypeInv, TypeOK
    <3>4. c \in MaybeDoc
      BY <3>1, <3>2
    <3> HIDE DEF c, p
    <3>5. QED
      BY <3>1, <3>3, <3>4 DEF TypeInv, TypeOK
  <2>8. TypeOK'
    BY <1>17, <2>5, <2>6, <2>7 DEF ReceiveAck, TypeInv, TypeOK, server, app
  <2>9. AnswersMatchPending'
    <3>1. \A e \in Device : resp'[e] = IF e = d THEN r ELSE resp[e]
      BY <2>6 DEF TypeInv, TypeOK
    <3>2. /\ Len(Pending(d)') = Len(p) - 1
          /\ \A e \in Device \ {d} : Pending(e)' = Pending(e)
      BY <2>4, <2>5
    <3>3. Len(r) <= Len(p) - 1
      BY <2>2, <2>6
    <3> HIDE DEF p
    <3>4. QED
      BY <3>1, <3>2, <3>3 DEF TypeInv, AnswersMatchPending
  <2>10. SignInUnderWay' /\ RemovalHasUser' /\ MainIsSettled'
    BY <1>17 DEF ReceiveAck, TypeInv, SignInUnderWay, RemovalHasUser,
           MainIsSettled, app
  <2>11. QED
    BY <2>8, <2>9, <2>10 DEF TypeInv
<1>18. ASSUME NEW d \in Device, ReceiveReject(d)
      PROVE  TypeInv'
  <2> DEFINE p == Pending(d)
  <2>1. /\ resp[d] \in Seq(Response) /\ resp[d] # <<>>
        /\ p \in Seq(Mutation) /\ fsUser[d] \in Owner
    BY <1>18 DEF ReceiveReject, Pending, TypeInv, TypeOK
  <2>2. /\ Len(resp[d]) \in Nat /\ Len(resp[d]) > 0
        /\ Len(p) \in Nat /\ Len(resp[d]) <= Len(p)
    BY <2>1, EmptySeq, LenProperties DEF TypeInv, AnswersMatchPending
  <2>3. p # <<>>
    BY <2>2
  <2>4. /\ Head(p) \in Mutation
        /\ Tail(p) \in Seq(Mutation)
        /\ Len(Tail(p)) = Len(p) - 1
    BY <2>1, <2>3, HeadTailProperties
  <2>5. /\ queue' \in [Device -> [Owner -> Seq(Mutation)]]
        /\ \A e \in Device : Pending(e)' = IF e = d THEN Tail(p) ELSE Pending(e)
    <3>1. queue' = [queue EXCEPT ![d] = [queue[d] EXCEPT ![fsUser[d]] = Tail(p)]]
      BY <1>18, <2>1 DEF ReceiveReject, Pending, TypeInv, TypeOK
    <3>2. fsUser' = fsUser
      BY <1>18 DEF ReceiveReject
    <3> HIDE DEF p
    <3>3. QED
      BY <2>1, <2>4, <3>1, <3>2 DEF Pending, TypeInv, TypeOK
  <2>6. PICK r \in Seq(Response) :
            resp' = [resp EXCEPT ![d] = r] /\ Len(r) <= Len(resp[d]) - 1 /\ Len(r) \in Nat
    <3>1. /\ <<>> \in Seq(Response)
          /\ Len(<<>>) \in Nat
          /\ Len(<<>>) <= Len(resp[d]) - 1
      BY <2>1, <2>2, HeadTailProperties, EmptySeq
    <3>2. resp' = [resp EXCEPT ![d] = <<>>]
      BY <1>18 DEF ReceiveReject
    <3>3. QED
      BY <3>1, <3>2
  <2>8. TypeOK'
    BY <1>18, <2>5, <2>6 DEF ReceiveReject, TypeInv, TypeOK, server, app
  <2>9. AnswersMatchPending'
    <3>1. \A e \in Device : resp'[e] = IF e = d THEN r ELSE resp[e]
      BY <2>6 DEF TypeInv, TypeOK
    <3>2. /\ Len(Pending(d)') = Len(p) - 1
          /\ \A e \in Device \ {d} : Pending(e)' = Pending(e)
      BY <2>4, <2>5
    <3>3. Len(r) <= Len(p) - 1
      BY <2>2, <2>6
    <3> HIDE DEF p
    <3>4. QED
      BY <3>1, <3>2, <3>3 DEF TypeInv, AnswersMatchPending
  <2>10. SignInUnderWay' /\ RemovalHasUser' /\ MainIsSettled'
    BY <1>18 DEF ReceiveReject, TypeInv, SignInUnderWay, RemovalHasUser,
           MainIsSettled, app
  <2>11. QED
    BY <2>8, <2>9, <2>10 DEF TypeInv
<1>19. ASSUME NEW d \in Device, GetDocument(d)
      PROVE  TypeInv'
  <2> DEFINE uid == removal[d].uid
  <2>1. uid \in User /\ uid \in DocId
    BY <1>19 DEF GetDocument, TypeInv, RemovalHasUser, DocId
  <2>2. /\ View(d, uid, docs[uid]) \in MaybeDoc
        /\ View(d, uid, cache[d][uid]) \in MaybeDoc
    BY <2>1, ViewType DEF View, Pending, TypeInv, TypeOK
  <2>3. /\ cache' \in [Device -> [DocId -> MaybeDoc]]
        /\ resp' \in [Device -> Seq(Response)]
        /\ \A e \in Device : Len(resp'[e]) = Len(resp[e])
    <3>1. CASE CacheDoc(d, uid)
      BY <2>1, <3>1, CacheDocType
    <3>2. CASE UNCHANGED <<cache, resp>>
      BY <3>2 DEF TypeInv, TypeOK
    <3>3. QED
      BY <1>19, <3>1, <3>2 DEF GetDocument
  <2>4. PICK x \in MaybeDoc :
            removal' = [removal EXCEPT ![d] = [@ EXCEPT !.st = "fetched", !.doc = x]]
    <3>1. removal[d] \in Removal
      BY DEF TypeInv, TypeOK
    <3>2. CASE removal' = [removal EXCEPT ![d] = [@ EXCEPT !.st = "fetched"]]
      <4>1. removal' = [removal EXCEPT ![d] =
                          [@ EXCEPT !.st = "fetched", !.doc = removal[d].doc]]
        BY <3>1, <3>2 DEF Removal
      <4>2. QED
        BY <3>1, <4>1 DEF Removal
    <3>3. QED
      BY <1>19, <2>2, <3>2 DEF GetDocument
  <2>5. removal' \in [Device -> Removal]
    BY <2>4 DEF TypeInv, TypeOK, Removal
  <2>6. TypeOK'
    BY <1>19, <2>3, <2>5 DEF GetDocument, TypeInv, TypeOK, server
  <2>7. AnswersMatchPending'
    BY <1>19, <2>3 DEF GetDocument, TypeInv, AnswersMatchPending, Pending
  <2>8. SignInUnderWay' /\ RemovalHasUser' /\ MainIsSettled'
    BY <1>19, <2>1, <2>4 DEF GetDocument, TypeInv, TypeOK, SignInUnderWay,
           RemovalHasUser, MainIsSettled, Removal
  <2>9. QED
    BY <2>6, <2>7, <2>8 DEF TypeInv
<1>20. ASSUME NEW d \in Device, RemovalCallback(d)
      PROVE  TypeInv'
  <2> DEFINE uid == removal[d].uid
             partner == UserDataPartner(removal[d].doc)
  <2>1. uid \in DocId /\ removal[d].doc \in MaybeDoc
    BY <1>20 DEF RemovalCallback, TypeInv, TypeOK, RemovalHasUser, Removal, DocId
  <2>2. /\ queue' \in [Device -> [Owner -> Seq(Mutation)]]
        /\ \A e \in Device, o \in Owner : Len(queue[e][o]) <= Len(queue'[e][o])
    <3>1. CASE queue' = queue
      <4>1. \A e \in Device, o \in Owner : Len(queue[e][o]) \in Nat
        BY Lengths DEF TypeInv
      <4>2. QED
        BY <3>1, <4>1 DEF TypeInv, TypeOK
    <3>2. CASE /\ removal[d].doc # NoDoc /\ partner # None
               /\ Enqueue(d, <<updatePartner(partner, Absent),
                                updatePartner(uid, Absent)>>)
      <4>1. partner \in DocId
        BY <2>1, <3>2 DEF UserDataPartner, MaybeDoc, Doc, Partner
      <4>2. <<updatePartner(partner, Absent), updatePartner(uid, Absent)>>
              \in Seq(Mutation)
        BY <2>1, <4>1, WritesAreMutations
      <4>3. QED
        BY <3>2, <4>2, EnqueueType
    <3>3. QED
      BY <1>20, <3>1, <3>2 DEF RemovalCallback
  <2>3. removal' \in [Device -> Removal]
    BY <1>20 DEF RemovalCallback, TypeInv, TypeOK, Removal, NoRemoval, Owner, MaybeDoc
  <2>4. TypeOK'
    BY <1>20, <2>2, <2>3 DEF RemovalCallback, TypeInv, TypeOK, server
  <2>5. AnswersMatchPending'
    BY <1>20, <2>2, <2>4, AnswersKept DEF RemovalCallback
  <2>6. SignInUnderWay' /\ RemovalHasUser' /\ MainIsSettled'
    BY <1>20 DEF RemovalCallback, TypeInv, TypeOK, SignInUnderWay, RemovalHasUser,
           MainIsSettled, NoRemoval
  <2>7. QED
    BY <2>4, <2>5, <2>6 DEF TypeInv
<1>21. ASSUME NEW d \in Device, updatePin(d)
      PROVE  TypeInv'
  <2>1. PICK id \in DocId : CacheDoc(d, id)
    BY <1>21, PolledType DEF updatePin
  <2>2. /\ cache' \in [Device -> [DocId -> MaybeDoc]]
        /\ resp' \in [Device -> Seq(Response)]
        /\ \A e \in Device : Len(resp'[e]) = Len(resp[e])
    BY <2>1, CacheDocType
  <2>3. TypeOK'
    BY <1>21, <2>2 DEF updatePin, TypeInv, TypeOK, server, app
  <2>4. AnswersMatchPending'
    BY <1>21, <2>2 DEF updatePin, TypeInv, AnswersMatchPending, Pending
  <2>5. SignInUnderWay' /\ RemovalHasUser' /\ MainIsSettled'
    BY <1>21 DEF updatePin, TypeInv, SignInUnderWay, RemovalHasUser,
           MainIsSettled, app
  <2>6. QED
    BY <2>3, <2>4, <2>5 DEF TypeInv
<1>22. CASE UNCHANGED vars
  BY <1>22 DEF vars, server, sdk, app, TypeInv, TypeOK, AnswersMatchPending,
         SignInUnderWay, RemovalHasUser, MainIsSettled, Pending
<1>23. QED
  BY <1>1, <1>2, <1>3, <1>4, <1>5, <1>6, <1>7, <1>8, <1>9, <1>10, <1>11, <1>12,
     <1>13, <1>14, <1>15, <1>16, <1>17, <1>18, <1>19, <1>20, <1>21, <1>22
  DEF Next, UserAction, SystemAction, Environment

LEMMA TypeInvariance == Spec => []TypeInv
<1>1. Init => TypeInv
  BY TypeInit
<1>2. TypeInv /\ [Next]_vars => TypeInv'
  BY TypeStep
<1>3. QED
  BY <1>1, <1>2, PTL DEF Spec

\* Every variable keeps its type in every behaviour.
THEOREM TypeCorrect == Spec => []TypeOK
<1>1. TypeInv => TypeOK
  BY DEF TypeInv
<1>2. QED
  BY <1>1, TypeInvariance, PTL

\* pendingWrites[0] exists whenever writeStreamDidReceiveResponse or
\* handleWriteError runs: every answer on its way to a phone is the answer to a
\* write that is still in the queue of the account the SDK works for.
THEOREM AnswersMatch == Spec => []AnswersMatchPending
<1>1. TypeInv => AnswersMatchPending
  BY DEF TypeInv
<1>2. QED
  BY <1>1, TypeInvariance, PTL

\* On the main screen the writes of handleCode, handlePartnerRemove and
\* handleWithdraw go to the queue of the account that is signed in.
THEOREM Settled == Spec => []MainIsSettled
<1>1. TypeInv => MainIsSettled
  BY DEF TypeInv
<1>2. QED
  BY <1>1, TypeInvariance, PTL

-----------------------------------------------------------------------------
(* Where partners come from.  PartnerProvenance is not inductive: what the *)
(* server stores next is in some queue now, and what handlePartnerRemove   *)
(* reads may come from the cache of the phone overlaid with its queue.     *)
(* ProvInv adds both.                                                      *)

\* A write that makes somebody a partner is between two who are related.
WriteRelated(m) ==
    "partner" \in m.mask /\ m.partner \in DocId => Related(m.id, m.partner)

WritesRelated ==
    \A d \in Device, o \in Owner : \A i \in DOMAIN queue[d][o] :
        WriteRelated(queue[d][o][i])

CacheRelated == \A d \in Device, id \in DocId : NamesRelated(id, cache[d][id])

ProvInv == PartnerProvenance /\ WritesRelated /\ CacheRelated

-----------------------------------------------------------------------------
(* The operators on documents keep who is related.                         *)

\* A related write leaves a related document.
LEMMA ApplyRelated ==
    ASSUME NEW m \in Mutation, NEW x \in MaybeDoc,
           WriteRelated(m), NamesRelated(m.id, x)
    PROVE  NamesRelated(m.id, applyTo(m, x))
BY DEF applyTo, IsValidFor, patchObjectValue, Mutation, Field, MaybeDoc, Doc,
       WriteRelated, NamesRelated

\* The partner a phone shows comes from the document below, or from a write of
\* its queue.
LEMMA ViewRelated ==
    ASSUME NEW q \in Seq(Mutation), NEW id \in DocId, NEW base \in MaybeDoc,
           \A i \in DOMAIN q : WriteRelated(q[i]), NamesRelated(id, base)
    PROVE  NamesRelated(id, documentForKey(q, id, base))
<1> DEFINE n == Len(q)
           R == ResetsTo(q, id, n)
           W == WritesTo(q, id, "partner", n)
<1>1. n \in Nat /\ \A i \in 1..n : q[i] \in Mutation /\ WriteRelated(q[i])
  OBVIOUS
<1>2. W # {} => LastOf(W) \in W
  BY <1>1, LastOfIsMember DEF WritesTo
<1>3. LastOf({}) = 0
  BY DEF LastOf
<1>4. R # {} => W # {}
  BY <1>1 DEF ResetsTo, WritesTo, Mutation, Field
<1>5. documentForKey(q, id, base) = ViewTo(q, id, base, n)
  BY ShownIsViewTo
<1>6. SUFFICES ASSUME documentForKey(q, id, base) # NoDoc
               PROVE  NamesRelated(id, documentForKey(q, id, base))
  BY DEF NamesRelated
<1>7. documentForKey(q, id, base).partner =
         IF LastOf(W) = 0 THEN base.partner ELSE q[LastOf(W)].partner
  BY <1>5, <1>6 DEF ViewTo, ValueOf
<1>8. CASE W = {}
  <2>1. base # NoDoc
    BY <1>3, <1>4, <1>5, <1>6, <1>8 DEF ViewTo
  <2>2. QED
    BY <1>3, <1>7, <1>8, <2>1 DEF NamesRelated
<1>9. CASE W # {}
  <2>1. LastOf(W) \in W /\ LastOf(W) # 0 /\ LastOf(W) \in 1..n
    BY <1>1, <1>2, <1>9 DEF WritesTo
  <2>2. q[LastOf(W)].id = id /\ "partner" \in q[LastOf(W)].mask
    BY <2>1 DEF WritesTo
  <2>3. QED
    BY <1>1, <1>7, <2>1, <2>2 DEF NamesRelated, WriteRelated
<1>10. QED
  BY <1>8, <1>9

\* Who is related stays related.
LEMMA RelatedStays ==
    ASSUME invited \subseteq invited'
    PROVE  /\ \A u, v : Related(u, v) => Related(u, v)'
           /\ \A m : WriteRelated(m) => WriteRelated(m)'
           /\ \A id, x : NamesRelated(id, x) => NamesRelated(id, x)'
<1>1. \A u, v : Related(u, v) => Related(u, v)'
  BY DEF Related
<1>2. QED
  BY <1>1 DEF WriteRelated, NamesRelated

-----------------------------------------------------------------------------
(* What the steps do to the queues.                                        *)

\* The queues of the next state, write by write.
LEMMA WritesRelatedNext ==
    (\A e \in Device, o \in Owner : \A i \in DOMAIN queue'[e][o] : \A m :
        m = queue'[e][o][i] => WriteRelated(m)')
    => WritesRelated'
<1>1. SUFFICES ASSUME \A e \in Device, o \in Owner :
                         \A i \in DOMAIN queue'[e][o] : \A m :
                            m = queue'[e][o][i] => WriteRelated(m)',
                      NEW e \in Device, NEW o \in Owner,
                      NEW i \in DOMAIN queue'[e][o]
               PROVE  WriteRelated(queue[e][o][i])'
  BY DEF WritesRelated
<1>2. PICK m : m = queue'[e][o][i]
  OBVIOUS
<1>3. WriteRelated(m)'
  BY <1>1, <1>2
<1>4. QED
  BY <1>2, <1>3 DEF WriteRelated, Related

\* Related writes may join a queue.
LEMMA EnqueueRelated ==
    ASSUME TypeInv, WritesRelated, invited \subseteq invited',
           NEW d \in Device, NEW ms \in Seq(Mutation), Enqueue(d, ms),
           \A i \in DOMAIN ms : WriteRelated(ms[i])'
    PROVE  WritesRelated'
<1> DEFINE q == queue[d][fsUser[d]]
<1>1. queue \in [Device -> [Owner -> Seq(Mutation)]] /\ fsUser[d] \in Owner
  BY DEF TypeInv, TypeOK
<1>2. \A e \in Device, o \in Owner :
        queue'[e][o] = IF e = d /\ o = fsUser[d] THEN q \o ms ELSE queue[e][o]
  BY <1>1 DEF Enqueue
<1>3. q \in Seq(Mutation)
  BY <1>1
<1>4. \A i \in DOMAIN (q \o ms) :
        \/ i \in DOMAIN q /\ (q \o ms)[i] = q[i]
        \/ \E j \in DOMAIN ms : (q \o ms)[i] = ms[j]
  <2>1. SUFFICES ASSUME NEW i \in DOMAIN (q \o ms)
                 PROVE  \/ i \in DOMAIN q /\ (q \o ms)[i] = q[i]
                        \/ \E j \in DOMAIN ms : (q \o ms)[i] = ms[j]
    OBVIOUS
  <2>2. /\ Len(q) \in Nat /\ Len(ms) \in Nat
        /\ i \in 1..(Len(q) + Len(ms))
        /\ DOMAIN q = 1..Len(q) /\ DOMAIN ms = 1..Len(ms)
    BY <1>3
  <2>3. CASE i <= Len(q)
    BY <1>3, <2>2, <2>3
  <2>4. CASE i > Len(q)
    <3> HIDE DEF q
    <3>1. i - Len(q) \in 1..Len(ms)
      BY <2>2, <2>4
    <3>2. (q \o ms)[i] = ms[i - Len(q)]
      BY <1>3, <2>2, <2>4
    <3>3. QED
      BY <2>2, <3>1, <3>2
  <2>5. QED
    BY <2>2, <2>3, <2>4
<1>5. \A m : WriteRelated(m) => WriteRelated(m)'
  BY RelatedStays
<1>6. \A i \in DOMAIN q : WriteRelated(q[i])
  BY <1>1 DEF WritesRelated
<1> HIDE DEF q
<1>7. \A i \in DOMAIN (q \o ms) : \A m :
         m = (q \o ms)[i] => WriteRelated(m)'
  BY <1>4, <1>5, <1>6
<1>8. \A e \in Device, o \in Owner : \A i \in DOMAIN queue'[e][o] : \A m :
         m = queue'[e][o][i] => WriteRelated(m)'
  <2>1. SUFFICES ASSUME NEW e \in Device, NEW o \in Owner,
                        NEW i \in DOMAIN queue'[e][o], NEW m,
                        m = queue'[e][o][i]
                 PROVE  WriteRelated(m)'
    OBVIOUS
  <2>2. CASE e = d /\ o = fsUser[d]
    BY <1>2, <1>7, <2>1, <2>2
  <2>3. CASE ~(e = d /\ o = fsUser[d])
    <3>1. m = queue[e][o][i] /\ i \in DOMAIN queue[e][o]
      BY <1>2, <2>1, <2>3
    <3>2. QED
      BY <1>5, <3>1 DEF WritesRelated
  <2>4. QED
    BY <2>2, <2>3
<1>9. QED
  BY <1>8, WritesRelatedNext

\* A write may leave a queue.
LEMMA DequeueRelated ==
    ASSUME TypeInv, WritesRelated, invited' = invited,
           NEW d \in Device, Pending(d) # <<>>,
           queue' = [queue EXCEPT ![d][fsUser[d]] = Tail(@)]
    PROVE  WritesRelated'
<1> DEFINE q == Pending(d)
<1>1. queue \in [Device -> [Owner -> Seq(Mutation)]] /\ fsUser[d] \in Owner
  BY DEF TypeInv, TypeOK
<1>2. \A e \in Device, o \in Owner :
        queue'[e][o] = IF e = d /\ o = fsUser[d] THEN Tail(q) ELSE queue[e][o]
  BY <1>1 DEF Pending
<1>3. q \in Seq(Mutation) /\ q # <<>>
  BY <1>1 DEF Pending
<1>4. \A i \in DOMAIN Tail(q) : i + 1 \in DOMAIN q /\ Tail(q)[i] = q[i + 1]
  BY <1>3, HeadTailProperties
<1>5. \A m : WriteRelated(m) => WriteRelated(m)'
  BY RelatedStays
<1>6. \A i \in DOMAIN q : WriteRelated(q[i])
  BY <1>1 DEF WritesRelated, Pending
<1> HIDE DEF q
<1>7. \A i \in DOMAIN Tail(q) : WriteRelated(Tail(q)[i])
  BY <1>4, <1>6
<1>8. \A e \in Device, o \in Owner : \A i \in DOMAIN queue'[e][o] : \A m :
         m = queue'[e][o][i] => WriteRelated(m)'
  <2>1. SUFFICES ASSUME NEW e \in Device, NEW o \in Owner,
                        NEW i \in DOMAIN queue'[e][o], NEW m,
                        m = queue'[e][o][i]
                 PROVE  WriteRelated(m)'
    OBVIOUS
  <2>2. CASE e = d /\ o = fsUser[d]
    BY <1>2, <1>5, <1>7, <2>1, <2>2
  <2>3. CASE ~(e = d /\ o = fsUser[d])
    <3>1. m = queue[e][o][i] /\ i \in DOMAIN queue[e][o]
      BY <1>2, <2>1, <2>3
    <3>2. QED
      BY <1>5, <3>1 DEF WritesRelated
  <2>4. QED
    BY <2>2, <2>3
<1>9. QED
  BY <1>8, WritesRelatedNext

\* The writes at hand are of the type of mutations and related.
LEMMA PendingRelated ==
    ASSUME TypeInv, ProvInv, NEW d \in Device
    PROVE  /\ Pending(d) \in Seq(Mutation)
           /\ \A i \in DOMAIN Pending(d) : WriteRelated(Pending(d)[i])
<1>1. fsUser[d] \in Owner /\ queue[d][fsUser[d]] \in Seq(Mutation)
  BY DEF TypeInv, TypeOK
<1>2. QED
  BY <1>1 DEF Pending, ProvInv, WritesRelated

\* Nothing changes for a step that leaves documents, queues and reads alone.
LEMMA ProvFrame ==
    ASSUME ProvInv, UNCHANGED <<docs, cache, queue, removal, invited>>
    PROVE  ProvInv'
BY DEF ProvInv, PartnerProvenance, WritesRelated, CacheRelated, WriteRelated,
       NamesRelated, Related

-----------------------------------------------------------------------------
(* The invariant.                                                          *)

\* At the start no document names a partner.
LEMMA ProvInit == Init => ProvInv
<1>1. \A id : NamesRelated(id, Fresh) /\ NamesRelated(id, NoDoc)
  BY DEF NamesRelated, Fresh, DocId
<1>2. Init => PartnerProvenance
  BY <1>1 DEF Init, PartnerProvenance, NoRemoval
<1>3. Init => CacheRelated
  BY <1>1 DEF Init, CacheRelated
<1>4. Init => WritesRelated
  BY DEF Init, WritesRelated
<1>5. QED
  BY <1>2, <1>3, <1>4 DEF ProvInv

\* The server applies a related write.
LEMMA ServeRelated ==
    ASSUME TypeInv, ProvInv, NEW d \in Device, Serve(d)
    PROVE  ProvInv'
<1> DEFINE n == Len(resp[d]) + 1
           m == Pending(d)[n]
<1>1. n \in DOMAIN Pending(d)
  <2>1. Len(resp[d]) \in Nat
    BY Lengths DEF TypeInv
  <2>2. Pending(d) \in Seq(Mutation)
    BY PendingRelated
  <2>3. QED
    BY <2>1, <2>2 DEF Serve
<1>2. m \in Mutation /\ WriteRelated(m)
  BY <1>1, PendingRelated
<1>3. m.id \in DocId /\ docs \in [DocId -> MaybeDoc]
  BY <1>2 DEF Mutation, TypeInv, TypeOK
<1>4. NamesRelated(m.id, applyTo(m, docs[m.id]))
  BY <1>2, <1>3, ApplyRelated DEF ProvInv, PartnerProvenance
<1>5. docs' = docs \/ docs' = [docs EXCEPT ![m.id] = applyTo(m, docs[m.id])]
  BY DEF Serve
<1>6. UNCHANGED <<queue, cache, removal, invited>>
  BY DEF Serve, app
<1> HIDE DEF m
<1>7. \A id \in DocId : NamesRelated(id, docs'[id])
  BY <1>3, <1>4, <1>5 DEF ProvInv, PartnerProvenance
<1>8. QED
  BY <1>6, <1>7 DEF ProvInv, PartnerProvenance, WritesRelated, CacheRelated,
     WriteRelated, NamesRelated, Related

\* An acknowledged write moves from the queue to the cache.
LEMMA AckRelated ==
    ASSUME TypeInv, ProvInv, NEW d \in Device, ReceiveAck(d)
    PROVE  ProvInv'
<1> DEFINE m == Head(Pending(d))
<1>1. Pending(d) # <<>>
  <2>1. resp[d] \in Seq(Response) /\ resp[d] # <<>>
    BY DEF ReceiveAck, TypeInv, TypeOK
  <2>2. Pending(d) \in Seq(Mutation) /\ Len(resp[d]) <= Len(Pending(d))
    BY PendingRelated DEF TypeInv, AnswersMatchPending
  <2>3. QED
    BY <2>1, <2>2, EmptySeq, LenProperties
<1>2. m \in Mutation /\ WriteRelated(m)
  <2>1. 1 \in DOMAIN Pending(d) /\ m = Pending(d)[1] /\ m \in Mutation
    BY <1>1, PendingRelated, HeadTailProperties
  <2>2. QED
    BY <2>1, PendingRelated
<1>3. m.id \in DocId /\ cache \in [Device -> [DocId -> MaybeDoc]]
  BY <1>2 DEF Mutation, TypeInv, TypeOK
<1>4. NamesRelated(m.id, applyTo(m, cache[d][m.id]))
  BY <1>2, <1>3, ApplyRelated DEF ProvInv, CacheRelated
<1> DEFINE c == IF Head(resp[d]).seen THEN cache[d][m.id]
                ELSE applyTo(m, cache[d][m.id])
<1>5. cache' = [cache EXCEPT ![d] = [cache[d] EXCEPT ![m.id] = c]]
  BY <1>3 DEF ReceiveAck
<1>6. NamesRelated(m.id, c)
  BY <1>3, <1>4 DEF ProvInv, CacheRelated
<1>7. UNCHANGED <<docs, removal, invited>>
  BY DEF ReceiveAck, app, server
<1>8. WritesRelated'
  BY <1>1, <1>7, DequeueRelated DEF ReceiveAck, ProvInv
<1> HIDE DEF m, c
<1>9. \A e \in Device, id \in DocId : NamesRelated(id, cache'[e][id])
  BY <1>3, <1>5, <1>6 DEF ProvInv, CacheRelated
<1>10. QED
  BY <1>7, <1>8, <1>9 DEF ProvInv, PartnerProvenance, CacheRelated,
     NamesRelated, Related

\* A rejected write leaves the queue.
LEMMA RejectRelated ==
    ASSUME TypeInv, ProvInv, NEW d \in Device, ReceiveReject(d)
    PROVE  ProvInv'
<1>1. Pending(d) # <<>>
  <2>1. resp[d] \in Seq(Response) /\ resp[d] # <<>>
    BY DEF ReceiveReject, TypeInv, TypeOK
  <2>2. Pending(d) \in Seq(Mutation) /\ Len(resp[d]) <= Len(Pending(d))
    BY PendingRelated DEF TypeInv, AnswersMatchPending
  <2>3. QED
    BY <2>1, <2>2, EmptySeq, LenProperties
<1>2. UNCHANGED <<docs, cache, removal, invited>>
  BY DEF ReceiveReject, app, server
<1>3. WritesRelated'
  BY <1>1, <1>2, DequeueRelated DEF ReceiveReject, ProvInv
<1>4. QED
  BY <1>2, <1>3 DEF ProvInv, PartnerProvenance, CacheRelated, NamesRelated, Related

\* A document read from the server replaces the one in the cache.
LEMMA CacheDocRelated ==
    ASSUME TypeInv, ProvInv, NEW d \in Device, NEW id \in DocId,
           CacheDoc(d, id), UNCHANGED <<docs, invited>>
    PROVE  CacheRelated'
<1>1. cache \in [Device -> [DocId -> MaybeDoc]]
  BY DEF TypeInv, TypeOK
<1>2. cache' = [cache EXCEPT ![d] = [cache[d] EXCEPT ![id] = docs[id]]]
  BY <1>1 DEF CacheDoc
<1>3. \A e \in Device, x \in DocId : NamesRelated(x, cache'[e][x])
  BY <1>1, <1>2 DEF ProvInv, CacheRelated, PartnerProvenance
<1>4. QED
  BY <1>3 DEF CacheRelated, NamesRelated, Related

\* handlePartnerRemove gets a related document, from the server or the cache.
LEMMA GetDocumentRelated ==
    ASSUME TypeInv, ProvInv, NEW d \in Device, GetDocument(d)
    PROVE  ProvInv'
<1> DEFINE uid == removal[d].uid
<1>1. uid \in DocId /\ removal \in [Device -> Removal]
  BY DEF GetDocument, TypeInv, TypeOK, RemovalHasUser, DocId
<1>2. UNCHANGED <<docs, queue, invited>>
  BY DEF GetDocument, server
<1>3. CacheRelated'
  <2>1. CASE CacheDoc(d, uid)
    BY <1>1, <1>2, <2>1, CacheDocRelated
  <2>2. CASE cache' = cache
    BY <1>2, <2>2 DEF ProvInv, CacheRelated, NamesRelated, Related
  <2>3. QED
    BY <2>1, <2>2 DEF GetDocument
<1>4. \A base \in MaybeDoc :
         NamesRelated(uid, base) => NamesRelated(uid, View(d, uid, base))
  BY <1>1, PendingRelated, ViewRelated DEF View
<1>5. /\ docs[uid] \in MaybeDoc /\ NamesRelated(uid, docs[uid])
      /\ cache[d][uid] \in MaybeDoc /\ NamesRelated(uid, cache[d][uid])
      /\ NamesRelated(uid, removal[d].doc)
  BY <1>1 DEF TypeInv, TypeOK, ProvInv, PartnerProvenance, CacheRelated
<1>6. PICK x : /\ NamesRelated(uid, x)
               /\ removal' = [removal EXCEPT ![d] =
                                [@ EXCEPT !.st = "fetched", !.doc = x]]
  <2>1. CASE removal' = [removal EXCEPT ![d] = [@ EXCEPT !.st = "fetched"]]
    <3>1. removal' = [removal EXCEPT ![d] =
                        [@ EXCEPT !.st = "fetched", !.doc = removal[d].doc]]
      BY <1>1, <2>1 DEF Removal
    <3>2. QED
      BY <1>5, <3>1
  <2>2. QED
    BY <1>4, <1>5, <2>1 DEF GetDocument
<1>7. \A e \in Device : /\ removal'[e].uid = removal[e].uid
                        /\ removal'[e].doc = IF e = d THEN x ELSE removal[e].doc
  BY <1>1, <1>6 DEF Removal
<1>8. \A e \in Device : NamesRelated(removal'[e].uid, removal'[e].doc)
  BY <1>6, <1>7 DEF ProvInv, PartnerProvenance
<1>9. QED
  BY <1>2, <1>3, <1>8 DEF ProvInv, PartnerProvenance, WritesRelated, WriteRelated,
     NamesRelated, Related

\* The callback of handlePartnerRemove makes nobody a partner.
LEMMA RemovalCallbackRelated ==
    ASSUME TypeInv, ProvInv, NEW d \in Device, RemovalCallback(d)
    PROVE  ProvInv'
<1> DEFINE uid == removal[d].uid
           partner == UserDataPartner(removal[d].doc)
<1>1. uid \in DocId /\ removal[d].doc \in MaybeDoc /\ removal \in [Device -> Removal]
  BY DEF RemovalCallback, TypeInv, TypeOK, RemovalHasUser, Removal, DocId
<1>2. UNCHANGED <<docs, cache, invited>>
  BY DEF RemovalCallback, server
<1>3. WritesRelated'
  <2>1. CASE queue' = queue
    BY <1>2, <2>1 DEF ProvInv, WritesRelated, WriteRelated, Related
  <2>2. CASE /\ removal[d].doc # NoDoc /\ partner # None
             /\ Enqueue(d, <<updatePartner(partner, Absent),
                             updatePartner(uid, Absent)>>)
    <3> DEFINE ms == <<updatePartner(partner, Absent), updatePartner(uid, Absent)>>
    <3>1. partner \in DocId
      BY <1>1, <2>2 DEF UserDataPartner, MaybeDoc, Doc, Partner
    <3>2. ms \in Seq(Mutation)
      BY <1>1, <3>1, WritesAreMutations
    <3>3. \A i \in DOMAIN ms : ms[i].partner = Absent
      BY DEF updatePartner
    <3>4. \A i \in DOMAIN ms : \A m : m = ms[i] => WriteRelated(m)'
      BY <3>3 DEF WriteRelated, DocId
    <3> HIDE DEF ms
    <3>5. PICK w \in Seq(Mutation) : w = ms
      BY <3>2
    <3>6. \A i \in DOMAIN w : WriteRelated(w[i])'
      BY <3>4, <3>5
    <3>7. Enqueue(d, w)
      BY <2>2, <3>5 DEF ms
    <3>8. QED
      BY <1>2, <3>6, <3>7, EnqueueRelated DEF ProvInv
  <2>3. QED
    BY <2>1, <2>2 DEF RemovalCallback
<1>4. \A e \in Device : removal'[e] = IF e = d THEN NoRemoval ELSE removal[e]
  BY <1>1 DEF RemovalCallback
<1>5. \A e \in Device : NamesRelated(removal'[e].uid, removal'[e].doc)
  BY <1>4 DEF ProvInv, PartnerProvenance, NoRemoval, NamesRelated
<1>6. QED
  BY <1>2, <1>3, <1>5 DEF ProvInv, PartnerProvenance, CacheRelated, NamesRelated,
     Related

\* A handler that only writes, and only related writes.
LEMMA WriteStepRelated ==
    ASSUME TypeInv, ProvInv, NEW d \in Device, NEW ms \in Seq(Mutation),
           Enqueue(d, ms), invited \subseteq invited',
           UNCHANGED <<docs, cache, removal>>,
           \A i \in DOMAIN ms : \A m : m = ms[i] => WriteRelated(m)'
    PROVE  ProvInv'
<1>1. \A i \in DOMAIN ms : WriteRelated(ms[i])'
  OBVIOUS
<1>2. WritesRelated'
  BY <1>1, EnqueueRelated DEF ProvInv
<1>3. \A id, x : NamesRelated(id, x) => NamesRelated(id, x)'
  BY RelatedStays
<1>4. QED
  BY <1>2, <1>3 DEF ProvInv, PartnerProvenance, CacheRelated, NamesRelated, Related

\* Every step keeps who is related.
LEMMA ProvStep ==
    ASSUME TypeInv, ProvInv, [Next]_vars
    PROVE  ProvInv'
<1>1. ASSUME NEW d \in Device, NEW code \in DocId, handleCode(d, code)
      PROVE  ProvInv'
  <2> DEFINE ms == <<updatePartner(code, session[d]), updatePartner(session[d], code)>>
  <2>1. session[d] \in User
    BY <1>1 DEF handleCode, TypeInv, TypeOK, MainIsSettled, SignInUnderWay, Owner
  <2>2. ms \in Seq(Mutation)
    BY <1>1, <2>1, WritesAreMutations DEF DocId
  <2>3. \A i \in DOMAIN ms : \A m : m = ms[i] => WriteRelated(m)'
    BY <1>1 DEF handleCode, updatePartner, WriteRelated, Related, DocId
  <2>4. Enqueue(d, ms)
    BY <1>1 DEF handleCode
  <2> HIDE DEF ms
  <2>5. /\ UNCHANGED <<docs, cache, removal>>
        /\ invited \subseteq invited'
    BY <1>1 DEF handleCode, server, app
  <2>6. QED
    BY <2>2, <2>3, <2>4, <2>5, WriteStepRelated
<1>2. ASSUME NEW d \in Device, SignUpCompletion(d)
      PROVE  ProvInv'
  <2> DEFINE ms == <<setData(session[d])>>
  <2>1. session[d] \in User
    BY <1>2 DEF SignUpCompletion, TypeInv, TypeOK, MainIsSettled, SignInUnderWay, Owner
  <2>2. ms \in Seq(Mutation)
    BY <1>2, <2>1, WritesAreMutations DEF DocId
  <2>3. \A i \in DOMAIN ms : \A m : m = ms[i] => WriteRelated(m)'
    BY <1>2 DEF SignUpCompletion, setData, WriteRelated, Related, DocId
  <2>4. Enqueue(d, ms)
    BY <1>2 DEF SignUpCompletion
  <2> HIDE DEF ms
  <2>5. /\ UNCHANGED <<docs, cache, removal>>
        /\ invited \subseteq invited'
    BY <1>2 DEF SignUpCompletion, server, app
  <2>6. QED
    BY <2>2, <2>3, <2>4, <2>5, WriteStepRelated
<1>3. ASSUME NEW d \in Device, handleWithdraw(d)
      PROVE  ProvInv'
  <2> DEFINE ms == <<deleteDoc(session[d])>>
  <2>1. session[d] \in User
    BY <1>3 DEF handleWithdraw, TypeInv, TypeOK, MainIsSettled, SignInUnderWay, Owner
  <2>2. ms \in Seq(Mutation)
    BY <1>3, <2>1, WritesAreMutations DEF DocId
  <2>3. \A i \in DOMAIN ms : \A m : m = ms[i] => WriteRelated(m)'
    BY <1>3 DEF handleWithdraw, deleteDoc, WriteRelated, Related, DocId
  <2>4. Enqueue(d, ms)
    BY <1>3 DEF handleWithdraw
  <2> HIDE DEF ms
  <2>5. /\ UNCHANGED <<docs, cache, removal>>
        /\ invited \subseteq invited'
    BY <1>3 DEF handleWithdraw, server, app
  <2>6. QED
    BY <2>2, <2>3, <2>4, <2>5, WriteStepRelated
<1>4. ASSUME NEW d \in Device, NEW l \in Loc, didUpdateLocations(d, l)
      PROVE  ProvInv'
  <2> DEFINE ms == <<updateLocation(session[d], l)>>
  <2>1. session[d] \in User
    BY <1>4 DEF didUpdateLocations, TypeInv, TypeOK, MainIsSettled, SignInUnderWay, Owner
  <2>2. ms \in Seq(Mutation)
    BY <1>4, <2>1, WritesAreMutations DEF DocId
  <2>3. \A i \in DOMAIN ms : \A m : m = ms[i] => WriteRelated(m)'
    BY <1>4 DEF didUpdateLocations, updateLocation, WriteRelated, Related, DocId
  <2>4. Enqueue(d, ms)
    BY <1>4 DEF didUpdateLocations
  <2> HIDE DEF ms
  <2>5. /\ UNCHANGED <<docs, cache, removal>>
        /\ invited \subseteq invited'
    BY <1>4 DEF didUpdateLocations, server, app
  <2>6. QED
    BY <2>2, <2>3, <2>4, <2>5, WriteStepRelated
<1>5. ASSUME NEW d \in Device, updatePin(d)
      PROVE  ProvInv'
  <2>1. PICK id \in DocId : CacheDoc(d, id)
    BY <1>5, PolledType DEF updatePin
  <2>2. UNCHANGED <<docs, queue, removal, invited>>
    BY <1>5 DEF updatePin, server, app
  <2>3. CacheRelated'
    BY <2>1, <2>2, CacheDocRelated
  <2>4. QED
    BY <2>2, <2>3 DEF ProvInv, PartnerProvenance, WritesRelated, WriteRelated,
       NamesRelated, Related
<1>6. ASSUME NEW d \in Device, handlePartnerRemove(d) \/ Relaunch(d)
      PROVE  ProvInv'
  <2>1. UNCHANGED <<docs, cache, queue, invited>>
    BY <1>6 DEF handlePartnerRemove, Relaunch, server, sdk
  <2>2. \A e \in Device : removal'[e] = removal[e] \/ removal'[e].doc = NoDoc
    BY <1>6 DEF handlePartnerRemove, Relaunch, NoRemoval, TypeInv, TypeOK
  <2>3. \A e \in Device : NamesRelated(removal'[e].uid, removal'[e].doc)
    BY <2>2 DEF ProvInv, PartnerProvenance, NamesRelated
  <2>4. QED
    BY <2>1, <2>3 DEF ProvInv, PartnerProvenance, WritesRelated, CacheRelated,
       WriteRelated, NamesRelated, Related
<1>7. ASSUME NEW d \in Device,
             \/ handleSignUp(d) \/ handleLogin(d) \/ signOut(d)
             \/ LoginCompletion(d) \/ AuthError(d)
             \/ Interrupt(d) \/ UserDidChange(d)
             \/ \E u \in User : CreateUser(d, u) \/ SignIn(d, u)
      PROVE  ProvInv'
  <2>1. UNCHANGED <<docs, cache, queue, removal, invited>>
    BY <1>7 DEF handleSignUp, handleLogin, signOut, LoginCompletion, AuthError,
       Interrupt, UserDidChange, CreateUser, SignIn, server, sdk, app
  <2>2. QED
    BY <2>1, ProvFrame
<1>8. CASE UNCHANGED vars
  BY <1>8, ProvFrame DEF vars, server, sdk, app
<1>9. QED
  BY <1>1, <1>2, <1>3, <1>4, <1>5, <1>6, <1>7, <1>8, ServeRelated, AckRelated,
     RejectRelated, GetDocumentRelated, RemovalCallbackRelated
  DEF Next, UserAction, SystemAction, Environment

\* A document, on the server or in the hands of handlePartnerRemove, names as
\* partner only someone who typed this code in handleCode or whose code was
\* typed here.
THEOREM Provenance == Spec => []PartnerProvenance
<1>1. Init => ProvInv
  BY ProvInit
<1>2. TypeInv /\ ProvInv /\ [Next]_vars => ProvInv'
  BY ProvStep
<1>3. ProvInv => PartnerProvenance
  BY DEF ProvInv
<1>4. QED
  BY <1>1, <1>2, <1>3, TypeInvariance, PTL DEF Spec

-----------------------------------------------------------------------------
(* The bounded instances are instances of Pairing.                         *)

\* A step that is counted is a step of Pairing.
LEMMA CountedStep == [MCNext]_mcvars => [Next]_vars
<1>1. ASSUME NEW d \in Device, MCUser(d)
      PROVE  Next
  BY <1>1 DEF MCUser, MCHandleCode, MCPartnerRemove, MCWithdraw, MCUpdateLocations,
     MCSign, MCSignOut, Next, UserAction, Environment
<1>2. ASSUME NEW d \in Device, MCSystem(d)
      PROVE  Next
  BY <1>2 DEF MCSystem, MCRemovalCallback, MCCreateUser, Next, SystemAction
<1>3. ASSUME NEW d \in Device, MCUpdatePin(d) \/ MCBreak(d)
      PROVE  Next
  BY <1>3 DEF MCUpdatePin, MCBreak, Next, Environment
<1>4. CASE UNCHANGED mcvars
  BY <1>4 DEF mcvars
<1>5. QED
  BY <1>1, <1>2, <1>3, <1>4 DEF MCNext

\* Whatever is proved of every behaviour of Pairing holds in the runs, and a
\* behaviour that a run shows is one of handleSignUp, handleCode, ... of Pairing.
THEOREM BoundedIsPairing == MCSpec => Spec
<1>1. MCInit => Init
  BY DEF MCInit
<1>2. QED
  BY <1>1, CountedStep, PTL DEF MCSpec, Spec

-----------------------------------------------------------------------------
(* What waits in the queues.                                               *)

\* The writes of a queue q after its first k.
After(q, k) == {q[i] : i \in {j \in DOMAIN q : k < j}}

\* How many writes of an account the server has answered on the connection of
\* a phone, and those it has not.
Answered(d, o) == IF fsUser[d] = o THEN Len(resp[d]) ELSE 0
Unanswered(d, o) == After(queue[d][o], Answered(d, o))

\* In a queue q the sign-up of u comes before its deletion.
Undone(q, u) ==
    \A i \in DOMAIN q : q[i] = setData(u) =>
        \E j \in DOMAIN q : i < j /\ q[j] = deleteDoc(u)

\* The write m says something about the position of u.
Locates(m, u) == m.id = u /\ "loc" \in m.mask

\* The last write of a queue q to the position of u deletes the document, or
\* writes the position l.
EndsAt(q, u, l) ==
    \A i \in DOMAIN q :
        Locates(q[i], u) /\ (\A j \in DOMAIN q : i < j => ~Locates(q[j], u)) =>
            q[i].kind = "delete" \/ q[i].loc = l

-----------------------------------------------------------------------------
(* The invariant.                                                          *)

Creating(d, u) == auth[d] = "created" /\ session[d] = u

\* Whoever is signed in, or has a document, has an account.
Known ==
    /\ \A d \in Device : session[d] \in accounts \cup {None}
    /\ \A id \in DocId : docs[id] # NoDoc => id \in accounts

\* A document is made, and deleted, by writes in its owner's queue only.
OwnWrites ==
    \A d \in Device, o \in Owner : \A m \in Range(queue[d][o]) :
        /\ m.kind = "set" => m = setData(o) /\ o \in accounts
        /\ m.kind = "delete" => m = deleteDoc(o) /\ o \in bare

\* A sign-up whose completion has not run has left no trace, and is the only
\* one of its account.
Creation ==
    \A d \in Device : auth[d] = "created" =>
        /\ docs[session[d]] = NoDoc
        /\ \A e \in Device, o \in Owner : setData(session[d]) \notin Range(queue[e][o])
        /\ \A e \in Device : Creating(e, session[d]) => e = d

\* The sign-up of u has made the document, or will.
Kept(u) ==
    \/ docs[u] # NoDoc
    \/ \E d \in Device : setData(u) \in Unanswered(d, u)
    \/ \E d \in Device : Creating(d, u)

\* The document of u is gone, or will be, and no sign-up will bring it back.
Gone(u) ==
    /\ u \in accounts /\ \A d \in Device : ~Creating(d, u)
    /\ \A d \in Device : Undone(queue[d][u], u)
    /\ docs[u] # NoDoc => \E d \in Device : deleteDoc(u) \in Unanswered(d, u)

\* u and v name each other, or will: nothing that waits disagrees, and what
\* agrees is still there for who does not name the other yet.
Agreed(u, v) ==
    /\ docs[u] # NoDoc
    /\ \A d \in Device, o \in Owner : \A m \in Range(queue[d][o]) :
          m.id = u /\ "partner" \in m.mask => m = updatePartner(u, v)
    /\ \/ docs[u].partner = v
       \/ \E d \in Device, o \in User : updatePartner(u, v) \in Unanswered(d, o)

Bonds == \A b \in bond : \E u, v \in DocId : b = {u, v} /\ Agreed(u, v) /\ Agreed(v, u)

KeptInv ==
    /\ Known /\ OwnWrites /\ Creation
    /\ \A u \in accounts \ bare : Kept(u)
    /\ gone \subseteq User /\ \A u \in gone : Gone(u)
    /\ Bonds

-----------------------------------------------------------------------------
(* Queues.                                                                 *)

\* The members of a queue by their index.
LEMMA Members ==
    ASSUME NEW q \in Seq(Mutation)
    PROVE  /\ Len(q) \in Nat /\ DOMAIN q = 1..Len(q)
           /\ \A i \in 1..Len(q) : q[i] \in Mutation
           /\ \A m : m \in Range(q) <=> \E i \in 1..Len(q) : q[i] = m
           /\ \A k, m : m \in After(q, k) <=> \E i \in 1..Len(q) : k < i /\ q[i] = m
           /\ \A k : After(q, k) \subseteq Range(q)
<1>1. Len(q) \in Nat /\ DOMAIN q = 1..Len(q) /\ \A i \in 1..Len(q) : q[i] \in Mutation
  BY LenProperties, ElementOfSeq
<1>2. QED
  BY <1>1 DEF Range, After

\* What is written joins the queue at its end.
LEMMA Joined ==
    ASSUME NEW q \in Seq(Mutation), NEW ms \in Seq(Mutation), NEW k \in Nat, k <= Len(q)
    PROVE  /\ q \o ms \in Seq(Mutation)
           /\ Range(q \o ms) = Range(q) \cup Range(ms)
           /\ After(q, k) \cup Range(ms) \subseteq After(q \o ms, k)
<1>1. PICK x : x = q \o ms
  OBVIOUS
<1>2. /\ x \in Seq(Mutation) /\ Len(x) = Len(q) + Len(ms)
      /\ \A i \in 1..Len(q) + Len(ms) :
            x[i] = IF i <= Len(q) THEN q[i] ELSE ms[i - Len(q)]
      /\ Range(x) = Range(q) \cup Range(ms)
  BY <1>1, ConcatProperties, RangeConcatenation
<1>3. Len(q) \in Nat /\ Len(ms) \in Nat
  BY LenProperties
<1>4. ASSUME NEW m, m \in After(q, k) PROVE m \in After(x, k)
  <2>1. PICK i \in 1..Len(q) : k < i /\ q[i] = m
    BY <1>4, Members
  <2>2. i \in 1..Len(x) /\ x[i] = m
    BY <1>2, <1>3, <2>1
  <2>3. QED
    BY <1>2, <2>1, <2>2, Members
<1>5. ASSUME NEW m, m \in Range(ms) PROVE m \in After(x, k)
  <2>1. PICK i \in 1..Len(ms) : ms[i] = m
    BY <1>5, Members
  <2>2. PICK j \in Int : j = Len(q) + i
    BY <1>3
  <2>3. j \in 1..Len(x) /\ k < j /\ ~(j <= Len(q)) /\ j - Len(q) = i
    BY <1>2, <1>3, <2>2
  <2>4. x[j] = m
    BY <1>2, <2>1, <2>3
  <2>5. QED
    BY <1>2, <2>3, <2>4, Members
<1>6. QED
  BY <1>1, <1>2, <1>4, <1>5

\* A deletion joins the queue behind every sign-up; nothing else but a sign-up
\* can be in its way.
LEMMA JoinedUndone ==
    ASSUME NEW q \in Seq(Mutation), NEW ms \in Seq(Mutation), NEW u,
           setData(u) \notin Range(ms), Undone(q, u) \/ deleteDoc(u) \in Range(ms)
    PROVE  Undone(q \o ms, u)
<1>1. PICK x : x = q \o ms
  OBVIOUS
<1>2. /\ x \in Seq(Mutation) /\ Len(x) = Len(q) + Len(ms)
      /\ \A i \in 1..Len(q) + Len(ms) :
            x[i] = IF i <= Len(q) THEN q[i] ELSE ms[i - Len(q)]
  BY <1>1, ConcatProperties
<1>3. /\ Len(q) \in Nat /\ Len(ms) \in Nat
      /\ DOMAIN x = 1..Len(x) /\ DOMAIN q = 1..Len(q) /\ DOMAIN ms = 1..Len(ms)
  BY <1>2, LenProperties
<1>4. SUFFICES ASSUME NEW i \in 1..Len(x), x[i] = setData(u)
               PROVE  \E j \in 1..Len(x) : i < j /\ x[j] = deleteDoc(u)
  BY <1>1, <1>3 DEF Undone
<1>5. i \in 1..Len(q) /\ q[i] = setData(u)
  <2>1. CASE i <= Len(q)
    BY <1>2, <1>3, <1>4, <2>1
  <2>2. CASE ~(i <= Len(q))
    <3>1. i - Len(q) \in 1..Len(ms) /\ ms[i - Len(q)] = setData(u)
      BY <1>2, <1>3, <1>4, <2>2
    <3>2. QED
      BY <3>1, Members
  <2>3. QED
    BY <2>1, <2>2
<1>6. CASE Undone(q, u)
  <2>1. PICK j \in 1..Len(q) : i < j /\ q[j] = deleteDoc(u)
    BY <1>3, <1>5, <1>6 DEF Undone
  <2>2. j \in 1..Len(x) /\ x[j] = deleteDoc(u)
    BY <1>2, <1>3, <2>1
  <2>3. QED
    BY <2>1, <2>2
<1>7. CASE deleteDoc(u) \in Range(ms)
  <2>1. PICK k \in 1..Len(ms) : ms[k] = deleteDoc(u)
    BY <1>7, Members
  <2>2. PICK j \in Int : j = Len(q) + k
    BY <1>3
  <2>3. j \in 1..Len(x) /\ i < j /\ ~(j <= Len(q)) /\ j - Len(q) = k
    BY <1>2, <1>3, <1>5, <2>2
  <2>4. x[j] = deleteDoc(u)
    BY <1>2, <2>1, <2>3
  <2>5. QED
    BY <2>3, <2>4
<1>8. QED
  BY <1>6, <1>7

\* The first write leaves the queue, with its answer and perhaps the others.
LEMMA Left ==
    ASSUME NEW q \in Seq(Mutation), NEW k \in Nat, k <= Len(q), k # 0,
           NEW j \in Nat, j < k
    PROVE  /\ Tail(q) \in Seq(Mutation) /\ Len(Tail(q)) = Len(q) - 1
           /\ \A i \in 1..Len(Tail(q)) : Tail(q)[i] = q[i + 1]
           /\ Range(Tail(q)) \subseteq Range(q)
           /\ After(q, k) \subseteq After(Tail(q), j)
<1>1. Len(q) \in Nat /\ q # <<>>
  BY LenProperties, EmptySeq
<1>2. PICK x : x = Tail(q)
  OBVIOUS
<1>3. x \in Seq(Mutation) /\ Len(x) = Len(q) - 1 /\ \A i \in 1..Len(x) : x[i] = q[i + 1]
  BY <1>1, <1>2, HeadTailProperties
<1>4. ASSUME NEW m, m \in Range(x) PROVE m \in Range(q)
  <2>1. PICK i \in 1..Len(x) : x[i] = m
    BY <1>3, <1>4, Members
  <2>2. i + 1 \in 1..Len(q) /\ q[i + 1] = m
    BY <1>1, <1>3, <2>1
  <2>3. QED
    BY <2>2, Members
<1>5. ASSUME NEW m, m \in After(q, k) PROVE m \in After(x, j)
  <2>1. PICK i \in 1..Len(q) : k < i /\ q[i] = m
    BY <1>5, Members
  <2>2. PICK h \in Int : h = i - 1
    OBVIOUS
  <2>3. h \in 1..Len(x) /\ h + 1 = i /\ j < h
    BY <1>1, <1>3, <2>1, <2>2
  <2>4. x[h] = m
    BY <1>3, <2>1, <2>3
  <2>5. QED
    BY <1>3, <2>3, <2>4, Members
<1>6. QED
  BY <1>2, <1>3, <1>4, <1>5

\* A sign-up that is undone stays undone when the first write leaves.
LEMMA LeftUndone ==
    ASSUME NEW q \in Seq(Mutation), q # <<>>, NEW u, Undone(q, u)
    PROVE  Undone(Tail(q), u)
<1>1. PICK x : x = Tail(q)
  OBVIOUS
<1>2. /\ x \in Seq(Mutation) /\ Len(x) = Len(q) - 1 /\ \A i \in 1..Len(x) : x[i] = q[i + 1]
      /\ Len(q) \in Nat
  BY <1>1, HeadTailProperties, LenProperties
<1>3. DOMAIN x = 1..Len(x) /\ DOMAIN q = 1..Len(q)
  BY <1>2, LenProperties
<1>4. SUFFICES ASSUME NEW i \in 1..Len(x), x[i] = setData(u)
               PROVE  \E j \in 1..Len(x) : i < j /\ x[j] = deleteDoc(u)
  BY <1>1, <1>3 DEF Undone
<1>5. i + 1 \in 1..Len(q) /\ q[i + 1] = setData(u)
  BY <1>2, <1>4
<1>6. PICK j \in 1..Len(q) : i + 1 < j /\ q[j] = deleteDoc(u)
  BY <1>3, <1>5 DEF Undone
<1>7. PICK h \in Int : h = j - 1
  OBVIOUS
<1>8. h \in 1..Len(x) /\ i < h /\ h + 1 = j
  BY <1>2, <1>6, <1>7
<1>9. x[h] = deleteDoc(u)
  BY <1>2, <1>6, <1>8
<1>10. QED
  BY <1>8, <1>9

\* The server answers the next write; the others stay unanswered, and a deletion
\* that undoes it is one of them.
LEMMA AnsweredNext ==
    ASSUME NEW q \in Seq(Mutation), NEW k \in Nat, k + 1 <= Len(q)
    PROVE  /\ q[k + 1] \in Range(q) /\ q[k + 1] \in Mutation
           /\ After(q, k) \subseteq After(q, k + 1) \cup {q[k + 1]}
           /\ \A u : Undone(q, u) /\ q[k + 1] = setData(u) => deleteDoc(u) \in After(q, k + 1)
<1>1. Len(q) \in Nat /\ DOMAIN q = 1..Len(q) /\ k + 1 \in 1..Len(q)
  BY LenProperties
<1>2. q[k + 1] \in Range(q) /\ q[k + 1] \in Mutation
  BY <1>1, Members
<1>3. ASSUME NEW m, m \in After(q, k) PROVE m \in After(q, k + 1) \cup {q[k + 1]}
  <2>1. PICK i \in 1..Len(q) : k < i /\ q[i] = m
    BY <1>3, Members
  <2>2. i = k + 1 \/ k + 1 < i
    BY <2>1
  <2>3. QED
    BY <2>1, <2>2, Members
<1>4. ASSUME NEW u, Undone(q, u), q[k + 1] = setData(u)
      PROVE  deleteDoc(u) \in After(q, k + 1)
  <2>1. PICK j \in 1..Len(q) : k + 1 < j /\ q[j] = deleteDoc(u)
    BY <1>1, <1>4 DEF Undone
  <2>2. QED
    BY <2>1, Members
<1>5. QED
  BY <1>2, <1>3, <1>4

\* Fewer answers leave more unanswered.
LEMMA AfterMore ==
    ASSUME NEW q \in Seq(Mutation), NEW k \in Nat, NEW j \in Nat, j <= k
    PROVE  After(q, k) \subseteq After(q, j)
BY Members

\* The last write to the position stays the last when others join the queue, a
\* new one becomes the last, and the last one leaves last.
LEMMA EndsJoined ==
    ASSUME NEW q \in Seq(Mutation), NEW ms \in Seq(Mutation), NEW u, NEW l, EndsAt(q, u, l),
           \A m \in Range(ms) : ~Locates(m, u)
    PROVE  EndsAt(q \o ms, u, l)
<1>1. PICK x : x = q \o ms
  OBVIOUS
<1>2. /\ x \in Seq(Mutation) /\ Len(x) = Len(q) + Len(ms)
      /\ \A i \in 1..Len(q) + Len(ms) :
            x[i] = IF i <= Len(q) THEN q[i] ELSE ms[i - Len(q)]
  BY <1>1, ConcatProperties
<1>3. /\ Len(q) \in Nat /\ Len(ms) \in Nat
      /\ DOMAIN x = 1..Len(x) /\ DOMAIN q = 1..Len(q) /\ DOMAIN ms = 1..Len(ms)
  BY <1>2, LenProperties
<1>4. SUFFICES ASSUME NEW i \in 1..Len(x), Locates(x[i], u),
                      \A j \in 1..Len(x) : i < j => ~Locates(x[j], u)
               PROVE  x[i].kind = "delete" \/ x[i].loc = l
  BY <1>1, <1>3 DEF EndsAt
<1>5. i <= Len(q)
  <2>1. CASE ~(i <= Len(q))
    <3>1. i - Len(q) \in 1..Len(ms) /\ x[i] = ms[i - Len(q)]
      BY <1>2, <1>3, <2>1
    <3>2. x[i] \in Range(ms)
      BY <3>1, Members
    <3>3. QED
      BY <1>4, <3>2
  <2>2. QED
    BY <2>1
<1>6. i \in 1..Len(q) /\ x[i] = q[i]
  BY <1>2, <1>3, <1>5
<1>7. ASSUME NEW j \in 1..Len(q), i < j PROVE ~Locates(q[j], u)
  <2>1. j \in 1..Len(x) /\ x[j] = q[j]
    BY <1>2, <1>3
  <2>2. QED
    BY <1>4, <1>7, <2>1
<1>8. Locates(q[i], u)
  BY <1>4, <1>6
<1>9. q[i].kind = "delete" \/ q[i].loc = l
  BY <1>3, <1>6, <1>7, <1>8 DEF EndsAt
<1>10. QED
  BY <1>6, <1>9

\* A new write to the position becomes the last.
LEMMA EndsWith ==
    ASSUME NEW q \in Seq(Mutation), NEW ms \in Seq(Mutation), NEW m, Range(ms) = {m},
           NEW u, NEW l, Locates(m, u), m.kind = "delete" \/ m.loc = l
    PROVE  EndsAt(q \o ms, u, l)
<1>1. PICK x : x = q \o ms
  OBVIOUS
<1>2. /\ x \in Seq(Mutation) /\ Len(x) = Len(q) + Len(ms)
      /\ \A i \in 1..Len(q) + Len(ms) :
            x[i] = IF i <= Len(q) THEN q[i] ELSE ms[i - Len(q)]
  BY <1>1, ConcatProperties
<1>3. /\ Len(q) \in Nat /\ Len(ms) \in Nat /\ DOMAIN x = 1..Len(x)
  BY <1>2, LenProperties
<1>4. PICK h \in 1..Len(ms) : ms[h] = m
  BY Members
<1>5. ASSUME NEW i \in 1..Len(x), ~(i <= Len(q)) PROVE x[i] = m
  <2>1. i - Len(q) \in 1..Len(ms) /\ x[i] = ms[i - Len(q)]
    BY <1>2, <1>3, <1>5
  <2>2. x[i] \in Range(ms)
    BY <2>1, Members
  <2>3. QED
    BY <2>2
<1>6. SUFFICES ASSUME NEW i \in 1..Len(x),
                      \A j \in 1..Len(x) : i < j => ~Locates(x[j], u)
               PROVE  x[i].kind = "delete" \/ x[i].loc = l
  BY <1>1, <1>3 DEF EndsAt
<1>7. Len(x) \in 1..Len(x) /\ ~(Len(x) <= Len(q))
  BY <1>2, <1>3, <1>4
<1>8. x[Len(x)] = m
  BY <1>5, <1>7
<1>9. ~(i < Len(x))
  BY <1>6, <1>7, <1>8
<1>10. ~(i <= Len(q))
  BY <1>2, <1>3, <1>7, <1>9
<1>11. QED
  BY <1>5, <1>10

\* The last write to the position leaves last.
LEMMA EndsLeft ==
    ASSUME NEW q \in Seq(Mutation), q # <<>>, NEW u, NEW l, EndsAt(q, u, l)
    PROVE  EndsAt(Tail(q), u, l)
<1>1. PICK x : x = Tail(q)
  OBVIOUS
<1>2. /\ x \in Seq(Mutation) /\ Len(x) = Len(q) - 1 /\ \A i \in 1..Len(x) : x[i] = q[i + 1]
      /\ Len(q) \in Nat
  BY <1>1, HeadTailProperties, LenProperties
<1>3. DOMAIN x = 1..Len(x) /\ DOMAIN q = 1..Len(q)
  BY <1>2, LenProperties
<1>4. SUFFICES ASSUME NEW i \in 1..Len(x), Locates(x[i], u),
                      \A j \in 1..Len(x) : i < j => ~Locates(x[j], u)
               PROVE  x[i].kind = "delete" \/ x[i].loc = l
  BY <1>1, <1>3 DEF EndsAt
<1>5. i + 1 \in 1..Len(q) /\ x[i] = q[i + 1]
  BY <1>2
<1>6. ASSUME NEW j \in 1..Len(q), i + 1 < j PROVE ~Locates(q[j], u)
  <2>1. PICK h \in Int : h = j - 1
    OBVIOUS
  <2>2. h \in 1..Len(x) /\ i < h /\ h + 1 = j
    BY <1>2, <1>6, <2>1
  <2>3. x[h] = q[j] /\ ~Locates(x[h], u)
    BY <1>2, <1>4, <2>2
  <2>4. QED
    BY <2>3
<1>7. QED
  BY <1>3, <1>4, <1>5, <1>6 DEF EndsAt

\* A write to the position that is answered has another one behind it, deletes
\* the document, or writes the last position.
LEMMA EndsAnswered ==
    ASSUME NEW q \in Seq(Mutation), NEW k \in Nat, k + 1 <= Len(q), NEW u, NEW l,
           EndsAt(q, u, l), Locates(q[k + 1], u),
           \A m \in After(q, k + 1) : ~Locates(m, u)
    PROVE  q[k + 1].kind = "delete" \/ q[k + 1].loc = l
<1>1. Len(q) \in Nat /\ DOMAIN q = 1..Len(q) /\ k + 1 \in 1..Len(q)
  BY LenProperties
<1>2. ASSUME NEW j \in 1..Len(q), k + 1 < j PROVE ~Locates(q[j], u)
  <2>1. q[j] \in After(q, k + 1)
    BY <1>2, Members
  <2>2. QED
    BY <2>1
<1>3. QED
  BY <1>1, <1>2 DEF EndsAt

-----------------------------------------------------------------------------
(* What a step does to the queues.                                         *)

\* The writes W join the queue of the account the SDK of d works for, and
\* nothing that waits unanswered is lost.
Issues(d, W) ==
    /\ \A e \in Device, o \in Owner :
          /\ Range(queue'[e][o])
                \subseteq Range(queue[e][o]) \cup (IF e = d /\ o = fsUser[d] THEN W ELSE {})
          /\ Unanswered(e, o) \subseteq Unanswered(e, o)'
    /\ \A o \in Owner : o = fsUser[d] => W \subseteq Unanswered(d, o)'
    /\ \A e \in Device, u \in User :
          setData(u) \notin W =>
              /\ Undone(queue[e][u], u) => Undone(queue'[e][u], u)
              /\ e = d /\ u = fsUser[d] /\ deleteDoc(u) \in W => Undone(queue'[e][u], u)
    /\ \A l : \A e \in Device, u \in User :
          /\ EndsAt(queue[e][u], u, l)
             /\ (e = d /\ u = fsUser[d] => \A m \in W : ~Locates(m, u)) =>
                EndsAt(queue'[e][u], u, l)
          /\ \A m : W = {m} /\ Locates(m, u) /\ (m.kind = "delete" \/ m.loc = l)
                     /\ e = d /\ u = fsUser[d] =>
                EndsAt(queue'[e][u], u, l)

\* The types of the queues and of the number of answers.
LEMMA Types ==
    ASSUME TypeInv
    PROVE  \A d \in Device :
              /\ fsUser[d] \in Owner /\ Len(resp[d]) \in Nat
              /\ resp[d] # <<>> => Len(resp[d]) # 0
              /\ \A o \in Owner :
                    /\ queue[d][o] \in Seq(Mutation) /\ Answered(d, o) \in Nat
                    /\ Answered(d, o) <= Len(queue[d][o])
<1>1. /\ \A d \in Device : fsUser[d] \in Owner /\ resp[d] \in Seq(Response)
                           /\ Len(resp[d]) <= Len(queue[d][fsUser[d]])
      /\ \A d \in Device, o \in Owner : queue[d][o] \in Seq(Mutation)
  BY DEF TypeInv, TypeOK, AnswersMatchPending, Pending
<1>2. /\ \A d \in Device : Len(resp[d]) \in Nat /\ (resp[d] # <<>> => Len(resp[d]) # 0)
      /\ \A d \in Device, o \in Owner : Len(queue[d][o]) \in Nat
  BY <1>1, LenProperties, EmptySeq
<1>3. QED
  BY <1>1, <1>2 DEF Answered

\* The writes of one handler.
LEMMA EnqueueIssues ==
    ASSUME TypeInv, NEW d \in Device, NEW ms \in Seq(Mutation), Enqueue(d, ms),
           fsUser' = fsUser, resp' = resp
    PROVE  Issues(d, Range(ms))
<1>1. PICK f : f = fsUser[d]
  OBVIOUS
<1>2. PICK q : q = queue[d][f]
  OBVIOUS
<1>3. PICK x : x = q \o ms
  OBVIOUS
<1>4. f \in Owner /\ q \in Seq(Mutation)
  BY <1>1, <1>2, Types
<1>5. queue'[d][f] = x /\ \A e \in Device, o \in Owner :
         ~(e = d /\ o = f) => queue'[e][o] = queue[e][o]
  BY <1>1, <1>2, <1>3, <1>4 DEF Enqueue, TypeInv, TypeOK
<1>6. \A e \in Device, o \in Owner : Answered(e, o)' = Answered(e, o)
  BY DEF Answered
<1>7. Answered(d, f) \in Nat /\ Answered(d, f) <= Len(q)
  BY <1>2, <1>4, Types
<1>8. /\ Range(x) = Range(q) \cup Range(ms)
      /\ After(q, Answered(d, f)) \cup Range(ms) \subseteq After(x, Answered(d, f))
  BY <1>3, <1>4, <1>7, Joined
<1>9. ASSUME NEW e \in Device, NEW o \in Owner
      PROVE  /\ Range(queue'[e][o])
                   \subseteq Range(queue[e][o]) \cup (IF e = d /\ o = f THEN Range(ms) ELSE {})
             /\ Unanswered(e, o) \subseteq Unanswered(e, o)'
  <2>1. CASE e = d /\ o = f
    BY <1>2, <1>5, <1>6, <1>8, <2>1 DEF Unanswered
  <2>2. CASE ~(e = d /\ o = f)
    BY <1>5, <1>6, <2>2 DEF Unanswered
  <2>3. QED
    BY <2>1, <2>2
<1>10. Range(ms) \subseteq Unanswered(d, f)'
  BY <1>4, <1>5, <1>6, <1>8, Zenon DEF Unanswered
<1>11. ASSUME NEW e \in Device, NEW u \in User, setData(u) \notin Range(ms)
       PROVE  /\ Undone(queue[e][u], u) => Undone(queue'[e][u], u)
              /\ e = d /\ u = f /\ deleteDoc(u) \in Range(ms) => Undone(queue'[e][u], u)
  <2>1. CASE e = d /\ u = f
    <3>1. Undone(q, u) \/ deleteDoc(u) \in Range(ms) => Undone(x, u)
      BY <1>3, <1>4, <1>11, JoinedUndone
    <3>2. QED
      BY <1>2, <1>5, <2>1, <3>1
  <2>2. CASE ~(e = d /\ u = f)
    <3>1. u \in Owner
      BY DEF Owner
    <3>2. queue'[e][u] = queue[e][u]
      BY <1>5, <2>2, <3>1
    <3>3. QED
      BY <2>2, <3>2
  <2>3. QED
    BY <2>1, <2>2
<1>12. ASSUME NEW e \in Device, NEW u \in User, NEW l
       PROVE  /\ EndsAt(queue[e][u], u, l)
                 /\ (e = d /\ u = f => \A m \in Range(ms) : ~Locates(m, u)) =>
                    EndsAt(queue'[e][u], u, l)
              /\ \A m : Range(ms) = {m} /\ Locates(m, u) /\ (m.kind = "delete" \/ m.loc = l)
                         /\ e = d /\ u = f =>
                    EndsAt(queue'[e][u], u, l)
  <2>1. CASE e = d /\ u = f
    <3>1. EndsAt(q, u, l) /\ (\A m \in Range(ms) : ~Locates(m, u)) => EndsAt(x, u, l)
      BY <1>3, <1>4, EndsJoined
    <3>2. ASSUME NEW m, Range(ms) = {m}, Locates(m, u), m.kind = "delete" \/ m.loc = l
          PROVE  EndsAt(x, u, l)
      BY <1>3, <1>4, <3>2, EndsWith
    <3>3. queue[e][u] = q /\ queue'[e][u] = x
      BY <1>2, <1>5, <2>1
    <3>4. QED
      BY <2>1, <3>1, <3>2, <3>3
  <2>2. CASE ~(e = d /\ u = f)
    <3>1. u \in Owner
      BY DEF Owner
    <3>2. queue'[e][u] = queue[e][u]
      BY <1>5, <2>2, <3>1
    <3>3. QED
      BY <2>2, <3>2
  <2>3. QED
    BY <2>1, <2>2
<1>13. QED
  BY <1>1, <1>4, <1>9, <1>10, <1>11, <1>12 DEF Issues

\* An answer arrives, and takes its write with it.
LEMMA DequeueIssues ==
    ASSUME TypeInv, NEW d \in Device, resp[d] # <<>>, fsUser' = fsUser,
           queue' = [queue EXCEPT ![d][fsUser[d]] = Tail(@)],
           resp' = [resp EXCEPT ![d] = Tail(@)] \/ resp' = [resp EXCEPT ![d] = <<>>]
    PROVE  Issues(d, {})
<1>1. PICK f : f = fsUser[d]
  OBVIOUS
<1>2. PICK q : q = queue[d][f]
  OBVIOUS
<1>3. PICK k : k = Len(resp[d])
  OBVIOUS
<1>4. f \in Owner /\ q \in Seq(Mutation) /\ k \in Nat /\ k # 0 /\ Answered(d, f) = k /\ k <= Len(q)
  BY <1>1, <1>2, <1>3, Types DEF Answered
<1>5. PICK x : x = Tail(q)
  OBVIOUS
<1>6. queue'[d][f] = x /\ \A e \in Device, o \in Owner :
         ~(e = d /\ o = f) => queue'[e][o] = queue[e][o]
  BY <1>1, <1>2, <1>4, <1>5 DEF TypeInv, TypeOK
<1>7. \A e \in Device : e # d => resp'[e] = resp[e]
  BY DEF TypeInv, TypeOK
<1>8. PICK j : j = Len(resp'[d])
  OBVIOUS
<1>9. j \in Nat /\ j < k
  <2>1. resp[d] \in Seq(Response) /\ resp'[d] \in {Tail(resp[d]), <<>>}
    BY DEF TypeInv, TypeOK
  <2>2. Len(Tail(resp[d])) = k - 1 /\ Len(<<>>) = 0
    BY <1>3, <2>1, HeadTailProperties, EmptySeq
  <2>3. CASE resp'[d] = Tail(resp[d])
    BY <1>4, <1>8, <2>2, <2>3
  <2>4. CASE resp'[d] = <<>>
    BY <1>4, <1>8, <2>2, <2>4
  <2>5. QED
    BY <2>1, <2>3, <2>4
<1>10. Answered(d, f)' = j /\ \A e \in Device, o \in Owner :
          ~(e = d /\ o = f) => Answered(e, o)' = Answered(e, o)
  BY <1>1, <1>7, <1>8 DEF Answered
<1>11. Range(x) \subseteq Range(q) /\ After(q, k) \subseteq After(x, j)
  BY <1>4, <1>5, <1>9, Left
<1>12. ASSUME NEW e \in Device, NEW o \in Owner
       PROVE  /\ Range(queue'[e][o]) \subseteq Range(queue[e][o])
              /\ Unanswered(e, o) \subseteq Unanswered(e, o)'
  <2>1. CASE e = d /\ o = f
    BY <1>2, <1>4, <1>6, <1>10, <1>11, <2>1 DEF Unanswered
  <2>2. CASE ~(e = d /\ o = f)
    BY <1>6, <1>10, <2>2 DEF Unanswered
  <2>3. QED
    BY <2>1, <2>2
<1>13. ASSUME NEW e \in Device, NEW u \in User, Undone(queue[e][u], u)
       PROVE  Undone(queue'[e][u], u)
  <2>1. CASE e = d /\ u = f
    <3>1. q # <<>>
      BY <1>4, EmptySeq
    <3>2. Undone(x, u)
      BY <1>2, <1>4, <1>5, <1>13, <2>1, <3>1, LeftUndone
    <3>3. QED
      BY <1>6, <2>1, <3>2
  <2>2. CASE ~(e = d /\ u = f)
    <3>1. u \in Owner
      BY DEF Owner
    <3>2. queue'[e][u] = queue[e][u]
      BY <1>6, <2>2, <3>1
    <3>3. QED
      BY <1>13, <3>2
  <2>3. QED
    BY <2>1, <2>2
<1>14. ASSUME NEW e \in Device, NEW u \in User, NEW l, EndsAt(queue[e][u], u, l)
       PROVE  EndsAt(queue'[e][u], u, l)
  <2>1. CASE e = d /\ u = f
    <3>1. q # <<>>
      BY <1>4, EmptySeq
    <3>2. EndsAt(x, u, l)
      BY <1>2, <1>4, <1>5, <1>14, <2>1, <3>1, EndsLeft
    <3>3. QED
      BY <1>6, <2>1, <3>2
  <2>2. CASE ~(e = d /\ u = f)
    <3>1. u \in Owner
      BY DEF Owner
    <3>2. queue'[e][u] = queue[e][u]
      BY <1>6, <2>2, <3>1
    <3>3. QED
      BY <1>14, <3>2
  <2>3. QED
    BY <2>1, <2>2
<1>15. QED
  BY <1>12, <1>13, <1>14 DEF Issues

\* Answers are lost, or read ahead: the queues stay.
LEMMA QuietIssues ==
    ASSUME TypeInv, NEW d \in Device, queue' = queue,
           \A e \in Device, o \in Owner :
               Answered(e, o)' \in Nat /\ Answered(e, o)' <= Answered(e, o)
    PROVE  Issues(d, {})
<1>1. ASSUME NEW e \in Device, NEW o \in Owner PROVE Unanswered(e, o) \subseteq Unanswered(e, o)'
  <2>1. PICK k : k = Answered(e, o)
    OBVIOUS
  <2>2. PICK j : j = Answered(e, o)'
    OBVIOUS
  <2>3. PICK q : q = queue[e][o]
    OBVIOUS
  <2>4. q \in Seq(Mutation) /\ k \in Nat /\ j \in Nat /\ j <= k /\ queue'[e][o] = q
    BY <2>1, <2>2, <2>3, Types
  <2>5. After(q, k) \subseteq After(q, j)
    BY <2>4, AfterMore
  <2>6. QED
    BY <2>1, <2>2, <2>3, <2>4, <2>5 DEF Unanswered
<1>2. QED
  BY <1>1 DEF Issues

-----------------------------------------------------------------------------
(* The parts of the invariant when writes join the queues.                 *)

\* The writes of the app, told apart.
LEMMA WriteKinds ==
    /\ \A u : setData(u).kind = "set" /\ setData(u).id = u /\ setData(u).mask = Field
    /\ \A u : deleteDoc(u).kind = "delete" /\ deleteDoc(u).id = u /\ deleteDoc(u).mask = Field
    /\ \A u, v : updatePartner(u, v).kind = "patch" /\ updatePartner(u, v).id = u
                 /\ updatePartner(u, v).mask = {"partner"} /\ updatePartner(u, v).partner = v
    /\ \A u, l : updateLocation(u, l).kind = "patch" /\ updateLocation(u, l).id = u
                 /\ updateLocation(u, l).mask = {"loc"} /\ updateLocation(u, l).loc = l
BY DEF setData, deleteDoc, updatePartner, updateLocation

\* Accounts, own writes and sign-ups under way.
LEMMA CoreKept ==
    ASSUME TypeInv, Known, OwnWrites, Creation, NEW d \in Device, NEW W, Issues(d, W),
           accounts' = accounts, docs' = docs, bare \subseteq bare',
           \A e \in Device : session'[e] \in accounts \cup {None},
           \A e \in Device : auth'[e] = "created" => Creating(e, session'[e]),
           \A m \in W : m.kind = "set" =>
               /\ m = setData(fsUser[d]) /\ fsUser[d] \in accounts
               /\ \A e \in Device : auth'[e] = "created" => session'[e] # fsUser[d],
           \A m \in W : m.kind = "delete" => m = deleteDoc(fsUser[d]) /\ fsUser[d] \in bare'
    PROVE  Known' /\ OwnWrites' /\ Creation'
<1>1. Known'
  BY DEF Known
<1>2. \A e \in Device, o \in Owner : \A m \in Range(queue'[e][o]) :
         m \in Range(queue[e][o]) \/ (e = d /\ o = fsUser[d] /\ m \in W)
  BY DEF Issues
<1>3. OwnWrites'
  <2>1. SUFFICES ASSUME NEW e \in Device, NEW o \in Owner, NEW m \in Range(queue'[e][o])
                 PROVE  /\ m.kind = "set" => m = setData(o) /\ o \in accounts'
                        /\ m.kind = "delete" => m = deleteDoc(o) /\ o \in bare'
    BY DEF OwnWrites
  <2>2. CASE m \in Range(queue[e][o])
    BY <2>2 DEF OwnWrites
  <2>3. CASE o = fsUser[d] /\ m \in W
    BY <2>3
  <2>4. QED
    BY <1>2, <2>2, <2>3
<1>4. Creation'
  <2>1. SUFFICES ASSUME NEW e \in Device, auth'[e] = "created", NEW u, u = session'[e]
                 PROVE  /\ docs'[u] = NoDoc
                        /\ \A c \in Device, o \in Owner : setData(u) \notin Range(queue'[c][o])
                        /\ \A c \in Device : auth'[c] = "created" /\ session'[c] = u => c = e
    BY DEF Creation, Creating
  <2>2. u = session'[e]
    BY <2>1
  <2>3. auth[e] = "created" /\ session[e] = u
    BY <2>1, <2>2 DEF Creating
  <2>4. /\ docs[u] = NoDoc
        /\ \A c \in Device, o \in Owner : setData(u) \notin Range(queue[c][o])
        /\ \A c \in Device : Creating(c, u) => c = e
    BY <2>3 DEF Creation
  <2>5. setData(u) \notin W
    <3>1. ASSUME setData(u) \in W PROVE FALSE
      <4>1. setData(u) = setData(fsUser[d]) /\ u # fsUser[d]
        BY <2>1, <2>2, <3>1, WriteKinds
      <4>2. QED
        BY <4>1, WriteKinds
    <3>2. QED
      BY <3>1
  <2>6. \A c \in Device, o \in Owner : setData(u) \notin Range(queue'[c][o])
    BY <1>2, <2>4, <2>5
  <2>7. ASSUME NEW c \in Device, auth'[c] = "created", session'[c] = u PROVE c = e
    <3>1. Creating(c, u)
      BY <2>7
    <3>2. QED
      BY <2>4, <3>1
  <2>8. QED
    BY <2>2, <2>4, <2>6, <2>7
<1>5. QED
  BY <1>1, <1>3, <1>4

\* A sign-up that is kept stays kept.
LEMMA KeptKept ==
    ASSUME NEW d \in Device, NEW W, Issues(d, W), docs' = docs, NEW u \in User, Kept(u),
           \A e \in Device :
               Creating(e, u) => Creating(e, u)' \/ (setData(u) \in W /\ fsUser[d] = u)
    PROVE  Kept(u)'
<1>1. u \in Owner
  BY DEF Owner
<1>2. CASE docs[u] # NoDoc
  BY <1>2 DEF Kept
<1>3. ASSUME NEW e \in Device, setData(u) \in Unanswered(e, u) PROVE Kept(u)'
  <2>1. setData(u) \in Unanswered(e, u)'
    BY <1>1, <1>3 DEF Issues
  <2>2. QED
    BY <2>1 DEF Kept
<1>4. ASSUME NEW e \in Device, Creating(e, u) PROVE Kept(u)'
  <2>1. CASE Creating(e, u)'
    BY <2>1 DEF Kept
  <2>2. CASE setData(u) \in W /\ fsUser[d] = u
    <3>1. setData(u) \in Unanswered(d, u)'
      BY <1>1, <2>2 DEF Issues
    <3>2. QED
      BY <3>1 DEF Kept
  <2>3. QED
    BY <1>4, <2>1, <2>2
<1>5. QED
  BY <1>2, <1>3, <1>4 DEF Kept

\* An account that is gone stays gone.
LEMMA GoneKept ==
    ASSUME NEW d \in Device, NEW W, Issues(d, W), docs' = docs, accounts' = accounts,
           NEW u \in User, Gone(u), setData(u) \notin W,
           \A e \in Device : Creating(e, u)' => Creating(e, u)
    PROVE  Gone(u)'
<1>1. u \in Owner
  BY DEF Owner
<1>2. u \in accounts' /\ \A e \in Device : ~Creating(e, u)'
  BY DEF Gone
<1>3. \A e \in Device : Undone(queue'[e][u], u)
  BY DEF Gone, Issues
<1>4. docs'[u] # NoDoc => \E e \in Device : deleteDoc(u) \in Unanswered(e, u)'
  BY <1>1 DEF Gone, Issues
<1>5. QED
  BY <1>2, <1>3, <1>4 DEF Gone

\* Who agreed still agrees.
LEMMA AgreedKept ==
    ASSUME NEW d \in Device, NEW W, Issues(d, W), docs' = docs,
           NEW u, NEW v, Agreed(u, v),
           \A m \in W : m.id = u /\ "partner" \in m.mask => m = updatePartner(u, v)
    PROVE  Agreed(u, v)'
<1>1. ASSUME NEW e \in Device, NEW o \in Owner, NEW m \in Range(queue'[e][o]),
             m.id = u, "partner" \in m.mask
      PROVE  m = updatePartner(u, v)
  <2>1. m \in Range(queue[e][o]) \/ m \in W
    BY DEF Issues
  <2>2. QED
    BY <1>1, <2>1 DEF Agreed
<1>2. \/ docs'[u].partner = v
      \/ \E e \in Device, o \in User : updatePartner(u, v) \in Unanswered(e, o)'
  <2>1. User \subseteq Owner
    BY DEF Owner
  <2>2. QED
    BY <2>1 DEF Agreed, Issues
<1>3. QED
  BY <1>1, <1>2 DEF Agreed

\* A bond outlives writes to the partners of others.
LEMMA BondKept ==
    ASSUME NEW d \in Device, NEW W, Issues(d, W), docs' = docs, Bonds, NEW b \in bond,
           \A m \in W : "partner" \in m.mask => m.id \notin b
    PROVE  \E u, v \in DocId : b = {u, v} /\ Agreed(u, v)' /\ Agreed(v, u)'
<1>1. PICK u, v \in DocId : b = {u, v} /\ Agreed(u, v) /\ Agreed(v, u)
  BY DEF Bonds
<1>2. \A m \in W : "partner" \in m.mask => m.id # u /\ m.id # v
  BY <1>1
<1>3. Agreed(u, v)' /\ Agreed(v, u)'
  BY <1>1, <1>2, AgreedKept
<1>4. QED
  BY <1>1, <1>3

\* Nothing is written, made or known: answers come or are lost, the account of
\* the SDK changes, a screen changes, a sign-up is forgotten.
LEMMA QuietKept ==
    ASSUME TypeInv, KeptInv, NEW d \in Device, Issues(d, {}),
           accounts' = accounts, docs' = docs, bare \subseteq bare', gone' = gone, bond' = bond,
           \A e \in Device : session'[e] \in accounts \cup {None},
           \A e \in Device : auth'[e] = "created" => Creating(e, session'[e]),
           \A e \in Device : auth[e] = "created" =>
               auth'[e] = "created" \/ session[e] \in bare'
    PROVE  KeptInv'
<1>1. Known' /\ OwnWrites' /\ Creation'
  BY CoreKept DEF KeptInv
<1>2. accounts \subseteq User
  BY DEF TypeInv, TypeOK
<1>3. ASSUME NEW u \in accounts' \ bare' PROVE Kept(u)'
  <2>1. u \in User /\ Kept(u)
    BY <1>2 DEF KeptInv
  <2>2. \A e \in Device : Creating(e, u) => Creating(e, u)'
    BY DEF Creating
  <2>3. QED
    BY <2>1, <2>2, KeptKept
<1>4. ASSUME NEW u \in gone' PROVE Gone(u)'
  <2>1. u \in User /\ Gone(u)
    BY DEF KeptInv
  <2>2. \A e \in Device : Creating(e, u)' => Creating(e, u)
    BY DEF Creating
  <2>3. QED
    BY <2>1, <2>2, GoneKept
<1>5. Bonds'
  <2>1. \A b \in bond : \E u, v \in DocId : b = {u, v} /\ Agreed(u, v)' /\ Agreed(v, u)'
    BY BondKept DEF KeptInv
  <2>2. QED
    BY <2>1 DEF Bonds
<1>6. gone' \subseteq User
  BY DEF KeptInv
<1>7. QED
  BY <1>1, <1>3, <1>4, <1>5, <1>6 DEF KeptInv

\* Fields of documents that are there are written: no document is made or
\* deleted.
LEMMA PatchKept ==
    ASSUME TypeInv, KeptInv, NEW d \in Device, NEW W, Issues(d, W),
           \A m \in W : m.kind = "patch",
           UNCHANGED <<accounts, docs, bare, gone, session, auth>>, Bonds'
    PROVE  KeptInv'
<1>1. Known' /\ OwnWrites' /\ Creation'
  <2>1. \A e \in Device : session'[e] \in accounts \cup {None}
    BY DEF KeptInv, Known
  <2>2. \A e \in Device : auth'[e] = "created" => Creating(e, session'[e])
    BY DEF Creating
  <2>3. \A m \in W : m.kind # "set" /\ m.kind # "delete"
    OBVIOUS
  <2>4. accounts' = accounts /\ docs' = docs /\ bare \subseteq bare'
    OBVIOUS
  <2>5. QED
    BY <2>1, <2>2, <2>3, <2>4, CoreKept DEF KeptInv
<1>2. \A u : setData(u) \notin W
  BY WriteKinds
<1>3. ASSUME NEW u \in accounts' \ bare' PROVE Kept(u)'
  <2>1. u \in User /\ Kept(u)
    BY DEF KeptInv, TypeInv, TypeOK
  <2>2. \A e \in Device : Creating(e, u) => Creating(e, u)'
    BY DEF Creating
  <2>3. QED
    BY <2>1, <2>2, KeptKept
<1>4. ASSUME NEW u \in gone' PROVE Gone(u)'
  <2>1. u \in User /\ Gone(u)
    BY DEF KeptInv
  <2>2. \A e \in Device : Creating(e, u)' => Creating(e, u)
    BY DEF Creating
  <2>3. QED
    BY <1>2, <2>1, <2>2, GoneKept
<1>5. QED
  BY <1>1, <1>3, <1>4 DEF KeptInv

-----------------------------------------------------------------------------
(* The server, and new accounts.                                           *)

\* What the server makes of the write m from the queue of the account o: it may
\* refuse one that needs a document, or one from nobody.
Served(m, o) ==
    \/ IsValidFor(m, docs[m.id]) /\ docs' = [docs EXCEPT ![m.id] = applyTo(m, @)]
    \/ (~IsValidFor(m, docs[m.id]) \/ o = None) /\ docs' = docs

\* Which documents the server makes, deletes and leaves.
LEMMA ServedIs ==
    ASSUME TypeInv, OwnWrites, NEW d \in Device, NEW o \in Owner,
           NEW m \in Range(queue[d][o]), m \in Mutation, Served(m, o)
    PROVE  /\ m.id \in DocId /\ \A id \in DocId : id # m.id => docs'[id] = docs[id]
           /\ m.kind = "set" =>
                m = setData(o) /\ m.id = o /\ o \in accounts /\ docs'[m.id] # NoDoc
           /\ m.kind = "delete" =>
                m = deleteDoc(o) /\ m.id = o /\ o \in bare /\ docs'[m.id] = NoDoc
           /\ m.kind = "patch" => (docs'[m.id] # NoDoc <=> docs[m.id] # NoDoc)
           /\ m.kind \in {"set", "delete", "patch"}
<1>1. m.id \in DocId /\ m.kind \in {"set", "delete", "patch"} /\ None \notin DocId
      /\ m.partner \in Partner /\ m.loc \in Position
  <2>1. None \notin DocId
    BY DocAssumption DEF DocId
  <2>2. m.id \in DocId /\ m.kind \in {"set", "delete", "patch"}
        /\ m.partner \in Partner /\ m.loc \in Position
    BY DEF Mutation
  <2>3. QED
    BY <2>1, <2>2
<1>2. docs \in [DocId -> MaybeDoc] /\ accounts \subseteq User
  BY DEF TypeInv, TypeOK
<1>3. \A id \in DocId : id # m.id => docs'[id] = docs[id]
  BY <1>1, <1>2 DEF Served
<1>4. CASE m.kind = "set"
  <2>1. m = setData(o) /\ m.id = o /\ o \in accounts
    BY <1>4, WriteKinds DEF OwnWrites
  <2>2. o # None /\ IsValidFor(m, docs[m.id])
    BY <1>1, <1>2, <1>4, <2>1 DEF IsValidFor
  <2>3. docs'[m.id] = [partner |-> m.partner, loc |-> m.loc]
    BY <1>1, <1>2, <1>4, <2>2 DEF Served, applyTo
  <2>4. [partner |-> m.partner, loc |-> m.loc] \in Doc
    BY <1>1 DEF Doc
  <2>5. docs'[m.id] # NoDoc
    BY <2>3, <2>4, NoDocAssumption, Zenon
  <2>6. QED
    BY <1>1, <1>3, <1>4, <2>1, <2>5
<1>5. CASE m.kind = "delete"
  <2>1. m = deleteDoc(o) /\ m.id = o /\ o \in bare
    BY <1>5, WriteKinds DEF OwnWrites
  <2>2. o # None /\ IsValidFor(m, docs[m.id])
    BY <1>1, <1>5, <2>1 DEF IsValidFor
  <2>3. docs'[m.id] = NoDoc
    BY <1>1, <1>2, <1>5, <2>2 DEF Served, applyTo
  <2>4. QED
    BY <1>1, <1>3, <1>5, <2>1, <2>3
<1>6. CASE m.kind = "patch"
  <2>1. CASE docs' = docs
    BY <1>1, <1>3, <1>6, <2>1
  <2>2. CASE IsValidFor(m, docs[m.id]) /\ docs' = [docs EXCEPT ![m.id] = applyTo(m, @)]
    <3>1. docs[m.id] # NoDoc /\ docs'[m.id] = patchObjectValue(m, docs[m.id])
      BY <1>1, <1>2, <1>6, <2>2 DEF IsValidFor, applyTo
    <3>2. docs[m.id] \in Doc
      BY <1>1, <1>2, <3>1 DEF MaybeDoc
    <3>3. patchObjectValue(m, docs[m.id]) \in Doc
      BY <1>1, <3>2 DEF patchObjectValue, Doc
    <3>4. docs'[m.id] # NoDoc
      BY <3>1, <3>3, NoDocAssumption, Zenon
    <3>5. QED
      BY <1>1, <1>3, <1>6, <3>1, <3>4
  <2>3. QED
    BY <2>1, <2>2 DEF Served
<1>7. QED
  BY <1>1, <1>4, <1>5, <1>6

\* A patch of the partner sets it, or nothing.
LEMMA ServedPartner ==
    ASSUME TypeInv, NEW m \in Mutation, m.kind = "patch", docs[m.id] # NoDoc,
           NEW o, Served(m, o)
    PROVE  /\ "partner" \notin m.mask => docs'[m.id].partner = docs[m.id].partner
           /\ "partner" \in m.mask =>
                docs'[m.id].partner = m.partner \/ docs'[m.id].partner = docs[m.id].partner
           /\ "partner" \in m.mask /\ o # None => docs'[m.id].partner = m.partner
<1>1. m.id \in DocId /\ docs \in [DocId -> MaybeDoc]
  BY DEF Mutation, TypeInv, TypeOK
<1>2. IsValidFor(m, docs[m.id])
  BY DEF IsValidFor
<1>3. applyTo(m, docs[m.id]) = patchObjectValue(m, docs[m.id])
  BY <1>2 DEF applyTo
<1>4. QED
  BY <1>1, <1>2, <1>3 DEF Served, patchObjectValue

\* The server answers the write m, the next of the queue of fsUser[d].
Answers(d, m) ==
    /\ m \in Mutation /\ m \in Range(queue[d][fsUser[d]]) /\ Served(m, fsUser[d])
    /\ \A e \in Device, o \in Owner : \A x \in Unanswered(e, o) :
          x \in Unanswered(e, o)' \/ (x = m /\ e = d /\ o = fsUser[d])
    /\ \A u : m = setData(u) /\ Undone(queue[d][fsUser[d]], u) =>
          deleteDoc(u) \in Unanswered(d, fsUser[d])'
    /\ \A u, l : EndsAt(queue[d][fsUser[d]], u, l) /\ Locates(m, u) =>
          \/ m.kind = "delete" \/ m.loc = l
          \/ \E x \in Unanswered(d, fsUser[d])' : Locates(x, u)
    /\ UNCHANGED <<accounts, fsUser, queue, session, auth>>

\* Serve answers the next write.
LEMMA ServeAnswers ==
    ASSUME TypeInv, NEW d \in Device, Serve(d)
    PROVE  \E m : Answers(d, m)
<1>1. PICK f : f = fsUser[d]
  OBVIOUS
<1>2. PICK q : q = queue[d][f]
  OBVIOUS
<1>3. PICK k : k = Len(resp[d])
  OBVIOUS
<1>4. f \in Owner /\ q \in Seq(Mutation) /\ k \in Nat
  BY <1>1, <1>2, <1>3, Types
<1>5. k + 1 <= Len(q)
  BY <1>1, <1>2, <1>3 DEF Serve, Pending
<1>6. PICK m : m = q[k + 1]
  OBVIOUS
<1>7. /\ m \in Range(q) /\ m \in Mutation
      /\ After(q, k) \subseteq After(q, k + 1) \cup {m}
      /\ \A u : Undone(q, u) /\ m = setData(u) => deleteDoc(u) \in After(q, k + 1)
  BY <1>4, <1>5, <1>6, AnsweredNext
<1>8. Served(m, f)
  BY <1>1, <1>2, <1>3, <1>6 DEF Serve, Pending, Served
<1>9. UNCHANGED <<accounts, fsUser, queue, session, auth>>
  BY DEF Serve, app
<1>10. /\ Len(resp'[d]) = k + 1
       /\ \A e \in Device : e # d => resp'[e] = resp[e]
  <2>1. resp \in [Device -> Seq(Response)]
    BY DEF TypeInv, TypeOK
  <2>2. \E r \in Response : resp' = [resp EXCEPT ![d] = Append(@, r)]
    <3>1. [ok |-> TRUE, seen |-> FALSE] \in Response /\ [ok |-> FALSE, seen |-> FALSE] \in Response
      BY DEF Response
    <3>2. \/ resp' = [resp EXCEPT ![d] = Append(@, [ok |-> TRUE, seen |-> FALSE])]
          \/ resp' = [resp EXCEPT ![d] = Append(@, [ok |-> FALSE, seen |-> FALSE])]
      BY DEF Serve
    <3>3. QED
      BY <3>1, <3>2
  <2>3. PICK r \in Response : resp' = [resp EXCEPT ![d] = Append(@, r)]
    BY <2>2
  <2>4. resp[d] \in Seq(Response)
    BY <2>1
  <2>5. Len(Append(resp[d], r)) = Len(resp[d]) + 1
    BY <2>4, AppendProperties
  <2>6. QED
    BY <1>3, <2>1, <2>3, <2>5
<1>11. /\ Answered(d, f) = k /\ Answered(d, f)' = k + 1
       /\ \A e \in Device, o \in Owner : ~(e = d /\ o = f) => Answered(e, o)' = Answered(e, o)
  BY <1>1, <1>3, <1>9, <1>10 DEF Answered
<1>12. ASSUME NEW e \in Device, NEW o \in Owner, NEW x \in Unanswered(e, o)
       PROVE  x \in Unanswered(e, o)' \/ (x = m /\ e = d /\ o = f)
  <2>1. CASE e = d /\ o = f
    BY <1>2, <1>7, <1>9, <1>11, <1>12, <2>1 DEF Unanswered
  <2>2. CASE ~(e = d /\ o = f)
    BY <1>9, <1>11, <1>12, <2>2 DEF Unanswered
  <2>3. QED
    BY <2>1, <2>2
<1>13. Unanswered(d, f)' = After(q, k + 1)
  BY <1>2, <1>9, <1>11 DEF Unanswered
<1>14. ASSUME NEW u, NEW l, EndsAt(q, u, l), Locates(m, u)
       PROVE  m.kind = "delete" \/ m.loc = l \/ \E x \in After(q, k + 1) : Locates(x, u)
  BY <1>4, <1>5, <1>6, <1>14, EndsAnswered
<1>15. Answers(d, m)
  BY <1>1, <1>2, <1>7, <1>8, <1>9, <1>12, <1>13, <1>14 DEF Answers
<1>16. QED
  BY <1>15

\* The invariant when the server answers.
LEMMA ServeKept ==
    ASSUME TypeInv, KeptInv, NEW d \in Device, Serve(d), UNCHANGED <<bare, gone, bond>>
    PROVE  KeptInv'
<1>1. PICK m : Answers(d, m)
  BY ServeAnswers
<1>2. PICK f : f = fsUser[d]
  OBVIOUS
<1>3. f \in Owner /\ m \in Range(queue[d][f]) /\ m \in Mutation /\ Served(m, f)
  BY <1>1, <1>2, Types DEF Answers
<1>4. /\ m.id \in DocId /\ \A id \in DocId : id # m.id => docs'[id] = docs[id]
      /\ m.kind = "set" => m = setData(f) /\ m.id = f /\ f \in accounts /\ docs'[m.id] # NoDoc
      /\ m.kind = "delete" => m = deleteDoc(f) /\ m.id = f /\ f \in bare /\ docs'[m.id] = NoDoc
      /\ m.kind = "patch" => (docs'[m.id] # NoDoc <=> docs[m.id] # NoDoc)
      /\ m.kind \in {"set", "delete", "patch"}
  BY <1>3, ServedIs DEF KeptInv
<1>5. UNCHANGED <<accounts, fsUser, queue, session, auth>>
  BY <1>1 DEF Answers
<1>6. \A e \in Device, o \in Owner : \A x \in Unanswered(e, o) :
         x \in Unanswered(e, o)' \/ (x = m /\ e = d /\ o = f)
  BY <1>1, <1>2 DEF Answers
<1>7. User \subseteq Owner /\ User \subseteq DocId /\ accounts \subseteq User
  BY DEF Owner, DocId, TypeInv, TypeOK
<1>8. Known'
  <2>1. ASSUME NEW id \in DocId, docs'[id] # NoDoc PROVE id \in accounts
    <3>1. CASE id = m.id
      BY <1>4, <2>1, <3>1 DEF KeptInv, Known
    <3>2. CASE id # m.id
      BY <1>4, <2>1, <3>2 DEF KeptInv, Known
    <3>3. QED
      BY <3>1, <3>2
  <2>2. QED
    BY <1>5, <2>1 DEF KeptInv, Known
<1>9. OwnWrites'
  BY <1>5 DEF KeptInv, OwnWrites
<1>10. Creation'
  <2>1. ASSUME NEW e \in Device, auth[e] = "created" PROVE docs'[session[e]] = NoDoc
    <3>1. PICK u : u = session[e]
      OBVIOUS
    <3>2. u \in User
      BY <2>1, <3>1 DEF TypeInv, SignInUnderWay
    <3>3. docs[u] = NoDoc /\ setData(u) \notin Range(queue[d][f])
      BY <1>3, <2>1, <3>1 DEF KeptInv, Creation
    <3>4. CASE m.id # u
      BY <1>4, <1>7, <3>1, <3>2, <3>3, <3>4
    <3>5. CASE m.id = u
      <4>1. m.kind # "set"
        BY <1>3, <1>4, <3>3, <3>5
      <4>2. QED
        BY <1>4, <3>1, <3>3, <3>5, <4>1
    <3>6. QED
      BY <3>4, <3>5
  <2>2. QED
    BY <1>5, <2>1 DEF KeptInv, Creation, Creating
<1>11. ASSUME NEW u \in accounts' \ bare' PROVE Kept(u)'
  <2>1. u \in accounts /\ u \notin bare /\ u \in DocId /\ u \in Owner /\ Kept(u)
    BY <1>5, <1>7 DEF KeptInv
  <2>2. CASE docs[u] # NoDoc
    <3>1. docs'[u] # NoDoc
      BY <1>4, <2>1, <2>2
    <3>2. QED
      BY <3>1 DEF Kept
  <2>3. ASSUME NEW e \in Device, setData(u) \in Unanswered(e, u) PROVE Kept(u)'
    <3>1. CASE setData(u) \in Unanswered(e, u)'
      BY <3>1 DEF Kept
    <3>2. CASE setData(u) = m
      <4>1. docs'[u] # NoDoc
        BY <1>4, <3>2, WriteKinds
      <4>2. QED
        BY <4>1 DEF Kept
    <3>3. QED
      BY <1>6, <2>1, <2>3, <3>1, <3>2
  <2>4. ASSUME NEW e \in Device, Creating(e, u) PROVE Kept(u)'
    <3>1. Creating(e, u)'
      BY <1>5, <2>4 DEF Creating
    <3>2. QED
      BY <3>1 DEF Kept
  <2>5. QED
    BY <2>1, <2>2, <2>3, <2>4 DEF Kept
<1>12. ASSUME NEW u \in gone' PROVE Gone(u)'
  <2>1. u \in User /\ u \in DocId /\ u \in Owner /\ Gone(u)
    BY <1>7 DEF KeptInv
  <2>2. u \in accounts' /\ \A e \in Device : ~Creating(e, u)'
    BY <1>5, <2>1 DEF Gone, Creating
  <2>3. \A e \in Device : Undone(queue'[e][u], u)
    BY <1>5, <2>1 DEF Gone
  <2>4. ASSUME docs'[u] # NoDoc PROVE \E e \in Device : deleteDoc(u) \in Unanswered(e, u)'
    <3>1. CASE docs[u] # NoDoc
      <4>1. PICK e \in Device : deleteDoc(u) \in Unanswered(e, u)
        BY <2>1, <3>1 DEF Gone
      <4>2. deleteDoc(u) # m
        BY <1>4, <2>4, WriteKinds
      <4>3. QED
        BY <1>6, <2>1, <4>1, <4>2
    <3>2. CASE docs[u] = NoDoc
      <4>1. m.id = u /\ m.kind = "set"
        BY <1>4, <2>1, <2>4, <3>2
      <4>2. m = setData(u) /\ f = u
        BY <1>4, <4>1
      <4>3. Undone(queue[d][f], u)
        BY <2>1, <4>2 DEF Gone
      <4>4. deleteDoc(u) \in Unanswered(d, f)'
        BY <1>1, <1>2, <4>2, <4>3 DEF Answers
      <4>5. QED
        BY <4>2, <4>4
    <3>3. QED
      BY <3>1, <3>2
  <2>5. QED
    BY <2>2, <2>3, <2>4 DEF Gone
<1>13. ASSUME NEW u \in DocId, NEW v, Agreed(u, v) PROVE Agreed(u, v)'
  <2>1. \A e \in Device, o \in Owner : \A x \in Range(queue'[e][o]) :
           x.id = u /\ "partner" \in x.mask => x = updatePartner(u, v)
    BY <1>5, <1>13 DEF Agreed
  <2>2. CASE m.id # u
    <3>1. docs'[u] = docs[u]
      BY <1>4, <2>2
    <3>2. m # updatePartner(u, v)
      BY <2>2, WriteKinds
    <3>3. docs'[u].partner = v
          \/ \E e \in Device, o \in User : updatePartner(u, v) \in Unanswered(e, o)'
      BY <1>6, <1>7, <1>13, <3>1, <3>2 DEF Agreed
    <3>4. docs'[u] # NoDoc
      BY <1>13, <3>1 DEF Agreed
    <3>5. QED
      BY <2>1, <3>3, <3>4 DEF Agreed
  <2>3. CASE m.id = u
    <3>1. "partner" \in m.mask => m = updatePartner(u, v)
      BY <1>3, <1>13, <2>3 DEF Agreed
    <3>2. m.kind = "patch"
      <4>1. "partner" \in Field
        BY DEF Field
      <4>2. "partner" \in m.mask => m.kind = "patch"
        BY <3>1, WriteKinds
      <4>3. m.kind # "patch" => m.mask = Field
        BY <1>3 DEF Mutation
      <4>4. QED
        BY <4>1, <4>2, <4>3
    <3>3. docs[u] # NoDoc /\ docs'[u] # NoDoc
      BY <1>4, <1>13, <2>3, <3>2 DEF Agreed
    <3>4. /\ "partner" \notin m.mask => docs'[u].partner = docs[u].partner
          /\ "partner" \in m.mask =>
                docs'[u].partner = m.partner \/ docs'[u].partner = docs[u].partner
          /\ "partner" \in m.mask /\ f # None => docs'[u].partner = m.partner
      BY <1>3, <2>3, <3>2, <3>3, ServedPartner
    <3>5. "partner" \in m.mask => m.partner = v
      BY <3>1, WriteKinds
    <3>6. CASE docs[u].partner = v
      <4>1. docs'[u].partner = v
        BY <3>4, <3>5, <3>6
      <4>2. QED
        BY <2>1, <3>3, <4>1 DEF Agreed
    <3>7. ASSUME NEW e \in Device, NEW o \in User, updatePartner(u, v) \in Unanswered(e, o)
          PROVE  Agreed(u, v)'
      <4>1. CASE updatePartner(u, v) \in Unanswered(e, o)'
        BY <2>1, <3>3, <4>1 DEF Agreed
      <4>2. CASE updatePartner(u, v) = m /\ o = f
        <5>1. f # None
          BY <4>2, DocAssumption
        <5>2. docs'[u].partner = v
          BY <3>4, <4>2, <5>1, WriteKinds
        <5>3. QED
          BY <2>1, <3>3, <5>2 DEF Agreed
      <4>3. QED
        BY <1>6, <1>7, <3>7, <4>1, <4>2
    <3>8. QED
      BY <1>13, <3>6, <3>7 DEF Agreed
  <2>4. QED
    BY <2>2, <2>3
<1>14. Bonds'
  <2>1. \A b \in bond : \E u, v \in DocId : b = {u, v} /\ Agreed(u, v)' /\ Agreed(v, u)'
    BY <1>13 DEF KeptInv, Bonds
  <2>2. QED
    BY <2>1 DEF Bonds
<1>15. gone' \subseteq User
  BY DEF KeptInv
<1>16. QED
  BY <1>8, <1>9, <1>10, <1>11, <1>12, <1>14, <1>15 DEF KeptInv

\* An account is created: the phone that hears of it has its document to write,
\* and no other phone, document or write knows it yet.
LEMMA CreateKept ==
    ASSUME TypeInv, KeptInv, NEW d \in Device, NEW u \in User, MCCreateUser(d, u)
    PROVE  KeptInv'
<1>1. /\ auth[d] = "creating" /\ u \notin accounts /\ accounts' = accounts \cup {u}
      /\ UNCHANGED <<docs, fsUser, queue, resp, gone, bond>>
  BY DEF MCCreateUser, CreateUser, sdk
<1>2. session \in [Device -> Owner] /\ auth \in [Device -> AuthState] /\ u # None
      /\ \A e \in Device : auth[e] = "created" => session[e] \in User
  BY DocAssumption DEF TypeInv, TypeOK, SignInUnderWay
<1>3. \A e \in Device : session[e] # u /\ (auth[e] = "created" => session[e] \in accounts)
  <2>1. \A e \in Device : session[e] \in accounts \cup {None}
    BY DEF KeptInv, Known
  <2>2. None \notin User
    BY DocAssumption
  <2>3. QED
    BY <1>1, <1>2, <2>1, <2>2
<1>4. \A e \in Device : e # d => session'[e] = session[e] /\ auth'[e] = auth[e]
  BY <1>2 DEF MCCreateUser, CreateUser
<1>5. \/ session'[d] = u /\ auth'[d] = "created" /\ bare' = bare
      \/ session' = session /\ auth'[d] = "idle" /\ bare' = bare \cup {u}
  <2>1. CASE session' = [session EXCEPT ![d] = u] /\ auth' = [auth EXCEPT ![d] = "created"]
    <3>1. session'[d] = u /\ auth'[d] = "created"
      BY <1>2, <2>1
    <3>2. session' # session
      BY <1>3, <3>1
    <3>3. QED
      BY <3>1, <3>2 DEF MCCreateUser
  <2>2. CASE session' = session /\ auth' = [auth EXCEPT ![d] = "idle"]
    BY <1>2, <2>2 DEF MCCreateUser
  <2>3. QED
    BY <2>1, <2>2 DEF MCCreateUser, CreateUser
<1>6. \A e \in Device, o \in Owner : Unanswered(e, o)' = Unanswered(e, o)
  BY <1>1 DEF Unanswered, Answered
<1>7. Known'
  <2>1. \A e \in Device : session'[e] \in accounts' \cup {None}
    BY <1>1, <1>4, <1>5 DEF KeptInv, Known
  <2>2. QED
    BY <1>1, <2>1 DEF KeptInv, Known
<1>8. OwnWrites'
  BY <1>1, <1>5 DEF KeptInv, OwnWrites
<1>9. Creation'
  <2>1. SUFFICES ASSUME NEW e \in Device, auth'[e] = "created", NEW w, w = session'[e]
                 PROVE  /\ docs'[w] = NoDoc
                        /\ \A c \in Device, o \in Owner : setData(w) \notin Range(queue'[c][o])
                        /\ \A c \in Device : auth'[c] = "created" /\ session'[c] = w => c = e
    BY DEF Creation, Creating
  <2>2. CASE e = d
    <3>1. w = u
      BY <1>5, <2>1, <2>2
    <3>2. docs'[u] = NoDoc
      BY <1>1 DEF KeptInv, Known, DocId
    <3>3. \A c \in Device, o \in Owner : setData(u) \notin Range(queue'[c][o])
      <4>1. ASSUME NEW c \in Device, NEW o \in Owner, setData(u) \in Range(queue[c][o]) PROVE FALSE
        <5>1. setData(u) = setData(o) /\ o \in accounts
          BY <4>1, WriteKinds DEF KeptInv, OwnWrites
        <5>2. QED
          BY <1>1, <5>1, WriteKinds
      <4>2. QED
        BY <1>1, <4>1
    <3>4. \A c \in Device : c # d => session'[c] # u
      BY <1>3, <1>4
    <3>5. QED
      BY <2>2, <3>1, <3>2, <3>3, <3>4
  <2>3. CASE e # d
    <3>1. auth[e] = "created" /\ session[e] = w /\ w \in accounts
      BY <1>3, <1>4, <2>1, <2>3
    <3>2. /\ docs[w] = NoDoc
          /\ \A c \in Device, o \in Owner : setData(w) \notin Range(queue[c][o])
          /\ \A c \in Device : Creating(c, w) => c = e
      BY <3>1 DEF KeptInv, Creation
    <3>3. ASSUME NEW c \in Device, auth'[c] = "created", session'[c] = w PROVE c = e
      <4>1. c # d
        BY <1>1, <1>5, <3>1, <3>3
      <4>2. Creating(c, w)
        BY <1>4, <3>3, <4>1 DEF Creating
      <4>3. QED
        BY <3>2, <4>2
    <3>4. QED
      BY <1>1, <3>2, <3>3
  <2>4. QED
    BY <2>2, <2>3
<1>10. ASSUME NEW w \in accounts' \ bare' PROVE Kept(w)'
  <2>1. CASE w = u
    <3>1. auth'[d] = "created" /\ session'[d] = u
      BY <1>5, <1>10, <2>1
    <3>2. Creating(d, w)'
      BY <2>1, <3>1 DEF Creating
    <3>3. QED
      BY <3>2 DEF Kept
  <2>2. CASE w # u
    <3>1. w \in accounts /\ w \notin bare /\ w \in Owner /\ Kept(w)
      BY <1>1, <1>5, <1>10, <2>2 DEF KeptInv, TypeInv, TypeOK, Owner
    <3>2. ASSUME NEW e \in Device, Creating(e, w) PROVE Creating(e, w)'
      <4>1. e # d
        BY <1>1, <3>2 DEF Creating
      <4>2. QED
        BY <1>4, <3>2, <4>1 DEF Creating
    <3>3. QED
      BY <1>1, <1>6, <3>1, <3>2 DEF Kept
  <2>3. QED
    BY <2>1, <2>2
<1>11. ASSUME NEW w \in gone' PROVE Gone(w)'
  <2>1. w \in gone /\ w \in accounts /\ w \in Owner /\ Gone(w)
    BY <1>1, <1>11 DEF KeptInv, Gone, Owner
  <2>2. ASSUME NEW e \in Device PROVE ~Creating(e, w)'
    <3>1. CASE e = d
      BY <1>1, <1>5, <2>1, <3>1 DEF Creating
    <3>2. CASE e # d
      BY <1>4, <2>1, <3>2 DEF Creating, Gone
    <3>3. QED
      BY <3>1, <3>2
  <2>3. QED
    BY <1>1, <1>6, <2>1, <2>2 DEF Gone
<1>12. Bonds'
  <2>1. ASSUME NEW w, NEW v, Agreed(w, v) PROVE Agreed(w, v)'
    BY <1>1, <1>6, <2>1 DEF Agreed, Owner
  <2>2. QED
    BY <1>1, <2>1 DEF KeptInv, Bonds
<1>13. gone' \subseteq User
  BY <1>1 DEF KeptInv
<1>14. QED
  BY <1>7, <1>8, <1>9, <1>10, <1>11, <1>12, <1>13 DEF KeptInv

-----------------------------------------------------------------------------
(* The steps that write nothing.                                           *)

\* Answers come, are lost or are read ahead, and the SDK may change accounts
\* when there are none.
LEMMA AnswersIssues ==
    ASSUME TypeInv, NEW d \in Device, queue' = queue,
           \/ fsUser' = fsUser /\ \A e \in Device : Len(resp'[e]) = Len(resp[e])
           \/ /\ \A e \in Device : e # d => fsUser'[e] = fsUser[e] /\ resp'[e] = resp[e]
              /\ resp'[d] = <<>>
    PROVE  Issues(d, {})
<1>1. ASSUME NEW e \in Device, NEW o \in Owner
      PROVE  Answered(e, o)' \in Nat /\ Answered(e, o)' <= Answered(e, o)
  <2>1. Len(resp[e]) \in Nat /\ Answered(e, o) \in Nat
    BY Types
  <2>2. CASE fsUser'[e] = fsUser[e] /\ Len(resp'[e]) = Len(resp[e])
    <3>1. Answered(e, o)' = Answered(e, o)
      BY <2>2 DEF Answered
    <3>2. QED
      BY <2>1, <3>1
  <2>3. CASE resp'[e] = <<>>
    <3>1. Answered(e, o)' = 0
      BY <2>3 DEF Answered
    <3>2. QED
      BY <2>1, <3>1
  <2>4. QED
    BY <2>2, <2>3
<1>2. QED
  BY <1>1, QuietIssues

\* A step that writes nothing: a phone on its way in or out, the SDK that
\* receives, reconnects, changes accounts or reads, a restart.
Entering(d) ==
    \/ handleSignUp(d) \/ handleLogin(d) \/ signOut(d) \/ AuthError(d)
    \/ LoginCompletion(d) \/ \E u \in User : SignIn(d, u)

Receiving(d) ==
    \/ ReceiveAck(d) \/ ReceiveReject(d) \/ UserDidChange(d) \/ Interrupt(d)
    \/ GetDocument(d) \/ updatePin(d) \/ handlePartnerRemove(d)

\* Sign-in and sign-out write nothing.
LEMMA EnteringIssues ==
    ASSUME TypeInv, NEW d \in Device, Entering(d)
    PROVE  /\ Issues(d, {}) /\ UNCHANGED <<accounts, docs>>
           /\ auth[d] # "created" /\ auth'[d] # "created"
           /\ \A e \in Device : e # d => session'[e] = session[e] /\ auth'[e] = auth[e]
           /\ session'[d] \in accounts \cup {None, session[d]}
<1>1. session \in [Device -> Owner] /\ auth \in [Device -> AuthState]
      /\ (screen[d] = "main" => auth[d] = "idle")
  BY DEF TypeInv, TypeOK, SignInUnderWay
<1>2. UNCHANGED <<accounts, docs, queue, resp, fsUser>>
  BY DEF Entering, handleSignUp, handleLogin, signOut, AuthError, LoginCompletion, SignIn,
         server, sdk
<1>3. \A e \in Device : e # d => session'[e] = session[e] /\ auth'[e] = auth[e]
  BY <1>1 DEF Entering, handleSignUp, handleLogin, signOut, AuthError, LoginCompletion, SignIn
<1>4. auth[d] # "created" /\ auth'[d] # "created"
  BY <1>1 DEF Entering, handleSignUp, handleLogin, signOut, AuthError, LoginCompletion, SignIn
<1>5. session'[d] \in accounts \cup {None, session[d]}
  BY <1>1 DEF Entering, handleSignUp, handleLogin, signOut, AuthError, LoginCompletion, SignIn
<1>6. Issues(d, {})
  BY <1>2, AnswersIssues
<1>7. QED
  BY <1>2, <1>3, <1>4, <1>5, <1>6

\* The SDK writes nothing of its own.
LEMMA ReceivingIssues ==
    ASSUME TypeInv, NEW d \in Device, Receiving(d)
    PROVE  Issues(d, {}) /\ UNCHANGED <<accounts, docs, session, auth>>
<1>1. UNCHANGED <<accounts, docs, session, auth>>
  BY DEF Receiving, ReceiveAck, ReceiveReject, UserDidChange, Interrupt, GetDocument,
         updatePin, handlePartnerRemove, server, app
<1>2. resp \in [Device -> Seq(Response)] /\ fsUser \in [Device -> Owner]
  BY DEF TypeInv, TypeOK
<1>3. CASE ReceiveAck(d) \/ ReceiveReject(d)
  <2>1. Issues(d, {})
    BY <1>3, DequeueIssues DEF ReceiveAck, ReceiveReject
  <2>2. QED
    BY <1>1, <2>1
<1>4. CASE UserDidChange(d) \/ Interrupt(d)
  <2>1. queue' = queue /\ resp'[d] = <<>>
        /\ \A e \in Device : e # d => fsUser'[e] = fsUser[e] /\ resp'[e] = resp[e]
    BY <1>2, <1>4 DEF UserDidChange, Interrupt
  <2>2. Issues(d, {})
    BY <2>1, AnswersIssues
  <2>3. QED
    BY <1>1, <2>2
<1>5. CASE GetDocument(d) \/ updatePin(d) \/ handlePartnerRemove(d)
  <2>1. queue' = queue /\ fsUser' = fsUser
    BY <1>5 DEF GetDocument, updatePin, handlePartnerRemove, sdk
  <2>2. \/ resp' = resp
        \/ \E id \in DocId : CacheDoc(d, id)
    <3>1. CASE GetDocument(d)
      <4>1. removal[d].uid \in DocId
        BY <3>1 DEF GetDocument, TypeInv, RemovalHasUser, DocId
      <4>2. QED
        BY <3>1, <4>1 DEF GetDocument
    <3>2. CASE updatePin(d)
      <4>1. PICK id \in Polled(d) : CacheDoc(d, id)
        BY <3>2 DEF updatePin
      <4>2. id \in DocId
        BY <3>2, <4>1, PolledType DEF updatePin
      <4>3. QED
        BY <4>1, <4>2
    <3>3. CASE handlePartnerRemove(d)
      BY <3>3 DEF handlePartnerRemove, sdk
    <3>4. QED
      BY <1>5, <3>1, <3>2, <3>3
  <2>3. \A e \in Device : Len(resp'[e]) = Len(resp[e])
    BY <2>2, CacheDocType
  <2>4. Issues(d, {})
    BY <2>1, <2>3, AnswersIssues
  <2>5. QED
    BY <1>1, <2>4
<1>6. QED
  BY <1>3, <1>4, <1>5 DEF Receiving

\* A restart writes nothing and forgets its own sign-up only.
LEMMA RelaunchIssues ==
    ASSUME TypeInv, NEW d \in Device, Relaunch(d)
    PROVE  /\ Issues(d, {}) /\ UNCHANGED <<accounts, docs, session>>
           /\ auth'[d] = "idle" /\ \A e \in Device : e # d => auth'[e] = auth[e]
<1>1. UNCHANGED <<accounts, docs, session, queue>>
  BY DEF Relaunch, server
<1>2. /\ fsUser \in [Device -> Owner] /\ resp \in [Device -> Seq(Response)]
      /\ auth \in [Device -> AuthState]
  BY DEF TypeInv, TypeOK
<1>3. /\ resp'[d] = <<>> /\ auth'[d] = "idle"
      /\ \A e \in Device : e # d => /\ fsUser'[e] = fsUser[e] /\ resp'[e] = resp[e]
                                    /\ auth'[e] = auth[e]
  BY <1>2 DEF Relaunch
<1>4. Issues(d, {})
  BY <1>1, <1>3, AnswersIssues
<1>5. QED
  BY <1>1, <1>3, <1>4

\* A sign-up that waits for its completion after such a step did so before.
LEMMA QuietCreating ==
    ASSUME TypeInv, NEW d \in Device, Entering(d) \/ Receiving(d) \/ Relaunch(d)
    PROVE  \A e \in Device : auth'[e] = "created" => Creating(e, session'[e])
<1>1. CASE Entering(d)
  BY <1>1, EnteringIssues DEF Creating
<1>2. CASE Receiving(d)
  BY <1>2, ReceivingIssues DEF Creating
<1>3. CASE Relaunch(d)
  BY <1>3, RelaunchIssues DEF Creating
<1>4. QED
  BY <1>1, <1>2, <1>3

\* A restart forgets a sign-up whose completion has not run: the account is bare.
LEMMA QuietStepKept ==
    ASSUME TypeInv, KeptInv, NEW d \in Device, UNCHANGED <<gone, bond>>,
           \/ (Entering(d) \/ Receiving(d)) /\ bare' = bare
           \/ /\ Relaunch(d)
              /\ bare' = IF auth[d] = "created" THEN bare \cup {session[d]} ELSE bare
    PROVE  KeptInv'
<1>1. Issues(d, {}) /\ accounts' = accounts /\ docs' = docs
  BY EnteringIssues, ReceivingIssues, RelaunchIssues
<1>2. bare \subseteq bare' /\ gone' = gone /\ bond' = bond
  OBVIOUS
<1>3. \A e \in Device : session'[e] \in accounts \cup {None}
  <2>1. \A e \in Device : session[e] \in accounts \cup {None}
    BY DEF KeptInv, Known
  <2>2. CASE Entering(d)
    BY <2>1, <2>2, EnteringIssues
  <2>3. CASE Receiving(d) \/ Relaunch(d)
    BY <2>1, <2>3, ReceivingIssues, RelaunchIssues
  <2>4. QED
    BY <2>2, <2>3
<1>4. \A e \in Device : auth'[e] = "created" => Creating(e, session'[e])
  BY QuietCreating
<1>5. \A e \in Device : auth[e] = "created" => auth'[e] = "created" \/ session[e] \in bare'
  <2>1. CASE Entering(d)
    BY <2>1, EnteringIssues
  <2>2. CASE Receiving(d)
    BY <2>2, ReceivingIssues
  <2>3. CASE Relaunch(d) /\ bare' = IF auth[d] = "created" THEN bare \cup {session[d]} ELSE bare
    BY <2>3, RelaunchIssues
  <2>4. QED
    BY <2>1, <2>2, <2>3
<1>6. QED
  BY <1>1, <1>2, <1>3, <1>4, <1>5, QuietKept

-----------------------------------------------------------------------------
(* The steps that write.                                                   *)

\* The writes of a handler as a set.
LEMMA PairRange == \A a, b : Range(<<a, b>>) = {a, b} /\ Range(<<a>>) = {a}
BY DEF Range

\* What the handlers write, and into whose queue.
LEMMA CodeIssues ==
    ASSUME TypeInv, NEW d \in Device, NEW code \in DocId, handleCode(d, code),
           NEW u, u = session[d], NEW W, W = {updatePartner(code, u), updatePartner(u, code)}
    PROVE  /\ u \in User /\ u \in DocId /\ fsUser[d] = u /\ Issues(d, W)
           /\ UNCHANGED <<accounts, docs, session, auth>>
<1>1. u \in User /\ u \in DocId /\ fsUser[d] = u
  BY DEF handleCode, TypeInv, TypeOK, MainIsSettled, Owner, DocId
<1>2. PICK ms : ms = <<updatePartner(code, u), updatePartner(u, code)>>
  OBVIOUS
<1>3. Enqueue(d, ms) /\ UNCHANGED <<accounts, docs, fsUser, resp, session, auth>>
  BY <1>2 DEF handleCode, server, app
<1>4. ms \in Seq(Mutation) /\ Range(ms) = W
  <2>1. updatePartner(code, u) \in Mutation /\ updatePartner(u, code) \in Mutation
    BY <1>1, WritesAreMutations
  <2>2. QED
    BY <1>2, <2>1, PairRange
<1>5. Issues(d, W)
  BY <1>3, <1>4, EnqueueIssues
<1>6. QED
  BY <1>1, <1>3, <1>5

\* didUpdateLocations writes the position of who is signed in.
LEMMA LocationIssues ==
    ASSUME TypeInv, NEW d \in Device, NEW l \in Loc, didUpdateLocations(d, l),
           NEW u, u = session[d], NEW W, W = {updateLocation(u, l)}
    PROVE  u \in User /\ Issues(d, W) /\ UNCHANGED <<accounts, docs, fsUser, session, auth>>
<1>1. u \in User
  BY DEF didUpdateLocations, TypeInv, TypeOK, Owner
<1>2. PICK ms : ms = <<updateLocation(u, l)>>
  OBVIOUS
<1>3. Enqueue(d, ms) /\ UNCHANGED <<accounts, docs, fsUser, resp, session, auth>>
  BY <1>2 DEF didUpdateLocations, server, app
<1>4. ms \in Seq(Mutation) /\ Range(ms) = W
  <2>1. updateLocation(u, l) \in Mutation
    BY <1>1, WritesAreMutations
  <2>2. QED
    BY <1>2, <2>1, PairRange
<1>5. Issues(d, W)
  BY <1>3, <1>4, EnqueueIssues
<1>6. QED
  BY <1>1, <1>3, <1>5

\* The callback of a removal clears two partners, or writes nothing.
LEMMA RemovalIssues ==
    ASSUME TypeInv, NEW d \in Device, RemovalCallback(d),
           NEW u, u = removal[d].uid, NEW p, p = UserDataPartner(removal[d].doc),
           NEW W, W = IF queue' = queue THEN {}
                      ELSE {updatePartner(p, Absent), updatePartner(u, Absent)}
    PROVE  Issues(d, W) /\ UNCHANGED <<accounts, docs, session, auth>>
<1>1. UNCHANGED <<accounts, docs, fsUser, resp, session, auth>>
  BY DEF RemovalCallback, server
<1>2. CASE queue' = queue
  BY <1>1, <1>2, AnswersIssues
<1>3. CASE queue' # queue
  <2>1. PICK ms : ms = <<updatePartner(p, Absent), updatePartner(u, Absent)>>
    OBVIOUS
  <2>2. Enqueue(d, ms) /\ removal[d].doc # NoDoc /\ p # None
    BY <1>3, <2>1 DEF RemovalCallback
  <2>3. u \in DocId /\ p \in DocId
    <3>1. u \in User /\ removal[d].doc \in MaybeDoc
      BY DEF RemovalCallback, TypeInv, TypeOK, RemovalHasUser, Removal
    <3>2. removal[d].doc \in Doc
      BY <2>2, <3>1 DEF MaybeDoc
    <3>3. QED
      BY <2>2, <3>1, <3>2 DEF UserDataPartner, Doc, Partner, DocId
  <2>4. ms \in Seq(Mutation) /\ Range(ms) = W
    <3>1. updatePartner(p, Absent) \in Mutation /\ updatePartner(u, Absent) \in Mutation
      BY <2>3, WritesAreMutations
    <3>2. QED
      BY <1>3, <2>1, <3>1, PairRange
  <2>5. Issues(d, W)
    BY <1>1, <2>2, <2>4, EnqueueIssues
  <2>6. QED
    BY <1>1, <2>5
<1>4. QED
  BY <1>2, <1>3

\* The completion of a sign-up writes the document to its own queue.
LEMMA CompletionIssues ==
    ASSUME TypeInv, NEW d \in Device, SignUpCompletion(d),
           NEW u, u = session[d], NEW W, W = {setData(u)}
    PROVE  /\ u \in User /\ u \in Owner /\ fsUser[d] = u /\ auth[d] = "created"
           /\ Issues(d, W) /\ UNCHANGED <<accounts, docs, session>>
           /\ auth'[d] = "idle" /\ \A e \in Device : e # d => auth'[e] = auth[e]
<1>1. u \in User /\ u \in Owner /\ fsUser[d] = u /\ auth[d] = "created"
  BY DEF SignUpCompletion, TypeInv, SignInUnderWay, Owner
<1>2. PICK ms : ms = <<setData(u)>>
  OBVIOUS
<1>3. /\ Enqueue(d, ms) /\ auth' = [auth EXCEPT ![d] = "idle"]
      /\ UNCHANGED <<accounts, docs, fsUser, resp, session>>
  BY <1>2 DEF SignUpCompletion, server
<1>4. ms \in Seq(Mutation) /\ Range(ms) = W
  <2>1. setData(u) \in Mutation
    BY <1>1, WritesAreMutations
  <2>2. QED
    BY <1>2, <2>1, PairRange
<1>5. Issues(d, W)
  BY <1>3, <1>4, EnqueueIssues
<1>6. auth'[d] = "idle" /\ \A e \in Device : e # d => auth'[e] = auth[e]
  BY <1>3 DEF TypeInv, TypeOK
<1>7. QED
  BY <1>1, <1>3, <1>5, <1>6

\* handleWithdraw deletes the document through its own queue.
LEMMA WithdrawIssues ==
    ASSUME TypeInv, NEW d \in Device, handleWithdraw(d),
           NEW u, u = session[d], NEW W, W = {deleteDoc(u)}
    PROVE  /\ u \in User /\ u \in Owner /\ fsUser[d] = u /\ auth[d] = "idle"
           /\ Issues(d, W) /\ UNCHANGED <<accounts, docs, session, auth>>
<1>1. u \in User /\ u \in Owner /\ fsUser[d] = u /\ auth[d] = "idle"
  BY DEF handleWithdraw, TypeInv, TypeOK, MainIsSettled, SignInUnderWay, Owner
<1>2. PICK ms : ms = <<deleteDoc(u)>>
  OBVIOUS
<1>3. Enqueue(d, ms) /\ UNCHANGED <<accounts, docs, fsUser, resp, session, auth>>
  BY <1>2 DEF handleWithdraw, server
<1>4. ms \in Seq(Mutation) /\ Range(ms) = W
  <2>1. deleteDoc(u) \in Mutation
    BY <1>1, WritesAreMutations
  <2>2. QED
    BY <1>2, <2>1, PairRange
<1>5. Issues(d, W)
  BY <1>3, <1>4, EnqueueIssues
<1>6. QED
  BY <1>1, <1>3, <1>5

\* Bonds outlive a step that writes the partner of nobody in them.
LEMMA BondsKept ==
    ASSUME NEW d \in Device, NEW W, Issues(d, W), docs' = docs, Bonds,
           \A b \in bond' : b \in bond /\ \A m \in W : "partner" \in m.mask => m.id \notin b
    PROVE  Bonds'
<1>1. ASSUME NEW b \in bond'
      PROVE  \E u, v \in DocId : b = {u, v} /\ Agreed(u, v)' /\ Agreed(v, u)'
  <2>1. b \in bond /\ \A m \in W : "partner" \in m.mask => m.id \notin b
    BY <1>1
  <2>2. QED
    BY <2>1, BondKept
<1>2. QED
  BY <1>1 DEF Bonds

\* What waits for the partner of u and code agrees with a code just typed.
LEMMA UncontestedAgreed ==
    ASSUME TypeInv, NEW d \in Device, NEW u \in DocId, NEW code \in DocId, Uncontested(u, code),
           NEW W, W = {updatePartner(code, u), updatePartner(u, code)},
           Issues(d, W), docs' = docs, NEW f \in User, f = fsUser[d]
    PROVE  Agreed(u, code)'
<1>1. docs'[u] # NoDoc
  BY DEF Uncontested
<1>2. ASSUME NEW e \in Device, NEW o \in Owner, NEW m \in Range(queue'[e][o]),
             m.id = u, "partner" \in m.mask
      PROVE  m = updatePartner(u, code)
  <2>1. m \in W
    <3>1. m \in Range(queue[e][o]) \/ m \in W
      BY DEF Issues
    <3>2. CASE m \in Range(queue[e][o])
      <4>1. m \in Waiting
        BY <3>2 DEF Waiting
      <4>2. m \in WritesOf({u, code}, "partner")
        BY <1>2, <4>1 DEF WritesOf
      <4>3. QED
        BY <4>2 DEF Uncontested
    <3>3. QED
      BY <3>1, <3>2
  <2>2. \A v, w : updatePartner(v, w).id = v
    BY WriteKinds
  <2>3. QED
    BY <1>2, <2>1, <2>2
<1>3. updatePartner(u, code) \in Unanswered(d, f)'
  <2>1. f \in Owner
    BY DEF Owner
  <2>2. updatePartner(u, code) \in W
    OBVIOUS
  <2>3. \A o \in Owner : o = fsUser[d] => W \subseteq Unanswered(d, o)'
    BY DEF Issues
  <2>4. QED
    BY <2>1, <2>2, <2>3
<1>4. \E e \in Device, o \in User : updatePartner(u, code) \in Unanswered(e, o)'
  BY <1>3, Zenon
<1>5. QED
  BY <1>1, <1>2, <1>4 DEF Agreed

\* A code contests the bonds of the two, and may make a new one.
LEMMA HandleCodeKept ==
    ASSUME TypeInv, KeptInv, NEW d \in Device, NEW code \in DocId, MCHandleCode(d, code)
    PROVE  KeptInv'
<1>1. PICK u : u = session[d]
  OBVIOUS
<1>2. PICK W : W = {updatePartner(code, u), updatePartner(u, code)}
  OBVIOUS
<1>3. /\ u \in User /\ u \in DocId /\ fsUser[d] = u /\ Issues(d, W)
      /\ UNCHANGED <<accounts, docs, session, auth>>
  BY <1>1, <1>2, CodeIssues DEF MCHandleCode
<1>4. u \in User /\ u \in DocId /\ fsUser[d] = u
  BY <1>3
<1>5. UNCHANGED <<accounts, docs, session, auth, bare, gone>>
  BY <1>3 DEF MCHandleCode
<1>6. Issues(d, W)
  BY <1>3
<1>7. \A m \in W : m.kind = "patch" /\ m.id \in {u, code}
  BY <1>2, WriteKinds
<1>8. Bonds'
  <2>1. ASSUME NEW b \in bond, b \cap {u, code} = {}
        PROVE  \E v, w \in DocId : b = {v, w} /\ Agreed(v, w)' /\ Agreed(w, v)'
    <3>1. \A m \in W : "partner" \in m.mask => m.id \notin b
      BY <1>7, <2>1
    <3>2. QED
      BY <1>5, <1>6, <3>1, BondKept DEF KeptInv
  <2>2. ASSUME Uncontested(u, code)
        PROVE  Agreed(u, code)' /\ Agreed(code, u)'
    <3>1. docs' = docs /\ u = fsUser[d]
      BY <1>4, <1>5
    <3>2. Agreed(u, code)'
      BY <1>4, <1>2, <1>6, <2>2, <3>1, UncontestedAgreed
    <3>3. Agreed(code, u)'
      <4>1. Uncontested(code, u) /\ W = {updatePartner(u, code), updatePartner(code, u)}
        <5>1. {code, u} = {u, code} /\ W = {updatePartner(u, code), updatePartner(code, u)}
          BY <1>2
        <5>2. WritesOf({code, u}, "partner") \subseteq W
          BY <1>2, <2>2, <5>1 DEF Uncontested
        <5>3. QED
          BY <1>2, <2>2, <5>1, <5>2 DEF Uncontested
      <4>2. QED
        BY <1>4, <1>6, <3>1, <4>1, UncontestedAgreed
    <3>4. QED
      BY <3>2, <3>3
  <2>3. ASSUME NEW b \in bond'
        PROVE  \E v, w \in DocId : b = {v, w} /\ Agreed(v, w)' /\ Agreed(w, v)'
    <3>1. b \in Apart({u, code}) \/ (Uncontested(u, code) /\ b = {u, code})
      BY <1>1, <2>3 DEF MCHandleCode
    <3>2. CASE b \in Apart({u, code})
      BY <2>1, <3>2 DEF Apart
    <3>3. CASE Uncontested(u, code) /\ b = {u, code}
      BY <1>4, <2>2, <3>3
    <3>4. QED
      BY <3>1, <3>2, <3>3
  <2>4. QED
    BY <2>3 DEF Bonds
<1>9. QED
  BY <1>5, <1>6, <1>7, <1>8, PatchKept

\* A position touches no partner and makes no document.
LEMMA LocationsKept ==
    ASSUME TypeInv, KeptInv, NEW d \in Device, NEW l \in Loc, MCUpdateLocations(d, l)
    PROVE  KeptInv'
<1>1. PICK u : u = session[d]
  OBVIOUS
<1>2. PICK W : W = {updateLocation(u, l)}
  OBVIOUS
<1>3. Issues(d, W) /\ UNCHANGED <<accounts, docs, session, auth, bare, gone, bond>>
  BY <1>1, <1>2, LocationIssues DEF MCUpdateLocations
<1>4. \A m \in W : m.kind = "patch" /\ "partner" \notin m.mask
  BY <1>2, WriteKinds
<1>5. Bonds'
  BY <1>3, <1>4, BondsKept DEF KeptInv
<1>6. QED
  BY <1>3, <1>4, <1>5, PatchKept

\* A removal contests the bonds of the two.
LEMMA RemovalCallbackKept ==
    ASSUME TypeInv, KeptInv, NEW d \in Device, MCRemovalCallback(d)
    PROVE  KeptInv'
<1>1. PICK u : u = removal[d].uid
  OBVIOUS
<1>2. PICK p : p = UserDataPartner(removal[d].doc)
  OBVIOUS
<1>3. PICK W : W = IF queue' = queue THEN {}
                   ELSE {updatePartner(p, Absent), updatePartner(u, Absent)}
  OBVIOUS
<1>4. Issues(d, W) /\ UNCHANGED <<accounts, docs, session, auth, bare, gone>>
  BY <1>1, <1>2, <1>3, RemovalIssues DEF MCRemovalCallback
<1>5. \A m \in W : m.kind = "patch" /\ m.id \in {u, p} /\ queue' # queue
  BY <1>3, WriteKinds
<1>6. bond' = IF queue' = queue THEN bond ELSE Apart({u, p})
  BY <1>1, <1>2 DEF MCRemovalCallback
<1>7. \A b \in bond' : b \in bond /\ \A m \in W : "partner" \in m.mask => m.id \notin b
  BY <1>5, <1>6 DEF Apart
<1>8. Bonds'
  BY <1>4, <1>7, BondsKept DEF KeptInv
<1>9. QED
  BY <1>4, <1>5, <1>8, PatchKept

\* The document a sign-up owes goes from its completion to the queue.
LEMMA CompletionKept ==
    ASSUME TypeInv, KeptInv, NEW d \in Device, SignUpCompletion(d),
           UNCHANGED <<bare, gone, bond>>
    PROVE  KeptInv'
<1>1. PICK u : u = session[d]
  OBVIOUS
<1>2. PICK W : W = {setData(u)}
  OBVIOUS
<1>3. /\ u \in User /\ u \in Owner /\ fsUser[d] = u /\ auth[d] = "created"
      /\ Issues(d, W) /\ UNCHANGED <<accounts, docs, session>>
      /\ auth'[d] = "idle" /\ \A e \in Device : e # d => auth'[e] = auth[e]
  BY <1>1, <1>2, CompletionIssues
<1>4. u \in User /\ u \in Owner /\ fsUser[d] = u /\ auth[d] = "created" /\ Creating(d, u)
  BY <1>1, <1>3 DEF Creating
<1>5. u \in accounts
  <2>1. u \in accounts \cup {None}
    BY <1>1 DEF KeptInv, Known
  <2>2. None \notin User
    BY DocAssumption
  <2>3. QED
    BY <1>4, <2>1, <2>2
<1>6. /\ docs[u] = NoDoc
      /\ \A e \in Device : Creating(e, u) => e = d
  BY <1>1, <1>4 DEF KeptInv, Creation
<1>7. UNCHANGED <<accounts, docs, session>>
  BY <1>3
<1>8. Issues(d, W)
  BY <1>3
<1>9. auth'[d] = "idle" /\ \A e \in Device : e # d => auth'[e] = auth[e]
  BY <1>3
<1>10. Known' /\ OwnWrites' /\ Creation'
  <2>1. \A e \in Device : session'[e] \in accounts \cup {None}
    BY <1>7 DEF KeptInv, Known
  <2>2. \A e \in Device : auth'[e] = "created" => Creating(e, session'[e])
    BY <1>7, <1>9 DEF Creating
  <2>3. \A e \in Device : auth'[e] = "created" => session'[e] # u
    <3>1. ASSUME NEW e \in Device, auth'[e] = "created", session'[e] = u PROVE FALSE
      <4>1. e # d
        BY <1>9, <3>1
      <4>2. Creating(e, u)
        BY <1>7, <1>9, <3>1, <4>1 DEF Creating
      <4>3. QED
        BY <1>6, <4>1, <4>2
    <3>2. QED
      BY <3>1
  <2>4. \A m \in W : m.kind # "delete" /\ m = setData(u)
    BY <1>2, WriteKinds
  <2>5. accounts' = accounts /\ docs' = docs /\ bare \subseteq bare'
    BY <1>7
  <2>6. QED
    BY <1>4, <1>5, <1>8, <2>1, <2>2, <2>3, <2>4, <2>5, CoreKept DEF KeptInv
<1>11. ASSUME NEW w \in accounts' \ bare' PROVE Kept(w)'
  <2>1. w \in User /\ Kept(w)
    BY <1>7 DEF KeptInv, TypeInv, TypeOK
  <2>2. \A e \in Device : Creating(e, w) => Creating(e, w)' \/ (setData(w) \in W /\ fsUser[d] = w)
    BY <1>1, <1>4, <1>2, <1>7, <1>9 DEF Creating
  <2>3. QED
    BY <1>7, <1>8, <2>1, <2>2, KeptKept
<1>12. ASSUME NEW w \in gone' PROVE Gone(w)'
  <2>1. w \in User /\ Gone(w)
    BY DEF KeptInv
  <2>2. w # u
    BY <1>4, <2>1 DEF Gone
  <2>3. setData(w) \notin W
    BY <1>2, <2>2, WriteKinds
  <2>4. \A e \in Device : Creating(e, w)' => Creating(e, w)
    BY <1>7, <1>9 DEF Creating
  <2>5. QED
    BY <1>7, <1>8, <2>1, <2>3, <2>4, GoneKept
<1>13. Bonds'
  <2>1. ASSUME NEW b \in bond PROVE u \notin b
    <3>1. PICK v, w \in DocId : b = {v, w} /\ Agreed(v, w) /\ Agreed(w, v)
      BY DEF KeptInv, Bonds
    <3>2. docs[v] # NoDoc /\ docs[w] # NoDoc
      BY <3>1 DEF Agreed
    <3>3. QED
      BY <1>6, <3>1, <3>2
  <2>2. \A m \in W : m.id = u
    BY <1>2, WriteKinds
  <2>3. \A b \in bond' : b \in bond /\ \A m \in W : "partner" \in m.mask => m.id \notin b
    BY <2>1, <2>2
  <2>4. QED
    BY <1>7, <1>8, <2>3, BondsKept DEF KeptInv
<1>14. gone' \subseteq User
  BY DEF KeptInv
<1>15. QED
  BY <1>10, <1>11, <1>12, <1>13, <1>14 DEF KeptInv

\* The deletion joins the queue behind the sign-up of the same phone.
LEMMA WithdrawKept ==
    ASSUME TypeInv, KeptInv, NEW d \in Device, MCWithdraw(d)
    PROVE  KeptInv'
<1>1. PICK u : u = session[d]
  OBVIOUS
<1>2. PICK W : W = {deleteDoc(u)}
  OBVIOUS
<1>3. /\ u \in User /\ u \in Owner /\ fsUser[d] = u /\ auth[d] = "idle"
      /\ Issues(d, W) /\ UNCHANGED <<accounts, docs, session, auth>>
  BY <1>1, <1>2, WithdrawIssues DEF MCWithdraw
<1>4. u \in User /\ u \in Owner /\ fsUser[d] = u /\ auth[d] = "idle" /\ u # None
  BY <1>3, DocAssumption
<1>5. u \in accounts
  BY <1>1, <1>4 DEF KeptInv, Known
<1>6. /\ bare' = bare \cup {u} /\ bond' = Apart({u})
      /\ gone' = IF SignUpElsewhere(d, u) THEN gone ELSE gone \cup {u}
      /\ UNCHANGED <<accounts, docs, session, auth>>
  BY <1>1, <1>3 DEF MCWithdraw
<1>7. Issues(d, W)
  BY <1>3
<1>8. \A m \in W : m.kind # "set" /\ m = deleteDoc(u) /\ m.id = u
  BY <1>2, WriteKinds
<1>9. Known' /\ OwnWrites' /\ Creation'
  <2>1. \A e \in Device : session'[e] \in accounts \cup {None}
    BY <1>6 DEF KeptInv, Known
  <2>2. \A e \in Device : auth'[e] = "created" => Creating(e, session'[e])
    BY <1>6 DEF Creating
  <2>3. accounts' = accounts /\ docs' = docs /\ bare \subseteq bare' /\ u \in bare'
    BY <1>6
  <2>4. QED
    BY <1>4, <1>7, <1>8, <2>1, <2>2, <2>3, CoreKept DEF KeptInv
<1>10. \A w : setData(w) \notin W
  BY <1>8, WriteKinds
<1>11. ASSUME NEW w \in accounts' \ bare' PROVE Kept(w)'
  <2>1. w \in User /\ Kept(w)
    BY <1>6 DEF KeptInv, TypeInv, TypeOK
  <2>2. \A e \in Device : Creating(e, w) => Creating(e, w)'
    BY <1>6 DEF Creating
  <2>3. QED
    BY <1>6, <1>7, <2>1, <2>2, KeptKept
<1>12. ASSUME NEW w \in gone PROVE Gone(w)'
  <2>1. w \in User /\ Gone(w)
    BY DEF KeptInv
  <2>2. \A e \in Device : Creating(e, w)' => Creating(e, w)
    BY <1>6 DEF Creating
  <2>3. QED
    BY <1>6, <1>7, <1>10, <2>1, <2>2, GoneKept
<1>13. ASSUME ~SignUpElsewhere(d, u) PROVE Gone(u)'
  <2>1. \A e \in Device : e # d => setData(u) \notin Range(queue[e][u]) /\ ~Creating(e, u)
    BY <1>13 DEF SignUpElsewhere, Creating
  <2>2. \A e \in Device : ~Creating(e, u)'
    BY <1>4, <1>6, <2>1 DEF Creating
  <2>3. ASSUME NEW e \in Device PROVE Undone(queue'[e][u], u)
    <3>1. CASE e = d
      <4>1. deleteDoc(u) \in W
        BY <1>2
      <4>2. QED
        BY <1>4, <1>7, <1>10, <3>1, <4>1 DEF Issues
    <3>2. CASE e # d
      <4>1. Undone(queue[e][u], u)
        <5>1. setData(u) \notin Range(queue[e][u])
          BY <2>1, <3>2
        <5>2. \A i \in DOMAIN queue[e][u] : queue[e][u][i] # setData(u)
          BY <5>1 DEF Range
        <5>3. QED
          BY <5>2 DEF Undone
      <4>2. QED
        BY <1>4, <1>7, <1>10, <4>1 DEF Issues
    <3>3. QED
      BY <3>1, <3>2
  <2>4. deleteDoc(u) \in Unanswered(d, u)'
    BY <1>4, <1>2, <1>7 DEF Issues
  <2>5. u \in accounts'
    BY <1>5, <1>6
  <2>6. QED
    BY <2>2, <2>3, <2>4, <2>5 DEF Gone
<1>14. gone' \subseteq User /\ \A w \in gone' : Gone(w)'
  <2>1. gone \subseteq User
    BY DEF KeptInv
  <2>2. QED
    BY <1>4, <1>6, <1>12, <1>13, <2>1
<1>15. Bonds'
  <2>1. \A b \in bond' : b \in bond /\ \A m \in W : "partner" \in m.mask => m.id \notin b
    BY <1>6, <1>8 DEF Apart
  <2>2. QED
    BY <1>6, <1>7, <2>1, BondsKept DEF KeptInv
<1>16. QED
  BY <1>9, <1>11, <1>14, <1>15 DEF KeptInv

-----------------------------------------------------------------------------
(* The invariant holds, and says what the runs check.                      *)

\* Every account of the start has its document.
LEMMA KeptInit == MCInit => KeptInv
<1>1. SUFFICES ASSUME MCInit PROVE KeptInv
  OBVIOUS
<1>2. /\ docs = [id \in DocId |-> IF id \in accounts THEN Fresh ELSE NoDoc]
      /\ \A d \in Device : session[d] = None /\ auth[d] = "idle"
      /\ \A d \in Device, o \in Owner : queue[d][o] = <<>>
      /\ bond = {} /\ gone = {} /\ bare = {}
  BY <1>1 DEF MCInit, Init
<1>3. accounts \subseteq User /\ User \subseteq DocId
  BY <1>1, RegisteredAssumption DEF MCInit, Init, DocId
<1>4. Fresh # NoDoc
  <2>1. Fresh \in Doc
    BY DEF Fresh, Doc, Partner, Position
  <2>2. QED
    BY <2>1, NoDocAssumption, Zenon
<1>5. Known
  BY <1>2 DEF Known
<1>6. \A d \in Device, o \in Owner : Range(queue[d][o]) = {}
  BY <1>2 DEF Range
<1>7. OwnWrites
  BY <1>6 DEF OwnWrites
<1>8. Creation
  BY <1>2 DEF Creation
<1>9. \A u \in accounts \ bare : Kept(u)
  BY <1>2, <1>3, <1>4 DEF Kept
<1>10. Bonds /\ gone \subseteq User /\ \A u \in gone : Gone(u)
  BY <1>2 DEF Bonds
<1>11. QED
  BY <1>5, <1>7, <1>8, <1>9, <1>10 DEF KeptInv

\* Every step keeps the invariant.
LEMMA KeptStep ==
    ASSUME TypeInv, KeptInv, [MCNext]_mcvars
    PROVE  KeptInv'
<1>1. ASSUME NEW d \in Device, MCUser(d) PROVE KeptInv'
  <2>1. ASSUME NEW code \in DocId, MCHandleCode(d, code) PROVE KeptInv'
    BY <2>1, HandleCodeKept
  <2>2. CASE MCPartnerRemove(d)
    BY <2>2, QuietStepKept DEF MCPartnerRemove, history, Receiving
  <2>3. CASE MCWithdraw(d)
    BY <2>3, WithdrawKept
  <2>4. ASSUME NEW l \in Loc, MCUpdateLocations(d, l) PROVE KeptInv'
    BY <2>4, LocationsKept
  <2>5. CASE MCSign(d)
    BY <2>5, QuietStepKept DEF MCSign, history, Entering
  <2>6. CASE MCSignOut(d)
    BY <2>6, QuietStepKept DEF MCSignOut, history, Entering
  <2>7. QED
    BY <1>1, <2>1, <2>2, <2>3, <2>4, <2>5, <2>6 DEF MCUser
<1>2. ASSUME NEW d \in Device, MCSystem(d) PROVE KeptInv'
  <2>1. CASE MCRemovalCallback(d)
    BY <2>1, RemovalCallbackKept
  <2>2. ASSUME NEW u \in User, MCCreateUser(d, u) PROVE KeptInv'
    BY <2>2, CreateKept
  <2>3. CASE UNCHANGED <<left, history>>
             /\ (Serve(d) \/ ReceiveAck(d) \/ ReceiveReject(d) \/ UserDidChange(d)
                 \/ GetDocument(d) \/ (\E u \in User : SignIn(d, u))
                 \/ SignUpCompletion(d) \/ LoginCompletion(d) \/ AuthError(d))
    <3>1. UNCHANGED <<bare, gone, bond>>
      BY <2>3 DEF history
    <3>2. CASE Serve(d)
      BY <3>1, <3>2, ServeKept
    <3>3. CASE ReceiveAck(d) \/ ReceiveReject(d) \/ UserDidChange(d) \/ GetDocument(d)
      BY <3>1, <3>3, QuietStepKept DEF Receiving
    <3>4. CASE (\E u \in User : SignIn(d, u)) \/ LoginCompletion(d) \/ AuthError(d)
      BY <3>1, <3>4, QuietStepKept DEF Entering
    <3>5. CASE SignUpCompletion(d)
      BY <3>1, <3>5, CompletionKept
    <3>6. QED
      BY <2>3, <3>2, <3>3, <3>4, <3>5
  <2>4. QED
    BY <1>2, <2>1, <2>2, <2>3 DEF MCSystem
<1>3. ASSUME NEW d \in Device, MCUpdatePin(d) PROVE KeptInv'
  BY <1>3, QuietStepKept DEF MCUpdatePin, history, Receiving
<1>4. ASSUME NEW d \in Device, MCBreak(d) PROVE KeptInv'
  <2>1. CASE Interrupt(d) /\ bare' = bare
    BY <1>4, <2>1, QuietStepKept DEF MCBreak, Receiving
  <2>2. CASE Relaunch(d) /\ bare' = IF auth[d] = "created" THEN bare \cup {session[d]} ELSE bare
    BY <1>4, <2>2, QuietStepKept DEF MCBreak
  <2>3. QED
    BY <1>4, <2>1, <2>2 DEF MCBreak
<1>5. CASE UNCHANGED mcvars
  BY <1>5 DEF mcvars, vars, server, sdk, app, history, KeptInv, Known, OwnWrites, Creation,
     Creating, Kept, Gone, Bonds, Agreed, Unanswered, Answered
<1>6. QED
  BY <1>1, <1>2, <1>3, <1>4, <1>5 DEF MCNext

\* The invariant holds in every behaviour.
LEMMA KeptAlways == MCSpec => [](TypeInv /\ KeptInv)
<1>1. MCInit => TypeInv /\ KeptInv
  BY TypeInit, KeptInit DEF MCInit
<1>2. TypeInv /\ KeptInv /\ [MCNext]_mcvars => TypeInv' /\ KeptInv'
  BY CountedStep, TypeStep, KeptStep
<1>3. QED
  BY <1>1, <1>2, PTL DEF MCSpec

\* What is unanswered is waiting.
LEMMA UnansweredWait ==
    ASSUME TypeInv, NEW d \in Device, NEW o \in Owner
    PROVE  Unanswered(d, o) \subseteq Range(queue[d][o]) /\ Range(queue[d][o]) \subseteq Waiting
<1>1. queue[d][o] \in Seq(Mutation)
  BY Types
<1>2. Unanswered(d, o) \subseteq Range(queue[d][o])
  BY <1>1, Members DEF Unanswered
<1>3. QED
  BY <1>2 DEF Waiting

\* An account whose sign-up ran to its end has its document, or a phone has it
\* to write, whoever signs in or out on that phone, whatever is sent twice, and
\* however often it restarts (handleSignUp, userDidChange).
THEOREM SignUpsAreKept == MCSpec => []SignUpIsKept
<1>1. ASSUME TypeInv, KeptInv PROVE SignUpIsKept
  <2>1. SUFFICES ASSUME NEW u \in accounts \ bare
                 PROVE  \/ docs[u] # NoDoc
                        \/ setData(u) \in Waiting
                        \/ \E d \in Device : auth[d] = "created" /\ session[d] = u
    BY DEF SignUpIsKept
  <2>2. u \in Owner /\ Kept(u)
    BY <1>1 DEF KeptInv, TypeInv, TypeOK, Owner
  <2>3. \A d \in Device : Unanswered(d, u) \subseteq Waiting
    BY <1>1, <2>2, UnansweredWait
  <2>4. QED
    BY <2>2, <2>3 DEF Kept, Creating
<1>2. QED
  BY <1>1, KeptAlways, PTL

\* An account that withdrew when no other phone held its sign-up has no document
\* once the deletion is answered (handleWithdraw).
THEOREM WithdrawalsLast == MCSpec => []WithdrawnStaysGone
<1>1. ASSUME TypeInv, KeptInv PROVE WithdrawnStaysGone
  <2>1. SUFFICES ASSUME NEW u \in gone, docs[u] # NoDoc
                 PROVE  deleteDoc(u) \in Waiting
    BY DEF WithdrawnStaysGone
  <2>2. u \in Owner /\ Gone(u)
    BY <1>1 DEF KeptInv, Owner
  <2>3. PICK d \in Device : deleteDoc(u) \in Unanswered(d, u)
    BY <2>1, <2>2 DEF Gone
  <2>4. QED
    BY <1>1, <2>2, <2>3, UnansweredWait
<1>2. QED
  BY <1>1, KeptAlways, PTL

\* Two people who agreed, and whom nothing has contested since, name each other
\* once the writes have left the queues (handleCode).
THEOREM AgreementsLast == MCSpec => []UncontestedPairing
<1>1. ASSUME TypeInv, KeptInv PROVE UncontestedPairing
  <2>1. SUFFICES ASSUME NEW b \in bond, WritesOf(b, "partner") = {}, NEW x \in b
                 PROVE  docs[x] # NoDoc /\ docs[x].partner \in (IF b = {x} THEN b ELSE b \ {x})
    BY DEF UncontestedPairing
  <2>2. ASSUME NEW u, NEW v, u \in b, Agreed(u, v) PROVE docs[u] # NoDoc /\ docs[u].partner = v
    <3>1. updatePartner(u, v) \notin Waiting
      <4>1. updatePartner(u, v).id = u /\ "partner" \in updatePartner(u, v).mask
        BY WriteKinds
      <4>2. QED
        BY <2>1, <2>2, <4>1 DEF WritesOf
    <3>2. \A d \in Device, o \in User : updatePartner(u, v) \notin Unanswered(d, o)
      BY <1>1, <3>1, UnansweredWait DEF Owner
    <3>3. QED
      BY <2>2, <3>2 DEF Agreed
  <2>3. PICK u, v \in DocId : b = {u, v} /\ Agreed(u, v) /\ Agreed(v, u)
    BY <1>1 DEF KeptInv, Bonds
  <2>4. docs[u] # NoDoc /\ docs[u].partner = v /\ docs[v] # NoDoc /\ docs[v].partner = u
    BY <2>2, <2>3
  <2>5. CASE x = u
    BY <2>3, <2>4, <2>5
  <2>6. CASE x = v
    BY <2>3, <2>4, <2>6
  <2>7. QED
    BY <2>1, <2>3, <2>5, <2>6
<1>2. QED
  BY <1>1, KeptAlways, PTL

-----------------------------------------------------------------------------
(* Positions.                                                              *)

\* The hypothesis of LatestPosition: where positions are reported, one phone
\* is in use.
OnePhoneReports ==
    \A b \in Budgets : b.places = {} \/ \E d \in Device : b.phones \subseteq {d}

Budget == [phones : SUBSET Device, accounts : Registered, codes : SUBSET DocId,
           places : SUBSET Loc, ops : Nat, logins : Nat, polls : Nat, breaks : Nat]

\* The document of u has the position reported last, or will: every write to
\* it is in the queue of u, and the last one in a queue is the last report.
Placed(u) ==
    /\ \A d \in Device, o \in Owner : \A m \in Range(queue[d][o]) : Locates(m, u) => o = u
    /\ \A d \in Device : EndsAt(queue[d][u], u, placed[u])
    /\ docs[u] # NoDoc =>
          \/ docs[u].loc = placed[u]
          \/ \E d \in Device : \E m \in Unanswered(d, u) : Locates(m, u)

\* Nobody reports before there is a document.
NotYetPlaced ==
    /\ \A u \in User : u \notin accounts => placed[u] = DefaultLoc
    /\ \A d \in Device : auth[d] = "created" => placed[session[d]] \in {DefaultLoc, Absent}

PlacedInv ==
    /\ left \in Budget
    /\ left.places = {} \/ \E d \in Device : left.phones \subseteq {d}
    /\ \A d \in Device, o \in Owner : d \notin left.phones => Range(queue[d][o]) = {}
    /\ placed \in [User -> Loc \cup {DefaultLoc, Absent}]
    /\ NotYetPlaced
    /\ \A u \in User : placed[u] # Absent => Placed(u)

\* Counting leaves the phones and the places of the budget.
LeftKept == left' \in Budget /\ left'.phones = left.phones /\ left'.places = left.places

\* Spending changes one counter.
LEMMA SpendKept ==
    ASSUME left \in Budget, NEW f \in {"ops", "logins", "polls", "breaks"}, Spend(f)
    PROVE  LeftKept
<1>1. CASE f = "ops"
  BY <1>1 DEF Spend, LeftKept, Budget
<1>2. CASE f = "logins"
  BY <1>2 DEF Spend, LeftKept, Budget
<1>3. CASE f = "polls"
  BY <1>3 DEF Spend, LeftKept, Budget
<1>4. CASE f = "breaks"
  BY <1>4 DEF Spend, LeftKept, Budget
<1>5. QED
  BY <1>1, <1>2, <1>3, <1>4

\* Every document of the start has the default position.
LEMMA PlacedInit == ASSUME OnePhoneReports PROVE MCInit => PlacedInv
<1>1. SUFFICES ASSUME MCInit PROVE PlacedInv
  OBVIOUS
<1>2. /\ docs = [id \in DocId |-> IF id \in accounts THEN Fresh ELSE NoDoc]
      /\ \A d \in Device : auth[d] = "idle"
      /\ \A d \in Device, o \in Owner : queue[d][o] = <<>>
      /\ left \in Budgets /\ placed = [u \in User |-> DefaultLoc]
  BY <1>1 DEF MCInit, Init
<1>3. left \in Budget /\ (left.places = {} \/ \E d \in Device : left.phones \subseteq {d})
  BY <1>2, BudgetAssumption DEF OnePhoneReports, Budget
<1>4. \A d \in Device, o \in Owner : Range(queue[d][o]) = {} /\ DOMAIN queue[d][o] = {}
  BY <1>2 DEF Range
<1>5. NotYetPlaced
  BY <1>2 DEF NotYetPlaced
<1>6. ASSUME NEW u \in User PROVE Placed(u)
  <2>1. u \in Owner /\ u \in DocId
    BY DEF Owner, DocId
  <2>2. \A d \in Device : EndsAt(queue[d][u], u, placed[u])
    BY <1>4, <2>1 DEF EndsAt
  <2>3. docs[u] # NoDoc => docs[u].loc = placed[u]
    BY <1>2, <2>1 DEF Fresh
  <2>4. QED
    BY <1>4, <2>2, <2>3 DEF Placed
<1>7. placed \in [User -> Loc \cup {DefaultLoc, Absent}]
  BY <1>2
<1>8. QED
  BY <1>3, <1>4, <1>5, <1>6, <1>7 DEF PlacedInv

\* Nothing joins the queue of u that says anything about its position.
LEMMA PlacedSame ==
    ASSUME NEW d \in Device, NEW W, Issues(d, W), docs' = docs, NEW u \in User,
           placed'[u] = placed[u], Placed(u), \A m \in W : ~Locates(m, u)
    PROVE  Placed(u)'
<1>1. ASSUME NEW e \in Device, NEW o \in Owner, NEW m \in Range(queue'[e][o]), Locates(m, u)
      PROVE  o = u
  <2>1. m \in Range(queue[e][o]) \/ m \in W
    BY DEF Issues
  <2>2. QED
    BY <1>1, <2>1 DEF Placed
<1>2. ASSUME NEW e \in Device PROVE EndsAt(queue'[e][u], u, placed'[u])
  <2>1. PICK l : l = placed[u]
    OBVIOUS
  <2>2. EndsAt(queue[e][u], u, l)
    BY <2>1 DEF Placed
  <2>3. EndsAt(queue'[e][u], u, l)
    BY <2>2 DEF Issues
  <2>4. QED
    BY <2>1, <2>3
<1>3. ASSUME docs'[u] # NoDoc
      PROVE  docs'[u].loc = placed'[u]
             \/ \E e \in Device : \E m \in Unanswered(e, u)' : Locates(m, u)
  <2>1. u \in Owner
    BY DEF Owner
  <2>2. \A e \in Device : Unanswered(e, u) \subseteq Unanswered(e, u)'
    BY <2>1 DEF Issues
  <2>3. QED
    BY <1>3, <2>2 DEF Placed
<1>4. QED
  BY <1>1, <1>2, <1>3 DEF Placed

\* A write to the position of u joins its queue and agrees with what is reported.
LEMMA PlacedWrite ==
    ASSUME NEW d \in Device, NEW W, NEW w, W = {w}, Issues(d, W), docs' = docs,
           NEW u \in User, fsUser[d] = u, Locates(w, u),
           w.kind = "delete" \/ w.loc = placed'[u],
           \A e \in Device, o \in Owner : \A m \in Range(queue[e][o]) : Locates(m, u) => o = u,
           \A e \in Device : e # d => EndsAt(queue[e][u], u, placed'[u])
    PROVE  Placed(u)'
<1>1. ASSUME NEW e \in Device, NEW o \in Owner, NEW m \in Range(queue'[e][o]), Locates(m, u)
      PROVE  o = u
  <2>1. m \in Range(queue[e][o]) \/ o = fsUser[d]
    BY DEF Issues
  <2>2. QED
    BY <1>1, <2>1
<1>2. ASSUME NEW e \in Device PROVE EndsAt(queue'[e][u], u, placed'[u])
  <2>1. PICK l : l = placed'[u]
    OBVIOUS
  <2>2. CASE e # d
    <3>1. EndsAt(queue[e][u], u, l)
      BY <2>1, <2>2
    <3>2. EndsAt(queue'[e][u], u, l)
      BY <2>2, <3>1 DEF Issues
    <3>3. QED
      BY <2>1, <3>2
  <2>3. CASE e = d
    <3>1. EndsAt(queue'[e][u], u, l)
      BY <2>1, <2>3 DEF Issues
    <3>2. QED
      BY <2>1, <3>1
  <2>4. QED
    BY <2>2, <2>3
<1>3. w \in Unanswered(d, u)'
  <2>1. u \in Owner /\ w \in W
    BY DEF Owner
  <2>2. QED
    BY <2>1 DEF Issues
<1>4. \E e \in Device : \E m \in Unanswered(e, u)' : Locates(m, u)
  BY <1>3, Zenon
<1>5. QED
  BY <1>1, <1>2, <1>4 DEF Placed

\* A step that reports no position.
LEMMA PlacedRest ==
    ASSUME PlacedInv, NEW d \in Device, d \in left.phones, NEW W, Issues(d, W), LeftKept,
           accounts' = accounts, docs' = docs, placed' = placed,
           \A e \in Device : auth'[e] = "created" => Creating(e, session'[e]),
           \A u \in User : placed[u] # Absent /\ Placed(u) => Placed(u)'
    PROVE  PlacedInv'
<1>1. left' \in Budget /\ (left'.places = {} \/ \E e \in Device : left'.phones \subseteq {e})
  BY DEF PlacedInv, LeftKept
<1>2. ASSUME NEW e \in Device, NEW o \in Owner, e \notin left'.phones PROVE Range(queue'[e][o]) = {}
  <2>1. e # d /\ Range(queue[e][o]) = {}
    BY <1>2 DEF LeftKept, PlacedInv
  <2>2. Range(queue'[e][o]) \subseteq Range(queue[e][o])
    BY <2>1 DEF Issues
  <2>3. QED
    BY <2>1, <2>2
<1>3. NotYetPlaced'
  BY DEF PlacedInv, NotYetPlaced, Creating
<1>4. \A u \in User : placed'[u] # Absent => Placed(u)'
  BY DEF PlacedInv
<1>5. placed' \in [User -> Loc \cup {DefaultLoc, Absent}]
  BY DEF PlacedInv
<1>6. QED
  BY <1>1, <1>2, <1>3, <1>4, <1>5 DEF PlacedInv

\* A step that writes no position.
LEMMA PlacedQuiet ==
    ASSUME PlacedInv, NEW d \in Device, d \in left.phones, NEW W, Issues(d, W), LeftKept,
           accounts' = accounts, docs' = docs, placed' = placed,
           \A e \in Device : auth'[e] = "created" => Creating(e, session'[e]),
           \A m \in W : "loc" \notin m.mask
    PROVE  PlacedInv'
<1>1. ASSUME NEW u \in User, Placed(u) PROVE Placed(u)'
  <2>1. \A m \in W : ~Locates(m, u)
    BY DEF Locates
  <2>2. QED
    BY <1>1, <2>1, PlacedSame
<1>2. QED
  BY <1>1, PlacedRest

\* The document of a sign-up starts at the default position.
LEMMA PlacedCompletion ==
    ASSUME TypeInv, KeptInv, PlacedInv, NEW d \in Device, d \in left.phones,
           SignUpCompletion(d), UNCHANGED <<left, placed>>
    PROVE  PlacedInv'
<1>1. PICK u : u = session[d]
  OBVIOUS
<1>2. PICK w : w = setData(u)
  OBVIOUS
<1>3. PICK W : W = {w}
  OBVIOUS
<1>4. /\ u \in User /\ fsUser[d] = u /\ auth[d] = "created"
      /\ Issues(d, W) /\ UNCHANGED <<accounts, docs, session>>
      /\ auth'[d] = "idle" /\ \A e \in Device : e # d => auth'[e] = auth[e]
  BY <1>1, <1>2, <1>3, CompletionIssues
<1>5. ASSUME NEW v \in User, placed[v] # Absent, Placed(v) PROVE Placed(v)'
  <2>1. CASE v = u
    <3>1. w.loc = placed'[u] /\ Locates(w, u)
      <4>1. placed[u] = DefaultLoc
        BY <1>1, <1>4, <1>5, <2>1 DEF PlacedInv, NotYetPlaced
      <4>2. QED
        BY <1>2, <4>1 DEF setData, Locates, Field
    <3>2. /\ \A e \in Device, o \in Owner : \A m \in Range(queue[e][o]) : Locates(m, u) => o = u
          /\ \A e \in Device : e # d => EndsAt(queue[e][u], u, placed'[u])
      BY <1>5, <2>1 DEF Placed
    <3>3. Placed(u)'
      BY <1>3, <1>4, <3>1, <3>2, PlacedWrite
    <3>4. QED
      BY <2>1, <3>3
  <2>2. CASE v # u
    <3>1. \A m \in W : ~Locates(m, v)
      BY <1>2, <1>3, <2>2, WriteKinds DEF Locates
    <3>2. QED
      BY <1>4, <1>5, <3>1, PlacedSame
  <2>3. QED
    BY <2>1, <2>2
<1>6. \A e \in Device : auth'[e] = "created" => Creating(e, session'[e])
  BY <1>4 DEF Creating
<1>7. LeftKept
  BY DEF LeftKept, PlacedInv
<1>8. QED
  BY <1>4, <1>5, <1>6, <1>7, PlacedRest

\* A deletion is the last word on the position.
LEMMA PlacedWithdraw ==
    ASSUME TypeInv, KeptInv, PlacedInv, NEW d \in Device, d \in left.phones, MCWithdraw(d)
    PROVE  PlacedInv'
<1>1. PICK u : u = session[d]
  OBVIOUS
<1>2. PICK w : w = deleteDoc(u)
  OBVIOUS
<1>3. PICK W : W = {w}
  OBVIOUS
<1>4. /\ u \in User /\ fsUser[d] = u
      /\ Issues(d, W) /\ UNCHANGED <<accounts, docs, session, auth>>
  BY <1>1, <1>2, <1>3, WithdrawIssues DEF MCWithdraw
<1>5. ASSUME NEW v \in User, placed[v] # Absent, Placed(v) PROVE Placed(v)'
  <2>1. CASE v = u
    <3>1. w.kind = "delete" /\ Locates(w, u)
      BY <1>2 DEF deleteDoc, Locates, Field
    <3>2. /\ \A e \in Device, o \in Owner : \A m \in Range(queue[e][o]) : Locates(m, u) => o = u
          /\ \A e \in Device : e # d => EndsAt(queue[e][u], u, placed'[u])
      BY <1>5, <2>1 DEF Placed, MCWithdraw
    <3>3. Placed(u)'
      BY <1>3, <1>4, <3>1, <3>2, PlacedWrite
    <3>4. QED
      BY <2>1, <3>3
  <2>2. CASE v # u
    <3>1. \A m \in W : ~Locates(m, v)
      BY <1>2, <1>3, <2>2, WriteKinds DEF Locates
    <3>2. placed'[v] = placed[v]
      BY DEF MCWithdraw
    <3>3. QED
      BY <1>4, <1>5, <3>1, <3>2, PlacedSame
  <2>3. QED
    BY <2>1, <2>2
<1>6. \A e \in Device : auth'[e] = "created" => Creating(e, session'[e])
  BY <1>4 DEF Creating
<1>7. LeftKept /\ placed' = placed
  BY SpendKept DEF MCWithdraw, Operation, PlacedInv
<1>8. QED
  BY <1>4, <1>5, <1>6, <1>7, PlacedRest

\* Without a document on the server and a sign-up in the queue, a phone shows
\* none.
LEMMA NothingShown ==
    ASSUME NEW q \in Seq(Mutation), NEW u,
           \A m \in Range(q) : m.id = u => m.kind # "set"
    PROVE  documentForKey(q, u, NoDoc) = NoDoc
<1>1. Len(q) \in Nat
  BY LenProperties
<1>2. PICK R : R = ResetsTo(q, u, Len(q))
  OBVIOUS
<1>3. R \subseteq 1..Len(q)
  BY <1>2 DEF ResetsTo
<1>4. documentForKey(q, u, NoDoc) = ViewTo(q, u, NoDoc, Len(q))
  BY ShownIsViewTo DEF MaybeDoc
<1>5. CASE R = {}
  <2>1. LastOf(R) = 0
    BY <1>5 DEF LastOf
  <2>2. QED
    BY <1>2, <1>4, <2>1 DEF ViewTo
<1>6. CASE R # {}
  <2>1. PICK r : r = LastOf(R)
    OBVIOUS
  <2>2. r \in R
    BY <1>1, <1>3, <1>6, <2>1, LastOfIsMember
  <2>3. r \in 1..Len(q) /\ q[r].id = u /\ q[r].kind # "patch"
    BY <1>2, <1>3, <2>2 DEF ResetsTo
  <2>4. q[r] \in Mutation /\ q[r] \in Range(q) /\ r # 0
    BY <1>1, <2>3, Members
  <2>5. q[r].kind \in {"set", "patch", "delete"}
    BY <2>4 DEF Mutation
  <2>6. q[r].kind = "delete"
    BY <2>3, <2>4, <2>5
  <2>7. QED
    BY <1>2, <1>4, <2>1, <2>4, <2>6 DEF ViewTo
<1>7. QED
  BY <1>5, <1>6

\* Nobody reports with a document before the sign-up has run to its end.
LEMMA CreatingHasNoDoc ==
    ASSUME TypeInv, KeptInv, NEW d \in Device, NEW e \in Device, NEW u \in User,
           u = session[d], Creating(e, u)
    PROVE  ~HasDoc(d)
<1>1. /\ docs[u] = NoDoc
      /\ \A c \in Device, o \in Owner : setData(u) \notin Range(queue[c][o])
  BY DEF KeptInv, Creation, Creating
<1>2. PICK f : f = fsUser[d]
  OBVIOUS
<1>3. PICK q : q = queue[d][f]
  OBVIOUS
<1>4. f \in Owner /\ q \in Seq(Mutation)
  BY <1>2, <1>3, Types
<1>5. ASSUME NEW m \in Range(q), m.id = u, m.kind = "set" PROVE FALSE
  <2>1. m = setData(f)
    BY <1>3, <1>4, <1>5 DEF KeptInv, OwnWrites
  <2>2. m = setData(u)
    BY <1>5, <2>1, WriteKinds
  <2>3. QED
    BY <1>1, <1>3, <1>4, <1>5, <2>2
<1>6. documentForKey(q, u, NoDoc) = NoDoc
  BY <1>4, <1>5, NothingShown
<1>7. QED
  BY <1>1, <1>2, <1>3, <1>6 DEF HasDoc, View, Pending

\* A report is the last word on the position, or is not remembered.
LEMMA PlacedLocations ==
    ASSUME TypeInv, KeptInv, PlacedInv, NEW d \in Device, d \in left.phones,
           NEW l \in Loc, l \in left.places, MCUpdateLocations(d, l)
    PROVE  PlacedInv'
<1>1. PICK u : u = session[d]
  OBVIOUS
<1>2. PICK w : w = updateLocation(u, l)
  OBVIOUS
<1>3. PICK W : W = {w}
  OBVIOUS
<1>4. u \in User /\ Issues(d, W) /\ UNCHANGED <<accounts, docs, fsUser, session, auth>>
  BY <1>1, <1>2, <1>3, LocationIssues DEF MCUpdateLocations
<1>5. u \in accounts
  <2>1. u \in accounts \cup {None}
    BY <1>1 DEF KeptInv, Known
  <2>2. None \notin User
    BY DocAssumption
  <2>3. QED
    BY <1>4, <2>1, <2>2
<1>6. LeftKept
  BY SpendKept DEF MCUpdateLocations, Operation, PlacedInv
<1>7. placed \in [User -> Loc \cup {DefaultLoc, Absent}]
  BY DEF PlacedInv
<1>8. /\ placed'[u] = IF placed[u] # Absent /\ HasDoc(d) THEN l ELSE Absent
      /\ \A v \in User : v # u => placed'[v] = placed[v]
      /\ placed' \in [User -> Loc \cup {DefaultLoc, Absent}]
  BY <1>1, <1>4, <1>7 DEF MCUpdateLocations
<1>9. \A e \in Device, o \in Owner : e # d => Range(queue[e][o]) = {}
  <2>1. PICK c \in Device : left.phones \subseteq {c}
    BY DEF PlacedInv
  <2>2. \A e \in Device : e # d => e \notin left.phones
    BY <2>1
  <2>3. QED
    BY <2>2 DEF PlacedInv
<1>10. ASSUME NEW v \in User, placed'[v] # Absent PROVE Placed(v)'
  <2>1. CASE v # u
    <3>1. \A m \in W : ~Locates(m, v)
      BY <1>2, <1>3, <2>1, WriteKinds DEF Locates
    <3>2. placed'[v] = placed[v] /\ Placed(v)
      BY <1>8, <1>10, <2>1 DEF PlacedInv
    <3>3. QED
      BY <1>4, <3>1, <3>2, PlacedSame
  <2>2. CASE v = u
    <3>1. placed[u] # Absent /\ HasDoc(d) /\ placed'[u] = l
      BY <1>8, <1>10, <2>2
    <3>2. fsUser[d] = u
      BY <1>1, <3>1 DEF HasDoc
    <3>3. w.loc = placed'[u] /\ Locates(w, u)
      BY <1>2, <3>1 DEF updateLocation, Locates
    <3>4. Placed(u)
      BY <1>4, <3>1 DEF PlacedInv
    <3>5. \A e \in Device, o \in Owner : \A m \in Range(queue[e][o]) : Locates(m, u) => o = u
      BY <3>4 DEF Placed
    <3>6. ASSUME NEW e \in Device, e # d PROVE EndsAt(queue[e][u], u, placed'[u])
      <4>1. Range(queue[e][u]) = {}
        BY <1>4, <1>9, <3>6 DEF Owner
      <4>2. DOMAIN queue[e][u] = {}
        BY <4>1 DEF Range
      <4>3. QED
        BY <4>2 DEF EndsAt
    <3>7. Placed(u)'
      BY <1>3, <1>4, <3>2, <3>3, <3>5, <3>6, PlacedWrite
    <3>8. QED
      BY <2>2, <3>7
  <2>3. QED
    BY <2>1, <2>2
<1>11. NotYetPlaced'
  <2>1. \A v \in User : v \notin accounts' => placed'[v] = DefaultLoc
    BY <1>4, <1>5, <1>8 DEF PlacedInv, NotYetPlaced
  <2>2. ASSUME NEW e \in Device, auth'[e] = "created", NEW v, v = session[e]
        PROVE  placed'[v] \in {DefaultLoc, Absent}
    <3>1. v \in User /\ Creating(e, v) /\ placed[v] \in {DefaultLoc, Absent}
      BY <1>4, <2>2 DEF Creating, TypeInv, SignInUnderWay, PlacedInv, NotYetPlaced
    <3>2. CASE v = u
      <4>1. ~HasDoc(d)
        BY <1>1, <1>4, <3>1, <3>2, CreatingHasNoDoc
      <4>2. QED
        BY <1>8, <3>2, <4>1
    <3>3. CASE v # u
      BY <1>8, <3>1, <3>3
    <3>4. QED
      BY <3>2, <3>3
  <2>3. QED
    BY <1>4, <2>1, <2>2 DEF NotYetPlaced
<1>12. ASSUME NEW e \in Device, NEW o \in Owner, e \notin left'.phones
       PROVE  Range(queue'[e][o]) = {}
  <2>1. e # d /\ Range(queue[e][o]) = {}
    BY <1>6, <1>12 DEF LeftKept, PlacedInv
  <2>2. Range(queue'[e][o]) \subseteq Range(queue[e][o])
    BY <1>4, <2>1 DEF Issues
  <2>3. QED
    BY <2>1, <2>2
<1>13. left' \in Budget /\ (left'.places = {} \/ \E e \in Device : left'.phones \subseteq {e})
  BY <1>6 DEF PlacedInv, LeftKept
<1>14. QED
  BY <1>8, <1>10, <1>11, <1>12, <1>13 DEF PlacedInv

\* A new account has reported nothing.
LEMMA PlacedCreate ==
    ASSUME TypeInv, KeptInv, PlacedInv, NEW d \in Device, NEW u \in User, MCCreateUser(d, u)
    PROVE  PlacedInv'
<1>1. /\ u \notin accounts /\ accounts' = accounts \cup {u}
      /\ UNCHANGED <<docs, fsUser, queue, resp, left, placed>>
  BY DEF MCCreateUser, CreateUser, sdk
<1>2. session \in [Device -> Owner] /\ auth \in [Device -> AuthState]
  BY DEF TypeInv, TypeOK
<1>3. \A e \in Device : auth'[e] = "created" =>
         session'[e] = u \/ (auth[e] = "created" /\ session'[e] = session[e])
  BY <1>2 DEF MCCreateUser, CreateUser
<1>4. NotYetPlaced'
  BY <1>1, <1>3 DEF PlacedInv, NotYetPlaced
<1>5. ASSUME NEW v \in User, Placed(v) PROVE Placed(v)'
  BY <1>1, <1>5 DEF Placed, Unanswered, Answered
<1>6. QED
  BY <1>1, <1>4, <1>5 DEF PlacedInv

\* What the server makes of a position.
LEMMA ServedLoc ==
    ASSUME TypeInv, NEW m \in Mutation, NEW o, Served(m, o), docs'[m.id] # NoDoc
    PROVE  /\ "loc" \notin m.mask => docs[m.id] # NoDoc /\ docs'[m.id].loc = docs[m.id].loc
           /\ "loc" \in m.mask /\ o # None => docs'[m.id].loc = m.loc
<1>1. m.id \in DocId /\ docs \in [DocId -> MaybeDoc] /\ m.kind \in {"set", "patch", "delete"}
      /\ (m.kind # "patch" => m.mask = Field) /\ "loc" \in Field
  BY DEF Mutation, TypeInv, TypeOK, Field
<1>2. CASE docs' = docs /\ (~IsValidFor(m, docs[m.id]) \/ o = None)
  BY <1>1, <1>2 DEF IsValidFor
<1>3. CASE IsValidFor(m, docs[m.id]) /\ docs' = [docs EXCEPT ![m.id] = applyTo(m, @)]
  <2>1. docs'[m.id] = applyTo(m, docs[m.id])
    BY <1>1, <1>3
  <2>2. CASE m.kind = "set"
    BY <1>1, <1>3, <2>1, <2>2 DEF applyTo
  <2>3. CASE m.kind = "delete"
    BY <1>3, <2>1, <2>3 DEF applyTo
  <2>4. CASE m.kind = "patch"
    BY <1>3, <2>1, <2>4 DEF applyTo, IsValidFor, patchObjectValue
  <2>5. QED
    BY <1>1, <2>2, <2>3, <2>4
<1>4. QED
  BY <1>2, <1>3 DEF Served

\* The server applies a report, and the last one at last.
LEMMA PlacedServe ==
    ASSUME TypeInv, KeptInv, PlacedInv, NEW d \in Device, Serve(d), UNCHANGED <<left, placed>>
    PROVE  PlacedInv'
<1>1. PICK m : Answers(d, m)
  BY ServeAnswers
<1>2. PICK f : f = fsUser[d]
  OBVIOUS
<1>3. f \in Owner /\ m \in Range(queue[d][f]) /\ m \in Mutation /\ Served(m, f)
  BY <1>1, <1>2, Types DEF Answers
<1>4. /\ m.id \in DocId /\ \A id \in DocId : id # m.id => docs'[id] = docs[id]
      /\ m.kind = "delete" => docs'[m.id] = NoDoc
  BY <1>3, ServedIs DEF KeptInv
<1>5. UNCHANGED <<accounts, fsUser, queue, session, auth>>
  BY <1>1 DEF Answers
<1>6. \A e \in Device, o \in Owner : \A x \in Unanswered(e, o) :
         x \in Unanswered(e, o)' \/ (x = m /\ e = d /\ o = f)
  BY <1>1, <1>2 DEF Answers
<1>7. ASSUME NEW u \in User, placed[u] # Absent, Placed(u) PROVE Placed(u)'
  <2>1. u \in Owner /\ u \in DocId /\ u # None
    BY DocAssumption DEF Owner, DocId
  <2>2. /\ \A e \in Device, o \in Owner : \A x \in Range(queue'[e][o]) : Locates(x, u) => o = u
        /\ \A e \in Device : EndsAt(queue'[e][u], u, placed'[u])
    BY <1>5, <1>7 DEF Placed
  <2>3. ASSUME docs'[u] # NoDoc
        PROVE  docs'[u].loc = placed[u]
               \/ \E e \in Device : \E x \in Unanswered(e, u)' : Locates(x, u)
    <3>1. CASE ~Locates(m, u)
      <4>1. docs[u] # NoDoc /\ docs'[u].loc = docs[u].loc
        <5>1. CASE m.id # u
          BY <1>4, <2>1, <2>3, <5>1
        <5>2. CASE m.id = u
          BY <1>3, <2>3, <3>1, <5>2, ServedLoc DEF Locates
        <5>3. QED
          BY <5>1, <5>2
      <4>2. CASE docs[u].loc = placed[u]
        BY <4>1, <4>2
      <4>3. CASE \E e \in Device : \E x \in Unanswered(e, u) : Locates(x, u)
        <5>1. PICK e \in Device : \E x \in Unanswered(e, u) : Locates(x, u)
          BY <4>3
        <5>2. PICK x \in Unanswered(e, u) : Locates(x, u)
          BY <5>1
        <5>3. x \in Unanswered(e, u)'
          BY <1>6, <2>1, <3>1, <5>2
        <5>4. QED
          BY <5>2, <5>3, Zenon
      <4>4. QED
        BY <1>7, <4>1, <4>2, <4>3 DEF Placed
    <3>2. CASE Locates(m, u)
      <4>1. f = u /\ m.id = u /\ "loc" \in m.mask
        BY <1>3, <1>7, <3>2 DEF Placed, Locates
      <4>2. docs'[u].loc = m.loc
        BY <1>3, <2>1, <2>3, <4>1, ServedLoc
      <4>3. m.kind # "delete"
        BY <1>4, <2>3, <4>1
      <4>4. PICK l : l = placed[u]
        OBVIOUS
      <4>5. EndsAt(queue[d][fsUser[d]], u, l)
        BY <1>2, <1>7, <4>1, <4>4 DEF Placed
      <4>6. m.loc = l \/ \E x \in Unanswered(d, f)' : Locates(x, u)
        BY <1>1, <1>2, <1>5, <3>2, <4>3, <4>5 DEF Answers
      <4>7. QED
        BY <4>1, <4>2, <4>4, <4>6
    <3>3. QED
      BY <3>1, <3>2
  <2>4. QED
    BY <2>2, <2>3 DEF Placed
<1>8. NotYetPlaced'
  BY <1>5 DEF PlacedInv, NotYetPlaced
<1>9. QED
  BY <1>5, <1>7, <1>8 DEF PlacedInv

\* A code or a removal writes no position, and the rest writes nothing.
LEMMA PlacedOther ==
    ASSUME TypeInv, KeptInv, PlacedInv, NEW d \in Device, d \in left.phones, LeftKept,
           placed' = placed,
           \/ Entering(d) \/ Receiving(d) \/ Relaunch(d)
           \/ RemovalCallback(d) \/ \E code \in DocId : handleCode(d, code)
    PROVE  PlacedInv'
<1>1. CASE Entering(d) \/ Receiving(d) \/ Relaunch(d)
  <2>1. Issues(d, {}) /\ accounts' = accounts /\ docs' = docs
    BY <1>1, EnteringIssues, ReceivingIssues, RelaunchIssues
  <2>2. \A e \in Device : auth'[e] = "created" => Creating(e, session'[e])
    BY <1>1, QuietCreating
  <2>3. QED
    BY <2>1, <2>2, PlacedQuiet
<1>2. CASE RemovalCallback(d)
  <2>1. PICK u : u = removal[d].uid
    OBVIOUS
  <2>2. PICK p : p = UserDataPartner(removal[d].doc)
    OBVIOUS
  <2>3. PICK W : W = IF queue' = queue THEN {}
                     ELSE {updatePartner(p, Absent), updatePartner(u, Absent)}
    OBVIOUS
  <2>4. Issues(d, W) /\ UNCHANGED <<accounts, docs, session, auth>>
    BY <1>2, <2>1, <2>2, <2>3, RemovalIssues
  <2>5. \A m \in W : "loc" \notin m.mask
    BY <2>3 DEF updatePartner
  <2>6. \A e \in Device : auth'[e] = "created" => Creating(e, session'[e])
    BY <2>4 DEF Creating
  <2>7. QED
    BY <2>4, <2>5, <2>6, PlacedQuiet
<1>3. ASSUME NEW code \in DocId, handleCode(d, code) PROVE PlacedInv'
  <2>1. PICK u : u = session[d]
    OBVIOUS
  <2>2. PICK W : W = {updatePartner(code, u), updatePartner(u, code)}
    OBVIOUS
  <2>3. Issues(d, W) /\ UNCHANGED <<accounts, docs, session, auth>>
    BY <1>3, <2>1, <2>2, CodeIssues
  <2>4. \A m \in W : "loc" \notin m.mask
    BY <2>2 DEF updatePartner
  <2>5. \A e \in Device : auth'[e] = "created" => Creating(e, session'[e])
    BY <2>3 DEF Creating
  <2>6. QED
    BY <2>3, <2>4, <2>5, PlacedQuiet
<1>4. QED
  BY <1>1, <1>2, <1>3

\* Every step keeps the positions.
LEMMA PlacedStep ==
    ASSUME TypeInv, KeptInv, PlacedInv, [MCNext]_mcvars
    PROVE  PlacedInv'
<1>1. left \in Budget
  BY DEF PlacedInv
<1>2. left' = left => LeftKept
  BY <1>1 DEF LeftKept
<1>3. ASSUME NEW d \in Device, d \in left.phones, MCUser(d) PROVE PlacedInv'
  <2>1. ASSUME NEW code \in DocId, MCHandleCode(d, code) PROVE PlacedInv'
    BY <1>1, <1>3, <2>1, SpendKept, PlacedOther DEF MCHandleCode, Operation
  <2>2. CASE MCPartnerRemove(d)
    BY <1>1, <1>3, <2>2, SpendKept, PlacedOther DEF MCPartnerRemove, Operation, history, Receiving
  <2>3. CASE MCWithdraw(d)
    BY <1>3, <2>3, PlacedWithdraw
  <2>4. ASSUME NEW l \in Loc, l \in left.places, MCUpdateLocations(d, l) PROVE PlacedInv'
    BY <1>3, <2>4, PlacedLocations
  <2>5. CASE MCSign(d)
    BY <1>1, <1>3, <2>5, SpendKept, PlacedOther DEF MCSign, history, Entering
  <2>6. CASE MCSignOut(d)
    BY <1>2, <1>3, <2>6, PlacedOther DEF MCSignOut, history, Entering
  <2>7. QED
    BY <1>3, <2>1, <2>2, <2>3, <2>4, <2>5, <2>6 DEF MCUser
<1>4. ASSUME NEW d \in Device, d \in left.phones, MCSystem(d) PROVE PlacedInv'
  <2>1. CASE MCRemovalCallback(d)
    BY <1>2, <1>4, <2>1, PlacedOther DEF MCRemovalCallback
  <2>2. ASSUME NEW u \in User, MCCreateUser(d, u) PROVE PlacedInv'
    BY <2>2, PlacedCreate
  <2>3. CASE UNCHANGED <<left, history>>
             /\ (Serve(d) \/ ReceiveAck(d) \/ ReceiveReject(d) \/ UserDidChange(d)
                 \/ GetDocument(d) \/ (\E u \in User : SignIn(d, u))
                 \/ SignUpCompletion(d) \/ LoginCompletion(d) \/ AuthError(d))
    <3>1. UNCHANGED <<left, placed>> /\ LeftKept
      BY <1>2, <2>3 DEF history
    <3>2. CASE Serve(d)
      BY <3>1, <3>2, PlacedServe
    <3>3. CASE ReceiveAck(d) \/ ReceiveReject(d) \/ UserDidChange(d) \/ GetDocument(d)
      BY <1>4, <3>1, <3>3, PlacedOther DEF Receiving
    <3>4. CASE (\E u \in User : SignIn(d, u)) \/ LoginCompletion(d) \/ AuthError(d)
      BY <1>4, <3>1, <3>4, PlacedOther DEF Entering
    <3>5. CASE SignUpCompletion(d)
      BY <1>4, <3>1, <3>5, PlacedCompletion
    <3>6. QED
      BY <2>3, <3>2, <3>3, <3>4, <3>5
  <2>4. QED
    BY <1>4, <2>1, <2>2, <2>3 DEF MCSystem
<1>5. ASSUME NEW d \in Device, d \in left.phones, MCUpdatePin(d) PROVE PlacedInv'
  BY <1>1, <1>5, SpendKept, PlacedOther DEF MCUpdatePin, history, Receiving
<1>6. ASSUME NEW d \in Device, d \in left.phones, MCBreak(d) PROVE PlacedInv'
  BY <1>1, <1>6, SpendKept, PlacedOther DEF MCBreak, Receiving
<1>7. CASE UNCHANGED mcvars
  BY <1>7 DEF mcvars, vars, server, sdk, app, history, PlacedInv, NotYetPlaced, Placed,
     Unanswered, Answered
<1>8. QED
  BY <1>3, <1>4, <1>5, <1>6, <1>7 DEF MCNext

\* Where one phone is in use, the position in the document is the last one
\* reported, once no report is waiting: no report sent again, after a broken
\* connection, a restart or a change of accounts, overtakes a later one
\* (didUpdateLocations, userDidChange, handleWriteError).
THEOREM LatestPositions ==
    ASSUME OnePhoneReports
    PROVE  MCSpec => []LatestPosition
<1>1. MCInit => PlacedInv
  BY PlacedInit
<1>2. TypeInv /\ KeptInv /\ PlacedInv /\ [MCNext]_mcvars => PlacedInv'
  BY PlacedStep
<1>3. ASSUME TypeInv, PlacedInv PROVE LatestPosition
  <2>1. SUFFICES ASSUME NEW u \in User, placed[u] # Absent, docs[u] # NoDoc,
                        WritesOf({u}, "loc") = {}
                 PROVE  docs[u].loc = placed[u]
    BY DEF LatestPosition
  <2>2. Placed(u)
    BY <1>3, <2>1 DEF PlacedInv
  <2>3. ASSUME NEW d \in Device, NEW m \in Unanswered(d, u) PROVE ~Locates(m, u)
    <3>1. m \in Waiting
      BY <1>3, <2>3, UnansweredWait DEF Owner
    <3>2. QED
      BY <2>1, <3>1 DEF WritesOf, Locates
  <2>4. QED
    BY <2>1, <2>2, <2>3 DEF Placed
<1>4. QED
  BY <1>1, <1>2, <1>3, KeptAlways, PTL DEF MCSpec

-----------------------------------------------------------------------------
(* What a queue that is sent again leaves behind.                          *)

\* What the first k writes make of a document is what a queue of these shows.
LEMMA PrefixView ==
    ASSUME NEW w \in Seq(Mutation), NEW id \in DocId, NEW b \in MaybeDoc,
           NEW k \in 0..Len(w)
    PROVE  /\ SubSeq(w, 1, k) \in Seq(Mutation)
           /\ documentForKey(SubSeq(w, 1, k), id, b) = ViewTo(w, id, b, k)
<1> DEFINE v == SubSeq(w, 1, k)
<1>1. v \in Seq(Mutation) /\ Len(v) = k /\ \A i \in 1..k : v[i] = w[i]
  OBVIOUS
<1> HIDE DEF v
<1>2. documentForKey(v, id, b) = ViewTo(v, id, b, k)
  BY <1>1, ShownIsViewTo
<1>3. /\ ResetsTo(v, id, k) = ResetsTo(w, id, k)
      /\ \A f : WritesTo(v, id, f, k) = WritesTo(w, id, f, k)
  BY <1>1 DEF ResetsTo, WritesTo
<1>4. k \in Nat
  OBVIOUS
<1>5. \A S : S \subseteq 1..k /\ LastOf(S) # 0 => v[LastOf(S)] = w[LastOf(S)]
  <2>1. ASSUME NEW S, S \subseteq 1..k, LastOf(S) # 0
        PROVE  v[LastOf(S)] = w[LastOf(S)]
    BY <1>1, <1>4, <2>1, LastIsOne
  <2>2. QED
    BY <2>1
<1>6. /\ ResetsTo(w, id, k) \subseteq 1..k
      /\ \A f : WritesTo(w, id, f, k) \subseteq 1..k
  BY DEF ResetsTo, WritesTo
<1>7. ViewTo(v, id, b, k) = ViewTo(w, id, b, k)
  BY <1>3, <1>5, <1>6 DEF ViewTo, ValueOf
<1>8. QED
  BY <1>1, <1>2, <1>7 DEF v

\* Writes sent again after the first k of them were applied end where they
\* would have ended at once.
LEMMA ResentWrites ==
    ASSUME NEW w \in Seq(Mutation), NEW id \in DocId, NEW b \in MaybeDoc,
           NEW k \in 0..Len(w)
    PROVE  documentForKey(w, id, documentForKey(SubSeq(w, 1, k), id, b)) = documentForKey(w, id, b)
<1> DEFINE n == Len(w)
           c == ViewTo(w, id, b, k)
           R(i) == ResetsTo(w, id, i)
           W(f, i) == WritesTo(w, id, f, i)
<1>1. n \in Nat /\ k \in Nat /\ k <= n
  OBVIOUS
<1>2. /\ SubSeq(w, 1, k) \in Seq(Mutation)
      /\ documentForKey(SubSeq(w, 1, k), id, b) = c
  BY PrefixView
<1>3. c \in MaybeDoc
  <2>1. PICK v : v = SubSeq(w, 1, k)
    OBVIOUS
  <2>2. v \in Seq(Mutation) /\ c = documentForKey(v, id, b)
    BY <1>2, <2>1
  <2>3. documentForKey(v, id, b) \in MaybeDoc
    BY <2>2, ViewType
  <2>4. QED
    BY <2>2, <2>3
<1>4. /\ documentForKey(w, id, c) = ViewTo(w, id, c, n)
      /\ documentForKey(w, id, b) = ViewTo(w, id, b, n)
  BY <1>3, ShownIsViewTo
<1>5. \A i \in 0..n : IF R(i) = {} THEN LastOf(R(i)) = 0 ELSE LastOf(R(i)) # 0
  <2>1. ASSUME NEW i \in 0..n
        PROVE  IF R(i) = {} THEN LastOf(R(i)) = 0 ELSE LastOf(R(i)) # 0
    <3>1. i \in Nat /\ R(i) \subseteq 1..i
      BY DEF ResetsTo
    <3>2. QED
      BY <3>1, LastIsOne
  <2>2. QED
    BY <2>1
<1>6. ASSUME NEW f
      PROVE  \A i \in 0..n : IF W(f, i) = {} THEN LastOf(W(f, i)) = 0
                             ELSE LastOf(W(f, i)) # 0
  <2>1. ASSUME NEW i \in 0..n
        PROVE  IF W(f, i) = {} THEN LastOf(W(f, i)) = 0 ELSE LastOf(W(f, i)) # 0
    <3>1. i \in Nat /\ W(f, i) \subseteq 1..i
      BY DEF WritesTo
    <3>2. QED
      BY <3>1, LastIsOne
  <2>2. QED
    BY <2>1
<1>7. R(k) \subseteq R(n) /\ \A f : W(f, k) \subseteq W(f, n)
  BY <1>1 DEF ResetsTo, WritesTo
<1>8. R(n) # {} => \A f \in Field : W(f, n) # {}
  BY <1>1 DEF ResetsTo, WritesTo, Mutation
<1>9. CASE R(n) # {}
  <2>1. LastOf(R(n)) # 0 /\ \A f \in Field : LastOf(W(f, n)) # 0
    BY <1>1, <1>5, <1>6, <1>8, <1>9
  <2>2. ViewTo(w, id, c, n) = ViewTo(w, id, b, n)
    BY <2>1 DEF ViewTo, ValueOf, Field
  <2>3. QED
    BY <1>2, <1>4, <2>2
<1>10. CASE R(n) = {}
  <2>1. LastOf(R(n)) = 0 /\ LastOf(R(k)) = 0
    BY <1>1, <1>5, <1>7, <1>10
  <2>2. CASE b = NoDoc
    <3>1. c = NoDoc
      BY <2>1, <2>2 DEF ViewTo
    <3>2. QED
      BY <1>2, <2>2, <3>1
  <2>3. CASE b # NoDoc
    <3>1. c = [partner |-> ValueOf(LastOf(W("partner", k)), "partner", w, b),
               loc |-> ValueOf(LastOf(W("loc", k)), "loc", w, b)]
      BY <2>1, <2>3 DEF ViewTo
    <3>2. c # NoDoc
      <4>1. c \in Doc
        BY <2>1, <2>3, <3>1, ViewToIsDoc DEF Doc
      <4>2. QED
        BY <4>1
    <3>3. ASSUME NEW f \in Field, LastOf(W(f, n)) = 0
          PROVE  LastOf(W(f, k)) = 0
      BY <1>1, <1>6, <1>7, <3>3
    <3>4. /\ ValueOf(LastOf(W("partner", n)), "partner", w, c)
               = ValueOf(LastOf(W("partner", n)), "partner", w, b)
          /\ ValueOf(LastOf(W("loc", n)), "loc", w, c)
               = ValueOf(LastOf(W("loc", n)), "loc", w, b)
      BY <3>1, <3>3 DEF ValueOf, Field
    <3>5. ViewTo(w, id, c, n) = ViewTo(w, id, b, n)
      BY <2>1, <2>3, <3>2, <3>4 DEF ViewTo
    <3>6. QED
      BY <1>2, <1>4, <3>5
  <2>4. QED
    BY <2>2, <2>3
<1>11. QED
  BY <1>9, <1>10

-----------------------------------------------------------------------------
(* The queues of MCUserDocs, of any length.                                *)

\* The queue holds writes of the app.
QueueOK == docWrites \in Seq(Mutation) /\ docBase \in MaybeDoc

LEMMA QueueIsOK == DocsSpec => []QueueOK
<1>1. DocsInit => QueueOK
  BY DEF DocsInit, QueueOK
<1>2. QueueOK /\ [DocsNext]_<<docWrites, docBase>> => QueueOK'
  <2>1. SUFFICES ASSUME QueueOK, [DocsNext]_<<docWrites, docBase>>
                 PROVE  QueueOK'
    OBVIOUS
  <2>2. CASE DocsNext
    <3>1. PICK m \in AppWrite :
             docWrites' = Append(docWrites, m) /\ docBase' = docBase
      BY <2>2 DEF DocsNext, Write
    <3>2. m \in Mutation
      BY WritesAreMutations DEF AppWrite
    <3>3. QED
      BY <2>1, <3>1, <3>2 DEF QueueOK
  <2>3. CASE UNCHANGED <<docWrites, docBase>>
    BY <2>1, <2>3 DEF QueueOK
  <2>4. QED
    BY <2>1, <2>2, <2>3
<1>3. QED
  BY <1>1, <1>2, PTL DEF DocsSpec

\* fillWritePipeline, Precondition: a queue that is sent again from its head,
\* because the answers of its first writes were lost after the server had
\* applied them, leaves the document it would have left at once.
THEOREM ResendsConverge == DocsSpec => []ResendConverges
<1>1. QueueOK => ResendConverges
  <2>1. SUFFICES ASSUME QueueOK, NEW id \in DocId, NEW k \in 0..Len(docWrites)
                 PROVE  documentForKey(docWrites, id, documentForKey(SubSeq(docWrites, 1, k), id, docBase))
                          = documentForKey(docWrites, id, docBase)
    BY DEF ResendConverges
  <2>2. PICK v, c : v = SubSeq(docWrites, 1, k) /\ c = documentForKey(v, id, docBase)
    OBVIOUS
  <2>3. docWrites \in Seq(Mutation) /\ docBase \in MaybeDoc
    BY <2>1 DEF QueueOK
  <2>4. documentForKey(docWrites, id, c) = documentForKey(docWrites, id, docBase)
    BY <2>2, <2>3, ResentWrites
  <2>5. QED
    BY <2>2, <2>4
<1>2. QED
  BY <1>1, QueueIsOK, PTL
=============================================================================
