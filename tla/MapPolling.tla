----------------------------- MODULE MapPolling -----------------------------
(***************************************************************************)
(* The pin on the map.  Twice a second the timer reads the own document,   *)
(* and the callback of that read reads the document of the partner it      *)
(* names; the callback of the second read moves the pin.  Nothing waits    *)
(* for the reads of the tick before.                                       *)
(*                                                                         *)
(* One phone whose user stays signed in.  A document is the sequence of    *)
(* its versions at the server; the phone keeps the version it has.         *)
(* Reads of one document that overlap share one listen, and are answered   *)
(* together.                                                               *)
(***************************************************************************)
EXTENDS Naturals, Sequences, FiniteSets

CONSTANTS
    Person,      \* possible partners
    Me,          \* the user of the phone
    None,        \* no partner
    NoPin,       \* the map shows no partner
    MaxReads,    \* reads of one document that the timer leaves in flight
    MaxOwn,      \* versions of the own document
    MaxChanges   \* changes of the partners' documents, all together

ASSUME PollingAssumption ==
    /\ Person \cap {Me, None, "here", "gone"} = {} /\ Me # None
    /\ \A p \in Person, n \in 0..(MaxChanges + 1) : NoPin # <<p, n>>
    /\ MaxReads \in Nat \ {0} /\ MaxOwn \in Nat \ {0} /\ MaxChanges \in Nat

VARIABLES
    docs,    \* server: the versions of every document, oldest first
    reads,   \* phone: how many reads of a document wait for it
    answer,  \* the version on its way to the reads of a document, 0 for none
    cache,   \* phone: the version of a document it shows, 0 for none
    main,    \* phone: callbacks in the main queue, oldest first
    pin      \* phone: the partner and the version of its document on the map

vars  == <<docs, reads, answer, cache, main, pin>>

DocId == Person \cup {Me}

\* What a version says: of the own document the partner, of another's whether
\* it is there (with the position of that version).
Content(id) == IF id = Me THEN Person \cup {None} ELSE {"here", "gone"}

Init ==
    /\ docs = [id \in DocId |-> <<IF id = Me THEN None ELSE "here">>]
    /\ reads = [id \in DocId |-> 0]
    /\ answer = [id \in DocId |-> 0]
    /\ cache = [id \in DocId |-> 0]
    /\ main = <<>>
    /\ pin = NoPin

Latest(id) == Len(docs[id])

Now(id) == docs[id][Latest(id)]

\* Bound: whether a document may be written once more.
MayChange(id) ==
    IF id = Me THEN Latest(Me) < MaxOwn
    ELSE Cardinality(UNION {{p} \X (2..Latest(p)) : p \in Person}) < MaxChanges

-----------------------------------------------------------------------------
(* The world.                                                              *)

\* Somebody writes a document: a position, a withdrawal, a code typed on the
\* other phone, a partnership dissolved.
Written(id, c) ==
    /\ MayChange(id)
    /\ Now(id) # "gone"
    /\ docs' = [docs EXCEPT ![id] = Append(@, c)]
    /\ UNCHANGED <<reads, answer, cache, main, pin>>

\* The own phone changes the partner, by a code typed or a partnership
\* dissolved, and shows it from then on.  The write and its answer are one
\* step; what the same handler writes to the partner's document, another
\* version of it at the same position, is a step of Written.
WrittenHere(c) ==
    /\ MayChange(Me)
    /\ docs' = [docs EXCEPT ![Me] = Append(@, c)]
    /\ cache' = [cache EXCEPT ![Me] = Latest(Me) + 1]
    /\ UNCHANGED <<reads, answer, main, pin>>

-----------------------------------------------------------------------------
(* Reads.                                                                  *)

\* The server hears of the reads of a document and sends what it has.
Listen(id) ==
    /\ reads[id] > 0
    /\ answer[id] = 0
    /\ answer' = [answer EXCEPT ![id] = Latest(id)]
    /\ UNCHANGED <<docs, reads, cache, main, pin>>

\* The reads of a document are over: the main queue takes a callback for each.
Deliver(id, ver) ==
    /\ main' = main \o [i \in 1..reads[id] |-> [id |-> id, ver |-> ver]]
    /\ reads' = [reads EXCEPT ![id] = 0]

\* Fault: a document that is in the cache is not refreshed by what arrives.
ArriveCachesOnce(id) ==
    /\ answer[id] # 0
    /\ cache' = IF cache[id] = 0 THEN [cache EXCEPT ![id] = answer[id]] ELSE cache
    /\ Deliver(id, answer[id])
    /\ answer' = [answer EXCEPT ![id] = 0]
    /\ UNCHANGED <<docs, pin>>

\* The answer arrives; an older version than the one in the cache is ignored,
\* and the reads are given what the cache has now.
Arrive(id) ==
    /\ answer[id] # 0
    /\ LET v == IF answer[id] >= cache[id] THEN answer[id] ELSE cache[id] IN
       /\ cache' = [cache EXCEPT ![id] = v]
       /\ Deliver(id, v)
    /\ answer' = [answer EXCEPT ![id] = 0]
    /\ UNCHANGED <<docs, pin>>

\* The phone is offline and the reads are answered from the cache; without a
\* cached document the answer is an error, version 0.
AnswerFromCache(id) ==
    /\ reads[id] > 0
    /\ answer[id] = 0
    /\ Deliver(id, cache[id])
    /\ UNCHANGED <<docs, answer, cache, pin>>

\* The connection breaks: what was on its way is lost, the reads listen again.
StreamBreaks ==
    /\ answer # [id \in DocId |-> 0]
    /\ answer' = [id \in DocId |-> 0]
    /\ UNCHANGED <<docs, reads, cache, main, pin>>

\* What a callback is given: nothing, or what the version says.
Given(a) == IF a.ver = 0 THEN "gone" ELSE docs[a.id][a.ver]

-----------------------------------------------------------------------------
(* The timer and its callbacks.                                            *)

\* Reads of a document that have not reached their callback.
InFlight(id) == reads[id] + Len(SelectSeq(main, LAMBDA a : a.id = id))

\* Fault: the timer reads the own document but is not started again.
updatePinOnce ==
    /\ pin = NoPin
    /\ \A id \in DocId : InFlight(id) < MaxReads
    /\ reads' = [reads EXCEPT ![Me] = @ + 1]
    /\ UNCHANGED <<docs, answer, cache, main, pin>>

\* The timer fires (bounded by the reads in flight).
updatePin ==
    /\ \A id \in DocId : InFlight(id) < MaxReads
    /\ reads' = [reads EXCEPT ![Me] = @ + 1]
    /\ UNCHANGED <<docs, answer, cache, main, pin>>

\* The callback of the first read asks for the partner's document, or gives up.
OwnCallback ==
    /\ main # <<>>
    /\ Head(main).id = Me
    /\ LET p == Given(Head(main)) IN
       reads' = IF p \in Person THEN [reads EXCEPT ![p] = @ + 1] ELSE reads
    /\ main' = Tail(main)
    /\ UNCHANGED <<docs, answer, cache, pin>>

\* Fault: the callback does not look whether the document is there.
PartnerCallbackUnchecked ==
    /\ main # <<>>
    /\ Head(main).id \in Person
    /\ pin' = IF Head(main).ver # 0
              THEN <<Head(main).id, Head(main).ver>> ELSE pin
    /\ main' = Tail(main)
    /\ UNCHANGED <<docs, reads, answer, cache>>

\* The callback of the second read moves the pin, or leaves it where it is.
PartnerCallback ==
    /\ main # <<>>
    /\ Head(main).id \in Person
    /\ pin' = IF Given(Head(main)) = "here"
              THEN <<Head(main).id, Head(main).ver>> ELSE pin
    /\ main' = Tail(main)
    /\ UNCHANGED <<docs, reads, answer, cache>>

-----------------------------------------------------------------------------

World ==
    \/ \E id \in DocId : \E c \in Content(id) : Written(id, c)
    \/ \E c \in Content(Me) : WrittenHere(c)

Reading ==
    \/ \E id \in DocId : Listen(id) \/ Arrive(id) \/ AnswerFromCache(id)
    \/ StreamBreaks

Polling == updatePin \/ OwnCallback \/ PartnerCallback

Next == World \/ Reading \/ Polling

Spec == Init /\ [][Next]_vars

\* The timer repeats, the main queue runs, and connections break again and
\* again but not always before the answer.
Fairness ==
    /\ WF_vars(updatePin)
    /\ WF_vars(OwnCallback \/ PartnerCallback)
    /\ \A id \in DocId : SF_vars(Listen(id)) /\ SF_vars(Arrive(id))

FairSpec == Spec /\ Fairness

-----------------------------------------------------------------------------
(* Properties.                                                             *)

\* The pin is somebody whom the own document named as the partner at some
\* time, at the position of a version of their document, never of one that was
\* deleted (updatePin).
PinWasPartner ==
    pin # NoPin =>
        /\ \E v \in DOMAIN docs[Me] : docs[Me][v] = pin[1]
        /\ docs[pin[1]][pin[2]] = "here"

\* The pin never goes back to an older position of the same partner, although
\* the reads of several ticks are in flight at once, some answered from the
\* cache (updatePin, applyRemoteEvent).
PinNeverGoesBack ==
    [][pin # NoPin /\ pin'[1] = pin[1] => pin'[2] >= pin[2]]_pin

\* When the partner stays, the pin comes to their last position and stays
\* there, whatever was in flight before (updatePin).
PinFollows ==
    \A p \in Person :
        <>[](Now(Me) = p /\ Now(p) = "here") => <>[](pin = <<p, Latest(p)>>)
=============================================================================
