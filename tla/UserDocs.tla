------------------------------ MODULE UserDocs ------------------------------
(***************************************************************************)
(* The documents of the Firestore collection "users", one per account, and *)
(* the mutations the app writes to them: setData at sign-up, updateData    *)
(* (a patch of some fields that requires the document to exist) and        *)
(* delete.  Every operator here is pure: it is applied by the server to    *)
(* the stored document and by the SDK to the copy on the device.           *)
(*                                                                         *)
(* A document keeps the two fields the app acts on, "partner" and the      *)
(* position ("lat" and "lon", always written together); "email", "name"    *)
(* and "uid" never change after sign-up.                                   *)
(***************************************************************************)
EXTENDS Naturals, Sequences

CONSTANTS
    User,        \* uids, each one the id of that account's document
    Typo,        \* codes a person may type that are nobody's uid
    Loc,         \* positions a device may report
    DefaultLoc,  \* Tokyo, the position written at sign-up
    None,        \* the empty string: no partner, nobody signed in
    Absent,      \* the value of a field that was deleted
    NoDoc        \* there is no such document

ASSUME DocAssumption ==
    /\ None \notin User \cup Typo
    /\ Absent \notin User \cup Typo
    /\ Absent # None
    /\ DefaultLoc \notin Loc
    /\ User \cap Typo = {}

DocId == User \cup Typo

Field == {"partner", "loc"}

Partner == DocId \cup {None, Absent}
Position == Loc \cup {DefaultLoc}

Doc == [partner : Partner, loc : Position]

ASSUME NoDocAssumption == NoDoc \notin Doc

MaybeDoc == Doc \cup {NoDoc}

\* A mutation: what it does, to which document, the fields it names and the
\* values it gives them (a field outside the mask is ignored).  Only a patch
\* leaves fields alone.
Mutation ==
    {m \in [kind : {"set", "patch", "delete"}, id : DocId,
            mask : SUBSET Field, partner : Partner, loc : Position] :
        m.kind = "patch" \/ m.mask = Field}

-----------------------------------------------------------------------------
(* The writes of the app.                                                  *)

\* The document handleSignUp writes for a new account.
setData(u) ==
    [kind |-> "set", id |-> u, mask |-> Field,
     partner |-> None, loc |-> DefaultLoc]

\* Fault: setData in place of updateData makes a document that is not there.
setPartner(id, p) ==
    [kind |-> "set", id |-> id, mask |-> Field,
     partner |-> p, loc |-> DefaultLoc]

\* updateData of the field "partner"; p = Absent is FieldValue.delete().
updatePartner(id, p) ==
    [kind |-> "patch", id |-> id, mask |-> {"partner"},
     partner |-> p, loc |-> DefaultLoc]

\* updateData of "lat" and "lon".
updateLocation(u, l) ==
    [kind |-> "patch", id |-> u, mask |-> {"loc"},
     partner |-> None, loc |-> l]

\* ref.delete() of the whole document.
deleteDoc(u) ==
    [kind |-> "delete", id |-> u, mask |-> Field,
     partner |-> None, loc |-> DefaultLoc]

-----------------------------------------------------------------------------
(* What a mutation does to a document.                                     *)

\* Fault: the first write of a document requires that there is none.
IsValidForCreation(m, d) == (m.kind = "patch") = (d # NoDoc)

\* updateData carries the precondition that the document exists.
IsValidFor(m, d) == m.kind = "patch" => d # NoDoc

\* The fields of the mask take the value of the mutation, the others stay.
patchObjectValue(m, d) ==
    [partner |-> IF "partner" \in m.mask THEN m.partner ELSE d.partner,
     loc     |-> IF "loc" \in m.mask THEN m.loc ELSE d.loc]

applyTo(m, d) ==
    IF ~IsValidFor(m, d) THEN d
    ELSE CASE m.kind = "set"    -> [partner |-> m.partner, loc |-> m.loc]
           [] m.kind = "patch"  -> patchObjectValue(m, d)
           [] m.kind = "delete" -> NoDoc

-----------------------------------------------------------------------------
(* The copy a device shows: the cached document overlaid with the          *)
(* mutations still waiting in the queue q, in the order of the queue.      *)

documentForKey(q, id, base) ==
    LET step[i \in 0..Len(q)] ==
            IF i = 0 THEN base
            ELSE IF q[i].id = id THEN applyTo(q[i], step[i - 1])
                 ELSE step[i - 1]
    IN  step[Len(q)]

\* The partner the app reads from a document: a field that is not there
\* reads as the empty string.
UserDataPartner(d) == IF d.partner = Absent THEN None ELSE d.partner
=============================================================================
