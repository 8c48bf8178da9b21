----------------------------- MODULE MCUserDocs -----------------------------
(***************************************************************************)
(* Every queue of the app's writes up to a length, over every document: what *)
(* the operators of UserDocs compute from it.                              *)
(***************************************************************************)
EXTENDS UserDocs

CONSTANT MaxLen   \* writes in the queue

VARIABLES
    docWrites,   \* the mutation queue
    docBase      \* what every document was before it

AppWrite ==
    {setData(u) : u \in User} \cup {deleteDoc(u) : u \in User}
      \cup {updatePartner(id, p) : id \in DocId, p \in DocId \cup {Absent}}
      \cup {updateLocation(u, l) : u \in User, l \in Loc}

DocsInit == docWrites = <<>> /\ docBase \in MaybeDoc

\* A handler writes.
Write ==
    /\ Len(docWrites) < MaxLen
    /\ \E m \in AppWrite : docWrites' = Append(docWrites, m)
    /\ docBase' = docBase

DocsNext == Write

DocsSpec == DocsInit /\ [][DocsNext]_<<docWrites, docBase>>

-----------------------------------------------------------------------------
(* Properties.                                                             *)

\* A queue that is sent again from its head, because the answers of its first
\* i writes were lost after the server had applied them, leaves the document
\* it would have left at once, rejected writes included: this is why the SDK
\* may send every unanswered write again (fillWritePipeline, Precondition).
\* It is also why a phone shows the same document whether the one it read has
\* its first i writes already or not yet (documentForKey over a cached document).
ResendConverges ==
    \A id \in DocId, i \in 0..Len(docWrites) :
        LET applied == documentForKey(SubSeq(docWrites, 1, i), id, docBase) IN
        documentForKey(docWrites, id, applied) = documentForKey(docWrites, id, docBase)
=============================================================================
