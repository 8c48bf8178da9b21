------------------------ MODULE LevelDbTransaction ------------------------
(***************************************************************************)
(* LevelDbTransaction: the pending changes of one transaction over the     *)
(* committed rows of leveldb, and the iterator that merges the two.        *)
(* FSTLevelDB has at most one transaction at a time; its users edit it     *)
(* while an iterator is in use (a queue deletes the rows it walks over).   *)
(*                                                                         *)
(* Keys are numbers, for their order.  A map is a function on the keys it  *)
(* holds.                                                                  *)
(***************************************************************************)
EXTENDS Integers

CONSTANTS
    Key,       \* the keys of rows
    Value,     \* the contents of rows
    MaxVersion \* bound: edits of one transaction

ASSUME KeyAssumption == Key \subseteq Nat
ASSUME VersionAssumption == MaxVersion \in Nat

VARIABLES
    db,        \* the committed rows
    open,      \* is there a transaction?
    mutations, \* rows it will put
    deletions, \* rows it will delete
    version,   \* the number of its edits
    it         \* the iterator in use

txn  == <<mutations, deletions, version>>
vars == <<db, open, txn, it>>

NoKey   == -1
NoValue == "none"

ASSUME ValueAssumption == NoValue \notin Value

Rows == UNION {[D -> Value] : D \in SUBSET Key}
Empty == [k \in {} |-> NoValue]

\* dbPos and mutPos are the positions of the two iterators, NoKey at the end.
Iterator ==
    [dbPos : Key \cup {NoKey}, mutPos : Key \cup {NoKey},
     key : Key \cup {NoKey}, value : Value \cup {NoValue},
     isMutation : BOOLEAN, isValid : BOOLEAN, lastVersion : 0..MaxVersion]

-----------------------------------------------------------------------------
\* The first key of S at or after k, and the first one after k.

LowerBound(S, k) ==
    IF \E j \in S : k <= j
    THEN CHOOSE j \in S : k <= j /\ \A i \in S : k <= i => j <= i
    ELSE NoKey

After(S, k) == LowerBound(S, k + 1)

\* The rows of leveldb that the iterator does not skip.
Live == {k \in DOMAIN db : k \notin deletions}

-----------------------------------------------------------------------------
\* The iterator.  Each operator is one method, from the iterator to itself.

NewIter ==
    [dbPos |-> NoKey, mutPos |-> LowerBound(DOMAIN mutations, 0),
     key |-> NoKey, value |-> NoValue, isMutation |-> FALSE,
     isValid |-> FALSE, lastVersion |-> version]

\* Fault: an equal key of leveldb comes first.
UpdateCurrentDbFirst(i) ==
    LET isMutation == i.mutPos # NoKey /\ (i.dbPos = NoKey \/ i.dbPos > i.mutPos)
        key        == IF isMutation THEN i.mutPos ELSE i.dbPos
    IN  IF key = NoKey
        THEN [i EXCEPT !.isValid = FALSE]
        ELSE [i EXCEPT !.isValid = TRUE, !.isMutation = isMutation, !.key = key,
                       !.value = IF isMutation THEN mutations[key] ELSE db[key]]

\* A pending row goes before the row of leveldb that it precedes or shadows.
UpdateCurrent(i) ==
    LET isMutation == i.mutPos # NoKey /\ (i.dbPos = NoKey \/ i.dbPos >= i.mutPos)
        key        == IF isMutation THEN i.mutPos ELSE i.dbPos
    IN  IF key = NoKey
        THEN [i EXCEPT !.isValid = FALSE]
        ELSE [i EXCEPT !.isValid = TRUE, !.isMutation = isMutation, !.key = key,
                       !.value = IF isMutation THEN mutations[key] ELSE db[key]]

SeekTo(i, k) ==
    LET at == [i EXCEPT !.dbPos = LowerBound(Live, k),
                        !.mutPos = LowerBound(DOMAIN mutations, k)]
    IN  [UpdateCurrent(at) EXCEPT !.lastVersion = version]

AdvanceLDB(i) == [i EXCEPT !.dbPos = After(Live, i.dbPos)]

SyncToTransaction(i) ==
    IF i.lastVersion < version THEN SeekTo(i, i.key) ELSE i

\* Only a shadowed row of leveldb is passed together with the pending one.
Advance(i) ==
    LET passed == IF ~i.isMutation \/ i.dbPos = i.mutPos THEN AdvanceLDB(i) ELSE i
    IN  UpdateCurrent(
            IF i.isMutation
            THEN [passed EXCEPT !.mutPos = After(DOMAIN mutations, i.mutPos)]
            ELSE passed)

\* Fault: an iterator that has moved to the next entry by itself moves again.
NextOfTwice(i) ==
    LET synced == SyncToTransaction(i)
    IN  IF synced.isValid THEN Advance(synced) ELSE synced

NextOf(i) ==
    LET synced   == SyncToTransaction(i)
        advanced == synced.isValid /\ synced.key > i.key
    IN  IF ~advanced /\ synced.isValid THEN Advance(synced) ELSE synced

-----------------------------------------------------------------------------
\* The actions.

Init ==
    /\ db = Empty
    /\ open = FALSE
    /\ mutations = Empty /\ deletions = {} /\ version = 0
    /\ it = NewIter

startTransaction ==
    /\ ~open
    /\ open' = TRUE
    /\ mutations' = Empty /\ deletions' = {} /\ version' = 0
    /\ it' = NewIter'
    /\ UNCHANGED db

NewIterator ==
    /\ open
    /\ it' = NewIter
    /\ UNCHANGED <<db, open, txn>>

Seek(k) ==
    /\ open
    /\ it' = SeekTo(it, k)
    /\ UNCHANGED <<db, open, txn>>

\* The callers ask Valid() first: Next() asserts it.
NextEntry ==
    /\ open /\ it.isValid
    /\ it' = NextOf(it)
    /\ UNCHANGED <<db, open, txn>>

With(f, k, v) == [j \in DOMAIN f \cup {k} |-> IF j = k THEN v ELSE f[j]]

Put(k, v) ==
    /\ open /\ version < MaxVersion
    /\ mutations' = With(mutations, k, v)
    /\ deletions' = deletions \ {k}
    /\ version' = version + 1
    /\ UNCHANGED <<db, open, it>>

\* The overload for protocol buffers, which leaves deletions_ alone.
PutMessage(k, v) ==
    /\ open /\ version < MaxVersion
    /\ mutations' = With(mutations, k, v)
    /\ version' = version + 1
    /\ UNCHANGED <<db, open, deletions, it>>

Delete(k) ==
    /\ open /\ version < MaxVersion
    /\ deletions' = deletions \cup {k}
    /\ mutations' = [j \in DOMAIN mutations \ {k} |-> mutations[j]]
    /\ version' = version + 1
    /\ UNCHANGED <<db, open, it>>

\* The batch holds the deletions first and then the puts, so a put wins.
Batch ==
    [k \in Live \cup DOMAIN mutations |->
        IF k \in DOMAIN mutations THEN mutations[k] ELSE db[k]]

Commit ==
    /\ open
    /\ db' = Batch
    /\ open' = FALSE
    /\ UNCHANGED <<txn, it>>

\* Fault: leveldb is asked before the pending rows.
GetCommittedFirst(k) ==
    IF k \in deletions THEN NoValue
    ELSE IF k \in DOMAIN db THEN db[k]
    ELSE IF k \in DOMAIN mutations THEN mutations[k]
    ELSE NoValue

\* What Get(key) finds, NoValue for Status::NotFound.
Get(k) ==
    IF k \in deletions THEN NoValue
    ELSE IF k \in DOMAIN mutations THEN mutations[k]
    ELSE IF k \in DOMAIN db THEN db[k]
    ELSE NoValue

Next ==
    \/ startTransaction \/ NewIterator \/ NextEntry \/ Commit
    \/ \E k \in Key : Seek(k) \/ Delete(k)
    \/ \E k \in Key, v \in Value : Put(k, v) \/ PutMessage(k, v)

Spec == Init /\ [][Next]_vars

-----------------------------------------------------------------------------
\* The properties.

\* The variables have their types.
TypeOK ==
    /\ db \in Rows /\ mutations \in Rows
    /\ open \in BOOLEAN
    /\ deletions \in SUBSET Key
    /\ version \in 0..MaxVersion
    /\ it \in Iterator

\* An iterator that has not fallen behind stands on entries that are there:
\* ++mutations_iter_ never starts from an erased element, whatever was put or
\* deleted while the caller held the iterator.
NoDanglingIterator ==
    it.lastVersion = version =>
        /\ it.mutPos \in DOMAIN mutations \cup {NoKey}
        /\ it.isValid /\ it.isMutation => it.mutPos = it.key
        /\ it.isValid /\ ~it.isMutation => it.dbPos = it.key /\ it.key \in Live

\* Get agrees with what Commit would write, except for a row deleted and then
\* put as a message in this transaction.
GetMissesOnlyRestored ==
    \A k \in Key :
        Get(k) = (IF k \in DOMAIN Batch THEN Batch[k] ELSE NoValue)
            <=> k \notin deletions \cap DOMAIN mutations

\* The iterator shows the rows as edited so far, in order, and skips none: the
\* transaction with its maps, its version and its two positions is one table
\* of rows with one cursor.
TV == INSTANCE TransactionView WITH
    committed <- db,
    rows      <- Batch,
    cursor    <- IF it.isValid
                 THEN [valid |-> TRUE, key |-> it.key, value |-> it.value]
                 ELSE [valid |-> FALSE, key |-> NoKey, value |-> NoValue]

ImplementsView == TV!Spec
=============================================================================
