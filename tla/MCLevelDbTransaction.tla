----------------------- MODULE MCLevelDbTransaction -----------------------
(***************************************************************************)
(* LevelDbTransaction for TLC, with the history of the scan in progress.   *)
(***************************************************************************)
EXTENDS LevelDbTransaction, TLC

VARIABLES
    there, \* history: the rows that were there all through the scan
    seen   \* history: the keys the scan has shown

Symmetry == Permutations(Value)

MCInit == Init /\ there = {} /\ seen = {}

Shown(i) == IF i.isValid THEN {i.key} ELSE {}

\* A scan starts with a seek; every edit may end the stay of a row.
MCNext ==
    \/ /\ startTransaction \/ NewIterator \/ Commit
       /\ there' = {} /\ seen' = {}
    \/ \E k \in Key :
          /\ Seek(k)
          /\ there' = {j \in DOMAIN Batch : k <= j}
          /\ seen' = Shown(it')
    \/ /\ NextEntry
       /\ seen' = seen \cup Shown(it')
       /\ UNCHANGED there
    \/ /\ \/ \E k \in Key : Delete(k)
          \/ \E k \in Key, v \in Value : Put(k, v) \/ PutMessage(k, v)
       /\ there' = there \cap DOMAIN Batch'
       /\ UNCHANGED seen

MCSpec == MCInit /\ [][MCNext]_<<vars, there, seen>>

\* A scan stands on no erased entry, and misses no row that was there from its
\* seek on, whatever the caller put or deleted on the way: what it has not
\* shown lies ahead of it (LevelDbTransaction::Iterator).
ScanMissesNothing ==
    /\ TypeOK /\ NoDanglingIterator
    /\ \A k \in there \ seen : it.isValid /\ it.key < k
=============================================================================
