----------------------------- MODULE MCLevelDb -----------------------------
(***************************************************************************)
(* LevelDb for TLC: two keys with batches that put, delete and do both;    *)
(* three keys with batches whose key ranges have a gap.                    *)
(***************************************************************************)
EXTENDS LevelDb

Put1 == [k \in {1} |-> TRUE]
Del1 == [k \in {1} |-> FALSE]
Put2 == [k \in {2} |-> TRUE]
Both == [k \in {1, 2} |-> k = 2]
Ends == [k \in {1, 3} |-> TRUE]

TwoKeys   == {Put1, Del1, Put2, Both}
PutOrBoth == {Put1, Both}
OneOrBoth == {Put1, Del1, Both}
ThreeKeys == {Put2, Del1, Ends}
AllOfThem == TwoKeys \cup ThreeKeys

\* Writers in a queue, and a process that stops: nobody reads, and power stays.
GroupNext ==
    \/ \E b \in Batches : Write(b)
    \/ WriterStep \/ BackgroundStep
    \/ Crash \/ Recover \/ SetCurrentFile \/ Opened

\* The threads go on: the system schedules them, and the mutex is fair enough.
GroupSpec ==
    Init /\ [][GroupNext]_vars /\ WF_vars(WriterStep) /\ WF_vars(BackgroundStep)
=============================================================================
