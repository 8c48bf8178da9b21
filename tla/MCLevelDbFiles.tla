--------------------------- MODULE MCLevelDbFiles ---------------------------
(***************************************************************************)
(* LevelDb for TLC, its files: one run over several small scenarios, each  *)
(* wide in one direction.  The constants of LevelDb are the widest values; *)
(* the scenario, chosen at the beginning, narrows them.                    *)
(***************************************************************************)
EXTENDS MCLevelDb

VARIABLE scenario

Scenario(batches, sequence, stops, power, gets) ==
    [batches |-> batches, sequence |-> sequence, stops |-> stops, power |-> power,
     gets |-> gets]

\* Many files on all levels, a read, a process that stops, a phone that stops
\* twice.
Scenarios == {
    Scenario(ThreeKeys, 4, 0, FALSE, 0),
    Scenario(OneOrBoth, 3, 0, FALSE, 1),
    Scenario(PutOrBoth, 5, 1, FALSE, 0),
    Scenario(PutOrBoth, 3, 2, TRUE, 0)}

MCWrite(b) ==
    /\ current.lastSequence + NumEntries(writers) + Cardinality(DOMAIN b) <= scenario.sequence
    /\ Write(b)
    /\ UNCHANGED scenario

MCStartGet == reads < scenario.gets /\ StartGet /\ UNCHANGED scenario

MCCrash == restarts < scenario.stops /\ Crash /\ UNCHANGED scenario

MCPowerLoss ==
    scenario.power /\ restarts < scenario.stops /\ PowerLoss /\ UNCHANGED scenario

MCStep ==
    \/ WriterStep     /\ UNCHANGED scenario
    \/ BackgroundStep /\ UNCHANGED scenario
    \/ FinishGet      /\ UNCHANGED scenario
    \/ Recover        /\ UNCHANGED scenario
    \/ SetCurrentFile /\ UNCHANGED scenario
    \/ Opened         /\ UNCHANGED scenario

MCInit == Init /\ scenario \in Scenarios

MCNext ==
    \/ \E b \in scenario.batches : MCWrite(b)
    \/ MCStartGet \/ MCCrash \/ MCPowerLoss \/ MCStep

MCSpec == MCInit /\ [][MCNext]_<<vars, scenario>>
=============================================================================
