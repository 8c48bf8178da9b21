--------------------------- MODULE MCLevelDbParts ---------------------------
(***************************************************************************)
(* The parts LevelDb takes as given, for TLC: the list of a memtable, the  *)
(* open tables and the log file.  They share no state, so a behaviour is   *)
(* one of one part, chosen at the beginning; the others stay as they are.  *)
(* The properties are those of the three modules.                          *)
(***************************************************************************)
EXTENDS SkipList, TableCache, LogFile, TLC

CONSTANT MaxCrowd

VARIABLE part   \* the part that runs

\* Bound: the tables that readers may ask for, and those they asked for.  While
\* there are three files two readers hold two tables or one reader three, while
\* there are two files two readers hold four or three readers two.
Crowd ==
    LET Busy  == {t \in Threads : reader'[t].pc # "idle"}
        Asked == {<<t, f>> \in Threads \X Files :
                    reader'[t].handle[f] # NULL \/ reader'[t].file = f}
    IN  Cardinality(Busy) * Max(disk') + Cardinality(Asked) <= MaxCrowd

PartsInit ==
    /\ part \in {"list", "cache", "log"}
    /\ ListInit /\ CacheInit /\ LogInit

ListStep ==
    part = "list" /\ ListNext /\ UNCHANGED <<part, cacheVars, logVars>>
CacheStep ==
    part = "cache" /\ CacheNext /\ Crowd /\ UNCHANGED <<part, listVars, logVars>>
LogStep ==
    part = "log" /\ LogNext /\ UNCHANGED <<part, listVars, cacheVars>>

PartsNext == ListStep \/ CacheStep \/ LogStep

PartsSpec == PartsInit /\ [][PartsNext]_<<part, listVars, cacheVars, logVars>>

\* The readers of tables are interchangeable.
ThreadSymmetry == Permutations(Threads)
=============================================================================
