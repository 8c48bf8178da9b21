----------------------------- MODULE TableCache -----------------------------
(***************************************************************************)
(* The open tables of leveldb: the reference-counted cache (one shard of   *)
(* util/cache.cc, whose operations hold its mutex and are single steps),   *)
(* the readers that look a table up, open it and put it in                 *)
(* (db/table_cache.cc), and the deletion of files that no version needs    *)
(* any more (DeleteObsoleteFiles), which evicts them.                      *)
(*                                                                         *)
(* A reader holds the version that was current when it began, and with it  *)
(* the files of that version.  It looks tables up without the lock of the  *)
(* database: two readers may miss the same table and both put it in, and a *)
(* table may be evicted while it is being read.                            *)
(*                                                                         *)
(* A Get holds one table at a time.  An iterator of a client or of a       *)
(* compaction holds many: those of all files of level 0, one of each       *)
(* deeper level, and two of one while it goes on to the next file          *)
(* (AddIterators, MakeInputIterator, TwoLevelIterator).  It has one handle *)
(* of each, whatever becomes of the entry meanwhile.                       *)
(***************************************************************************)
EXTENDS Integers, FiniteSets, SequencesExt

CONSTANTS
  Files,        \* the table files, each made once
  FirstFiles,   \* those that exist at the beginning
  Threads,      \* the readers: the writer's thread, the compaction, clients
  Capacity      \* capacity_: the number of tables kept open

\* What the constants have to satisfy.
TableCacheAssumption ==
  /\ FirstFiles \subseteq Files /\ Files # {}
  /\ IsFiniteSet(Files) /\ IsFiniteSet(Threads) /\ Threads # {}
  /\ Capacity \in Nat \ {0}

VARIABLES
  cache,        \* the shard: its entries, hash table, two lists and usage_
  disk,         \* the table files in the directory
  current,      \* the files of the current version
  reader        \* what every reader is doing

cacheVars == <<cache, disk, current, reader>>

\* Memory for entries: more than OpenTablesBounded needs.
Ids == 1..(Capacity + Cardinality(Threads) * Cardinality(Files))
NULL == 0

\* An entry without a reference has been given to its deleter and is free.
Entry == [key : Files, refs : 0..(Cardinality(Threads) + 2), in_cache : BOOLEAN]

----------------------------------------------------------------------------
(* The shard: c is its state, e an entry. *)

InUse(c, e) == [c EXCEPT !.lru = RemoveFirst(@, e), !.in_use = @ \cup {e}]
ToLru(c, e) == [c EXCEPT !.lru = Append(@, e), !.in_use = @ \ {e}]

Ref(c, e) ==
  LET d == IF c.entry[e].refs = 1 /\ c.entry[e].in_cache THEN InUse(c, e) ELSE c
  IN [d EXCEPT !.entry[e].refs = @ + 1]

\* Reference 0 is the deleter and free().
Unref(c, e) ==
  LET d == [c EXCEPT !.entry[e].refs = @ - 1]
  IN IF d.entry[e].in_cache /\ d.entry[e].refs = 1 THEN ToLru(d, e) ELSE d

\* e has left the hash table.
FinishErase(c, e) ==
  IF e = NULL THEN c
  ELSE Unref([c EXCEPT !.lru = RemoveFirst(@, e), !.in_use = @ \ {e},
                       !.entry[e].in_cache = FALSE, !.usage = @ - 1], e)

Erase(c, key) == FinishErase([c EXCEPT !.table[key] = NULL], c.table[key])

\* Fault: one entry more than there is room for.
TrimOneLess(c) ==
  IF c.usage > Capacity + 1 /\ c.lru # << >>
  THEN Erase(c, c.entry[Head(c.lru)].key) ELSE c

\* The oldest unused entry goes, when there are too many.
TrimOne(c) ==
  IF c.usage > Capacity /\ c.lru # << >>
  THEN Erase(c, c.entry[Head(c.lru)].key) ELSE c

\* The loop of Insert: it ends when lru_ is empty, if not before.
Trim(c) ==
  LET trimmed[i \in 0..Len(c.lru)] ==
        IF i = 0 THEN c ELSE TrimOne(trimmed[i - 1])
  IN trimmed[Len(c.lru)]

\* A new entry e, with a reference for the cache and one for the caller; an
\* older entry of the same key leaves.
Insert(c, key, e) ==
  Trim(FinishErase([c EXCEPT !.entry[e] = [key |-> key, refs |-> 2, in_cache |-> TRUE],
                             !.in_use = @ \cup {e}, !.usage = @ + 1,
                             !.table[key] = e],
                   c.table[key]))

----------------------------------------------------------------------------
(* The readers *)

NoReader == [pc |-> "idle", version |-> {}, file |-> NULL,
             handle |-> [f \in Files |-> NULL]]

Reads(t, r) == reader' = [reader EXCEPT ![t] = r]

\* DBImpl::Get, an iterator or a compaction takes the current version.
BeginRead(t) ==
  /\ reader[t].pc = "idle"
  /\ Reads(t, [NoReader EXCEPT !.pc = "reading", !.version = current])
  /\ UNCHANGED <<cache, disk, current>>

\* FindTable: Lookup, and Ref when it is there, besides what the reader holds.
FindTable(t, f) ==
  LET e == cache.table[f] IN
  /\ reader[t].pc = "reading" /\ f \in reader[t].version
  /\ reader[t].handle[f] = NULL
  /\ \/ /\ e # NULL
        /\ cache' = Ref(cache, e)
        /\ Reads(t, [reader[t] EXCEPT !.handle[f] = e])
     \/ /\ e = NULL
        /\ Reads(t, [reader[t] EXCEPT !.pc = "opening", !.file = f])
        /\ UNCHANGED cache
  /\ UNCHANGED <<disk, current>>

\* NewRandomAccessFile and Table::Open; an error is not cached.
OpenTable(t) ==
  /\ reader[t].pc = "opening"
  /\ \/ /\ reader[t].file \in disk
        /\ Reads(t, [reader[t] EXCEPT !.pc = "opened"])
     \/ Reads(t, [reader[t] EXCEPT !.pc = "reading", !.file = NULL])
  /\ UNCHANGED <<cache, disk, current>>

InsertTable(t) ==
  LET f == reader[t].file IN
  /\ reader[t].pc = "opened"
  /\ \E e \in Ids :
       /\ cache.entry[e].refs = 0 /\ \A d \in 1..(e - 1) : cache.entry[d].refs > 0
       /\ cache' = Insert(cache, f, e)
       /\ Reads(t, [reader[t] EXCEPT !.pc = "reading", !.file = NULL, !.handle[f] = e])
  /\ UNCHANGED <<disk, current>>

\* Get releases when it has its value, the iterator of a table when it is
\* destroyed (UnrefEntry): with its parent, or when that goes on to another file.
Release(t, f) ==
  /\ reader[t].pc = "reading" /\ reader[t].handle[f] # NULL
  /\ cache' = Unref(cache, reader[t].handle[f])
  /\ Reads(t, [reader[t] EXCEPT !.handle[f] = NULL])
  /\ UNCHANGED <<disk, current>>

\* The version is given back after the tables.
EndRead(t) ==
  /\ reader[t].pc = "reading" /\ \A f \in Files : reader[t].handle[f] = NULL
  /\ Reads(t, NoReader)
  /\ UNCHANGED <<cache, disk, current>>

----------------------------------------------------------------------------
\* A compaction replaces tables of the current version by a new one.
Install(f, old) ==
  /\ f \in Files \ disk /\ \A g \in disk : g < f
  /\ old \subseteq current
  /\ disk' = disk \cup {f}
  /\ current' = (current \ old) \cup {f}
  /\ UNCHANGED <<cache, reader>>

\* Fault: only the current version's files are live.
CurrentOnly == current

\* AddLiveFiles: the files of every version somebody holds.
Live == current \cup UNION {reader[t].version : t \in Threads}

DeleteObsolete(f) ==
  /\ f \in disk \ Live
  /\ cache' = Erase(cache, f)
  /\ disk' = disk \ {f}
  /\ UNCHANGED <<current, reader>>

----------------------------------------------------------------------------
CacheInit ==
  /\ cache = [entry |-> [e \in Ids |->
                 [key |-> CHOOSE f \in Files : TRUE, refs |-> 0, in_cache |-> FALSE]],
              table |-> [f \in Files |-> NULL],
              lru |-> << >>, in_use |-> {}, usage |-> 0]
  /\ disk = FirstFiles
  /\ current = FirstFiles
  /\ reader = [t \in Threads |-> NoReader]

CacheNext ==
  \/ \E t \in Threads : BeginRead(t)
  \/ \E t \in Threads, f \in Files : FindTable(t, f)
  \/ \E t \in Threads : OpenTable(t)
  \/ \E t \in Threads : InsertTable(t)
  \/ \E t \in Threads, f \in Files : Release(t, f)
  \/ \E t \in Threads : EndRead(t)
  \/ \E f \in Files, old \in SUBSET current : Install(f, old)
  \/ \E f \in Files : DeleteObsolete(f)

CacheSpec == CacheInit /\ [][CacheNext]_cacheVars

----------------------------------------------------------------------------
(* Properties *)

\* The entries a reader has a handle for, those in the cache, those not free.
Held == {reader[t].handle[f] : t \in Threads, f \in Files} \ {NULL}
Cached == {e \in Ids : cache.entry[e].in_cache}
Alive == {e \in Ids : cache.entry[e].refs > 0}

(* The type invariant: what every variable holds. *)
CacheTypeOK ==
  /\ cache \in [entry : [Ids -> Entry], table : [Files -> Ids \cup {NULL}],
                lru : Seq(Ids), in_use : SUBSET Ids, usage : 0..Cardinality(Ids)]
  /\ disk \subseteq Files /\ current \subseteq Files
  /\ reader \in [Threads -> [pc : {"idle", "reading", "opening", "opened"},
                             version : SUBSET Files, file : Files \cup {NULL},
                             handle : [Files -> Ids \cup {NULL}]]]

(* A table is closed exactly when it is neither in the cache nor in the    *)
(* hands of a reader: never under a reader, whatever is evicted, replaced  *)
(* or trimmed meanwhile, and never not at all.  What a reader holds is the *)
(* table it asked for.                                                     *)
ClosedWhenUnused ==
  /\ Alive = Cached \cup Held
  /\ \A t \in Threads, f \in Files : reader[t].handle[f] # NULL =>
       cache.entry[reader[t].handle[f]].key = f

(* The hash table, the two lists and usage_ describe the same entries: the *)
(* list says which of them nobody uses, and each key has one entry.        *)
ListsAgree ==
  /\ \A f \in Files, e \in Ids :
       cache.table[f] = e <=> cache.entry[e].in_cache /\ cache.entry[e].key = f
  /\ ToSet(cache.lru) = Cached \ Held
  /\ Len(cache.lru) = Cardinality(ToSet(cache.lru))
  /\ cache.in_use = Cached \cap Held
  /\ cache.usage = Cardinality(Cached)

(* A table is opened only while there are no more open tables than the     *)
(* cache has room for and all readers hold but one: Insert trims, Release  *)
(* does not, and an entry that was replaced stays open while it is read.   *)
(* So the open tables never outgrow the capacity by as much as were in use *)
(* at one time.                                                            *)
OpenTablesBounded ==
  [][Cardinality(Alive') > Cardinality(Alive) =>
       Cardinality(Alive') <= Capacity + Cardinality(Held') - 1]_cacheVars

(* The cache never keeps a table whose file has been deleted, and a reader *)
(* never looks for a file that is gone: a reader that missed the table     *)
(* cannot put it in after the eviction.                                    *)
NoStaleTable ==
  /\ \A f \in Files : cache.table[f] # NULL => f \in disk
  /\ \A t \in Threads : reader[t].version \subseteq disk

\* util/cache.cc, db/table_cache.cc: a table is closed exactly when neither the
\* cache nor a reader has it, the hash table and the lists agree, and no table
\* of a deleted file stays.
CacheInv == CacheTypeOK /\ ClosedWhenUnused /\ ListsAgree /\ NoStaleTable
=============================================================================
