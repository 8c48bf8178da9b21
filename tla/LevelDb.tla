------------------------------ MODULE LevelDb ------------------------------
(***************************************************************************)
(* The storage engine under Firestore's persistence: leveldb's DBImpl with *)
(* its write-ahead log, memtable, tables and MANIFEST.  Writers queue up   *)
(* and the first one writes for a group; one background thread turns the   *)
(* full memtable into a table and merges tables down the levels; a reader  *)
(* reads without the mutex from what it has taken references to; the       *)
(* process or the phone stops at any time and the database is opened       *)
(* again.                                                                  *)
(*                                                                         *)
(* What runs under mutex_ is one step, what runs without it is another.    *)
(* An entry is a key, put or deleted, with its sequence number, which      *)
(* stands for the value.  Sizes in bytes are numbers of entries or files,  *)
(* or a choice.  Records of the log are whole (LogFile).  Files are synced *)
(* as the code does: tables and MANIFEST are, logs are not (WriteOptions). *)
(***************************************************************************)
EXTENDS Integers, Sequences, FiniteSets, FiniteSetsExt, SequencesExt

CONSTANTS
    Key,                   \* user keys in their order; the length of one is a varint32
    kNumLevels,            \* the levels of tables
    kMaxMemCompactLevel,   \* the deepest level for a new table
    kL0_CompactionTrigger, \* level-0 files that start a compaction
    kL0_StopWritesTrigger, \* level-0 files that stop the writers
    MaxFilesOfLevel,       \* files that a deeper level holds before compaction
    WriteBufferSize,       \* entries that the memtable holds before a switch
    MaxWriters,            \* bound: threads that write at a time
    MaxSequence,           \* bound: entries written
    MaxRestarts,           \* bound: times the database is opened again
    MaxReads,              \* bound: reads
    Batches,               \* the batches that are written
    PowerFails             \* may the phone lose power, or the process only stop?

ASSUME LevelDbAssumption ==
    /\ Key \subseteq Nat /\ IsFiniteSet(Key)
    /\ {kNumLevels, kL0_CompactionTrigger, MaxFilesOfLevel, MaxWriters} \subseteq Nat \ {0}
    /\ {kMaxMemCompactLevel, WriteBufferSize, MaxSequence, MaxRestarts, MaxReads} \subseteq Nat
    /\ kMaxMemCompactLevel < kNumLevels
    /\ kL0_CompactionTrigger <= kL0_StopWritesTrigger
    /\ PowerFails \in BOOLEAN
    /\ Batches \subseteq UNION {[D -> BOOLEAN] : D \in (SUBSET Key) \ {{}}}

VARIABLES
    \* on disk
    logs,      \* the log files by number: sequences of records
    tables,    \* the table files by number: sets of entries
    manifest,  \* the version the MANIFEST describes
    \* in memory
    up,        \* "down", "recovering" or "open"
    mem,       \* the memtable
    imm,       \* the one being compacted; none if it is empty
    current,   \* VersionSet: the levels, the log number, the counters
    logfile,   \* logfile_number_
    writers,   \* writers_: the batches of the threads that wait
    group,     \* what the first writer is doing, and for how many
    asleep,    \* the first writer waits on bg_cv_
    scheduled, \* bg_compaction_scheduled_
    bg,        \* the background thread
    reader,    \* a read in progress
    \* history
    written,   \* the entries that a log has received
    acked,     \* the writes that were acknowledged
    issued,    \* the number of writes so far
    reads,     \* the number of reads so far
    restarts   \* the number of times the database went down

disk    == <<logs, tables, manifest>>
queue   == <<writers, group, asleep>>
history == <<written, acked, issued, reads, restarts>>
vars    == <<disk, up, mem, imm, current, logfile, queue, scheduled, bg, reader, history>>

Level == 0 .. kNumLevels - 1
NoFile == 0

-----------------------------------------------------------------------------
\* Tables and levels.

Smallest(n) == Min({e.key : e \in tables[n]})
Largest(n)  == Max({e.key : e \in tables[n]})

\* The files of S with a key range that meets lo..hi.
Overlapping(S, lo, hi) == {n \in S : Largest(n) >= lo /\ Smallest(n) <= hi}

Overlap(S, T) ==
    S # {} /\ T # {} /\ LET lo == Min({e.key : e \in S})
                            hi == Max({e.key : e \in S})
                        IN  Overlapping(T, lo, hi) # {}

KeyRange(S) == LET ks == UNION {{e.key : e \in tables[n]} : n \in S}
               IN  <<Min(ks), Max(ks)>>

\* Files of level 0 may overlap each other: a file that is taken widens the
\* range for the others, until the set is closed.
GetOverlappingInputs(levels, level, lo, hi) ==
    IF level > 0
    THEN Overlapping(levels[level], lo, hi)
    ELSE LET Closed(S) ==
                 /\ Overlapping(levels[0], lo, hi) \subseteq S
                 /\ S # {} => Overlapping(levels[0], KeyRange(S)[1], KeyRange(S)[2]) \subseteq S
         IN  {n \in levels[0] : \A S \in SUBSET levels[0] : Closed(S) => n \in S}

\* Files in the order of their numbers.
OldestFirst(S) ==
    [i \in 1 .. Cardinality(S) |-> CHOOSE n \in S : Cardinality({m \in S : m < n}) = i - 1]
NewestFirst(S) ==
    [i \in 1 .. Cardinality(S) |-> CHOOSE n \in S : Cardinality({m \in S : m > n}) = i - 1]

\* Where the search for a key looks, one set of entries after the other: the
\* files of level 0 from the newest on, then of each level the first file
\* that reaches to the key.
TableSources(levels, k) ==
    LET newestFirst == NewestFirst(levels[0])
        InLevel(l) ==
            LET reach == {n \in levels[l] : Largest(n) >= k}
            IN  UNION {tables[n] : n \in {m \in reach :
                           \A j \in reach : Largest(m) <= Largest(j)}}
    IN  [i \in DOMAIN newestFirst |-> tables[newestFirst[i]]]
          \o [l \in 1 .. kNumLevels - 1 |-> InLevel(l)]

\* The entries of S for key k as of sequence number s.
Visible(S, k, s) == {e \in S : e.key = k /\ e.seq <= s}

\* What a search finds: the number of the put, 0 for Status::NotFound.
Newest(S) == CHOOSE e \in S : \A f \in S : f.seq <= e.seq
ValueOf(S) == IF S = {} \/ ~Newest(S).put THEN 0 ELSE Newest(S).seq

Search(sources, k, s) ==
    LET hits == {i \in DOMAIN sources : Visible(sources[i], k, s) # {}}
    IN  IF hits = {} THEN 0 ELSE ValueOf(Visible(sources[Min(hits)], k, s))

NumLevelFiles(l) == Cardinality(current.levels[l])

NeedsCompactionIn(v) ==
    \/ Cardinality(v.levels[0]) >= kL0_CompactionTrigger
    \/ \E l \in 1 .. kNumLevels - 2 : Cardinality(v.levels[l]) > MaxFilesOfLevel
    \/ v.seekFile # NoFile

\* MaybeScheduleCompaction, for the memtable and the version of the next state.
MaybeScheduleCompaction(alreadyScheduled, nextImm, v) ==
    scheduled' = (alreadyScheduled \/ nextImm # {} \/ NeedsCompactionIn(v))

-----------------------------------------------------------------------------
\* The writers.  A batch is a function from keys to put (TRUE) or delete.

NoGroup == [n |-> 0, phase |-> "none", entries |-> {}]

\* The entries of a queue of writers, and their order: the writers in turn, and
\* the keys of each batch as they were put into it.
Slots(ws) == UNION {{i} \X DOMAIN ws[i].batch : i \in DOMAIN ws}
NotAfter(p, q) == p[1] < q[1] \/ (p[1] = q[1] /\ p[2] <= q[2])
NumEntries(ws) == Cardinality(Slots(ws))

\* The entries of the first n batches of the queue, numbered from seq + 1: the
\* record that is logged.
GroupEntries(n, seq) ==
    {[seq |-> seq + Cardinality({q \in Slots(writers) : NotAfter(q, p)}),
      key |-> p[2], put |-> writers[p[1]].batch[p[2]], id |-> writers[p[1]].id]
        : p \in Slots(SubSeq(writers, 1, n))}

Write(b) ==
    /\ up = "open" /\ Len(writers) < MaxWriters
    /\ current.lastSequence + NumEntries(writers) + Cardinality(DOMAIN b) <= MaxSequence
    /\ writers' = Append(writers, [id |-> issued + 1, batch |-> b])
    /\ issued' = issued + 1
    /\ UNCHANGED <<disk, up, mem, imm, current, logfile, group, asleep, scheduled,
                   bg, reader, written, acked, reads, restarts>>

\* MakeRoomForWrite, one turn of its loop by the first writer.
AtFront == up = "open" /\ writers # <<>> /\ group = NoGroup /\ ~asleep

HasRoom == Cardinality(mem) <= WriteBufferSize

WaitForRoom ==
    /\ AtFront /\ ~HasRoom
    /\ imm # {} \/ NumLevelFiles(0) >= kL0_StopWritesTrigger
    /\ asleep' = TRUE
    /\ UNCHANGED <<disk, up, mem, imm, current, logfile, writers, group, scheduled,
                   bg, reader, history>>

SwitchMemTable ==
    LET number == current.nextFile
    IN  /\ AtFront /\ ~HasRoom
        /\ imm = {} /\ NumLevelFiles(0) < kL0_StopWritesTrigger
        /\ logs' = [i \in DOMAIN logs \cup {number} |->
                       IF i = number THEN <<>> ELSE logs[i]]
        /\ logfile' = number
        /\ current' = [current EXCEPT !.nextFile = number + 1]
        /\ imm' = mem
        /\ mem' = {}
        /\ MaybeScheduleCompaction(scheduled, mem, current')
        /\ UNCHANGED <<tables, manifest, up, queue, bg, reader, history>>

\* BuildBatchGroup: how many of the waiting batches fit is a question of bytes.
BuildBatchGroup(n) ==
    /\ AtFront /\ HasRoom
    /\ group' = [n |-> n, phase |-> "log",
                 entries |-> GroupEntries(n, current.lastSequence)]
    /\ UNCHANGED <<disk, up, mem, imm, current, logfile, writers, asleep, scheduled,
                   bg, reader, history>>

\* Without the mutex: the record is appended to the log, then the entries go
\* into the memtable.
AddRecord ==
    /\ group.phase = "log"
    /\ logs' = [logs EXCEPT ![logfile] = Append(@, group.entries)]
    /\ written' = written \cup group.entries
    /\ group' = [group EXCEPT !.phase = "insert"]
    /\ UNCHANGED <<tables, manifest, up, mem, imm, current, logfile, writers, asleep,
                   scheduled, bg, reader, acked, issued, reads, restarts>>

InsertInto ==
    /\ group.phase = "insert"
    /\ mem' = mem \cup group.entries
    /\ group' = [group EXCEPT !.phase = "finish"]
    /\ UNCHANGED <<disk, up, imm, current, logfile, writers, asleep, scheduled,
                   bg, reader, history>>

\* Fault: every writer that waits is told that it is done.
FinishWriteForAll ==
    /\ group.phase = "finish"
    /\ current' = [current EXCEPT !.lastSequence = @ + Cardinality(group.entries)]
    /\ acked' = acked \cup {writers[i].id : i \in DOMAIN writers}
    /\ writers' = <<>>
    /\ group' = NoGroup
    /\ UNCHANGED <<disk, up, mem, imm, logfile, asleep, scheduled, bg, reader,
                   written, issued, reads, restarts>>

\* The sequence number is published and the group is done.
FinishWrite ==
    /\ group.phase = "finish"
    /\ current' = [current EXCEPT !.lastSequence = @ + Cardinality(group.entries)]
    /\ acked' = acked \cup {writers[i].id : i \in 1 .. group.n}
    /\ writers' = SubSeq(writers, group.n + 1, Len(writers))
    /\ group' = NoGroup
    /\ UNCHANGED <<disk, up, mem, imm, logfile, asleep, scheduled, bg, reader,
                   written, issued, reads, restarts>>

-----------------------------------------------------------------------------
\* The background thread.

NoCompaction ==
    [level |-> -1, in0 |-> {}, in1 |-> {}, base |-> [l \in Level |-> {}],
     snapshot |-> 0, todo |-> {}, outputs |-> {}]

NoEdit ==
    [kind |-> "none", add |-> {}, del |-> {}, logNumber |-> 0, nextFile |-> 0,
     lastSequence |-> 0]

Idle == [pc |-> "idle", comp |-> NoCompaction, edit |-> NoEdit]

\* A version edit on top of the levels: VersionSet::Builder.
ApplyEdit(levels, edit) ==
    [l \in Level |-> (levels[l] \ {d[2] : d \in {x \in edit.del : x[1] = l}})
                        \cup {a[2] : a \in {x \in edit.add : x[1] = l}}]

\* LogAndApply up to where it releases the mutex.
Edit(kind, add, del, logNumber, v) ==
    [kind |-> kind, add |-> add, del |-> del, logNumber |-> logNumber,
     nextFile |-> v.nextFile, lastSequence |-> v.lastSequence]

\* BackgroundCall, or a merge that finds a memtable waiting: CompactMemTable.
StartFlush ==
    /\ up = "open" /\ imm # {}
    /\ \/ bg.pc = "idle" /\ scheduled
       \/ bg.pc = "merge" /\ bg.comp.todo # {}
    /\ bg' = [bg EXCEPT !.pc = "flush"]
    /\ UNCHANGED <<disk, up, mem, imm, current, logfile, queue, scheduled, reader,
                   history>>

\* PickLevelForMemTableOutput: a level above which, and in which, nothing
\* overlaps; how much may overlap below is a question of bytes.
PickLevelForMemTableOutput(S) ==
    {0} \cup {l \in 1 .. kMaxMemCompactLevel :
                 \A j \in 0..l : ~Overlap(S, current.levels[j])}

\* WriteLevel0Table: the table is built and synced without the mutex.
WriteLevel0Table(level) ==
    LET number == current.nextFile
        v      == [current EXCEPT !.nextFile = number + 1]
    IN  /\ bg.pc = "flush"
        /\ level \in PickLevelForMemTableOutput(imm)
        /\ tables' = [n \in DOMAIN tables \cup {number} |->
                         IF n = number THEN imm ELSE tables[n]]
        /\ current' = v
        /\ bg' = [bg EXCEPT !.pc = "log",
                            !.edit = Edit("flush", {<<level, number>>}, {}, logfile, v)]
        /\ UNCHANGED <<logs, manifest, up, mem, imm, logfile, queue, scheduled,
                       reader, history>>

\* PickCompaction and SetupOtherInputs.  Which file of a level is next, and
\* whether the inputs may be widened, are questions of bytes.
Picks ==
    LET size == {l \in 0 .. kNumLevels - 2 :
                    Cardinality(current.levels[l]) >=
                        (IF l = 0 THEN kL0_CompactionTrigger ELSE MaxFilesOfLevel + 1)}
    IN  IF size # {} THEN {p \in size \X DOMAIN tables : p[2] \in current.levels[p[1]]}
        ELSE {p \in (0 .. kNumLevels - 2) \X {current.seekFile} :
                  p[2] \in current.levels[p[1]]}

Inputs(level, file) ==
    LET Get(l, S) == GetOverlappingInputs(current.levels, l, KeyRange(S)[1], KeyRange(S)[2])
        in0  == IF level = 0 THEN Get(0, {file}) ELSE {file}
        in1  == Get(level + 1, in0)
        wide == Get(level, in0 \cup in1)
        in1w == Get(level + 1, wide)
    IN  {<<in0, in1>>} \cup
        (IF in1 # {} /\ Cardinality(wide) > Cardinality(in0)
                     /\ Cardinality(in1w) = Cardinality(in1)
         THEN {<<wide, in1w>>} ELSE {})

\* BackgroundCompaction with no memtable to flush.
MayCompact == up = "open" /\ scheduled /\ bg.pc = "idle" /\ imm = {}

At(level, S) == {<<level, n>> : n \in S}

\* A single file with nothing to merge it with moves down as it is.
TrivialMove(pick, in) ==
    /\ MayCompact
    /\ Cardinality(in[1]) = 1 /\ in[2] = {}
    /\ bg' = [bg EXCEPT !.pc = "log",
                        !.edit = Edit("move", At(pick[1] + 1, in[1]), At(pick[1], in[1]),
                                      current.logNumber, current)]
    /\ UNCHANGED <<disk, up, mem, imm, current, logfile, queue, scheduled, reader,
                   history>>

StartMerge(pick, in) ==
    /\ MayCompact
    /\ bg' = [bg EXCEPT !.pc = "merge",
                        !.comp = [level |-> pick[1], in0 |-> in[1], in1 |-> in[2],
                                  base |-> current.levels,
                                  snapshot |-> current.lastSequence,
                                  todo |-> {e.key : e \in UNION {tables[n] :
                                                n \in in[1] \cup in[2]}},
                                  outputs |-> {}]]
    /\ UNCHANGED <<disk, up, mem, imm, current, logfile, queue, scheduled, reader,
                   history>>

\* Fault: the last level is not looked at.
IsBaseLevelShort(c, k) ==
    \A l \in c.level + 2 .. kNumLevels - 2 : Overlapping(c.base[l], k, k) = {}

\* No level below the output has the key in the range of a file.
IsBaseLevelForKey(c, k) ==
    \A l \in c.level + 2 .. kNumLevels - 1 : Overlapping(c.base[l], k, k) = {}

\* What a merge keeps of the entries S.
Kept(c, S) ==
    {e \in S :
        /\ ~\E f \in S : f.key = e.key /\ e.seq < f.seq /\ f.seq <= c.snapshot
        /\ ~(~e.put /\ e.seq <= c.snapshot /\ IsBaseLevelForKey(c, e.key))}

\* DoCompactionWork: one output file, up to the key where it is full.
MergeOutput(last) ==
    LET c      == bg.comp
        number == current.nextFile
        from   == UNION {tables[n] : n \in c.in0 \cup c.in1}
        kept   == Kept(c, {e \in from : e.key \in c.todo /\ e.key <= last})
        done   == [c EXCEPT !.todo = {k \in c.todo : k > last}]
    IN  /\ bg.pc = "merge" /\ last \in c.todo
        /\ IF kept = {}
           THEN /\ bg' = [bg EXCEPT !.comp = done]
                /\ UNCHANGED <<tables, current>>
           ELSE /\ bg' = [bg EXCEPT !.comp = [done EXCEPT !.outputs = @ \cup {number}]]
                /\ current' = [current EXCEPT !.nextFile = number + 1]
                /\ tables' = [n \in DOMAIN tables \cup {number} |->
                                 IF n = number THEN kept ELSE tables[n]]
        /\ UNCHANGED <<logs, manifest, up, mem, imm, logfile, queue, scheduled, reader,
                       history>>

\* Fault: the edit of a merge passes over the log of a memtable that waits.
InstallPastLog ==
    LET c == bg.comp
    IN  /\ bg.pc = "merge" /\ c.todo = {}
        /\ bg' = [bg EXCEPT !.pc = "log",
                            !.edit = Edit("merge", At(c.level + 1, c.outputs),
                                          At(c.level, c.in0) \cup At(c.level + 1, c.in1),
                                          logfile, current)]
        /\ UNCHANGED <<disk, up, mem, imm, current, logfile, queue, scheduled, reader,
                       history>>

InstallCompactionResults ==
    LET c == bg.comp
    IN  /\ bg.pc = "merge" /\ c.todo = {}
        /\ bg' = [bg EXCEPT !.pc = "log",
                            !.edit = Edit("merge", At(c.level + 1, c.outputs),
                                          At(c.level, c.in0) \cup At(c.level + 1, c.in1),
                                          current.logNumber, current)]
        /\ UNCHANGED <<disk, up, mem, imm, current, logfile, queue, scheduled, reader,
                       history>>

\* LogAndApply without the mutex: the edit is appended to MANIFEST and synced.
WriteManifest ==
    /\ bg.pc = "log"
    /\ manifest' = [levels |-> ApplyEdit(manifest.levels, bg.edit),
                    logNumber |-> bg.edit.logNumber, nextFile |-> bg.edit.nextFile,
                    lastSequence |-> bg.edit.lastSequence]
    /\ bg' = [bg EXCEPT !.pc = "install"]
    /\ UNCHANGED <<logs, tables, up, mem, imm, current, logfile, queue, scheduled,
                   reader, history>>

Files(levels) == UNION {levels[l] : l \in Level}

Only(f, S) == [x \in DOMAIN f \cap S |-> f[x]]

\* DeleteObsoleteFiles, for the version v: the files of every version in use
\* and the outputs of a merge in progress stay.
DeleteObsoleteFiles(v, comp) ==
    /\ logs' = Only(logs, {n \in DOMAIN logs : n >= v.logNumber})
    /\ tables' = Only(tables, Files(v.levels) \cup Files(reader.levels)
                                      \cup Files(comp.base) \cup comp.outputs)

\* Fault: the writer that waits on bg_cv_ is not woken.
InstallQuietly ==
    LET v      == [current EXCEPT !.levels = ApplyEdit(current.levels, bg.edit),
                                  !.logNumber = bg.edit.logNumber,
                                  !.seekFile = NoFile]
        flush  == bg.edit.kind = "flush"
        nested == flush /\ bg.comp # NoCompaction
    IN  /\ bg.pc = "install"
        /\ current' = v
        /\ imm' = IF flush THEN {} ELSE imm
        /\ bg' = IF nested THEN [bg EXCEPT !.pc = "merge", !.edit = NoEdit] ELSE Idle
        /\ IF bg.edit.kind = "move" THEN UNCHANGED <<logs, tables>>
           ELSE DeleteObsoleteFiles(v, bg'.comp)
        /\ IF nested THEN UNCHANGED scheduled
           ELSE MaybeScheduleCompaction(FALSE, imm', v)
        /\ UNCHANGED <<manifest, up, mem, logfile, queue, reader, history>>

\* LogAndApply with the mutex again, and what follows it in CompactMemTable and
\* BackgroundCall.
Install ==
    LET v      == [current EXCEPT !.levels = ApplyEdit(current.levels, bg.edit),
                                  !.logNumber = bg.edit.logNumber,
                                  !.seekFile = NoFile]
        flush  == bg.edit.kind = "flush"
        nested == flush /\ bg.comp # NoCompaction
    IN  /\ bg.pc = "install"
        /\ current' = v
        /\ imm' = IF flush THEN {} ELSE imm
        /\ bg' = IF nested THEN [bg EXCEPT !.pc = "merge", !.edit = NoEdit] ELSE Idle
        /\ IF bg.edit.kind = "move" THEN UNCHANGED <<logs, tables>>
           ELSE DeleteObsoleteFiles(v, bg'.comp)
        /\ IF nested THEN UNCHANGED scheduled
           ELSE MaybeScheduleCompaction(FALSE, imm', v)
        /\ asleep' = FALSE
        /\ UNCHANGED <<manifest, up, mem, logfile, writers, group, reader, history>>

-----------------------------------------------------------------------------
\* A reader takes references under the mutex and reads without it.

NoReader == [on |-> FALSE, seq |-> 0, mem |-> {}, imm |-> {},
             levels |-> [l \in Level |-> {}]]

StartGet ==
    /\ up = "open" /\ ~reader.on /\ reads < MaxReads
    /\ reads' = reads + 1
    /\ reader' = [on |-> TRUE, seq |-> current.lastSequence, mem |-> mem, imm |-> imm,
                  levels |-> current.levels]
    /\ UNCHANGED <<disk, up, mem, imm, current, logfile, queue, scheduled, bg,
                   written, acked, issued, restarts>>

\* The files a search may read in vain before another one.
Charged(levels) ==
    {n \in UNION {levels[l] : l \in 0 .. kNumLevels - 2} :
        \E m \in Files(levels) : m # n /\ Overlapping({m}, Smallest(n), Largest(n)) # {}}

\* UpdateStats: a file that was often read in vain is to be compacted.
FinishGet ==
    /\ up = "open" /\ reader.on
    /\ reader' = NoReader
    /\ \/ UNCHANGED <<current, scheduled>>
       \/ /\ reader.levels = current.levels /\ current.seekFile = NoFile
          /\ \E n \in Charged(current.levels) :
                current' = [current EXCEPT !.seekFile = n]
          /\ MaybeScheduleCompaction(scheduled, imm, current')
    /\ UNCHANGED <<disk, up, mem, imm, logfile, queue, bg, history>>

-----------------------------------------------------------------------------
\* Stopping and opening again.

NoVersion == [levels |-> [l \in Level |-> {}], logNumber |-> 0, nextFile |-> 0,
              lastSequence |-> 0, seekFile |-> NoFile]

Stop ==
    /\ up # "down" /\ restarts < MaxRestarts
    /\ up' = "down" /\ restarts' = restarts + 1
    /\ mem' = {} /\ imm' = {} /\ current' = NoVersion /\ logfile' = NoFile
    /\ writers' = <<>> /\ group' = NoGroup /\ asleep' = FALSE
    /\ scheduled' = FALSE /\ bg' = Idle /\ reader' = NoReader
    /\ UNCHANGED <<tables, manifest, issued, reads>>

\* The process stops: what was handed to the system is in the files.
Crash == Stop /\ UNCHANGED <<logs, written, acked>>

\* The phone stops: logs lose what was not written back yet.
PowerLoss ==
    LET lost(kept) ==
            UNION {UNION {logs[n][i] : i \in kept[n] + 1 .. Len(logs[n])} :
                      n \in {m \in DOMAIN logs : m >= manifest.logNumber}}
    IN  /\ PowerFails /\ Stop
        /\ \E kept \in [DOMAIN logs -> 0..MaxSequence] :
              /\ \A n \in DOMAIN logs : kept[n] <= Len(logs[n])
              /\ logs' = [n \in DOMAIN logs |-> SubSeq(logs[n], 1, kept[n])]
              /\ written' = written \ lost(kept)
              /\ acked' = acked \ {e.id : e \in lost(kept)}

Replayed == {n \in DOMAIN logs : n >= manifest.logNumber}
LogEntries(n) == UNION {logs[n][i] : i \in DOMAIN logs[n]}

\* Fault: the sequence number goes on from MANIFEST, not from the logs.
ManifestSequence(seqs) == manifest.lastSequence

\* RecoverLogFile: the largest number seen.
MaxSequenceOf(seqs) == Max(seqs \cup {manifest.lastSequence})

\* The logs that were replayed stay until MANIFEST has their tables.
LogsWith(newLog) ==
    [n \in DOMAIN logs \cup {newLog} |-> IF n = newLog THEN <<>> ELSE logs[n]]

\* DB::Open up to the new MANIFEST.  Every log named by no version yet becomes
\* one table of level 0, in the order of the logs; a log holds no more than one
\* memtable does.  The numbers of the logs count as used from the start: the
\* code marks each one after its log, for other numbers in the same order.
Recover ==
    LET full   == OldestFirst({n \in Replayed : LogEntries(n) # {}})
        first  == Max({manifest.nextFile} \cup Replayed) + 1
        newLog == first + Len(full)
        seqs   == {e.seq : e \in UNION {LogEntries(n) : n \in Replayed}}
    IN  /\ up = "down"
        /\ Files(manifest.levels) \subseteq DOMAIN tables
        /\ up' = "recovering"
        /\ tables' = [n \in DOMAIN tables \cup first .. newLog - 1 |->
                         IF n >= first /\ n < newLog THEN LogEntries(full[n - first + 1])
                         ELSE tables[n]]
        /\ logs' = LogsWith(newLog)
        /\ logfile' = newLog
        /\ current' = [levels |-> [manifest.levels EXCEPT ![0] = @ \cup first .. newLog - 1],
                       logNumber |-> newLog, nextFile |-> newLog + 1,
                       lastSequence |-> MaxSequenceOf(seqs),
                       seekFile |-> NoFile]
        /\ UNCHANGED <<manifest, mem, imm, queue, scheduled, bg, reader, history>>

\* A new MANIFEST is written and CURRENT made to point to it.
SetCurrentFile ==
    /\ up = "recovering"
    /\ up' = "installed"
    /\ manifest' = [levels |-> current.levels, logNumber |-> current.logNumber,
                    nextFile |-> current.nextFile, lastSequence |-> current.lastSequence]
    /\ UNCHANGED <<logs, tables, mem, imm, current, logfile, queue, scheduled, bg, reader,
                   history>>

Opened ==
    /\ up = "installed"
    /\ up' = "open"
    /\ DeleteObsoleteFiles(current, NoCompaction)
    /\ MaybeScheduleCompaction(FALSE, {}, current)
    /\ UNCHANGED <<manifest, mem, imm, current, logfile, queue, bg, reader, history>>

-----------------------------------------------------------------------------

\* A database just created.
Init ==
    /\ logs = [n \in {3} |-> <<>>] /\ tables = [n \in {} |-> {}]
    /\ manifest = [levels |-> [l \in Level |-> {}], logNumber |-> 3, nextFile |-> 4,
                   lastSequence |-> 0]
    /\ up = "open" /\ mem = {} /\ imm = {}
    /\ current = [NoVersion EXCEPT !.logNumber = 3, !.nextFile = 4]
    /\ logfile = 3
    /\ writers = <<>> /\ group = NoGroup /\ asleep = FALSE
    /\ scheduled = FALSE /\ bg = Idle /\ reader = NoReader
    /\ written = {} /\ acked = {} /\ issued = 0 /\ reads = 0 /\ restarts = 0

WriterStep ==
    \/ WaitForRoom \/ SwitchMemTable \/ AddRecord \/ InsertInto \/ FinishWrite
    \/ \E n \in DOMAIN writers : BuildBatchGroup(n)

BackgroundStep ==
    \/ StartFlush \/ InstallCompactionResults \/ WriteManifest \/ Install
    \/ \E l \in Level : WriteLevel0Table(l)
    \/ MayCompact /\ \E pick \in Picks : \E in \in Inputs(pick[1], pick[2]) :
                         TrivialMove(pick, in) \/ StartMerge(pick, in)
    \/ \E k \in Key : MergeOutput(k)

Next ==
    \/ \E b \in Batches : Write(b)
    \/ WriterStep \/ BackgroundStep \/ StartGet \/ FinishGet
    \/ Crash \/ PowerLoss \/ Recover \/ SetCurrentFile \/ Opened

Spec == Init /\ [][Next]_vars

-----------------------------------------------------------------------------
\* The properties.

Versions == [levels : [Level -> SUBSET Nat], logNumber : Nat, nextFile : Nat,
             lastSequence : 0..MaxSequence, seekFile : Nat]

\* The variables have their types.
TypeOK ==
    /\ up \in {"down", "recovering", "installed", "open"}
    /\ current \in Versions
    /\ DOMAIN logs \subseteq Nat /\ DOMAIN tables \subseteq Nat
    /\ up # "down" => logfile \in DOMAIN logs
    /\ \A n \in DOMAIN tables : tables[n] # {}
    /\ {asleep, scheduled, reader.on} \subseteq BOOLEAN
    /\ group.n <= Len(writers) /\ Len(writers) <= MaxWriters

\* What was written for key k as of sequence number s.
Truth(k, s) == ValueOf(Visible(written, k, s))

\* The files as a sequence of places to search, as opening them would have it.
RecoveredSources(k) ==
    LET newestFirst == NewestFirst(Replayed)
    IN  [i \in DOMAIN newestFirst |-> LogEntries(newestFirst[i])]
          \o TableSources(manifest.levels, k)

\* Everything MANIFEST names is there: Recover does not end with "missing files".
NoMissingFiles == Files(manifest.levels) \subseteq DOMAIN tables

\* What is in memory is in a log that opening replays, or in a table that
\* MANIFEST names.
MemoryIsLogged ==
    mem \cup imm \subseteq (UNION {LogEntries(n) : n \in Replayed})
                            \cup (UNION {tables[n] : n \in Files(manifest.levels)})

\* At any moment the files hold everything that a log has received: should the
\* process stop now, opening the database finds it.  No log is deleted, or
\* passed over, before a table in MANIFEST has its entries; a merge loses no
\* row and brings no deleted row back.
FilesHoldAll ==
    /\ TypeOK /\ NoMissingFiles /\ MemoryIsLogged
    /\ \A k \in Key : Search(RecoveredSources(k), k, MaxSequence) = Truth(k, MaxSequence)

\* A write that returned is in the log: with a group of writers as well.
AckedIsWritten == acked \subseteq {e.id : e \in written}

\* Files of one level below level 0 do not overlap: also when a memtable goes
\* down into the levels while a merge is writing to them.
LevelsAreDisjoint ==
    \A l \in Level \ {0} : \A m, n \in current.levels[l] :
        m # n => Overlapping({m}, Smallest(n), Largest(n)) = {}

\* A search with these memtables and levels finds the latest as of s.
FindsLatest(memtables, levels, s) ==
    \A k \in Key : Search(memtables \o TableSources(levels, k), k, s) = Truth(k, s)

\* A read in progress finds what was the latest when it began, whatever has
\* been written, flushed, merged and deleted since.
ReadIsSnapshot ==
    reader.on => /\ Files(reader.levels) \subseteq DOMAIN tables
                 /\ FindsLatest(<<reader.mem, reader.imm>>, reader.levels, reader.seq)

\* Get finds the latest value that was published when it began, through all
\* the memtables, files and levels, whether it begins now or is in progress:
\* what is newer is never below what is older, and a level has one place for a
\* key.
GetFindsLatest ==
    /\ LevelsAreDisjoint /\ ReadIsSnapshot
    /\ up = "open" => FindsLatest(<<mem, imm>>, current.levels, current.lastSequence)

\* Every write returns, unless the process stops: whatever is full or being
\* compacted, the writer that waits for room is woken, and with it the writers
\* behind it.
WritesReturn == \A i \in 1..MaxSequence : issued >= i ~> i \in acked \/ restarts > 0

\* The engine as a store: its rows are what Get finds, or what opening the files
\* would find.
Rows ==
    [k \in Key |->
        IF up = "open"
        THEN Search(<<mem, imm>> \o TableSources(current.levels, k), k, current.lastSequence)
        ELSE Search(RecoveredSources(k), k, MaxSequence)]
Stamp ==
    IF up = "open" THEN current.lastSequence
    ELSE Max({manifest.lastSequence} \cup
             {e.seq : e \in UNION {LogEntries(n) : n \in Replayed}})
Pending == [i \in DOMAIN writers |-> writers[i].batch]

DS == INSTANCE DurableStore WITH rows <- Rows, stamp <- Stamp, pending <- Pending

\* The engine applies batches whole, in the order of their arrival and for good,
\* whatever is flushed, merged, deleted and opened again meanwhile; of what a stop
\* of the process leaves unanswered, the first few or none are there.
ImplementsStore == DS!Spec
=============================================================================
