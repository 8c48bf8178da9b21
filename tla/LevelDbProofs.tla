--------------------------- MODULE LevelDbProofs ---------------------------
(***************************************************************************)
(* Theorems about the storage engine, for any keys, batches and levels,    *)
(* any number of writers and reads, and any number of stops.               *)
(***************************************************************************)
EXTENDS LevelDb, SequenceTheorems, FiniteSetTheorems, WellFoundedInduction, TLAPS

USE LevelDbAssumption

-----------------------------------------------------------------------------
(* The writers.                                                            *)

Writer == [id : Nat, batch : Batches]

\* A group has an entry of each of its writers, and a log has received them
\* once the record is appended.
GroupOK ==
    /\ group = [n |-> group.n, phase |-> group.phase, entries |-> group.entries]
    /\ group.n \in Nat /\ group.n <= Len(writers)
    /\ group.phase \in {"none", "log", "insert", "finish"}
    /\ \A i \in 1 .. group.n : \E e \in group.entries : e.id = writers[i].id
    /\ group.phase \in {"insert", "finish"} => group.entries \subseteq written

AckInv ==
    /\ issued \in Nat /\ writers \in Seq(Writer)
    /\ GroupOK
    /\ AckedIsWritten

\* A slot is a writer and a key of its batch.
LEMMA SlotsAre ==
    ASSUME NEW ws \in Seq(Writer)
    PROVE  /\ \A p \in Slots(ws) : /\ p = <<p[1], p[2]>> /\ p[1] \in 1 .. Len(ws)
                                   /\ p[2] \in DOMAIN ws[p[1]].batch
           /\ \A i \in 1 .. Len(ws) : \A k \in DOMAIN ws[i].batch : <<i, k>> \in Slots(ws)
BY DEF Slots

\* The slots of the first n writers are those with a smaller index.
LEMMA SlotsOfPrefix ==
    ASSUME NEW ws \in Seq(Writer), NEW n \in 0 .. Len(ws)
    PROVE  /\ SubSeq(ws, 1, n) \in Seq(Writer) /\ Len(SubSeq(ws, 1, n)) = n
           /\ Slots(SubSeq(ws, 1, n)) = {p \in Slots(ws) : p[1] <= n}
<1>1. /\ SubSeq(ws, 1, n) \in Seq(Writer) /\ Len(SubSeq(ws, 1, n)) = n
      /\ \A i \in 1..n : SubSeq(ws, 1, n)[i] = ws[i]
  OBVIOUS
<1>2. ASSUME NEW p \in Slots(SubSeq(ws, 1, n)) PROVE p \in Slots(ws) /\ p[1] <= n
  <2>1. p = <<p[1], p[2]>> /\ p[1] \in 1..n /\ p[2] \in DOMAIN ws[p[1]].batch
    BY <1>1, SlotsAre
  <2>2. <<p[1], p[2]>> \in Slots(ws) /\ p[1] <= n
    BY <2>1, SlotsAre
  <2>3. QED
    BY <2>1, <2>2
<1>3. ASSUME NEW p \in Slots(ws), p[1] <= n PROVE p \in Slots(SubSeq(ws, 1, n))
  <2>1. p = <<p[1], p[2]>> /\ p[1] \in 1 .. Len(ws) /\ p[2] \in DOMAIN ws[p[1]].batch
    BY SlotsAre
  <2>2. p[1] \in 1..n /\ p[2] \in DOMAIN SubSeq(ws, 1, n)[p[1]].batch
    BY <1>1, <1>3, <2>1
  <2>3. <<p[1], p[2]>> \in Slots(SubSeq(ws, 1, n))
    BY <1>1, <2>2, SlotsAre
  <2>4. QED
    BY <2>1, <2>3
<1>4. QED
  BY <1>1, <1>2, <1>3

\* A batch that is not empty has an entry in its group.
LEMMA EveryWriterLogs ==
    ASSUME writers \in Seq(Writer), NEW n \in Nat, n <= Len(writers), NEW s
    PROVE  \A i \in 1..n : \E e \in GroupEntries(n, s) : e.id = writers[i].id
<1> SUFFICES ASSUME NEW i \in 1..n
             PROVE  \E e \in GroupEntries(n, s) : e.id = writers[i].id
  OBVIOUS
<1>1. writers[i] \in Writer
  OBVIOUS
<1>2. writers[i].batch \in UNION {[D -> BOOLEAN] : D \in (SUBSET Key) \ {{}}}
  BY <1>1 DEF Writer
<1>3. PICK k \in DOMAIN writers[i].batch : TRUE
  BY <1>2
<1>4. <<i, k>> \in Slots(SubSeq(writers, 1, n))
  <2>1. <<i, k>> \in Slots(writers) /\ <<i, k>>[1] <= n
    BY <1>3, SlotsAre
  <2>2. QED
    BY <2>1, SlotsOfPrefix
<1> DEFINE Logged(p) == [seq |-> s + Cardinality({q \in Slots(writers) : NotAfter(q, p)}),
                         key |-> p[2], put |-> writers[p[1]].batch[p[2]],
                         id |-> writers[p[1]].id]
<1>5. Logged(<<i, k>>) \in GroupEntries(n, s)
  BY <1>4 DEF GroupEntries
<1>6. Logged(<<i, k>>).id = writers[i].id
  OBVIOUS
<1>7. QED
  BY <1>5, <1>6

\* What a step may do to a log's entries and the acknowledgements without
\* touching the writers.
LEMMA QuietStep ==
    ASSUME AckInv, UNCHANGED <<writers, group, written, acked, issued>>
    PROVE  AckInv'
BY DEF AckInv, GroupOK, AckedIsWritten

\* Stopping takes back the acknowledgements of what it lost.
LEMMA StopAcks ==
    ASSUME AckInv, Stop,
           \/ UNCHANGED <<written, acked>>
           \/ \E L : written' = written \ L /\ acked' = acked \ {e.id : e \in L}
    PROVE  AckInv'
<1>1. GroupOK' /\ writers' \in Seq(Writer) /\ issued' \in Nat
  BY DEF Stop, GroupOK, NoGroup, AckInv
<1>2. AckedIsWritten'
  BY DEF AckInv, AckedIsWritten
<1>3. QED
  BY <1>1, <1>2 DEF AckInv

\* Every step keeps what a writer is told and what a log has together.
LEMMA AckNext == AckInv /\ [Next]_vars => AckInv'
<1> SUFFICES ASSUME AckInv, [Next]_vars PROVE AckInv'
  OBVIOUS
<1>1. ASSUME NEW b \in Batches, Write(b) PROVE AckInv'
  <2>1. [id |-> issued + 1, batch |-> b] \in Writer
    BY DEF AckInv, Writer
  <2>2. /\ writers' \in Seq(Writer) /\ Len(writers') = Len(writers) + 1
        /\ \A i \in 1 .. Len(writers) : writers'[i] = writers[i]
    BY <1>1, <2>1 DEF Write, AckInv
  <2>3. GroupOK'
    BY <1>1, <2>2 DEF Write, AckInv, GroupOK
  <2>4. QED
    BY <1>1, <2>2, <2>3 DEF Write, AckInv, AckedIsWritten
<1>2. ASSUME NEW n \in DOMAIN writers, BuildBatchGroup(n) PROVE AckInv'
  <2>1. n \in Nat /\ n <= Len(writers)
    BY DEF AckInv
  <2>2. /\ \A i \in 1..n : \E e \in group'.entries : e.id = writers[i].id
        /\ group' = [n |-> n, phase |-> "log", entries |-> group'.entries]
    BY <1>2, <2>1, EveryWriterLogs DEF BuildBatchGroup, AckInv
  <2>3. GroupOK'
    BY <1>2, <2>1, <2>2 DEF BuildBatchGroup, GroupOK
  <2>4. QED
    BY <1>2, <2>3 DEF BuildBatchGroup, AckInv, AckedIsWritten, history
<1>3. CASE AddRecord
  BY <1>3 DEF AddRecord, AckInv, GroupOK, AckedIsWritten
<1>4. CASE InsertInto
  BY <1>4 DEF InsertInto, AckInv, GroupOK, AckedIsWritten, history
<1>5. CASE FinishWrite
  <2>1. writers' \in Seq(Writer)
    BY <1>5, SubSeqProperties DEF FinishWrite, AckInv, GroupOK
  <2>2. GroupOK'
    BY <1>5, <2>1 DEF FinishWrite, GroupOK, NoGroup
  <2>3. AckedIsWritten'
    BY <1>5 DEF FinishWrite, AckInv, GroupOK, AckedIsWritten
  <2>4. QED
    BY <1>5, <2>1, <2>2, <2>3 DEF FinishWrite, AckInv
<1>6. CASE WaitForRoom \/ SwitchMemTable
  BY <1>6, QuietStep DEF WaitForRoom, SwitchMemTable, queue, history
<1>7. CASE BackgroundStep
  <2>1. UNCHANGED <<writers, group, written, acked, issued>>
    BY <1>7 DEF BackgroundStep, StartFlush, InstallCompactionResults, WriteManifest, Install,
       WriteLevel0Table, TrivialMove, StartMerge, MergeOutput, queue, history
  <2>2. QED
    BY <2>1, QuietStep
<1>8. CASE StartGet \/ FinishGet \/ Recover \/ SetCurrentFile \/ Opened
  BY <1>8, QuietStep DEF StartGet, FinishGet, Recover, SetCurrentFile, Opened, queue, history
<1>9. CASE Crash
  BY <1>9, StopAcks DEF Crash
<1>10. CASE PowerLoss
  BY <1>10, StopAcks DEF PowerLoss
<1>11. CASE UNCHANGED vars
  BY <1>11, QuietStep DEF vars, queue, history
<1>12. QED
  BY <1>1, <1>2, <1>3, <1>4, <1>5, <1>6, <1>7, <1>8, <1>9, <1>10, <1>11 DEF Next, WriterStep

\* A database just created has acknowledged nothing.
LEMMA InitAcks == Init => AckInv
BY DEF Init, AckInv, GroupOK, NoGroup, AckedIsWritten

\* DBImpl::Write: a writer returns only when a log has received its batch,
\* whoever wrote it for the group; a loss of power takes away what it lost.
THEOREM AckedAreWritten == Spec => []AckedIsWritten
<1>1. AckInv => AckedIsWritten
  BY DEF AckInv
<1>2. QED
  BY <1>1, InitAcks, AckNext, PTL DEF Spec
-----------------------------------------------------------------------------
(* The files.                                                              *)

\* The records have their fields.
VersionOK(v) ==
    v = [levels |-> [l \in Level |-> v.levels[l]], logNumber |-> v.logNumber,
         nextFile |-> v.nextFile, lastSequence |-> v.lastSequence, seekFile |-> v.seekFile]

CompactionOK(c) ==
    c = [level |-> c.level, in0 |-> c.in0, in1 |-> c.in1, base |-> c.base,
         snapshot |-> c.snapshot, todo |-> c.todo, outputs |-> c.outputs]

ThreadOK ==
    /\ bg = [pc |-> bg.pc, comp |-> bg.comp, edit |-> bg.edit]
    /\ CompactionOK(bg.comp)
    /\ up # "open" => bg = Idle

Added(edit) == {a[2] : a \in edit.add}

\* What somebody may still need is there: the reader, the merge in progress,
\* and the edit on its way.
NeededFiles ==
    Files(current.levels) \cup Files(reader.levels) \cup Files(bg.comp.base)
        \cup bg.comp.outputs \cup (IF bg.pc \in {"log", "install"} THEN Added(bg.edit) ELSE {})

\* MANIFEST is the current version, or ahead of it by the edit that is being
\* installed.
ManifestOK ==
    /\ up = "open" /\ bg.pc # "install" => manifest.levels = current.levels
    /\ up = "open" /\ bg.pc = "install" => manifest.levels = ApplyEdit(current.levels, bg.edit)
    /\ up = "installed" => manifest.levels = current.levels
    /\ manifest.levels = [l \in Level |-> manifest.levels[l]]

FileInv ==
    /\ VersionOK(current) /\ ThreadOK /\ ManifestOK
    /\ NeededFiles \subseteq DOMAIN tables
    /\ NoMissingFiles

\* An edit leaves the files of the levels and those it adds.
LEMMA EditedFiles ==
    ASSUME NEW levels, NEW edit
    PROVE  Files(ApplyEdit(levels, edit)) \subseteq Files(levels) \cup Added(edit)
<1> SUFFICES ASSUME NEW l \in Level, NEW n \in ApplyEdit(levels, edit)[l]
             PROVE  n \in Files(levels) \cup Added(edit)
  BY DEF Files
<1>1. n \in levels[l] \/ \E a \in edit.add : n = a[2]
  BY DEF ApplyEdit
<1>2. QED
  BY <1>1 DEF Files, Added

\* A step that leaves what is needed, or adds tables to it.
LEMMA SameFiles ==
    ASSUME FileInv, DOMAIN tables \subseteq DOMAIN tables',
           VersionOK(current)', current'.levels = current.levels,
           UNCHANGED <<manifest, up, bg, reader>>
    PROVE  FileInv'
<1>1. ThreadOK'
  BY DEF FileInv, ThreadOK, Idle
<1>2. ManifestOK'
  BY DEF FileInv, ManifestOK
<1>3. NeededFiles' = NeededFiles
  BY DEF NeededFiles
<1>4. NoMissingFiles'
  BY DEF FileInv, NoMissingFiles
<1>5. QED
  BY <1>1, <1>2, <1>3, <1>4 DEF FileInv

\* The writers leave the files, and take numbers for their logs.
LEMMA WriterFiles ==
    ASSUME FileInv,
           (\E b \in Batches : Write(b)) \/ WriterStep
    PROVE  FileInv'
<1>1. UNCHANGED <<tables, manifest, up, bg, reader>>
  BY DEF Write, WriterStep, WaitForRoom, SwitchMemTable, BuildBatchGroup, AddRecord,
     InsertInto, FinishWrite, disk, history, queue
<1>2. \/ current' = current
      \/ current' = [current EXCEPT !.nextFile = current.nextFile + 1]
      \/ \E n : current' = [current EXCEPT !.lastSequence = n]
  BY DEF Write, WriterStep, WaitForRoom, SwitchMemTable, BuildBatchGroup, AddRecord,
     InsertInto, FinishWrite, disk, history, queue
<1>3. VersionOK(current)' /\ current'.levels = current.levels
  BY <1>2 DEF FileInv, VersionOK
<1>4. QED
  BY <1>1, <1>3, SameFiles

\* No levels, no files.
LEMMA NoFiles == Files([l \in Level |-> {}]) = {}
BY DEF Files

\* A read takes the current version, and gives it back.
LEMMA ReadFiles ==
    ASSUME FileInv, StartGet \/ FinishGet
    PROVE  FileInv'
<1>1. /\ UNCHANGED <<tables, manifest, up, bg>>
      /\ VersionOK(current)' /\ current'.levels = current.levels
  BY DEF StartGet, FinishGet, disk, FileInv, VersionOK
<1>2. Files(reader'.levels) \subseteq Files(current.levels)
  <2>1. CASE StartGet
    BY <2>1 DEF StartGet
  <2>2. CASE FinishGet
    BY <2>2, NoFiles DEF FinishGet, NoReader
  <2>3. QED
    BY <2>1, <2>2
<1>3. NeededFiles' \subseteq NeededFiles
  BY <1>1, <1>2 DEF NeededFiles
<1>4. ThreadOK' /\ ManifestOK' /\ NoMissingFiles'
  BY <1>1 DEF FileInv, ThreadOK, ManifestOK, NoMissingFiles, Idle
<1>5. QED
  BY <1>1, <1>3, <1>4 DEF FileInv

\* Everything in memory is gone; the files are not.
LEMMA StopFiles ==
    ASSUME FileInv, Stop
    PROVE  FileInv'
<1>1. NeededFiles' = {}
  BY NoFiles DEF Stop, NeededFiles, NoVersion, NoReader, Idle, NoCompaction
<1>2. VersionOK(current)' /\ ThreadOK'
  BY DEF Stop, VersionOK, NoVersion, ThreadOK, CompactionOK, Idle, NoCompaction
<1>3. ManifestOK' /\ NoMissingFiles'
  BY DEF Stop, FileInv, ManifestOK, NoMissingFiles
<1>4. QED
  BY <1>1, <1>2, <1>3 DEF FileInv

\* Opening adds a table for every log, and then lets go of the others.
LEMMA OpenFiles ==
    ASSUME FileInv, Recover \/ SetCurrentFile \/ Opened
    PROVE  FileInv'
<1>1. CASE Recover
  <2> DEFINE first == Max({manifest.nextFile} \cup Replayed) + 1
             newLog == first + Len(OldestFirst({n \in Replayed : LogEntries(n) # {}}))
             made == first .. newLog - 1
  <2>1. /\ up = "down" /\ up' = "recovering" /\ DOMAIN tables' = DOMAIN tables \cup made
        /\ current'.levels = [manifest.levels EXCEPT ![0] = @ \cup made]
        /\ VersionOK(current)'
        /\ UNCHANGED <<manifest, bg, reader>>
    <3> HIDE DEF made
    <3>1. current'.levels = [manifest.levels EXCEPT ![0] = @ \cup made]
      BY <1>1 DEF Recover, made
    <3>2. VersionOK(current)'
      BY <1>1, <3>1 DEF Recover, VersionOK, FileInv, ManifestOK
    <3>3. QED
      BY <1>1, <3>1, <3>2 DEF Recover, made
  <2> HIDE DEF made
  <2>2. Files(current'.levels) \subseteq Files(manifest.levels) \cup made
    BY <2>1 DEF Files, FileInv, ManifestOK
  <2>3. bg = Idle /\ NeededFiles' = Files(current'.levels) \cup Files(reader.levels)
    <3>1. bg = Idle /\ bg' = Idle
      BY <2>1 DEF FileInv, ThreadOK
    <3>2. /\ bg'.pc = "idle" /\ Files(bg'.comp.base) = {} /\ bg'.comp.outputs = {}
      BY <3>1, NoFiles DEF Idle, NoCompaction
    <3>3. QED
      BY <2>1, <3>1, <3>2 DEF NeededFiles
  <2>4. NeededFiles' \subseteq DOMAIN tables'
    BY <2>1, <2>2, <2>3 DEF FileInv, NeededFiles, NoMissingFiles
  <2>5. ThreadOK' /\ ManifestOK' /\ NoMissingFiles'
    BY <2>1, <2>3 DEF FileInv, ThreadOK, ManifestOK, NoMissingFiles, Idle
  <2>6. QED
    BY <2>1, <2>4, <2>5 DEF FileInv
<1>2. CASE SetCurrentFile
  <2>1. /\ UNCHANGED <<tables, current, bg, reader>> /\ manifest'.levels = current.levels
        /\ up = "recovering" /\ up' = "installed"
    BY <1>2 DEF SetCurrentFile
  <2>2. NeededFiles' = NeededFiles /\ Files(current.levels) \subseteq NeededFiles
    BY <2>1 DEF NeededFiles
  <2>3. ThreadOK' /\ ManifestOK' /\ NoMissingFiles' /\ VersionOK(current)'
    BY <2>1, <2>2 DEF FileInv, ThreadOK, ManifestOK, NoMissingFiles, VersionOK
  <2>4. QED
    BY <2>1, <2>2, <2>3 DEF FileInv
<1>3. CASE Opened
  <2>1. /\ UNCHANGED <<current, manifest, bg, reader>> /\ up = "installed" /\ up' = "open"
        /\ tables' = Only(tables, Files(current.levels) \cup Files(reader.levels)
                              \cup Files(NoCompaction.base) \cup NoCompaction.outputs)
        /\ bg = Idle /\ manifest.levels = current.levels
    BY <1>3 DEF Opened, DeleteObsoleteFiles, FileInv, ThreadOK, ManifestOK
  <2>2. NeededFiles' = Files(current.levels) \cup Files(reader.levels)
    BY <2>1, NoFiles DEF NeededFiles, Idle, NoCompaction
  <2>3. NeededFiles' \subseteq DOMAIN tables' /\ Files(current.levels) \subseteq DOMAIN tables'
    BY <2>1, <2>2 DEF Only, FileInv, NeededFiles
  <2>4. ThreadOK' /\ ManifestOK' /\ NoMissingFiles' /\ VersionOK(current)'
    BY <2>1, <2>3 DEF FileInv, ThreadOK, ManifestOK, NoMissingFiles, VersionOK, Idle
  <2>5. QED
    BY <2>3, <2>4 DEF FileInv
<1>4. QED
  BY <1>1, <1>2, <1>3

\* The background thread.
LEMMA FlushFiles ==
    ASSUME FileInv, StartFlush \/ \E l \in Level : WriteLevel0Table(l)
    PROVE  FileInv'
<1>1. CASE StartFlush
  <2>1. /\ bg' = [bg EXCEPT !.pc = "flush"] /\ UNCHANGED <<tables, current, manifest, reader, up>>
        /\ bg.pc # "install" /\ up = "open"
    BY <1>1 DEF StartFlush, disk
  <2>2. bg' = [pc |-> "flush", comp |-> bg.comp, edit |-> bg.edit]
    BY <2>1 DEF FileInv, ThreadOK
  <2>3. NeededFiles' \subseteq NeededFiles
    BY <2>1, <2>2 DEF NeededFiles
  <2>4. ThreadOK' /\ ManifestOK' /\ NoMissingFiles' /\ VersionOK(current)'
    BY <2>1, <2>2 DEF FileInv, ThreadOK, ManifestOK, NoMissingFiles, VersionOK
  <2>5. QED
    BY <2>1, <2>3, <2>4 DEF FileInv
<1>2. ASSUME NEW l \in Level, WriteLevel0Table(l) PROVE FileInv'
  <2>1. /\ DOMAIN tables' = DOMAIN tables \cup {current.nextFile}
        /\ current' = [current EXCEPT !.nextFile = current.nextFile + 1]
        /\ bg' = [bg EXCEPT !.pc = "log", !.edit = bg'.edit]
        /\ bg'.edit.add = {<<l, current.nextFile>>}
        /\ bg.pc = "flush" /\ UNCHANGED <<manifest, reader, up>>
    BY <1>2 DEF WriteLevel0Table, Edit, FileInv, ThreadOK
  <2>2. VersionOK(current)' /\ current'.levels = current.levels
    BY <2>1 DEF FileInv, VersionOK
  <2>3. /\ bg' = [pc |-> "log", comp |-> bg.comp, edit |-> bg'.edit] /\ bg'.comp = bg.comp
        /\ bg'.pc = "log" /\ up = "open"
    <3>1. up = "open"
      BY <2>1 DEF FileInv, ThreadOK, Idle
    <3>2. bg = [pc |-> bg.pc, comp |-> bg.comp, edit |-> bg.edit]
      BY DEF FileInv, ThreadOK
    <3>3. bg' = [pc |-> "log", comp |-> bg.comp, edit |-> bg'.edit]
      BY <2>1, <3>2
    <3>4. QED
      BY <3>1, <3>3
  <2>4. Added(bg'.edit) = {current.nextFile}
    BY <2>1 DEF Added
  <2>5. NeededFiles' \subseteq NeededFiles \cup {current.nextFile}
    BY <2>1, <2>2, <2>3, <2>4 DEF NeededFiles
  <2>6. ThreadOK' /\ ManifestOK' /\ NoMissingFiles'
    BY <2>1, <2>2, <2>3 DEF FileInv, ThreadOK, ManifestOK, NoMissingFiles
  <2>7. QED
    BY <2>1, <2>2, <2>5, <2>6 DEF FileInv
<1>3. QED
  BY <1>1, <1>2

\* The inputs of a compaction come from the levels.
LEMMA OverlappingFiles ==
    ASSUME NEW levels, NEW l, NEW lo, NEW hi
    PROVE  GetOverlappingInputs(levels, l, lo, hi) \subseteq levels[l] \cup levels[0]
BY DEF GetOverlappingInputs, Overlapping

\* What is picked is in the current version.
LEMMA PickedFiles ==
    ASSUME NEW pick \in Picks, NEW in \in Inputs(pick[1], pick[2])
    PROVE  pick[1] \in Level /\ in[1] \subseteq Files(current.levels)
<1>1. pick[1] \in 0 .. kNumLevels - 2 /\ pick[2] \in current.levels[pick[1]]
  BY DEF Picks
<1>2. pick[1] \in Level /\ 0 \in Level
  BY <1>1 DEF Level
<1>3. \A S : \/ S = {pick[2]}
             \/ S \subseteq current.levels[pick[1]] \cup current.levels[0]
             => S \subseteq Files(current.levels)
  BY <1>1, <1>2 DEF Files
<1>4. \/ in[1] = {pick[2]}
      \/ in[1] \subseteq current.levels[pick[1]] \cup current.levels[0]
  <2> DEFINE Get(l, S) ==
                 GetOverlappingInputs(current.levels, l, KeyRange(S)[1], KeyRange(S)[2])
             in0  == IF pick[1] = 0 THEN Get(0, {pick[2]}) ELSE {pick[2]}
             in1  == Get(pick[1] + 1, in0)
             wide == Get(pick[1], in0 \cup in1)
             in1w == Get(pick[1] + 1, wide)
  <2>1. in = <<in0, in1>> \/ in = <<wide, in1w>>
    BY DEF Inputs
  <2>2. in[1] = in0 \/ in[1] = wide
    <3> HIDE DEF in0, in1, wide, in1w
    <3> QED
      BY <2>1
  <2>3. \A S : /\ Get(0, S) \subseteq current.levels[0]
               /\ Get(pick[1], S) \subseteq current.levels[pick[1]] \cup current.levels[0]
    BY OverlappingFiles
  <2>4. QED
    <3> HIDE DEF Get
    <3> QED
      BY <2>2, <2>3
<1>5. QED
  BY <1>2, <1>3, <1>4

\* The fields of a compaction after an output.
LEMMA CompactionTodo ==
    ASSUME NEW c, CompactionOK(c), NEW x
    PROVE  /\ CompactionOK([c EXCEPT !.todo = x])
           /\ [c EXCEPT !.todo = x].base = c.base
           /\ [c EXCEPT !.todo = x].outputs = c.outputs
<1>1. DOMAIN c = {"level", "in0", "in1", "base", "snapshot", "todo", "outputs"}
  BY DEF CompactionOK
<1>2. QED
  BY <1>1 DEF CompactionOK

\* An output more: the other fields of a compaction stay.
LEMMA CompactionOutputs ==
    ASSUME NEW c, CompactionOK(c), NEW x
    PROVE  /\ CompactionOK([c EXCEPT !.outputs = x])
           /\ [c EXCEPT !.outputs = x].base = c.base
           /\ [c EXCEPT !.outputs = x].outputs = x
<1>1. DOMAIN c = {"level", "in0", "in1", "base", "snapshot", "todo", "outputs"}
  BY DEF CompactionOK
<1>2. QED
  BY <1>1 DEF CompactionOK

\* A move, or a merge with its outputs.
LEMMA MergeFiles ==
    ASSUME FileInv,
           \/ \E pick \in Picks : \E in \in Inputs(pick[1], pick[2]) :
                  TrivialMove(pick, in) \/ StartMerge(pick, in)
           \/ \E k \in Key : MergeOutput(k)
           \/ InstallCompactionResults
    PROVE  FileInv'
<1> USE DEF FileInv
<1>1. ASSUME NEW pick \in Picks, NEW in \in Inputs(pick[1], pick[2]), TrivialMove(pick, in)
      PROVE  FileInv'
  <2>1. /\ bg' = [bg EXCEPT !.pc = "log", !.edit = bg'.edit]
        /\ bg'.edit.add = At(pick[1] + 1, in[1])
        /\ up = "open" /\ bg.pc = "idle"
        /\ UNCHANGED <<tables, current, manifest, reader, up>>
    BY <1>1 DEF TrivialMove, MayCompact, Edit, ThreadOK, disk
  <2>2. bg' = [pc |-> "log", comp |-> bg.comp, edit |-> bg'.edit] /\ bg'.comp = bg.comp
    BY <2>1 DEF ThreadOK
  <2>3. Added(bg'.edit) \subseteq Files(current.levels)
    BY <2>1, PickedFiles DEF Added, At
  <2>4. NeededFiles' \subseteq NeededFiles
    BY <2>1, <2>2, <2>3 DEF NeededFiles
  <2>5. ThreadOK' /\ ManifestOK' /\ NoMissingFiles' /\ VersionOK(current)'
    BY <2>1, <2>2 DEF ThreadOK, ManifestOK, NoMissingFiles, VersionOK
  <2>6. QED
    BY <2>1, <2>4, <2>5
<1>2. ASSUME NEW pick \in Picks, NEW in \in Inputs(pick[1], pick[2]), StartMerge(pick, in)
      PROVE  FileInv'
  <2>1. /\ bg'.pc = "merge" /\ bg'.comp.base = current.levels /\ bg'.comp.outputs = {}
        /\ up = "open" /\ bg.pc = "idle"
        /\ UNCHANGED <<tables, current, manifest, reader, up>>
        /\ ThreadOK'
    BY <1>2 DEF StartMerge, MayCompact, ThreadOK, CompactionOK, disk
  <2>2. NeededFiles' \subseteq NeededFiles
    BY <2>1 DEF NeededFiles
  <2>3. ManifestOK' /\ NoMissingFiles' /\ VersionOK(current)'
    BY <2>1 DEF ManifestOK, NoMissingFiles, VersionOK
  <2>4. QED
    BY <2>1, <2>2, <2>3
<1>3. ASSUME NEW k \in Key, MergeOutput(k)
      PROVE  FileInv'
  <2>1. /\ bg.pc = "merge" /\ UNCHANGED <<manifest, reader, up>>
        /\ \/ UNCHANGED <<tables, current>>
           \/ /\ current' = [current EXCEPT !.nextFile = current.nextFile + 1]
              /\ DOMAIN tables' = DOMAIN tables \cup {current.nextFile}
    BY <1>3 DEF MergeOutput
  <2>2. /\ VersionOK(current)' /\ current'.levels = current.levels
        /\ DOMAIN tables \subseteq DOMAIN tables'
    BY <2>1 DEF VersionOK
  <2> DEFINE todo == {j \in bg.comp.todo : j > k}
             done == [bg.comp EXCEPT !.todo = todo]
  <2>3. \/ bg' = [bg EXCEPT !.comp = done]
        \/ /\ bg' = [bg EXCEPT !.comp = [done EXCEPT !.outputs = @ \cup {current.nextFile}]]
           /\ current.nextFile \in DOMAIN tables'
    BY <1>3 DEF MergeOutput
  <2>4. /\ ThreadOK' /\ bg'.pc = "merge" /\ bg'.comp.base = bg.comp.base
        /\ \/ bg'.comp.outputs = bg.comp.outputs
           \/ /\ bg'.comp.outputs = bg.comp.outputs \cup {current.nextFile}
              /\ current.nextFile \in DOMAIN tables'
    <3>1. up = "open"
      BY <2>1 DEF ThreadOK, Idle
    <3>2. CompactionOK(done) /\ done.base = bg.comp.base /\ done.outputs = bg.comp.outputs
      <4> HIDE DEF todo
      <4> QED
        BY CompactionTodo DEF ThreadOK
    <3>3. bg = [pc |-> "merge", comp |-> bg.comp, edit |-> bg.edit]
      BY <2>1 DEF ThreadOK
    <3> HIDE DEF done
    <3>4. ASSUME NEW c, CompactionOK(c), bg' = [bg EXCEPT !.comp = c]
          PROVE  ThreadOK' /\ bg'.pc = "merge" /\ bg'.comp = c
      <4>1. bg' = [pc |-> "merge", comp |-> c, edit |-> bg.edit]
        BY <3>3, <3>4
      <4>2. QED
        BY <2>1, <3>1, <3>4, <4>1 DEF ThreadOK
    <3> DEFINE more == [done EXCEPT !.outputs = done.outputs \cup {current.nextFile}]
    <3>5. /\ CompactionOK(more) /\ more.base = bg.comp.base
          /\ more.outputs = bg.comp.outputs \cup {current.nextFile}
      <4>1. PICK o : o = done.outputs \cup {current.nextFile}
        OBVIOUS
      <4>2. more = [done EXCEPT !.outputs = o]
        BY <4>1
      <4> HIDE DEF more
      <4>3. /\ CompactionOK([done EXCEPT !.outputs = o])
            /\ [done EXCEPT !.outputs = o].base = done.base
            /\ [done EXCEPT !.outputs = o].outputs = o
        BY <3>2, CompactionOutputs
      <4>4. QED
        BY <3>2, <4>1, <4>2, <4>3
    <3> HIDE DEF more
    <3>6. \/ bg' = [bg EXCEPT !.comp = done]
          \/ bg' = [bg EXCEPT !.comp = more] /\ current.nextFile \in DOMAIN tables'
      BY <2>3 DEF more
    <3>7. QED
      BY <3>2, <3>4, <3>5, <3>6
  <2>5. NeededFiles' \subseteq DOMAIN tables'
    BY <2>1, <2>2, <2>4 DEF NeededFiles
  <2>6. ManifestOK' /\ NoMissingFiles'
    BY <2>1, <2>2, <2>4 DEF ManifestOK, NoMissingFiles
  <2>7. QED
    BY <2>2, <2>4, <2>5, <2>6
<1>4. CASE InstallCompactionResults
  <2>1. /\ bg' = [bg EXCEPT !.pc = "log", !.edit = bg'.edit]
        /\ bg'.edit.add = At(bg.comp.level + 1, bg.comp.outputs)
        /\ bg.pc = "merge" /\ UNCHANGED <<tables, current, manifest, reader, up>>
    BY <1>4 DEF InstallCompactionResults, Edit, ThreadOK, disk
  <2>2. bg' = [pc |-> "log", comp |-> bg.comp, edit |-> bg'.edit] /\ bg'.comp = bg.comp
    BY <2>1 DEF ThreadOK
  <2>3. Added(bg'.edit) \subseteq bg.comp.outputs
    BY <2>1 DEF Added, At
  <2>4. NeededFiles' \subseteq NeededFiles
    BY <2>1, <2>2, <2>3 DEF NeededFiles
  <2>5. up = "open"
    BY <2>1 DEF ThreadOK, Idle
  <2>6. ThreadOK' /\ ManifestOK' /\ NoMissingFiles' /\ VersionOK(current)'
    BY <2>1, <2>2, <2>5 DEF ThreadOK, ManifestOK, NoMissingFiles, VersionOK
  <2>7. QED
    BY <2>1, <2>4, <2>6
<1>5. QED
  BY <1>1, <1>2, <1>3, <1>4

\* The edit goes into MANIFEST first, and files are deleted only after it.
LEMMA InstallFiles ==
    ASSUME FileInv, WriteManifest \/ Install
    PROVE  FileInv'
<1> USE DEF FileInv
<1>1. up = "open" /\ bg.pc \in {"log", "install"}
  <2>1. bg.pc \in {"log", "install"}
    BY DEF WriteManifest, Install
  <2>2. QED
    BY <2>1 DEF ThreadOK, Idle
<1>2. Added(bg.edit) \cup Files(current.levels) \subseteq NeededFiles
  BY <1>1 DEF NeededFiles
<1>3. Files(ApplyEdit(current.levels, bg.edit)) \subseteq DOMAIN tables
  BY <1>2, EditedFiles
<1>4. CASE WriteManifest
  <2>1. /\ bg.pc = "log" /\ bg' = [bg EXCEPT !.pc = "install"]
        /\ manifest'.levels = ApplyEdit(manifest.levels, bg.edit)
        /\ UNCHANGED <<tables, current, reader, up>>
    BY <1>4 DEF WriteManifest
  <2>2. bg' = [pc |-> "install", comp |-> bg.comp, edit |-> bg.edit]
    BY <2>1 DEF ThreadOK
  <2>3. bg'.pc = "install" /\ bg'.edit = bg.edit /\ bg'.comp = bg.comp
    BY <2>2
  <2>4. manifest.levels = current.levels
    BY <1>1, <2>1 DEF ManifestOK
  <2>5. /\ manifest'.levels = ApplyEdit(current.levels, bg.edit)
        /\ manifest'.levels = [l \in Level |-> manifest'.levels[l]]
    BY <2>1, <2>4 DEF ApplyEdit
  <2>6. ManifestOK' /\ NoMissingFiles'
    BY <1>1, <1>3, <2>1, <2>3, <2>5 DEF ManifestOK, NoMissingFiles
  <2>7. NeededFiles' = NeededFiles
    BY <2>1, <2>3 DEF NeededFiles
  <2>8. ThreadOK' /\ VersionOK(current)'
    BY <1>1, <2>1, <2>2 DEF ThreadOK, VersionOK
  <2>9. QED
    BY <2>1, <2>6, <2>7, <2>8
<1>5. CASE Install
  <2>1. /\ bg.pc = "install" /\ UNCHANGED <<manifest, reader, up>>
        /\ current' = [current EXCEPT !.levels = ApplyEdit(current.levels, bg.edit),
                                      !.logNumber = bg.edit.logNumber,
                                      !.seekFile = NoFile]
        /\ bg' = [bg EXCEPT !.pc = "merge", !.edit = NoEdit] \/ bg' = Idle
        /\ \/ tables' = tables
           \/ tables' = Only(tables, Files(current'.levels) \cup Files(reader.levels)
                                         \cup Files(bg'.comp.base) \cup bg'.comp.outputs)
    BY <1>5 DEF Install, DeleteObsoleteFiles
  <2>2. /\ VersionOK(current)' /\ current'.levels = ApplyEdit(current.levels, bg.edit)
        /\ manifest.levels = current'.levels
    BY <1>1, <2>1 DEF VersionOK, ApplyEdit, ManifestOK
  <2>3. /\ ThreadOK' /\ bg'.pc # "install" /\ bg'.pc # "log"
        /\ \/ bg'.comp = bg.comp
           \/ Files(bg'.comp.base) = {} /\ bg'.comp.outputs = {}
    <3>1. CASE bg' = [bg EXCEPT !.pc = "merge", !.edit = NoEdit]
      <4>1. bg' = [pc |-> "merge", comp |-> bg.comp, edit |-> NoEdit]
        BY <3>1 DEF ThreadOK
      <4>2. QED
        BY <1>1, <2>1, <4>1 DEF ThreadOK
    <3>2. CASE bg' = Idle
      BY <3>2, NoFiles DEF ThreadOK, CompactionOK, Idle, NoCompaction
    <3>3. QED
      BY <2>1, <3>1, <3>2
  <2>4. NeededFiles' = Files(current'.levels) \cup Files(reader.levels)
                           \cup Files(bg'.comp.base) \cup bg'.comp.outputs
    BY <2>1, <2>3 DEF NeededFiles
  <2>5. NeededFiles' \subseteq DOMAIN tables
    BY <1>3, <2>2, <2>3, <2>4 DEF NeededFiles
  <2>6. NeededFiles' \subseteq DOMAIN tables'
    BY <2>1, <2>4, <2>5 DEF Only
  <2>7. ManifestOK' /\ NoMissingFiles'
    BY <1>1, <2>1, <2>2, <2>3, <2>4, <2>6 DEF ManifestOK, NoMissingFiles
  <2>8. QED
    BY <2>2, <2>3, <2>6, <2>7
<1>6. QED
  BY <1>4, <1>5

\* No step takes away a file that is needed.
LEMMA FileNext == FileInv /\ [Next]_vars => FileInv'
<1> SUFFICES ASSUME FileInv, [Next]_vars PROVE FileInv'
  OBVIOUS
<1>1. CASE BackgroundStep
  BY <1>1, FlushFiles, MergeFiles, InstallFiles DEF BackgroundStep
<1>2. CASE Crash \/ PowerLoss
  BY <1>2, StopFiles DEF Crash, PowerLoss
<1>3. CASE UNCHANGED vars
  BY <1>3, SameFiles DEF vars, disk, FileInv, VersionOK
<1>4. QED
  BY <1>1, <1>2, <1>3, WriterFiles, ReadFiles, OpenFiles DEF Next

\* A database just created needs no file.
LEMMA InitFiles == Init => FileInv
<1> SUFFICES ASSUME Init PROVE FileInv
  OBVIOUS
<1>1. VersionOK(current) /\ ThreadOK /\ ManifestOK
  BY DEF Init, VersionOK, NoVersion, ThreadOK, CompactionOK, Idle, NoCompaction, ManifestOK
<1>2. NeededFiles = {} /\ NoMissingFiles
  BY NoFiles DEF Init, NeededFiles, NoMissingFiles, NoVersion, NoReader, Idle, NoCompaction
<1>3. QED
  BY <1>1, <1>2 DEF FileInv

\* What is needed is always there.
LEMMA FilesAlways == Spec => []FileInv
BY InitFiles, FileNext, PTL DEF Spec

\* VersionSet::Recover, DBImpl::Recover: whenever the process or the phone
\* stops, the files MANIFEST names are there, so that the database opens again
\* and never ends with "missing files".
THEOREM FilesAreThere == Spec => []NoMissingFiles
<1>1. FileInv => NoMissingFiles
  BY DEF FileInv
<1>2. QED
  BY <1>1, FilesAlways, PTL

\* DeleteObsoleteFiles: no file of the version a read has taken, or of the
\* current one, is deleted, whatever is flushed, merged and installed meanwhile.
THEOREM ReadersKeepFiles ==
    Spec => [](Files(reader.levels) \cup Files(current.levels) \subseteq DOMAIN tables)
<1>1. FileInv => Files(reader.levels) \cup Files(current.levels) \subseteq DOMAIN tables
  BY DEF FileInv, NeededFiles
<1>2. QED
  BY <1>1, FilesAlways, PTL
-----------------------------------------------------------------------------
(* The logs.                                                               *)

\* The logs hold records, and their numbers have a bound.
RecordsOK ==
    /\ \E b \in Nat : DOMAIN logs \subseteq 0..b
    /\ \A n \in DOMAIN logs : \E R : logs[n] \in Seq(R)

\* Numbers are given to files in ascending order; the log in use is the last.
NumbersOK ==
    /\ manifest.logNumber \in Nat /\ manifest.nextFile \in Nat
    /\ manifest.logNumber < manifest.nextFile
    /\ up # "down" =>
          /\ current.nextFile \in Nat /\ current.logNumber \in Nat
          /\ logfile \in DOMAIN logs /\ \A n \in DOMAIN logs : n < current.nextFile
          /\ manifest.logNumber <= logfile /\ current.logNumber <= logfile

\* The edit on its way passes over the log of imm_ only with imm_ in a table.
Flushes == bg.pc \in {"log", "install"} /\ bg.edit.kind = "flush"

EditOK ==
    /\ bg.pc \in {"log", "install"} =>
          /\ bg.edit.logNumber \in Nat /\ bg.edit.nextFile \in Nat
          /\ bg.edit.logNumber < bg.edit.nextFile /\ bg.edit.logNumber <= logfile
    /\ Flushes =>
          \E l \in Level, n \in DOMAIN tables : bg.edit.add = {<<l, n>>} /\ tables[n] = imm
    /\ bg.pc = "log" => bg.edit.logNumber = (IF Flushes THEN logfile ELSE manifest.logNumber)
    /\ bg.pc = "install" => bg.edit.logNumber = manifest.logNumber
    /\ up = "open" /\ bg.pc # "install" => current.logNumber = manifest.logNumber
    /\ up = "installed" => current.logNumber = manifest.logNumber
    /\ bg.pc = "flush" \/ Flushes => imm # {}

LoggedEntries == UNION {LogEntries(n) : n \in Replayed}

\* The memtable is in the log in use; imm_ is in a log still to be replayed
\* unless its table is in MANIFEST.
MemOK ==
    /\ up # "open" => mem = {} /\ imm = {} /\ group = NoGroup
    /\ up = "open" => mem \subseteq LogEntries(logfile)
    /\ group.phase = "insert" => group.entries \subseteq LogEntries(logfile)
    /\ imm \subseteq LoggedEntries \/ (Flushes /\ bg.pc = "install")

LogInv == RecordsOK /\ NumbersOK /\ EditOK /\ MemOK

\* Appending to the log in use adds the entries of the record.
LEMMA AppendedLog ==
    ASSUME NEW r, NEW R, NEW s \in Seq(R)
    PROVE  /\ Append(s, r) \in Seq(R \cup {r})
           /\ DOMAIN Append(s, r) = DOMAIN s \cup {Len(s) + 1}
           /\ Append(s, r)[Len(s) + 1] = r
           /\ \A i \in DOMAIN s : Append(s, r)[i] = s[i]
<1>1. s \in Seq(R \cup {r}) /\ r \in R \cup {r}
  OBVIOUS
<1>2. QED
  BY <1>1

\* A set of numbers that is not empty has a least one, and with a bound a
\* greatest one.
LEMMA LeastOf ==
    ASSUME NEW S, S \subseteq Nat, S # {}
    PROVE  \E x \in S : \A y \in S : x <= y
<1>1. PICK x \in S : \A y \in S : ~ (<<y, x>> \in OpToRel(<, Nat))
  BY NatLessThanWellFounded, WFMin
<1>2. \A y \in S : ~(y < x)
  BY <1>1 DEF OpToRel
<1>3. QED
  BY <1>2

\* A set of numbers with a bound has a greatest one.
LEMMA GreatestOf ==
    ASSUME NEW S, S # {}, NEW b \in Nat, S \subseteq 0..b
    PROVE  Max(S) \in S /\ \A y \in S : y <= Max(S)
<1> DEFINE T == {k \in Nat : \E y \in S : k + y = b}
<1>1. T # {} /\ T \subseteq Nat
  <2>1. PICK y \in S : TRUE
    OBVIOUS
  <2>2. b - y \in Nat /\ (b - y) + y = b
    BY <2>1
  <2>3. QED
    BY <2>1, <2>2
<1>2. PICK k \in T : \A j \in T : k <= j
  <2> HIDE DEF T
  <2> QED
    BY <1>1, LeastOf
<1>3. PICK x \in S : k + x = b
  BY <1>2
<1>4. ASSUME NEW y \in S PROVE x >= y
  <2>1. b - y \in Nat /\ (b - y) + y = b
    OBVIOUS
  <2>2. b - y \in T
    BY <2>1
  <2>3. k <= b - y
    BY <1>2, <2>2
  <2>4. QED
    BY <1>2, <1>3, <2>3
<1>5. Max(S) \in S /\ \A y \in S : Max(S) >= y
  BY <1>3, <1>4 DEF Max
<1>6. QED
  BY <1>5

\* A step that leaves the logs, the memtables and the background thread.
LEMMA SameLogs ==
    ASSUME LogInv,
           UNCHANGED <<logs, tables, manifest, up, mem, imm, logfile, bg>>,
           current'.logNumber = current.logNumber, current'.nextFile = current.nextFile,
           group' = group \/ (up = "open" /\ group'.phase # "insert")
    PROVE  LogInv'
<1>1. RecordsOK'
  BY DEF LogInv, RecordsOK
<1>2. NumbersOK'
  BY DEF LogInv, NumbersOK
<1>3. EditOK'
  BY DEF LogInv, EditOK, Flushes
<1>4. LogEntries(logfile)' = LogEntries(logfile) /\ LoggedEntries' = LoggedEntries
  BY DEF LogEntries, LoggedEntries, Replayed
<1>5. MemOK'
  BY <1>4 DEF LogInv, MemOK, Flushes
<1>6. QED
  BY <1>1, <1>2, <1>3, <1>5 DEF LogInv

\* Steps of the writers and of reads that leave the logs as they are.
LEMMA QuietLogs ==
    ASSUME LogInv, FileInv, AckInv,
           \/ \E b \in Batches : Write(b)
           \/ WaitForRoom \/ FinishWrite
           \/ \E n \in DOMAIN writers : BuildBatchGroup(n)
           \/ StartGet \/ FinishGet
    PROVE  LogInv'
<1>1. UNCHANGED <<logs, tables, manifest, up, mem, imm, logfile, bg>>
  BY DEF Write, WaitForRoom, FinishWrite, BuildBatchGroup, StartGet, FinishGet, disk
<1>2. \/ current' = current
      \/ \E n : current' = [current EXCEPT !.lastSequence = n]
      \/ \E n : current' = [current EXCEPT !.seekFile = n]
  BY DEF Write, WaitForRoom, FinishWrite, BuildBatchGroup, StartGet, FinishGet
<1>3. current'.logNumber = current.logNumber /\ current'.nextFile = current.nextFile
  BY <1>2 DEF FileInv, VersionOK
<1>4. group' = group \/ (up = "open" /\ group'.phase # "insert")
  <2>1. CASE FinishWrite
    <3>1. group.phase = "finish" /\ group'.phase = "none"
      BY <2>1 DEF FinishWrite, NoGroup
    <3>2. QED
      BY <3>1 DEF NoGroup, LogInv, MemOK
  <2>2. CASE \E n \in DOMAIN writers : BuildBatchGroup(n)
    BY <2>2 DEF BuildBatchGroup, AtFront
  <2>3. CASE \/ \E b \in Batches : Write(b)
             \/ WaitForRoom \/ StartGet \/ FinishGet
    BY <2>3 DEF Write, WaitForRoom, StartGet, FinishGet, queue
  <2>4. QED
    BY <2>1, <2>2, <2>3
<1>5. QED
  BY <1>1, <1>3, <1>4, SameLogs

\* The memtable becomes imm_ with its log, and a new log is begun.
LEMMA SwitchLogs ==
    ASSUME LogInv, FileInv, SwitchMemTable
    PROVE  LogInv'
<1> DEFINE number == current.nextFile
<1>1. /\ up = "open" /\ up' = up /\ imm = {} /\ group = NoGroup /\ group' = group
      /\ logs' = [i \in DOMAIN logs \cup {number} |-> IF i = number THEN <<>> ELSE logs[i]]
      /\ logfile' = number /\ current' = [current EXCEPT !.nextFile = number + 1]
      /\ imm' = mem /\ mem' = {} /\ UNCHANGED <<tables, manifest, bg>>
  BY DEF SwitchMemTable, AtFront, queue
<1>2. /\ number \in Nat /\ \A n \in DOMAIN logs : n \in Nat /\ n < number
      /\ current'.nextFile = number + 1 /\ current'.logNumber = current.logNumber
  BY <1>1 DEF LogInv, NumbersOK, RecordsOK, FileInv, VersionOK
<1>3. logfile \in DOMAIN logs /\ logfile \in Nat /\ logfile < number
  BY <1>1, <1>2 DEF LogInv, NumbersOK
<1>4. RecordsOK'
  <2>1. DOMAIN logs' \subseteq 0..number
    BY <1>1, <1>2
  <2>2. \A n \in DOMAIN logs' : \E R : logs'[n] \in Seq(R)
    <3>1. <<>> \in Seq({})
      OBVIOUS
    <3>2. QED
      BY <1>1, <3>1 DEF LogInv, RecordsOK
  <2>3. QED
    BY <1>2, <2>1, <2>2 DEF RecordsOK
<1>5. NumbersOK'
  <2>1. /\ logfile' \in DOMAIN logs' /\ logfile' = number
        /\ \A n \in DOMAIN logs' : n < current'.nextFile
    BY <1>1, <1>2
  <2>2. /\ manifest.logNumber \in Nat /\ manifest.logNumber <= logfile
        /\ current.logNumber \in Nat /\ current.logNumber <= logfile
    BY <1>1 DEF LogInv, NumbersOK
  <2>3. manifest.logNumber <= number /\ current.logNumber <= number
    BY <1>2, <1>3, <2>2
  <2>4. QED
    BY <1>1, <1>2, <2>1, <2>2, <2>3 DEF LogInv, NumbersOK
<1>6. ~Flushes /\ bg.pc # "flush"
  BY <1>1 DEF LogInv, EditOK
<1>7. EditOK'
  BY <1>1, <1>2, <1>3, <1>6 DEF LogInv, EditOK, Flushes, NumbersOK
<1>8. mem \subseteq LoggedEntries'
  <2>1. logfile \in Replayed'
    BY <1>1, <1>3 DEF Replayed, LogInv, NumbersOK
  <2>2. LogEntries(logfile)' = UNION {logs'[logfile'][i] : i \in DOMAIN logs'[logfile']}
    BY DEF LogEntries
  <2>3. logs'[logfile] = logs[logfile]
    BY <1>1, <1>3
  <2>4. mem \subseteq UNION {logs'[logfile][i] : i \in DOMAIN logs'[logfile]}
    BY <1>1, <2>3 DEF LogInv, MemOK, LogEntries
  <2>5. QED
    BY <2>1, <2>4 DEF LoggedEntries, LogEntries
<1>9. MemOK'
  BY <1>1, <1>8 DEF MemOK, NoGroup
<1>10. QED
  BY <1>4, <1>5, <1>7, <1>9 DEF LogInv

\* The record is in the log before its entries are in the memtable.
LEMMA RecordLogs ==
    ASSUME LogInv, AckInv, AddRecord
    PROVE  LogInv'
<1>1. /\ group.phase = "log" /\ logs' = [logs EXCEPT ![logfile] = Append(@, group.entries)]
      /\ group' = [group EXCEPT !.phase = "insert"]
      /\ UNCHANGED <<tables, manifest, up, mem, imm, current, logfile, bg>>
  BY DEF AddRecord
<1>2. group'.entries = group.entries
  BY <1>1 DEF AckInv, GroupOK
<1>3. up = "open"
  BY <1>1 DEF LogInv, MemOK, NoGroup
<1>4. logfile \in DOMAIN logs /\ DOMAIN logs' = DOMAIN logs
  BY <1>1, <1>3 DEF LogInv, NumbersOK
<1>5. PICK R : logs[logfile] \in Seq(R)
  BY <1>4 DEF LogInv, RecordsOK
<1>6. /\ logs'[logfile] = Append(logs[logfile], group.entries)
      /\ \A n \in DOMAIN logs : n # logfile => logs'[n] = logs[n]
  BY <1>1, <1>4
<1>7. RecordsOK'
  <2>1. logs'[logfile] \in Seq(R \cup {group.entries})
    BY <1>5, <1>6, AppendedLog
  <2>2. \A n \in DOMAIN logs' : \E Q : logs'[n] \in Seq(Q)
    BY <1>4, <1>6, <2>1 DEF LogInv, RecordsOK
  <2>3. QED
    BY <1>4, <2>2 DEF LogInv, RecordsOK
<1>8. NumbersOK' /\ EditOK'
  BY <1>1, <1>4 DEF LogInv, NumbersOK, EditOK, Flushes
<1> DEFINE In(f, n) == UNION {f[n][i] : i \in DOMAIN f[n]}
<1>9. In(logs, logfile) \cup group.entries \subseteq In(logs', logfile)
  <2>1. PICK s, r : s = logs[logfile] /\ r = group.entries
    OBVIOUS
  <2>2. s \in Seq(R) /\ logs'[logfile] = Append(s, r)
    BY <1>5, <1>6, <2>1
  <2>3. /\ DOMAIN logs'[logfile] = DOMAIN s \cup {Len(s) + 1}
        /\ logs'[logfile][Len(s) + 1] = r
        /\ \A i \in DOMAIN s : logs'[logfile][i] = s[i]
    BY <2>2, AppendedLog
  <2>4. QED
    BY <2>1, <2>3
<1>10. \A n \in DOMAIN logs : In(logs, n) \subseteq In(logs', n)
  BY <1>6, <1>9
<1>11. /\ LogEntries(logfile) = In(logs, logfile) /\ LogEntries(logfile)' = In(logs', logfile)
       /\ LoggedEntries = UNION {In(logs, n) : n \in Replayed}
       /\ LoggedEntries' = UNION {In(logs', n) : n \in Replayed'}
  BY <1>1 DEF LogEntries, LoggedEntries
<1>12. Replayed' = Replayed /\ Replayed \subseteq DOMAIN logs
  BY <1>1, <1>4 DEF Replayed
<1> HIDE DEF In
<1>13. LoggedEntries \subseteq LoggedEntries'
  BY <1>10, <1>11, <1>12
<1>14. MemOK'
  BY <1>1, <1>2, <1>3, <1>9, <1>11, <1>13 DEF LogInv, MemOK, Flushes
<1>15. QED
  BY <1>7, <1>8, <1>14 DEF LogInv

\* The group goes into the memtable, from the log it is already in.
LEMMA InsertLogs ==
    ASSUME LogInv, AckInv, InsertInto
    PROVE  LogInv'
<1>1. /\ group.phase = "insert" /\ mem' = mem \cup group.entries
      /\ group' = [group EXCEPT !.phase = "finish"]
      /\ UNCHANGED <<logs, tables, manifest, up, imm, current, logfile, bg>>
  BY DEF InsertInto, disk
<1>2. group'.phase = "finish"
  BY <1>1 DEF AckInv, GroupOK
<1>3. up = "open"
  BY <1>1 DEF LogInv, MemOK, NoGroup
<1>4. RecordsOK' /\ NumbersOK' /\ EditOK'
  BY <1>1 DEF LogInv, RecordsOK, NumbersOK, EditOK, Flushes
<1>5. LogEntries(logfile)' = LogEntries(logfile) /\ LoggedEntries' = LoggedEntries
  BY <1>1 DEF LogEntries, LoggedEntries, Replayed
<1>6. MemOK'
  BY <1>1, <1>2, <1>3, <1>5 DEF LogInv, MemOK, Flushes
<1>7. QED
  BY <1>4, <1>6 DEF LogInv

\* A step of the background thread that leaves MANIFEST, the logs and imm_.
LEMMA ThreadLogs ==
    ASSUME LogInv, up = "open", bg.pc # "install", EditOK', bg'.pc # "install",
           current'.logNumber = current.logNumber,
           current'.nextFile \in {current.nextFile, current.nextFile + 1},
           UNCHANGED <<logs, manifest, up, mem, imm, logfile, group>>
    PROVE  LogInv'
<1>1. RecordsOK'
  BY DEF LogInv, RecordsOK
<1>2. NumbersOK'
  <2>1. /\ current.nextFile \in Nat /\ current.logNumber \in Nat
        /\ \A n \in DOMAIN logs : n \in Nat /\ n < current.nextFile
    BY DEF LogInv, NumbersOK, RecordsOK
  <2>2. current'.nextFile \in Nat /\ \A n \in DOMAIN logs : n < current'.nextFile
    BY <2>1
  <2>3. QED
    BY <2>1, <2>2 DEF LogInv, NumbersOK
<1>3. LogEntries(logfile)' = LogEntries(logfile) /\ LoggedEntries' = LoggedEntries
  BY DEF LogEntries, LoggedEntries, Replayed
<1>4. MemOK'
  BY <1>3 DEF LogInv, MemOK
<1>5. QED
  BY <1>1, <1>2, <1>4 DEF LogInv

\* The edit a move or a merge hands over keeps the log number.
LEMMA MergeLogs ==
    ASSUME LogInv, FileInv,
           \/ StartFlush
           \/ \E pick \in Picks : \E in \in Inputs(pick[1], pick[2]) :
                  TrivialMove(pick, in) \/ StartMerge(pick, in)
           \/ \E k \in Key : MergeOutput(k)
           \/ InstallCompactionResults
    PROVE  LogInv'
<1>1. /\ UNCHANGED <<logs, manifest, up, mem, imm, logfile, group>>
      /\ \/ current' = current
         \/ current' = [current EXCEPT !.nextFile = current.nextFile + 1]
      /\ bg.pc \in {"idle", "merge"}
  BY DEF StartFlush, TrivialMove, StartMerge, MergeOutput, InstallCompactionResults,
     MayCompact, disk, queue
<1>2. up = "open"
  <2>1. bg.pc = "merge" \/ up = "open"
    BY DEF StartFlush, TrivialMove, StartMerge, MergeOutput, InstallCompactionResults,
       MayCompact
  <2>2. QED
    BY <2>1 DEF FileInv, ThreadOK, Idle
<1>3. /\ current'.logNumber = current.logNumber
      /\ current'.nextFile \in {current.nextFile, current.nextFile + 1}
  BY <1>1 DEF FileInv, VersionOK
<1>4. /\ current.logNumber = manifest.logNumber /\ current.logNumber <= logfile
      /\ current.logNumber \in Nat /\ current.nextFile \in Nat /\ logfile \in Nat
      /\ logfile < current.nextFile
  <2>1. bg.pc # "install" /\ up # "down"
    BY <1>1, <1>2
  <2>2. current.logNumber = manifest.logNumber
    BY <1>2, <2>1 DEF LogInv, EditOK
  <2>3. /\ current.logNumber \in Nat /\ current.nextFile \in Nat /\ current.logNumber <= logfile
        /\ logfile < current.nextFile /\ logfile \in DOMAIN logs
    BY <2>1 DEF LogInv, NumbersOK
  <2>4. DOMAIN logs \subseteq Nat
    BY DEF LogInv, RecordsOK
  <2>5. QED
    BY <2>2, <2>3, <2>4
<1>5. bg'.pc # "install" /\ EditOK'
  <2>1. CASE bg'.pc \in {"idle", "merge"} \/ (bg'.pc = "flush" /\ imm # {})
    BY <1>1, <1>2, <1>3, <1>4, <2>1 DEF EditOK, Flushes
  <2>2. CASE bg'.pc = "log" /\ \E k, a, d : /\ k # "flush"
                                            /\ bg'.edit = Edit(k, a, d, current.logNumber, current)
    <3>1. /\ bg'.edit.kind # "flush" /\ bg'.edit.logNumber = current.logNumber
          /\ bg'.edit.nextFile = current.nextFile
      BY <2>2 DEF Edit
    <3>2. current.logNumber < current.nextFile
      BY <1>4
    <3>3. QED
      BY <1>1, <1>2, <1>3, <1>4, <2>2, <3>1, <3>2 DEF EditOK, Flushes
  <2>3. CASE StartFlush
    BY <2>1, <2>3 DEF StartFlush, FileInv, ThreadOK
  <2>4. CASE \E pick \in Picks : \E in \in Inputs(pick[1], pick[2]) :
                  TrivialMove(pick, in) \/ StartMerge(pick, in)
    <3>1. PICK pick, in : TrivialMove(pick, in) \/ StartMerge(pick, in)
      BY <2>4
    <3>2. CASE StartMerge(pick, in)
      <4>1. bg'.pc = "merge"
        BY <3>2 DEF StartMerge, FileInv, ThreadOK
      <4>2. QED
        BY <2>1, <4>1
    <3>3. CASE TrivialMove(pick, in)
      <4>1. bg'.pc = "log" /\ bg'.edit = Edit("move", At(pick[1] + 1, in[1]),
                                               At(pick[1], in[1]), current.logNumber, current)
        BY <3>3 DEF TrivialMove, FileInv, ThreadOK
      <4>2. QED
        BY <2>2, <4>1
    <3>4. QED
      BY <3>1, <3>2, <3>3
  <2>5. CASE \E k \in Key : MergeOutput(k)
    <3>1. bg'.pc = "merge"
      BY <2>5 DEF MergeOutput, FileInv, ThreadOK
    <3>2. QED
      BY <2>1, <3>1
  <2>6. CASE InstallCompactionResults
    BY <2>2, <2>6 DEF InstallCompactionResults, FileInv, ThreadOK
  <2>7. QED
    BY <2>3, <2>4, <2>5, <2>6
<1>6. QED
  BY <1>1, <1>2, <1>3, <1>5, ThreadLogs

\* The table holds imm_, and the edit says that its log is no longer needed.
LEMMA TableLogs ==
    ASSUME LogInv, FileInv, NEW l \in Level, WriteLevel0Table(l)
    PROVE  LogInv'
<1> DEFINE number == current.nextFile
           v == [current EXCEPT !.nextFile = number + 1]
<1>1. /\ bg.pc = "flush" /\ current' = v
      /\ tables' = [n \in DOMAIN tables \cup {number} |-> IF n = number THEN imm ELSE tables[n]]
      /\ bg' = [bg EXCEPT !.pc = "log",
                          !.edit = Edit("flush", {<<l, number>>}, {}, logfile, v)]
      /\ UNCHANGED <<logs, manifest, up, mem, imm, logfile, group>>
  BY DEF WriteLevel0Table, queue
<1>2. up = "open"
  BY <1>1 DEF FileInv, ThreadOK, Idle
<1>3. /\ current'.nextFile = number + 1 /\ current'.logNumber = current.logNumber
  BY <1>1 DEF FileInv, VersionOK
<1>4. /\ number \in Nat /\ logfile \in Nat /\ logfile < number + 1 /\ imm # {}
      /\ current.logNumber = manifest.logNumber
  BY <1>1, <1>2 DEF LogInv, EditOK, NumbersOK, RecordsOK
<1>5. bg'.pc = "log" /\ bg'.edit = Edit("flush", {<<l, number>>}, {}, logfile, v)
  BY <1>1 DEF FileInv, ThreadOK
<1>6. /\ bg'.edit.kind = "flush" /\ bg'.edit.add = {<<l, number>>}
      /\ bg'.edit.logNumber = logfile /\ bg'.edit.nextFile = number + 1
  BY <1>1, <1>3, <1>5 DEF Edit
<1>7. number \in DOMAIN tables' /\ tables'[number] = imm
  BY <1>1
<1>8. EditOK'
  <2>1. Flushes' /\ bg'.pc = "log"
    BY <1>5, <1>6 DEF Flushes
  <2>2. \E j \in Level, n \in DOMAIN tables' : bg'.edit.add = {<<j, n>>} /\ tables'[n] = imm'
    BY <1>1, <1>6, <1>7
  <2>3. logfile' = logfile
    BY <1>1
  <2>4. /\ bg'.edit.logNumber \in Nat /\ bg'.edit.nextFile \in Nat
        /\ bg'.edit.logNumber < bg'.edit.nextFile /\ bg'.edit.logNumber <= logfile'
        /\ bg'.edit.logNumber = logfile'
    <3> HIDE DEF number
    <3>1. number + 1 \in Nat /\ logfile <= logfile
      BY <1>4
    <3>2. QED
      BY <1>4, <1>6, <2>3, <3>1
  <2>5. current'.logNumber = manifest'.logNumber /\ up' = "open" /\ imm' # {}
    BY <1>1, <1>2, <1>3, <1>4
  <2>6. QED
    BY <1>6, <2>1, <2>2, <2>4, <2>5 DEF EditOK, Flushes
<1>9. QED
  BY <1>1, <1>2, <1>3, <1>5, <1>8, ThreadLogs

\* MANIFEST passes over the log of imm_ when it names its table.
LEMMA ManifestLogs ==
    ASSUME LogInv, FileInv, WriteManifest
    PROVE  LogInv'
<1>1. /\ bg.pc = "log" /\ bg' = [bg EXCEPT !.pc = "install"]
      /\ manifest'.logNumber = bg.edit.logNumber /\ manifest'.nextFile = bg.edit.nextFile
      /\ UNCHANGED <<logs, tables, up, mem, imm, current, logfile, group>>
  BY DEF WriteManifest, queue
<1>2. up = "open"
  BY <1>1 DEF FileInv, ThreadOK, Idle
<1>3. bg'.pc = "install" /\ bg'.edit = bg.edit
  BY <1>1 DEF FileInv, ThreadOK
<1>4. RecordsOK'
  BY <1>1 DEF LogInv, RecordsOK
<1>5. NumbersOK'
  BY <1>1, <1>2 DEF LogInv, NumbersOK, EditOK
<1>6. Flushes' = Flushes
  BY <1>1, <1>3 DEF Flushes
<1>7. EditOK'
  BY <1>1, <1>2, <1>3, <1>6 DEF LogInv, EditOK
<1>8. LogEntries(logfile)' = LogEntries(logfile)
  BY <1>1 DEF LogEntries
<1>9. MemOK'
  <2>1. CASE Flushes
    BY <1>1, <1>2, <1>3, <1>6, <1>8, <2>1 DEF LogInv, MemOK
  <2>2. CASE ~Flushes
    <3>1. manifest'.logNumber = manifest.logNumber
      BY <1>1, <2>2 DEF LogInv, EditOK
    <3>2. LoggedEntries' = LoggedEntries
      BY <1>1, <3>1 DEF LoggedEntries, Replayed, LogEntries
    <3>3. QED
      BY <1>1, <1>2, <1>3, <1>6, <1>8, <2>2, <3>2 DEF LogInv, MemOK
  <2>3. QED
    BY <2>1, <2>2
<1>10. QED
  BY <1>4, <1>5, <1>7, <1>9 DEF LogInv

\* The deletion of old logs leaves those that opening replays.
LEMMA KeptLogs ==
    ASSUME LogInv, manifest' = manifest,
           logs' = Only(logs, {n \in DOMAIN logs : n >= manifest.logNumber})
    PROVE  /\ RecordsOK' /\ LoggedEntries' = LoggedEntries
           /\ DOMAIN logs' = {n \in DOMAIN logs : n >= manifest.logNumber}
           /\ \A n \in DOMAIN logs' : logs'[n] = logs[n]
<1>1. /\ DOMAIN logs' = {n \in DOMAIN logs : n >= manifest.logNumber}
      /\ \A n \in DOMAIN logs' : logs'[n] = logs[n]
  BY DEF Only
<1>2. RecordsOK'
  BY <1>1 DEF LogInv, RecordsOK
<1>3. Replayed' = Replayed /\ Replayed = DOMAIN logs'
  BY <1>1 DEF Replayed
<1>4. LoggedEntries' = LoggedEntries
  <2> DEFINE In(f, n) == UNION {f[n][i] : i \in DOMAIN f[n]}
  <2>1. \A n \in Replayed : In(logs', n) = In(logs, n)
    BY <1>1, <1>3
  <2>2. /\ LoggedEntries = UNION {In(logs, n) : n \in Replayed}
        /\ LoggedEntries' = UNION {In(logs', n) : n \in Replayed'}
    BY DEF LoggedEntries, LogEntries
  <2> HIDE DEF In
  <2>3. QED
    BY <1>3, <2>1, <2>2
<1>5. QED
  BY <1>1, <1>2, <1>4

\* The edit is installed, and the logs before it are deleted.
LEMMA InstallLogs ==
    ASSUME LogInv, FileInv, Install
    PROVE  LogInv'
<1>1. /\ bg.pc = "install" /\ UNCHANGED <<manifest, up, mem, logfile, group>>
      /\ current' = [current EXCEPT !.levels = ApplyEdit(current.levels, bg.edit),
                                    !.logNumber = bg.edit.logNumber,
                                    !.seekFile = NoFile]
      /\ imm' = IF bg.edit.kind = "flush" THEN {} ELSE imm
      /\ bg' = [bg EXCEPT !.pc = "merge", !.edit = NoEdit] \/ bg' = Idle
      /\ \/ logs' = logs
         \/ logs' = Only(logs, {n \in DOMAIN logs : n >= current'.logNumber})
  BY DEF Install, DeleteObsoleteFiles
<1>2. up = "open"
  BY <1>1 DEF FileInv, ThreadOK, Idle
<1>3. /\ current'.logNumber = manifest.logNumber /\ current'.nextFile = current.nextFile
  BY <1>1 DEF FileInv, VersionOK, LogInv, EditOK
<1>4. bg'.pc \in {"merge", "idle"}
  <2>1. CASE bg' = [bg EXCEPT !.pc = "merge", !.edit = NoEdit]
    BY <2>1 DEF FileInv, ThreadOK
  <2>2. CASE bg' = Idle
    BY <2>2 DEF Idle
  <2>3. QED
    BY <1>1, <2>1, <2>2
<1>5. /\ RecordsOK' /\ LoggedEntries' = LoggedEntries
      /\ DOMAIN logs' \subseteq DOMAIN logs /\ logfile \in DOMAIN logs'
      /\ logs'[logfile] = logs[logfile]
  <2>1. logfile \in DOMAIN logs /\ logfile >= manifest.logNumber
    <3>1. /\ logfile \in DOMAIN logs /\ manifest.logNumber <= logfile
          /\ manifest.logNumber \in Nat /\ logfile \in Nat
      BY <1>2 DEF LogInv, NumbersOK, RecordsOK
    <3>2. QED
      BY <3>1
  <2>2. CASE logs' = logs
    BY <1>1, <2>1, <2>2 DEF LogInv, RecordsOK, LoggedEntries, LogEntries, Replayed
  <2>3. CASE logs' = Only(logs, {n \in DOMAIN logs : n >= current'.logNumber})
    BY <1>1, <1>3, <2>1, <2>3, KeptLogs
  <2>4. QED
    BY <1>1, <2>2, <2>3
<1>6. NumbersOK'
  BY <1>1, <1>2, <1>3, <1>5 DEF LogInv, NumbersOK
<1>7. EditOK'
  BY <1>1, <1>2, <1>3, <1>4 DEF EditOK, Flushes
<1>8. LogEntries(logfile)' = LogEntries(logfile)
  BY <1>1, <1>5 DEF LogEntries
<1>9. imm' \subseteq LoggedEntries
  BY <1>1 DEF LogInv, MemOK, Flushes
<1>10. MemOK'
  BY <1>1, <1>2, <1>4, <1>5, <1>8, <1>9 DEF LogInv, MemOK
<1>11. QED
  BY <1>5, <1>6, <1>7, <1>10 DEF LogInv

\* A stop takes memory, and perhaps the ends of logs.
LEMMA StopLogs ==
    ASSUME LogInv, Crash \/ PowerLoss
    PROVE  LogInv'
<1>1. /\ Stop /\ DOMAIN logs' = DOMAIN logs
      /\ \A n \in DOMAIN logs : \E R : logs'[n] \in Seq(R)
  <2>1. CASE Crash
    BY <2>1 DEF Crash, LogInv, RecordsOK
  <2>2. CASE PowerLoss
    <3>1. PICK kept \in [DOMAIN logs -> 0..MaxSequence] :
              /\ \A n \in DOMAIN logs : kept[n] <= Len(logs[n])
              /\ logs' = [n \in DOMAIN logs |-> SubSeq(logs[n], 1, kept[n])]
      BY <2>2 DEF PowerLoss
    <3>2. ASSUME NEW n \in DOMAIN logs PROVE \E R : logs'[n] \in Seq(R)
      <4>1. PICK R : logs[n] \in Seq(R)
        BY DEF LogInv, RecordsOK
      <4>2. kept[n] \in Nat /\ kept[n] <= Len(logs[n]) /\ logs'[n] = SubSeq(logs[n], 1, kept[n])
        BY <3>1
      <4>3. SubSeq(logs[n], 1, kept[n]) \in Seq(R)
        BY <4>1, <4>2, SubSeqProperties
      <4>4. QED
        BY <4>2, <4>3
    <3>3. QED
      BY <2>2, <3>1, <3>2 DEF PowerLoss
  <2>3. QED
    BY <2>1, <2>2
<1>2. /\ up' = "down" /\ mem' = {} /\ imm' = {} /\ group' = NoGroup /\ bg' = Idle
      /\ manifest' = manifest
  BY <1>1 DEF Stop
<1>3. RecordsOK'
  BY <1>1 DEF LogInv, RecordsOK
<1>4. NumbersOK'
  BY <1>2 DEF LogInv, NumbersOK
<1>5. EditOK' /\ MemOK'
  BY <1>2 DEF EditOK, MemOK, Flushes, Idle, NoGroup
<1>6. QED
  BY <1>3, <1>4, <1>5 DEF LogInv

\* DB::Open numbers the tables it makes, and then the new log, with numbers no
\* file has.
LEMMA NumbersOfOpening ==
    ASSUME RecordsOK, NumbersOK
    PROVE  LET full   == {n \in Replayed : LogEntries(n) # {}}
               first  == Max({manifest.nextFile} \cup Replayed) + 1
               newLog == first + Len(OldestFirst(full))
           IN  /\ first \in Nat /\ newLog \in Nat /\ first <= newLog
               /\ manifest.nextFile < first /\ \A n \in DOMAIN logs : n \in Nat /\ n < first
               /\ full \subseteq Nat /\ IsFiniteSet(full) /\ Cardinality(full) \in Nat
               /\ newLog = first + Cardinality(full)
<1> DEFINE full   == {n \in Replayed : LogEntries(n) # {}}
           first  == Max({manifest.nextFile} \cup Replayed) + 1
           newLog == first + Len(OldestFirst(full))
<1>1. PICK b \in Nat : DOMAIN logs \subseteq 0..b
  BY DEF RecordsOK
<1>2. /\ manifest.logNumber \in Nat /\ manifest.nextFile \in Nat
      /\ manifest.logNumber < manifest.nextFile
  BY DEF NumbersOK
<1>3. first \in Nat /\ manifest.nextFile < first /\ \A n \in DOMAIN logs : n < first
  <2> DEFINE S == {manifest.nextFile} \cup Replayed
  <2>1. S \subseteq 0 .. b + manifest.nextFile /\ S # {} /\ b + manifest.nextFile \in Nat
    BY <1>1, <1>2 DEF Replayed
  <2>2. Max(S) \in S /\ \A y \in S : y <= Max(S)
    <3> HIDE DEF S
    <3> QED
      BY <2>1, GreatestOf
  <2>3. Max(S) \in Nat /\ manifest.nextFile <= Max(S) /\ first = Max(S) + 1
    <3>1. manifest.nextFile \in S /\ first = Max(S) + 1
      OBVIOUS
    <3> HIDE DEF S, first
    <3>2. Max(S) \in 0 .. b + manifest.nextFile /\ manifest.nextFile <= Max(S)
      BY <2>1, <2>2, <3>1, Zenon
    <3>3. Max(S) \in Nat
      BY <2>1, <3>2
    <3>4. QED
      BY <3>1, <3>2, <3>3
  <2>4. ASSUME NEW n \in DOMAIN logs PROVE n < first
    <3>1. n \in Nat
      BY <1>1
    <3>2. CASE n >= manifest.logNumber
      <4>1. n \in S
        BY <3>2 DEF Replayed
      <4>2. n <= Max(S)
        BY <2>2, <4>1
      <4> HIDE DEF S, first
      <4>3. QED
        BY <2>3, <3>1, <4>2
    <3>3. CASE ~(n >= manifest.logNumber)
      <4> HIDE DEF S, first
      <4> QED
        BY <1>2, <2>3, <3>1, <3>3
    <3>4. QED
      BY <3>2, <3>3
  <2> HIDE DEF S, first
  <2>5. QED
    BY <1>2, <2>3, <2>4
<1>4. full \subseteq Nat /\ IsFiniteSet(full) /\ Cardinality(full) \in Nat
  <2>1. full \in SUBSET Nat /\ \A n \in full : n <= b
    BY <1>1 DEF Replayed
  <2>2. IsFiniteSet(full)
    <3> HIDE DEF full
    <3> QED
      BY <1>1, <2>1, FS_BoundedSetOfNaturals
  <2>3. Cardinality(full) \in Nat
    <3> HIDE DEF full
    <3> QED
      BY <2>2, FS_CardinalityType
  <2>4. QED
    BY <2>1, <2>2, <2>3
<1>5. Len(OldestFirst(full)) = Cardinality(full)
  <2> HIDE DEF full
  <2> QED
    BY <1>4 DEF OldestFirst
<1>6. \A n \in DOMAIN logs : n \in Nat
  BY <1>1
<1> HIDE DEF first, full
<1>7. newLog \in Nat /\ first <= newLog /\ newLog = first + Cardinality(full)
  BY <1>3, <1>4, <1>5
<1>8. QED
  BY <1>3, <1>4, <1>6, <1>7 DEF full, first

\* The new log of DB::Open has a number no log has.
LEMMA RecoverLogs ==
    ASSUME LogInv, FileInv, Recover
    PROVE  LogInv'
<1> DEFINE full   == {n \in Replayed : LogEntries(n) # {}}
           first  == Max({manifest.nextFile} \cup Replayed) + 1
           newLog == first + Len(OldestFirst(full))
<1>1. /\ up = "down" /\ up' = "recovering" /\ logs' = LogsWith(newLog) /\ logfile' = newLog
      /\ current'.logNumber = newLog /\ current'.nextFile = newLog + 1
      /\ UNCHANGED <<manifest, mem, imm, bg, group>>
  BY DEF Recover, queue
<1>2. PICK b \in Nat : DOMAIN logs \subseteq 0..b
  BY DEF LogInv, RecordsOK
<1>3. /\ manifest.logNumber \in Nat /\ manifest.nextFile \in Nat
      /\ manifest.logNumber < manifest.nextFile
  BY DEF LogInv, NumbersOK
<1>4. first \in Nat /\ manifest.nextFile < first /\ \A n \in DOMAIN logs : n < first
  BY NumbersOfOpening DEF LogInv
<1>5. newLog \in Nat /\ first <= newLog
  BY NumbersOfOpening DEF LogInv
<1> HIDE DEF newLog, first
<1>6. /\ newLog + 1 \in Nat /\ newLog < newLog + 1 /\ newLog <= newLog
      /\ manifest.logNumber <= newLog /\ \A n \in DOMAIN logs : n \in Nat /\ n < newLog
  BY <1>2, <1>3, <1>4, <1>5
<1>7. /\ DOMAIN logs' = DOMAIN logs \cup {newLog} /\ logs'[newLog] = <<>>
      /\ \A n \in DOMAIN logs : logs'[n] = logs[n]
  BY <1>1, <1>6 DEF LogsWith
<1>8. RecordsOK'
  <2>1. DOMAIN logs' \subseteq 0..newLog
    BY <1>5, <1>6, <1>7
  <2>2. <<>> \in Seq({})
    OBVIOUS
  <2>3. QED
    BY <1>5, <1>7, <2>1, <2>2 DEF LogInv, RecordsOK
<1>9. NumbersOK'
  <2>1. \A n \in DOMAIN logs' : n < newLog + 1
    BY <1>5, <1>6, <1>7
  <2>2. QED
    BY <1>1, <1>3, <1>5, <1>6, <1>7, <2>1 DEF NumbersOK
<1>10. bg = Idle
  BY <1>1 DEF FileInv, ThreadOK
<1>11. EditOK' /\ MemOK'
  BY <1>1, <1>10 DEF LogInv, EditOK, MemOK, Flushes, Idle, NoGroup
<1>12. QED
  BY <1>8, <1>9, <1>11 DEF LogInv

\* The new MANIFEST, and the end of opening.
LEMMA OpenLogs ==
    ASSUME LogInv, FileInv, SetCurrentFile \/ Opened
    PROVE  LogInv'
<1>1. bg = Idle /\ up \in {"recovering", "installed"}
  BY DEF SetCurrentFile, Opened, FileInv, ThreadOK
<1>2. /\ current.nextFile \in Nat /\ current.logNumber \in Nat /\ logfile \in Nat
      /\ current.logNumber <= logfile /\ logfile < current.nextFile /\ logfile \in DOMAIN logs
  BY <1>1 DEF LogInv, NumbersOK, RecordsOK
<1>3. CASE SetCurrentFile
  <2>1. /\ up' = "installed" /\ manifest'.logNumber = current.logNumber
        /\ manifest'.nextFile = current.nextFile
        /\ UNCHANGED <<logs, mem, imm, current, logfile, bg, group>>
    BY <1>3 DEF SetCurrentFile, queue
  <2>2. current.logNumber < current.nextFile
    BY <1>2
  <2>3. RecordsOK'
    BY <2>1 DEF LogInv, RecordsOK
  <2>4. NumbersOK'
    BY <1>1, <1>2, <2>1, <2>2 DEF LogInv, NumbersOK
  <2>5. EditOK' /\ MemOK'
    BY <1>1, <2>1 DEF LogInv, EditOK, MemOK, Flushes, Idle, NoGroup
  <2>6. QED
    BY <2>3, <2>4, <2>5 DEF LogInv
<1>4. CASE Opened
  <2>1. /\ up = "installed" /\ up' = "open"
        /\ logs' = Only(logs, {n \in DOMAIN logs : n >= current.logNumber})
        /\ UNCHANGED <<manifest, mem, imm, current, logfile, bg, group>>
    BY <1>4 DEF Opened, DeleteObsoleteFiles, queue
  <2>2. current.logNumber = manifest.logNumber
    BY <2>1 DEF LogInv, EditOK
  <2>3. /\ RecordsOK' /\ DOMAIN logs' \subseteq DOMAIN logs /\ logfile \in DOMAIN logs'
    BY <1>2, <2>1, <2>2, KeptLogs
  <2>4. NumbersOK'
    BY <1>1, <2>1, <2>3 DEF LogInv, NumbersOK
  <2>5. EditOK' /\ MemOK'
    BY <1>1, <2>1, <2>2 DEF LogInv, EditOK, MemOK, Flushes, Idle, NoGroup
  <2>6. QED
    BY <2>3, <2>4, <2>5 DEF LogInv
<1>5. QED
  BY <1>3, <1>4

\* No step lets go of a log that is still to be replayed.
LEMMA LogNext == AckInv /\ FileInv /\ LogInv /\ [Next]_vars => LogInv'
<1> SUFFICES ASSUME AckInv, FileInv, LogInv, [Next]_vars PROVE LogInv'
  OBVIOUS
<1>1. CASE WriterStep
  BY <1>1, QuietLogs, SwitchLogs, RecordLogs, InsertLogs DEF WriterStep
<1>2. CASE BackgroundStep
  BY <1>2, MergeLogs, TableLogs, ManifestLogs, InstallLogs DEF BackgroundStep
<1>3. CASE UNCHANGED vars
  BY <1>3, SameLogs DEF vars, disk, queue
<1>4. QED
  BY <1>1, <1>2, <1>3, QuietLogs, StopLogs, RecoverLogs, OpenLogs DEF Next

\* A database just created has an empty log.
LEMMA InitLogs == Init => LogInv
<1> SUFFICES ASSUME Init PROVE LogInv
  OBVIOUS
<1>1. /\ DOMAIN logs = {3} /\ logs[3] = <<>> /\ logfile = 3 /\ up = "open" /\ bg = Idle
      /\ manifest.logNumber = 3 /\ manifest.nextFile = 4
      /\ current.logNumber = 3 /\ current.nextFile = 4
      /\ mem = {} /\ imm = {} /\ group = NoGroup
  BY DEF Init, NoVersion
<1>2. <<>> \in Seq({}) /\ DOMAIN logs \subseteq 0..3
  BY <1>1
<1>3. RecordsOK
  BY <1>1, <1>2 DEF RecordsOK
<1>4. NumbersOK
  BY <1>1 DEF NumbersOK
<1>5. EditOK /\ MemOK
  BY <1>1 DEF EditOK, MemOK, Flushes, Idle, NoGroup
<1>6. QED
  BY <1>3, <1>4, <1>5 DEF LogInv

\* What is in memory is in the logs, or the edit that flushes it is in MANIFEST.
LEMMA MemoryLogged ==
    ASSUME FileInv, LogInv
    PROVE  MemoryIsLogged
<1>1. CASE up # "open"
  BY <1>1 DEF LogInv, MemOK, MemoryIsLogged
<1>2. CASE up = "open"
  <2>1. mem \subseteq LoggedEntries
    <3>1. logfile \in Replayed
      <4>1. /\ logfile \in DOMAIN logs /\ manifest.logNumber <= logfile
            /\ manifest.logNumber \in Nat /\ logfile \in Nat
        BY <1>2 DEF LogInv, NumbersOK, RecordsOK
      <4>2. QED
        BY <4>1 DEF Replayed
    <3>2. QED
      BY <1>2, <3>1 DEF LogInv, MemOK, LoggedEntries
  <2>2. CASE imm \subseteq LoggedEntries
    BY <2>1, <2>2 DEF MemoryIsLogged, LoggedEntries
  <2>3. CASE Flushes /\ bg.pc = "install"
    <3>1. PICK l \in Level, n \in DOMAIN tables : bg.edit.add = {<<l, n>>} /\ tables[n] = imm
      BY <2>3 DEF LogInv, EditOK
    <3>2. manifest.levels = ApplyEdit(current.levels, bg.edit)
      BY <1>2, <2>3 DEF FileInv, ManifestOK
    <3>3. n \in manifest.levels[l]
      <4>1. \E a \in {x \in bg.edit.add : x[1] = l} : a[2] = n
        <5>1. <<l, n>> \in bg.edit.add /\ <<l, n>>[1] = l /\ <<l, n>>[2] = n
          BY <3>1
        <5>2. QED
          BY <5>1, Zenon
      <4>2. QED
        BY <3>2, <4>1 DEF ApplyEdit
    <3>4. n \in Files(manifest.levels)
      BY <3>3 DEF Files
    <3>5. QED
      <4>1. imm \subseteq UNION {tables[m] : m \in Files(manifest.levels)}
        BY <3>1, <3>4
      <4>2. mem \cup imm \subseteq LoggedEntries \cup UNION {tables[m] : m \in Files(manifest.levels)}
        BY <2>1, <4>1, Zenon
      <4>3. QED
        BY <4>2, Zenon DEF MemoryIsLogged, LoggedEntries
  <2>4. QED
    BY <2>2, <2>3 DEF LogInv, MemOK
<1>3. QED
  BY <1>1, <1>2

\* DBImpl::Write, MakeRoomForWrite, CompactMemTable, DeleteObsoleteFiles: all
\* that is in memory is in a log that opening the files would replay, or in a
\* table that MANIFEST names.  No log is deleted, or passed over by a version
\* edit, before the table of its memtable is in MANIFEST, whatever merges and
\* switches of the memtable happen in between.
THEOREM MemoryIsSafe == Spec => []MemoryIsLogged
BY InitAcks, AckNext, FilesAlways, InitLogs, LogNext, MemoryLogged, PTL DEF Spec
-----------------------------------------------------------------------------
(* The invariant. *)

Entry == [seq : Nat, key : Key, put : BOOLEAN, id : Nat]

\* The entries of the files S, when the table files are T.
Entries(T, S) == UNION {T[n] : n \in S}

\* Sets of entries by their keys and numbers: all of S older than all of T; S
\* newer than T for every key; the key ranges of S and T do not meet.
Before(S, T) == \A e \in S, f \in T : e.seq < f.seq
Above(S, T)  == \A e \in S, f \in T : e.key = f.key => f.seq < e.seq
Apart(S, T)  == \/ \A e \in S, f \in T : e.key < f.key
                \/ \A e \in S, f \in T : f.key < e.key

\* What is searched first is newer, and a level has one place for a key.
Sorted(T, levels) ==
    /\ \A l, m \in Level : l < m => Above(Entries(T, levels[l]), Entries(T, levels[m]))
    /\ \A n, p \in levels[0] : p < n => Above(T[n], T[p])
    /\ \A l \in Level \ {0} : \A m, n \in levels[l] : m # n => Apart(T[m], T[n])

\* The levels stand for the entries W: the newest of a key is there, unless it
\* is a deletion and nothing is left of the key.
Latest(e, W) == \A f \in W : f.key = e.key => f.seq <= e.seq
Holds(T, levels, W) ==
    /\ Entries(T, Files(levels)) \subseteq W
    /\ \A e \in W : Latest(e, W) =>
          \/ e \in Entries(T, Files(levels))
          \/ ~e.put /\ \A f \in Entries(T, Files(levels)) : f.key # e.key

Good(T, levels, W) == Sorted(T, levels) /\ Holds(T, levels, W)

-----------------------------------------------------------------------------
\* The sequence numbers.
Inflight == IF group.phase = "insert" THEN group.entries ELSE {}
InGroup  == IF group.phase \in {"insert", "finish"} THEN group.entries ELSE {}
Memory   == mem \cup imm \cup Inflight
Flushed  == written \ Memory

GroupNumbers ==
    /\ group.phase = "none" => group = NoGroup
    /\ group.phase # "none" => up = "open" /\ group.n \in DOMAIN writers
    /\ group.entries \subseteq Entry /\ IsFiniteSet(group.entries)
    /\ Cardinality(group.entries) = NumEntries(SubSeq(writers, 1, group.n))
    /\ \A e \in group.entries : /\ current.lastSequence < e.seq
                                /\ e.seq <= current.lastSequence + Cardinality(group.entries)
    /\ \A e, f \in group.entries : e.seq = f.seq => e = f
    /\ group.phase = "finish" => group.entries \subseteq mem

WrittenNumbers ==
    /\ written \subseteq Entry
    /\ \A e, f \in written : e.seq = f.seq => e = f
    /\ \A e \in written : e.seq <= MaxSequence
    /\ up # "down" =>
          /\ current.lastSequence \in 0..MaxSequence
          /\ \A e \in written \ InGroup : e.seq <= current.lastSequence
    /\ up = "open" => current.lastSequence + NumEntries(writers) <= MaxSequence
    /\ up # "open" => writers = <<>> /\ group = NoGroup

\* The older an entry is, the further it has gone.
MemoryNumbers ==
    /\ mem \cup imm \subseteq written
    /\ Before(Flushed, Memory)
    /\ Before(imm, mem \cup Inflight)

\* The logs that opening replays hold what is in memory, in its order.
LogNumbers ==
    /\ \A n, p \in Replayed : \A i \in DOMAIN logs[n], j \in DOMAIN logs[p] :
          n < p \/ (n = p /\ i < j) => Before(logs[n][i], logs[p][j])
    /\ LoggedEntries \subseteq written
    /\ Before(written \ LoggedEntries, LoggedEntries)
    /\ up # "down" => \A n \in DOMAIN logs : n <= logfile
    /\ up \in {"recovering", "installed"} =>
          current.logNumber = logfile /\ LogEntries(logfile) = {}
    /\ up = "installed" => LoggedEntries = {}
    /\ up = "open" =>
          /\ LogEntries(logfile) = mem \cup Inflight
          /\ UNION {LogEntries(n) : n \in Replayed \ {logfile}} =
                IF Flushes /\ bg.pc = "install" THEN {} ELSE imm

\* An edit on its way stands for what has been flushed, with its own table.
EditHolds == IF Flushes THEN Flushed \cup imm ELSE Flushed

ManifestNumbers ==
    /\ manifest.lastSequence \in 0..MaxSequence
    /\ \A e \in written \ LoggedEntries : e.seq <= manifest.lastSequence
    /\ bg.pc = "log" => /\ bg.edit.lastSequence \in 0..MaxSequence
                        /\ \A e \in EditHolds : e.seq <= bg.edit.lastSequence

SeqInv ==
    GroupNumbers /\ WrittenNumbers /\ MemoryNumbers /\ LogNumbers /\ ManifestNumbers

-----------------------------------------------------------------------------
\* The tables.
Edited == ApplyEdit(current.levels, bg.edit)

\* Numbers of files are not used again while somebody needs the file.
TablesOK ==
    /\ \A n \in DOMAIN tables : n \in Nat /\ tables[n] # {} /\ tables[n] \subseteq Entry
    /\ \A n \in Files(manifest.levels) : n < manifest.nextFile
    /\ up # "down" => /\ current.nextFile \in Nat
                      /\ \A n \in NeededFiles \cup Files(manifest.levels) : n < current.nextFile
    /\ bg.pc = "log" => \A n \in Files(Edited) : n < bg.edit.nextFile
    /\ up # "open" => reader = NoReader
    /\ up = "down" => current = NoVersion

\* The files of a merge, and their place in the levels: what is not an input
\* is newer than the inputs or has no key in the range of one.
Merged(T, c) == Entries(T, c.in0 \cup c.in1)
MergePlace(T, c, levels) ==
    /\ c.level \in Level /\ c.level + 1 \in Level
    /\ c.in0 \subseteq levels[c.level] /\ c.in1 \subseteq levels[c.level + 1]
    /\ \A n \in levels[c.level] \ c.in0 : Above(T[n], Merged(T, c))
    /\ \A n \in levels[c.level + 1] \ c.in1, m \in c.in0 \cup c.in1 : Apart(T[n], T[m])
    /\ \A l \in Level : l > c.level + 1 =>
          \A n \in levels[l] \ c.base[l] : Above(T[n], Merged(T, c))

\* Key x is in the range of table t; every key between two of S is in the range
\* of one of the files.
Spans(t, x) == \E a, b \in t : a.key <= x /\ x <= b.key
Covered(T, S) ==
    \A e, f \in Entries(T, S), x \in Key :
        e.key <= x /\ x <= f.key => \E n \in S : Spans(T[n], x)

\* The entries O stand for D when the levels below the merge are those it began
\* with.
Replaces(T, c, O, D) ==
    /\ O \subseteq D
    /\ \A e \in D : Latest(e, D) =>
          \/ e \in O
          \/ /\ ~e.put /\ \A f \in O : f.key # e.key
             /\ \A l \in Level : l > c.level + 1 =>
                   \A f \in Entries(T, c.base[l]) : f.key # e.key

\* What has been written stands for the keys that are done.
MergeDone(T, c) ==
    /\ Covered(T, c.in0 \cup c.in1)
    /\ \A e \in Merged(T, c) : e.seq <= c.snapshot
    /\ c.todo \subseteq {e.key : e \in Merged(T, c)}
    /\ \A e \in Merged(T, c), k \in c.todo : e.key \notin c.todo => e.key < k
    /\ Replaces(T, c, Entries(T, c.outputs), {e \in Merged(T, c) : e.key \notin c.todo})
    /\ \A m, n \in c.outputs : m # n => Apart(T[m], T[n])

Merging == bg.comp # NoCompaction

MergeInv ==
    /\ bg.pc = "idle" => bg = Idle
    /\ bg.pc = "merge" => Merging
    /\ Merging /\ (bg.pc \in {"log", "install"} => Flushes) =>
          MergeDone(tables, bg.comp) /\ MergePlace(tables, bg.comp, current.levels)
    /\ Merging /\ Flushes => MergePlace(tables, bg.comp, Edited)

LevelsInv ==
    /\ up \in {"down", "recovering"} => Good(tables, manifest.levels, written \ LoggedEntries)
    /\ up # "down" => Good(tables, current.levels, Flushed)
    /\ bg.pc \in {"log", "install"} => Good(tables, Edited, EditHolds)

TableInv == TablesOK /\ MergeInv /\ LevelsInv

\* A read in progress is of a moment that has been.
ReadInv ==
    /\ ReadIsSnapshot
    /\ reader.on => up = "open" /\ reader.seq \in Nat /\ reader.seq <= current.lastSequence

-----------------------------------------------------------------------------
(* Numbers.                                                                *)

\* A finite set of numbers has a bound.
LEMMA FiniteIsBounded ==
    ASSUME NEW S, S \subseteq Nat, IsFiniteSet(S)
    PROVE  \E b \in Nat : S \subseteq 0..b
<1> DEFINE n == Cardinality(S)
<1>1. n \in Nat /\ ExistsBijection(1..n, S)
  BY FS_CardinalityType
<1> HIDE DEF n
<1>2. PICK f \in [1..n -> S] : \A x \in S : \E i \in 1..n : f[i] = x
  BY <1>1 DEF ExistsBijection, Bijection, Surjection, Injection
<1> DEFINE Bounded(k) == \E b \in Nat : \A i \in 1..k : f[i] <= b
           T == {k \in 0..n : ~Bounded(k)}
<1>3. ASSUME T # {} PROVE FALSE
  <2>1. PICK k \in T : \A j \in T : k <= j
    <3>1. T \subseteq Nat
      BY <1>1
    <3> HIDE DEF T
    <3>2. QED
      BY <1>3, <3>1, LeastOf
  <2>2. k \in 0..n /\ ~Bounded(k) /\ \A j \in 0..n : ~Bounded(j) => k <= j
    BY <2>1
  <2>3. Bounded(0)
    <3>1. \A i \in 1..0 : f[i] <= 0
      OBVIOUS
    <3>2. QED
      BY <3>1
  <2> HIDE DEF T
  <2>4. k - 1 \in 0..n /\ k \in 1..n
    <3> HIDE DEF Bounded
    <3> QED
      BY <1>1, <2>2, <2>3
  <2>5. Bounded(k - 1)
    <3> HIDE DEF Bounded
    <3> QED
      BY <1>1, <2>2, <2>4
  <2>6. PICK b \in Nat : \A i \in 1 .. k - 1 : f[i] <= b
    BY <2>5
  <2>7. f[k] \in Nat
    BY <1>2, <2>4
  <2>8. ASSUME NEW i \in 1..k PROVE f[i] <= b + f[k]
    <3>1. CASE i = k
      BY <2>6, <2>7, <3>1
    <3>2. CASE i # k
      <4>1. i \in 1 .. k - 1 /\ i \in 1..n
        BY <1>1, <2>4, <3>2
      <4>2. f[i] \in Nat /\ f[i] <= b
        BY <1>2, <2>6, <4>1
      <4>3. QED
        BY <2>6, <2>7, <4>2
    <3>3. QED
      BY <3>1, <3>2
  <2>9. b + f[k] \in Nat
    BY <2>6, <2>7
  <2>10. Bounded(k)
    BY <2>8, <2>9
  <2>11. QED
    BY <2>2, <2>10
<1>4. Bounded(n)
  <2> HIDE DEF Bounded
  <2> QED
    BY <1>1, <1>3
<1>5. PICK b \in Nat : \A i \in 1..n : f[i] <= b
  BY <1>4
<1>6. \A x \in S : x \in 0..b
  BY <1>2, <1>5
<1>7. QED
  BY <1>6

\* There is a greatest key.
LEMMA KeysAreBounded == \E b \in Nat : Key \subseteq 0..b
BY FiniteIsBounded

\* Keys that are not none have a least and a greatest one.
LEMMA KeyExtremes ==
    ASSUME NEW S, S \subseteq Key, S # {}
    PROVE  /\ Min(S) \in S /\ \A k \in S : Min(S) <= k
           /\ Max(S) \in S /\ \A k \in S : k <= Max(S)
<1>1. PICK b \in Nat : Key \subseteq 0..b
  BY KeysAreBounded
<1>2. S \subseteq Nat /\ S \subseteq 0..b
  BY <1>1
<1>3. \E x \in S : \A y \in S : x <= y
  BY <1>2, LeastOf
<1>4. Min(S) \in S /\ \A k \in S : Min(S) <= k
  BY <1>3 DEF Min
<1>5. QED
  BY <1>1, <1>2, <1>4, GreatestOf

\* One to one, nothing is gained; one to one and onto, nothing is lost.
LEMMA SameSize ==
    ASSUME NEW S, NEW T, IsFiniteSet(S), NEW f \in [S -> T],
           \A x, y \in S : f[x] = f[y] => x = y,
           \A t \in T : \E x \in S : f[x] = t
    PROVE  IsFiniteSet(T) /\ Cardinality(T) = Cardinality(S)
<1>1. f \in Bijection(S, T)
  BY DEF Bijection, Injection, Surjection, IsInjective
<1>2. QED
  BY <1>1, FS_Bijection DEF ExistsBijection

-----------------------------------------------------------------------------
(* The numbers of a group.                                                 *)

\* A writer has a number, and a batch of some keys.
LEMMA WriterFields ==
    ASSUME NEW w \in Writer
    PROVE  /\ w.id \in Nat /\ DOMAIN w.batch \subseteq Key /\ DOMAIN w.batch # {}
           /\ \A k \in DOMAIN w.batch : w.batch[k] \in BOOLEAN
<1>1. w.id \in Nat /\ w.batch \in Batches
  BY DEF Writer
<1>2. w.batch \in UNION {[D -> BOOLEAN] : D \in (SUBSET Key) \ {{}}}
  BY <1>1
<1>3. PICK D \in (SUBSET Key) \ {{}} : w.batch \in [D -> BOOLEAN]
  BY <1>2
<1>4. QED
  BY <1>1, <1>3

\* A queue has finitely many slots.
LEMMA SlotsAreFinite ==
    ASSUME NEW ws \in Seq(Writer)
    PROVE  IsFiniteSet(Slots(ws)) /\ NumEntries(ws) \in Nat
<1>1. \A i \in 1 .. Len(ws) : DOMAIN ws[i].batch \subseteq Key
  BY WriterFields
<1>2. Slots(ws) \subseteq (1 .. Len(ws)) \X Key
  BY <1>1 DEF Slots
<1>3. IsFiniteSet((1 .. Len(ws)) \X Key)
  <2>1. IsFiniteSet(1 .. Len(ws))
    BY FS_Interval
  <2>2. QED
    BY <2>1, FS_Product
<1>4. IsFiniteSet(Slots(ws))
  BY <1>2, <1>3, FS_Subset
<1>5. QED
  BY <1>4, FS_CardinalityType DEF NumEntries

\* The order of the slots is total.
LEMMA SlotOrder ==
    ASSUME NEW ws \in Seq(Writer), NEW p \in Slots(ws), NEW q \in Slots(ws)
    PROVE  /\ NotAfter(p, p) /\ (NotAfter(p, q) \/ NotAfter(q, p))
           /\ NotAfter(p, q) /\ NotAfter(q, p) => p = q
           /\ \A r \in Slots(ws) : NotAfter(p, q) /\ NotAfter(q, r) => NotAfter(p, r)
<1> DEFINE Num(r) == r = <<r[1], r[2]>> /\ r[1] \in Nat /\ r[2] \in Nat
<1>1. \A r \in Slots(ws) : Num(r)
  <2> SUFFICES ASSUME NEW r \in Slots(ws) PROVE Num(r)
    OBVIOUS
  <2>1. r = <<r[1], r[2]>> /\ r[1] \in 1 .. Len(ws) /\ r[2] \in DOMAIN ws[r[1]].batch
    BY SlotsAre
  <2>2. ws[r[1]] \in Writer
    BY <2>1
  <2>3. r[2] \in Key
    BY <2>1, <2>2, WriterFields
  <2>4. QED
    BY <2>1, <2>3
<1>2. Num(p) /\ Num(q)
  BY <1>1
<1>3. NotAfter(p, p) /\ (NotAfter(p, q) \/ NotAfter(q, p))
  BY <1>2 DEF NotAfter
<1>4. NotAfter(p, q) /\ NotAfter(q, p) => p = q
  <2> SUFFICES ASSUME NotAfter(p, q), NotAfter(q, p) PROVE p = q
    OBVIOUS
  <2>1. p[1] = q[1] /\ p[2] = q[2]
    BY <1>2 DEF NotAfter
  <2>2. QED
    BY <1>2, <2>1
<1>5. ASSUME NEW r \in Slots(ws), NotAfter(p, q), NotAfter(q, r) PROVE NotAfter(p, r)
  BY <1>1, <1>2, <1>5 DEF NotAfter
<1>6. QED
  BY <1>3, <1>4, <1>5

Rank(p) == Cardinality({q \in Slots(writers) : NotAfter(q, p)})

\* Slots are numbered one by one, those of the first writers first.
LEMMA Ranks ==
    ASSUME writers \in Seq(Writer)
    PROVE  /\ \A p \in Slots(writers) : Rank(p) \in Nat /\ Rank(p) > 0
           /\ \A p, q \in Slots(writers) : Rank(p) = Rank(q) => p = q
           /\ \A n \in 0 .. Len(writers) : \A p \in Slots(SubSeq(writers, 1, n)) :
                 p \in Slots(writers) /\ Rank(p) <= NumEntries(SubSeq(writers, 1, n))
<1> DEFINE Upto(p) == {q \in Slots(writers) : NotAfter(q, p)}
<1>1. ASSUME NEW p \in Slots(writers)
      PROVE  IsFiniteSet(Upto(p)) /\ Rank(p) \in Nat /\ p \in Upto(p) /\ Rank(p) > 0
  <2>1. Upto(p) \in SUBSET Slots(writers) /\ p \in Upto(p)
    BY SlotOrder
  <2>2. IsFiniteSet(Upto(p))
    BY <2>1, SlotsAreFinite, FS_Subset
  <2> HIDE DEF Upto
  <2>3. Cardinality(Upto(p)) \in Nat /\ Cardinality(Upto(p)) # 0
    BY <2>1, <2>2, FS_CardinalityType, FS_EmptySet
  <2>4. QED
    BY <2>1, <2>2, <2>3 DEF Rank, Upto
<1>2. ASSUME NEW p \in Slots(writers), NEW q \in Slots(writers), Rank(p) = Rank(q), NotAfter(p, q)
      PROVE  p = q
  <2>1. Upto(p) \in SUBSET Upto(q)
    BY <1>2, SlotOrder
  <2>2. Cardinality(Upto(q)) = Cardinality(Upto(p))
    BY <1>2 DEF Rank
  <2>3. IsFiniteSet(Upto(q)) /\ q \in Upto(q)
    BY <1>1
  <2>4. Upto(q) = Upto(p)
    <3> HIDE DEF Upto
    <3> QED
      BY <2>1, <2>2, <2>3, FS_Subset
  <2>5. NotAfter(q, p)
    BY <2>3, <2>4
  <2>6. QED
    BY <1>2, <2>5, SlotOrder
<1>3. ASSUME NEW n \in 0 .. Len(writers), NEW p \in Slots(SubSeq(writers, 1, n))
      PROVE  p \in Slots(writers) /\ Rank(p) <= NumEntries(SubSeq(writers, 1, n))
  <2>1. p \in Slots(writers) /\ p[1] <= n
    BY SlotsOfPrefix
  <2>2. Upto(p) \subseteq Slots(SubSeq(writers, 1, n))
    <3> SUFFICES ASSUME NEW q \in Upto(p) PROVE q \in Slots(SubSeq(writers, 1, n))
      OBVIOUS
    <3>1. q[1] \in Nat /\ p[1] \in Nat
      BY <2>1, SlotsAre
    <3>2. q[1] <= n
      BY <2>1, <3>1 DEF NotAfter
    <3>3. QED
      BY <3>2, SlotsOfPrefix
  <2>3. SubSeq(writers, 1, n) \in Seq(Writer)
    BY SlotsOfPrefix
  <2>4. IsFiniteSet(Slots(SubSeq(writers, 1, n)))
    BY <2>3, SlotsAreFinite
  <2>5. Cardinality(Upto(p)) <= Cardinality(Slots(SubSeq(writers, 1, n)))
    <3> HIDE DEF Upto
    <3> QED
      BY <2>2, <2>4, FS_Subset
  <2>6. QED
    BY <2>1, <2>5 DEF Rank, NumEntries
<1>4. ASSUME NEW p \in Slots(writers), NEW q \in Slots(writers), Rank(p) = Rank(q)
      PROVE  p = q
  BY <1>2, <1>4, SlotOrder
<1>5. QED
  BY <1>1, <1>3, <1>4

\* The record that a group logs has a number of its own for every entry, and
\* numbers follow each other.
LEMMA GroupIsNumbered ==
    ASSUME writers \in Seq(Writer), NEW n \in 0 .. Len(writers), NEW s \in Nat
    PROVE  LET G == GroupEntries(n, s)
               N == NumEntries(SubSeq(writers, 1, n))
           IN  /\ G \subseteq Entry /\ IsFiniteSet(G) /\ Cardinality(G) = N /\ N \in Nat
               /\ \A e \in G : s < e.seq /\ e.seq <= s + N
               /\ \A e, f \in G : e.seq = f.seq => e = f
<1> DEFINE G == GroupEntries(n, s)
           N == NumEntries(SubSeq(writers, 1, n))
           S == Slots(SubSeq(writers, 1, n))
           Logged == [p \in S |-> [seq |-> s + Rank(p), key |-> p[2],
                                   put |-> writers[p[1]].batch[p[2]],
                                   id |-> writers[p[1]].id]]
<1>1. /\ SubSeq(writers, 1, n) \in Seq(Writer) /\ S \subseteq Slots(writers)
      /\ IsFiniteSet(S) /\ N \in Nat /\ N = Cardinality(S)
  <2>1. SubSeq(writers, 1, n) \in Seq(Writer) /\ S = {p \in Slots(writers) : p[1] <= n}
    BY SlotsOfPrefix
  <2>2. IsFiniteSet(S) /\ N \in Nat
    BY <2>1, SlotsAreFinite
  <2>3. QED
    BY <2>1, <2>2 DEF NumEntries
<1>2. ASSUME NEW p \in S
      PROVE  Rank(p) \in Nat /\ Rank(p) > 0 /\ Rank(p) <= N
  BY <1>1, Ranks
<1>3. \A p, q \in S : Rank(p) = Rank(q) => p = q
  BY <1>1, Ranks
<1>4. G = {Logged[p] : p \in S}
  BY DEF GroupEntries, Rank
<1>5. ASSUME NEW p \in S PROVE Logged[p] \in Entry /\ Logged[p].seq = s + Rank(p)
  <2>1. p = <<p[1], p[2]>> /\ p[1] \in 1 .. Len(writers) /\ p[2] \in DOMAIN writers[p[1]].batch
    BY <1>1, SlotsAre
  <2>2. writers[p[1]] \in Writer
    BY <2>1
  <2>3. /\ writers[p[1]].id \in Nat /\ p[2] \in Key /\ writers[p[1]].batch[p[2]] \in BOOLEAN
    BY <2>1, <2>2, WriterFields
  <2>4. s + Rank(p) \in Nat
    BY <1>2
  <2>5. QED
    BY <2>3, <2>4 DEF Entry
<1> HIDE DEF S, N, Logged, G
<1>6. \A e \in G : e \in Entry /\ s < e.seq /\ e.seq <= s + N
  <2> SUFFICES ASSUME NEW p \in S
               PROVE  Logged[p] \in Entry /\ s < Logged[p].seq /\ Logged[p].seq <= s + N
    BY <1>4
  <2>1. Rank(p) \in Nat /\ Rank(p) > 0 /\ Rank(p) <= N /\ Logged[p].seq = s + Rank(p)
    BY <1>2, <1>5
  <2>2. QED
    BY <1>1, <1>5, <2>1
<1>7. \A p, q \in S : Logged[p].seq = Logged[q].seq => p = q
  <2> SUFFICES ASSUME NEW p \in S, NEW q \in S, Logged[p].seq = Logged[q].seq PROVE p = q
    OBVIOUS
  <2>1. s + Rank(p) = s + Rank(q) /\ Rank(p) \in Nat /\ Rank(q) \in Nat
    BY <1>2, <1>5
  <2>2. Rank(p) = Rank(q)
    BY <2>1
  <2>3. QED
    BY <1>3, <2>2
<1>8. \A e, f \in G : e.seq = f.seq => e = f
  BY <1>4, <1>7
<1>9. IsFiniteSet(G) /\ Cardinality(G) = N
  <2>1. Logged \in [S -> G]
    BY <1>4 DEF Logged
  <2>2. \A p, q \in S : Logged[p] = Logged[q] => p = q
    BY <1>7
  <2>3. \A e \in G : \E p \in S : Logged[p] = e
    BY <1>4
  <2>4. QED
    BY <1>1, <2>1, <2>2, <2>3, SameSize
<1>10. QED
  BY <1>1, <1>6, <1>8, <1>9 DEF G, N

\* One more writer brings the entries of its batch.
LEMMA NumEntriesAppend ==
    ASSUME NEW ws \in Seq(Writer), NEW w \in Writer
    PROVE  /\ NumEntries(Append(ws, w)) = NumEntries(ws) + Cardinality(DOMAIN w.batch)
           /\ \A n \in 0 .. Len(ws) : SubSeq(Append(ws, w), 1, n) = SubSeq(ws, 1, n)
<1> DEFINE D == DOMAIN w.batch
           z == Len(ws) + 1
           A == {z} \X D
<1>1. /\ Append(ws, w) \in Seq(Writer) /\ Len(Append(ws, w)) = z /\ Append(ws, w)[z] = w
      /\ \A i \in 1 .. Len(ws) : Append(ws, w)[i] = ws[i]
  OBVIOUS
<1>2. Slots(Append(ws, w)) = Slots(ws) \cup A
  <2>1. DOMAIN Append(ws, w) = 1 .. Len(ws) \cup {z}
    BY <1>1
  <2>2. \A i \in 1 .. Len(ws) : {i} \X DOMAIN Append(ws, w)[i].batch = {i} \X DOMAIN ws[i].batch
    BY <1>1
  <2>3. {z} \X DOMAIN Append(ws, w)[z].batch = A
    BY <1>1
  <2>4. DOMAIN ws = 1 .. Len(ws)
    OBVIOUS
  <2> HIDE DEF A, z
  <2>5. QED
    BY <2>1, <2>2, <2>3, <2>4 DEF Slots
<1>3. IsFiniteSet(Slots(ws)) /\ IsFiniteSet(D) /\ Cardinality(D) \in Nat
  <2>1. IsFiniteSet(D)
    BY WriterFields, FS_Subset
  <2>2. QED
    BY <2>1, SlotsAreFinite, FS_CardinalityType
<1>4. IsFiniteSet(A) /\ Cardinality(A) = Cardinality(D)
  <2> DEFINE f == [k \in D |-> <<z, k>>]
  <2>1. f \in [D -> A] /\ \A t \in A : \E k \in D : f[k] = t
    OBVIOUS
  <2>2. \A j, k \in D : f[j] = f[k] => j = k
    OBVIOUS
  <2> HIDE DEF f, A, D
  <2>3. QED
    BY <1>3, <2>1, <2>2, SameSize
<1>5. Slots(ws) \cap A = {}
  <2>1. \A p \in Slots(ws) : p[1] \in 1 .. Len(ws)
    BY SlotsAre
  <2>2. \A p \in A : p[1] = z
    OBVIOUS
  <2>3. z \notin 1 .. Len(ws)
    OBVIOUS
  <2> HIDE DEF A, z
  <2>4. QED
    BY <2>1, <2>2, <2>3
<1>6. Cardinality(Slots(ws) \cup A) = Cardinality(Slots(ws)) + Cardinality(D)
  <2> HIDE DEF A, D
  <2>1. Cardinality(Slots(ws) \cup A) = Cardinality(Slots(ws)) + Cardinality(A) - 0
    BY <1>3, <1>4, <1>5, FS_Union, FS_EmptySet
  <2>2. Cardinality(Slots(ws)) \in Nat /\ Cardinality(A) \in Nat
    BY <1>3, <1>4, FS_CardinalityType
  <2>3. QED
    BY <1>3, <1>4, <2>1, <2>2
<1>7. ASSUME NEW n \in 0 .. Len(ws) PROVE SubSeq(Append(ws, w), 1, n) = SubSeq(ws, 1, n)
  BY <1>1
<1>8. QED
  BY <1>2, <1>6, <1>7 DEF NumEntries

\* The writers of a group take their entries with them.
LEMMA NumEntriesSplit ==
    ASSUME NEW ws \in Seq(Writer), NEW n \in 0 .. Len(ws)
    PROVE  NumEntries(ws) = NumEntries(SubSeq(ws, 1, n)) + NumEntries(SubSeq(ws, n + 1, Len(ws)))
<1> DEFINE rest == SubSeq(ws, n + 1, Len(ws))
           F == Slots(SubSeq(ws, 1, n))
           B == Slots(ws) \ F
           f == [p \in Slots(rest) |-> <<p[1] + n, p[2]>>]
<1>1. /\ rest \in Seq(Writer) /\ Len(rest) = Len(ws) - n
      /\ \A i \in 1 .. Len(ws) - n : rest[i] = ws[i + n]
  OBVIOUS
<1>2. F = {p \in Slots(ws) : p[1] <= n}
  BY SlotsOfPrefix
<1>3. f \in [Slots(rest) -> B]
  <2> SUFFICES ASSUME NEW p \in Slots(rest) PROVE <<p[1] + n, p[2]>> \in B
    OBVIOUS
  <2>1. p[1] \in 1 .. Len(ws) - n /\ p[2] \in DOMAIN rest[p[1]].batch
    BY <1>1, SlotsAre
  <2>2. p[1] + n \in 1 .. Len(ws) /\ p[2] \in DOMAIN ws[p[1] + n].batch /\ ~(p[1] + n <= n)
    <3>1. Len(ws) \in Nat /\ n \in Nat
      OBVIOUS
    <3> HIDE DEF rest
    <3>2. p[1] + n \in 1 .. Len(ws) /\ ~(p[1] + n <= n)
      BY <2>1, <3>1
    <3>3. rest[p[1]] = ws[p[1] + n]
      BY <1>1, <2>1
    <3>4. QED
      BY <2>1, <3>2, <3>3
  <2>3. <<p[1] + n, p[2]>> \in Slots(ws)
    BY <2>2, SlotsAre
  <2>4. QED
    BY <1>2, <2>2, <2>3
<1>4. \A p, q \in Slots(rest) : f[p] = f[q] => p = q
  <2> SUFFICES ASSUME NEW p \in Slots(rest), NEW q \in Slots(rest), f[p] = f[q]
               PROVE  p = q
    OBVIOUS
  <2>1. p = <<p[1], p[2]>> /\ q = <<q[1], q[2]>> /\ p[1] \in Nat /\ q[1] \in Nat
    <3>1. rest \in Seq(Writer)
      BY <1>1
    <3> HIDE DEF rest, f
    <3>2. QED
      BY <3>1, SlotsAre
  <2>2. p[1] + n = q[1] + n /\ p[2] = q[2]
    OBVIOUS
  <2>3. p[1] = q[1]
    BY <2>1, <2>2
  <2>4. QED
    BY <2>1, <2>2, <2>3
<1>5. \A t \in B : \E p \in Slots(rest) : f[p] = t
  <2> SUFFICES ASSUME NEW t \in B PROVE \E p \in Slots(rest) : f[p] = t
    OBVIOUS
  <2>1. t = <<t[1], t[2]>> /\ t[1] \in 1 .. Len(ws) /\ t[2] \in DOMAIN ws[t[1]].batch
    BY SlotsAre
  <2>2. ~(t[1] <= n)
    BY <1>2
  <2>3. t[1] - n \in 1 .. Len(ws) - n /\ (t[1] - n) + n = t[1]
    BY <2>1, <2>2
  <2>4. t[2] \in DOMAIN rest[t[1] - n].batch
    BY <1>1, <2>1, <2>3
  <2>5. <<t[1] - n, t[2]>> \in Slots(rest)
    BY <1>1, <2>3, <2>4, SlotsAre
  <2>6. f[<<t[1] - n, t[2]>>] = t
    BY <2>1, <2>3, <2>5
  <2>7. QED
    BY <2>5, <2>6
<1>6. IsFiniteSet(Slots(rest)) /\ IsFiniteSet(Slots(ws)) /\ F \subseteq Slots(ws)
  BY <1>1, <1>2, SlotsAreFinite
<1> HIDE DEF f, F, rest
<1>7. Cardinality(B) = Cardinality(Slots(rest))
  <2> HIDE DEF B
  <2> QED
    BY <1>3, <1>4, <1>5, <1>6, SameSize
<1>8. Cardinality(B) = Cardinality(Slots(ws)) - Cardinality(F)
  <2>1. Slots(ws) \cap F = F
    BY <1>6
  <2>2. QED
    BY <1>6, <2>1, FS_Difference
<1>9. /\ Cardinality(Slots(ws)) \in Nat /\ Cardinality(F) \in Nat
  BY <1>6, FS_Subset, FS_CardinalityType
<1>10. QED
  BY <1>7, <1>8, <1>9 DEF NumEntries, F, rest

-----------------------------------------------------------------------------
(* The numbers of the entries, step by step.                               *)

\* An entry is in the memory, in the tables, or in both places of no entry.
LEMMA MemoryApart ==
    ASSUME MemoryNumbers, WrittenNumbers
    PROVE  /\ imm \cap (mem \cup Inflight) = {}
           /\ \A e \in written : e.seq \in Nat
<1>1. \A e \in written : e.seq \in Nat
  BY DEF WrittenNumbers, Entry
<1>2. ASSUME NEW e \in imm, e \in mem \cup Inflight PROVE FALSE
  <2>1. e.seq < e.seq /\ e.seq \in Nat
    BY <1>1, <1>2 DEF MemoryNumbers, Before
  <2>2. QED
    BY <2>1
<1>3. QED
  BY <1>1, <1>2

\* What the logs hold is the memory, but for an imm that MANIFEST has already.
LEMMA LoggedIsMemory ==
    ASSUME up = "open", NumbersOK, RecordsOK, LogNumbers, WrittenNumbers, MemoryNumbers
    PROVE  /\ logfile \in Replayed
           /\ Flushes /\ bg.pc = "install" =>
                 LoggedEntries = mem \cup Inflight /\ written \ LoggedEntries = Flushed \cup imm
           /\ ~(Flushes /\ bg.pc = "install") =>
                 LoggedEntries = Memory /\ written \ LoggedEntries = Flushed
<1>1. logfile \in Replayed
  <2>1. /\ logfile \in DOMAIN logs /\ manifest.logNumber <= logfile
        /\ manifest.logNumber \in Nat /\ logfile \in Nat
    BY DEF NumbersOK, RecordsOK
  <2>2. QED
    BY <2>1 DEF Replayed
<1>2. LoggedEntries = LogEntries(logfile) \cup UNION {LogEntries(n) : n \in Replayed \ {logfile}}
  BY <1>1 DEF LoggedEntries
<1>3. imm \cap (mem \cup Inflight) = {} /\ imm \subseteq written
  BY MemoryApart DEF MemoryNumbers
<1>4. CASE Flushes /\ bg.pc = "install"
  <2>1. LoggedEntries = mem \cup Inflight
    BY <1>2, <1>4 DEF LogNumbers
  <2>2. written \ LoggedEntries = Flushed \cup imm
    BY <1>3, <2>1 DEF Flushed, Memory
  <2>3. QED
    BY <1>1, <1>4, <2>1, <2>2
<1>5. CASE ~(Flushes /\ bg.pc = "install")
  <2>1. LoggedEntries = Memory
    BY <1>2, <1>5 DEF LogNumbers, Memory
  <2>2. QED
    BY <1>1, <1>5, <2>1 DEF Flushed
<1>6. QED
  BY <1>4, <1>5

\* What is in the tables, or in imm, has been published.
LEMMA FlushedArePublished ==
    ASSUME SeqInv, up = "open"
    PROVE  /\ \A e \in Flushed \cup imm : e.seq <= current.lastSequence
           /\ current.lastSequence \in 0..MaxSequence
<1>1. imm \cap (mem \cup Inflight) = {}
  BY MemoryApart DEF SeqInv
<1>2. InGroup \subseteq mem \cup Inflight
  BY DEF SeqInv, GroupNumbers, InGroup, Inflight
<1>3. Flushed \cup imm \subseteq written \ InGroup
  BY <1>1, <1>2 DEF Flushed, Memory, SeqInv, MemoryNumbers
<1>4. QED
  BY <1>3 DEF SeqInv, WrittenNumbers

\* A step that leaves the entries where they are.
LEMMA SameNumbers ==
    ASSUME SeqInv,
           UNCHANGED <<written, group, mem, imm, writers, up, logs, manifest, logfile>>,
           current'.lastSequence = current.lastSequence,
           current'.logNumber = current.logNumber,
           (Flushes /\ bg.pc = "install")' <=> (Flushes /\ bg.pc = "install"),
           bg'.pc = "log" => \/ up = "open" /\ bg'.edit.lastSequence = current.lastSequence
                             \/ bg' = bg
    PROVE  SeqInv'
<1>1. GroupNumbers'
  BY DEF SeqInv, GroupNumbers
<1>2. WrittenNumbers'
  BY DEF SeqInv, WrittenNumbers, InGroup
<1>3. MemoryNumbers' /\ Flushed' = Flushed
  BY DEF SeqInv, MemoryNumbers, Flushed, Memory, Inflight
<1>4. Replayed' = Replayed /\ LoggedEntries' = LoggedEntries /\ Inflight' = Inflight
      /\ \A n : LogEntries(n)' = LogEntries(n)
  BY DEF Replayed, LoggedEntries, LogEntries, Inflight
<1>5. LogNumbers'
  BY <1>4 DEF SeqInv, LogNumbers
<1>6. ManifestNumbers'
  <2>1. CASE bg'.pc = "log" /\ bg' # bg
    <3>1. up = "open" /\ bg'.edit.lastSequence = current.lastSequence
      BY <2>1
    <3>2. EditHolds' \subseteq Flushed \cup imm
      BY <1>3 DEF EditHolds
    <3>3. QED
      BY <1>4, <3>1, <3>2, FlushedArePublished DEF ManifestNumbers, SeqInv
  <2>2. CASE bg' = bg
    BY <1>3, <1>4, <2>2 DEF SeqInv, ManifestNumbers, EditHolds, Flushes
  <2>3. CASE bg'.pc # "log"
    BY <1>4, <2>3 DEF SeqInv, ManifestNumbers
  <2>4. QED
    BY <2>1, <2>2, <2>3
<1>7. QED
  BY <1>1, <1>2, <1>3, <1>5, <1>6 DEF SeqInv

\* A writer joins the queue.
LEMMA WriteNumbers ==
    ASSUME AckInv, SeqInv, NEW b \in Batches, Write(b)
    PROVE  SeqInv'
<1> DEFINE w == [id |-> issued + 1, batch |-> b]
<1>1. /\ up = "open" /\ writers' = Append(writers, w) /\ w \in Writer /\ writers \in Seq(Writer)
      /\ current.lastSequence + NumEntries(writers) + Cardinality(DOMAIN w.batch) <= MaxSequence
      /\ UNCHANGED <<written, group, mem, imm, up, logs, manifest, logfile, current, bg>>
  BY DEF Write, AckInv, Writer, disk
<1> HIDE DEF w
<1>2. GroupNumbers'
  <2>1. group.n \in 0 .. Len(writers) /\ DOMAIN writers \subseteq DOMAIN writers'
    BY <1>1 DEF AckInv, GroupOK
  <2>2. SubSeq(writers', 1, group.n) = SubSeq(writers, 1, group.n)
    BY <1>1, <2>1, NumEntriesAppend
  <2>3. QED
    BY <1>1, <2>1, <2>2 DEF SeqInv, GroupNumbers
<1>3. WrittenNumbers'
  <2>1. NumEntries(writers') = NumEntries(writers) + Cardinality(DOMAIN w.batch)
    BY <1>1, NumEntriesAppend
  <2>2. NumEntries(writers) \in Nat /\ Cardinality(DOMAIN w.batch) \in Nat
    <3>1. IsFiniteSet(DOMAIN w.batch)
      BY <1>1, WriterFields, FS_Subset
    <3>2. QED
      BY <1>1, <3>1, SlotsAreFinite, FS_CardinalityType
  <2>3. current.lastSequence \in Nat
    BY <1>1 DEF SeqInv, WrittenNumbers
  <2>4. current.lastSequence + NumEntries(writers') <= MaxSequence
    BY <1>1, <2>1, <2>2, <2>3
  <2>5. InGroup' = InGroup
    BY <1>1 DEF InGroup
  <2>6. QED
    BY <1>1, <2>4, <2>5 DEF SeqInv, WrittenNumbers
<1>4. MemoryNumbers' /\ Flushed' = Flushed
  BY <1>1 DEF SeqInv, MemoryNumbers, Flushed, Memory, Inflight
<1>5. Replayed' = Replayed /\ LoggedEntries' = LoggedEntries /\ Inflight' = Inflight
      /\ \A n : LogEntries(n)' = LogEntries(n)
  BY <1>1 DEF Replayed, LoggedEntries, LogEntries, Inflight
<1>6. LogNumbers'
  BY <1>1, <1>5 DEF SeqInv, LogNumbers, Flushes
<1>7. ManifestNumbers'
  BY <1>1, <1>4, <1>5 DEF SeqInv, ManifestNumbers, EditHolds, Flushes
<1>8. QED
  BY <1>2, <1>3, <1>4, <1>6, <1>7 DEF SeqInv

\* The memtable is full: all of it becomes imm.
LEMMA SwitchNumbers ==
    ASSUME AckInv, FileInv, LogInv, SeqInv, SwitchMemTable
    PROVE  SeqInv'
<1>0. PICK number : number = current.nextFile
  OBVIOUS
<1>1. /\ up = "open" /\ up' = up /\ imm = {} /\ group = NoGroup /\ group' = group
      /\ logs' = [i \in DOMAIN logs \cup {number} |-> IF i = number THEN <<>> ELSE logs[i]]
      /\ logfile' = number /\ current' = [current EXCEPT !.nextFile = number + 1]
      /\ imm' = mem /\ mem' = {}
      /\ UNCHANGED <<tables, manifest, bg, writers, written, issued>>
  BY <1>0 DEF SwitchMemTable, AtFront, queue, history
<1>2. /\ number \in Nat /\ \A n \in DOMAIN logs : n \in Nat /\ n < number
      /\ manifest.logNumber \in Nat /\ manifest.logNumber <= number
      /\ logfile \in DOMAIN logs /\ manifest.logNumber <= logfile
  <2>1. /\ number \in Nat /\ \A n \in DOMAIN logs : n \in Nat /\ n < number
        /\ manifest.logNumber \in Nat
        /\ logfile \in DOMAIN logs /\ manifest.logNumber <= logfile
    BY <1>0, <1>1 DEF LogInv, NumbersOK, RecordsOK
  <2>2. QED
    BY <2>1
<1>3. /\ current'.lastSequence = current.lastSequence
      /\ current'.logNumber = current.logNumber /\ current'.nextFile = number + 1
  BY <1>1 DEF FileInv, VersionOK
<1>4. ~Flushes
  BY <1>1 DEF LogInv, EditOK
<1>5. Inflight = {} /\ Inflight' = {} /\ InGroup' = InGroup /\ Memory = mem
  BY <1>1 DEF Inflight, InGroup, NoGroup, Memory
<1>6. Memory' = Memory /\ Flushed' = Flushed
  BY <1>1, <1>5 DEF Memory, Flushed
<1>7. GroupNumbers'
  BY <1>1, <1>3 DEF SeqInv, GroupNumbers, NoGroup
<1>8. WrittenNumbers'
  BY <1>1, <1>3, <1>5 DEF SeqInv, WrittenNumbers
<1>9. MemoryNumbers'
  <2>1. Before(imm', mem' \cup Inflight')
    BY <1>1, <1>5 DEF Before
  <2>2. Before(Flushed', Memory')
    BY <1>6 DEF SeqInv, MemoryNumbers
  <2>3. QED
    BY <1>1, <2>1, <2>2 DEF SeqInv, MemoryNumbers
<1>10. /\ Replayed' = Replayed \cup {number} /\ number \notin Replayed /\ number \notin DOMAIN logs
       /\ DOMAIN logs' = DOMAIN logs \cup {number} /\ logs'[number] = <<>>
       /\ \A n \in DOMAIN logs : logs'[n] = logs[n]
  BY <1>1, <1>2 DEF Replayed
<1>11. LogEntries(number)' = {} /\ \A n \in DOMAIN logs : LogEntries(n)' = LogEntries(n)
  BY <1>10 DEF LogEntries
<1>12. LoggedEntries' = LoggedEntries
  BY <1>10, <1>11 DEF LoggedEntries, Replayed
<1>13. LogNumbers'
  <2>1. LoggedEntries = mem
    BY <1>1, <1>4, <1>5, LoggedIsMemory DEF LogInv, SeqInv
  <2>2. UNION {LogEntries(n)' : n \in Replayed' \ {number}} = LoggedEntries
    BY <1>10, <1>11 DEF LoggedEntries, Replayed
  <2>3. ~Flushes'
    BY <1>1, <1>4 DEF Flushes
  <2>4. \A n, p \in Replayed' : \A i \in DOMAIN logs'[n], j \in DOMAIN logs'[p] :
          n < p \/ (n = p /\ i < j) => Before(logs'[n][i], logs'[p][j])
    <3> SUFFICES ASSUME NEW n \in Replayed', NEW p \in Replayed',
                        NEW i \in DOMAIN logs'[n], NEW j \in DOMAIN logs'[p],
                        n < p \/ (n = p /\ i < j)
                 PROVE  Before(logs'[n][i], logs'[p][j])
      OBVIOUS
    <3>1. n # number /\ p # number
      BY <1>10
    <3>2. n \in Replayed /\ p \in Replayed /\ logs'[n] = logs[n] /\ logs'[p] = logs[p]
      BY <1>10, <3>1 DEF Replayed
    <3>3. QED
      BY <3>2 DEF SeqInv, LogNumbers
  <2>5. \A n \in DOMAIN logs' : n <= logfile'
    BY <1>1, <1>2, <1>10
  <2>6. LogEntries(number)' = mem' \cup Inflight'
    BY <1>1, <1>5, <1>11
  <2>7. QED
    BY <1>1, <1>12, <2>1, <2>2, <2>3, <2>4, <2>5, <2>6 DEF SeqInv, LogNumbers
<1>14. ManifestNumbers'
  <2>1. EditHolds' = EditHolds
    BY <1>1, <1>4, <1>6 DEF EditHolds, Flushes
  <2>2. QED
    BY <1>1, <1>12, <2>1 DEF SeqInv, ManifestNumbers
<1>15. QED
  BY <1>7, <1>8, <1>9, <1>13, <1>14 DEF SeqInv

\* The entries of a group get the numbers after the last one published.
LEMMA GroupStepNumbers ==
    ASSUME AckInv, SeqInv, NEW n \in DOMAIN writers, BuildBatchGroup(n)
    PROVE  SeqInv'
<1> DEFINE G == GroupEntries(n, current.lastSequence)
<1>1. /\ up = "open" /\ group = NoGroup
      /\ group' = [n |-> n, phase |-> "log", entries |-> G]
      /\ UNCHANGED <<written, mem, imm, up, writers, logs, manifest, logfile, current, bg>>
  BY DEF BuildBatchGroup, AtFront, disk, history
<1>2. n \in 0 .. Len(writers) /\ writers \in Seq(Writer) /\ current.lastSequence \in Nat
  BY <1>1 DEF AckInv, SeqInv, WrittenNumbers
<1>3. /\ G \subseteq Entry /\ IsFiniteSet(G)
      /\ Cardinality(G) = NumEntries(SubSeq(writers, 1, n))
      /\ \A e \in G : current.lastSequence < e.seq /\ e.seq <= current.lastSequence + Cardinality(G)
      /\ \A e, f \in G : e.seq = f.seq => e = f
  BY <1>2, GroupIsNumbered
<1> HIDE DEF G
<1>4. GroupNumbers'
  BY <1>1, <1>3 DEF GroupNumbers
<1>5. InGroup = {} /\ InGroup' = {} /\ Inflight = {} /\ Inflight' = {}
  BY <1>1 DEF InGroup, Inflight, NoGroup
<1>6. WrittenNumbers'
  BY <1>1, <1>5 DEF SeqInv, WrittenNumbers
<1>7. Memory' = Memory /\ Flushed' = Flushed
  BY <1>1, <1>5 DEF Flushed, Memory
<1>8. MemoryNumbers'
  BY <1>1, <1>5, <1>7 DEF SeqInv, MemoryNumbers
<1>9. Replayed' = Replayed /\ LoggedEntries' = LoggedEntries /\ \A m : LogEntries(m)' = LogEntries(m)
  BY <1>1 DEF Replayed, LoggedEntries, LogEntries
<1>10. LogNumbers'
  BY <1>1, <1>5, <1>9 DEF SeqInv, LogNumbers, Flushes
<1>11. ManifestNumbers'
  BY <1>1, <1>7, <1>9 DEF SeqInv, ManifestNumbers, EditHolds, Flushes
<1>12. QED
  BY <1>4, <1>6, <1>8, <1>10, <1>11 DEF SeqInv

\* The entries of the group are in the memtable.
LEMMA InsertNumbers ==
    ASSUME AckInv, SeqInv, InsertInto
    PROVE  SeqInv'
<1>1. /\ group.phase = "insert" /\ group' = [group EXCEPT !.phase = "finish"]
      /\ mem' = mem \cup group.entries
      /\ UNCHANGED <<written, imm, up, writers, logs, manifest, logfile, current, bg>>
  BY DEF InsertInto, disk, history
<1>2. /\ group'.phase = "finish" /\ group'.entries = group.entries /\ group'.n = group.n
  BY <1>1 DEF AckInv, GroupOK
<1>3. GroupNumbers'
  BY <1>1, <1>2 DEF SeqInv, GroupNumbers
<1>4. InGroup' = InGroup /\ Inflight' = {} /\ Inflight = group.entries
  BY <1>1, <1>2 DEF InGroup, Inflight
<1>5. WrittenNumbers'
  <2>1. up = "open"
    BY <1>1 DEF SeqInv, GroupNumbers
  <2>2. QED
    BY <1>1, <1>4, <2>1 DEF SeqInv, WrittenNumbers
<1>6. mem' \cup Inflight' = mem \cup Inflight /\ Memory' = Memory /\ Flushed' = Flushed
  BY <1>1, <1>4 DEF Memory, Flushed
<1>7. MemoryNumbers'
  <2>1. group.entries \subseteq written
    BY <1>1 DEF AckInv, GroupOK
  <2>2. QED
    BY <1>1, <1>6, <2>1 DEF SeqInv, MemoryNumbers
<1>8. Replayed' = Replayed /\ LoggedEntries' = LoggedEntries /\ \A m : LogEntries(m)' = LogEntries(m)
  BY <1>1 DEF Replayed, LoggedEntries, LogEntries
<1>9. LogNumbers'
  BY <1>1, <1>6, <1>8 DEF SeqInv, LogNumbers, Flushes
<1>10. ManifestNumbers'
  BY <1>1, <1>6, <1>8 DEF SeqInv, ManifestNumbers, EditHolds, Flushes
<1>11. QED
  BY <1>3, <1>5, <1>7, <1>9, <1>10 DEF SeqInv

\* The numbers of the group are published.
LEMMA FinishNumbers ==
    ASSUME AckInv, FileInv, SeqInv, FinishWrite
    PROVE  SeqInv'
<1> DEFINE c == Cardinality(group.entries)
<1>1. /\ group.phase = "finish" /\ group' = NoGroup
      /\ current' = [current EXCEPT !.lastSequence = @ + c]
      /\ writers' = SubSeq(writers, group.n + 1, Len(writers))
      /\ UNCHANGED <<written, mem, imm, up, logs, manifest, logfile, bg>>
  BY DEF FinishWrite, disk
<1>2. /\ current'.lastSequence = current.lastSequence + c
      /\ current'.logNumber = current.logNumber
  BY <1>1 DEF FileInv, VersionOK
<1>3. /\ up = "open" /\ writers \in Seq(Writer) /\ group.n \in 0 .. Len(writers)
      /\ c = NumEntries(SubSeq(writers, 1, group.n)) /\ c \in Nat
      /\ current.lastSequence \in Nat /\ MaxSequence \in Nat
  <2>1. IsFiniteSet(group.entries)
    BY DEF SeqInv, GroupNumbers
  <2>2. c \in Nat
    BY <2>1, FS_CardinalityType
  <2>3. up = "open" /\ c = NumEntries(SubSeq(writers, 1, group.n))
    BY <1>1 DEF SeqInv, GroupNumbers
  <2>4. writers \in Seq(Writer) /\ Len(writers) \in Nat
        /\ group.n \in Nat /\ group.n <= Len(writers)
    BY DEF AckInv, GroupOK
  <2>5. group.n \in 0 .. Len(writers)
    BY <2>4
  <2>6. current.lastSequence \in Nat /\ MaxSequence \in Nat
    BY <2>3 DEF SeqInv, WrittenNumbers
  <2>7. QED
    BY <2>2, <2>3, <2>4, <2>5, <2>6
<1> HIDE DEF c
<1>4. writers' \in Seq(Writer)
  <2>1. group.n \in Nat /\ group.n + 1 \in Int /\ Len(writers) \in Nat /\ Len(writers) \in Int
    BY <1>3
  <2>2. \A i \in group.n + 1 .. Len(writers) : i \in 1 .. Len(writers)
    BY <2>1
  <2>3. \A i \in group.n + 1 .. Len(writers) : writers[i] \in Writer
    BY <1>3, <2>2
  <2>4. SubSeq(writers, group.n + 1, Len(writers)) \in Seq(Writer)
    BY <2>1, <2>3, SubSeqProperties
  <2>5. QED
    BY <1>1, <2>4
<1>5. current'.lastSequence + NumEntries(writers') <= MaxSequence /\ NumEntries(writers') \in Nat
  <2>1. NumEntries(writers) = c + NumEntries(writers')
    BY <1>1, <1>3, NumEntriesSplit
  <2>2. writers' \in Seq(Writer)
    BY <1>4
  <2>3. NumEntries(writers') \in Nat
    BY <2>2, SlotsAreFinite
  <2>4. current.lastSequence + NumEntries(writers) <= MaxSequence
    BY <1>3 DEF SeqInv, WrittenNumbers
  <2>5. QED
    BY <1>2, <1>3, <2>1, <2>3, <2>4
<1>6. InGroup' = {} /\ InGroup = group.entries /\ Inflight' = {} /\ Inflight = {}
  BY <1>1 DEF InGroup, Inflight, NoGroup
<1>7. GroupNumbers'
  <2>1. writers' \in Seq(Writer) /\ Len(writers') \in Nat
    BY <1>4
  <2>2. SubSeq(writers', 1, 0) \in Seq(Writer) /\ Slots(SubSeq(writers', 1, 0)) = {}
    <3>1. SubSeq(writers', 1, 0) \in Seq(Writer) /\ Len(SubSeq(writers', 1, 0)) = 0
      BY <2>1, SlotsOfPrefix
    <3>2. \A p \in Slots(SubSeq(writers', 1, 0)) : p[1] \in 1..0
      BY <3>1, SlotsAre
    <3>3. QED
      BY <3>1, <3>2
  <2>3. NumEntries(SubSeq(writers', 1, 0)) = 0
    BY <2>2, FS_EmptySet DEF NumEntries
  <2>4. group'.phase = "none" /\ group'.entries = {} /\ group'.n = 0
    BY <1>1 DEF NoGroup
  <2>5. QED
    BY <1>1, <2>3, <2>4, FS_EmptySet DEF GroupNumbers
<1>8. WrittenNumbers'
  <2>1. current'.lastSequence \in 0..MaxSequence
    BY <1>2, <1>3, <1>5
  <2>2. ASSUME NEW e \in written PROVE e.seq <= current'.lastSequence
    <3>1. e.seq \in Nat
      BY DEF SeqInv, WrittenNumbers, Entry
    <3>2. CASE e \in group.entries
      BY <1>2, <3>2 DEF SeqInv, GroupNumbers, c
    <3>3. CASE e \notin group.entries
      <4>1. e.seq <= current.lastSequence
        BY <1>3, <1>6, <3>3 DEF SeqInv, WrittenNumbers
      <4>2. QED
        BY <1>2, <1>3, <3>1, <4>1
    <3>4. QED
      BY <3>2, <3>3
  <2>3. QED
    BY <1>1, <1>3, <1>5, <2>1, <2>2 DEF SeqInv, WrittenNumbers
<1>9. Memory' = Memory /\ Flushed' = Flushed
  BY <1>1, <1>6 DEF Flushed, Memory
<1>10. MemoryNumbers'
  BY <1>1, <1>6, <1>9 DEF SeqInv, MemoryNumbers
<1>11. Replayed' = Replayed /\ LoggedEntries' = LoggedEntries /\ \A m : LogEntries(m)' = LogEntries(m)
  BY <1>1 DEF Replayed, LoggedEntries, LogEntries
<1>12. LogNumbers'
  BY <1>1, <1>2, <1>6, <1>11 DEF SeqInv, LogNumbers, Flushes
<1>13. ManifestNumbers'
  BY <1>1, <1>9, <1>11 DEF SeqInv, ManifestNumbers, EditHolds, Flushes
<1>14. QED
  BY <1>7, <1>8, <1>10, <1>12, <1>13 DEF SeqInv

\* The record of the group is in the log: its entries are the newest.
LEMMA RecordNumbers ==
    ASSUME AckInv, LogInv, SeqInv, AddRecord
    PROVE  SeqInv'
<1>0. PICK G, m : G = group.entries /\ m = logfile
  OBVIOUS
<1>1. /\ group.phase = "log" /\ group' = [group EXCEPT !.phase = "insert"]
      /\ logs' = [logs EXCEPT ![m] = Append(@, G)] /\ written' = written \cup G
      /\ UNCHANGED <<mem, imm, up, writers, manifest, logfile, current, bg>>
  BY <1>0 DEF AddRecord
<1>2. /\ group'.phase = "insert" /\ group'.entries = G /\ group'.n = group.n
  BY <1>0, <1>1 DEF AckInv, GroupOK
<1>3. /\ up = "open" /\ m \in DOMAIN logs /\ m \in Nat /\ current.lastSequence \in 0..MaxSequence
      /\ \A n \in DOMAIN logs : n \in Nat /\ n <= m
  BY <1>0, <1>1 DEF SeqInv, GroupNumbers, WrittenNumbers, LogNumbers, LogInv, NumbersOK, RecordsOK
<1>4. PICK R : logs[m] \in Seq(R)
  BY <1>3 DEF LogInv, RecordsOK
<1> DEFINE z == Len(logs[m]) + 1
<1>5. /\ z \in Nat /\ DOMAIN logs' = DOMAIN logs /\ z \notin DOMAIN logs[m]
      /\ DOMAIN logs[m] \subseteq Nat
      /\ DOMAIN logs'[m] = DOMAIN logs[m] \cup {z} /\ logs'[m][z] = G
      /\ \A i \in DOMAIN logs[m] : i < z /\ logs'[m][i] = logs[m][i]
      /\ \A n \in DOMAIN logs \ {m} : logs'[n] = logs[n]
  <2>1. /\ logs'[m] = Append(logs[m], G) /\ DOMAIN logs' = DOMAIN logs
        /\ \A n \in DOMAIN logs \ {m} : logs'[n] = logs[n]
    BY <1>1, <1>3 DEF LogInv, RecordsOK
  <2>2. DOMAIN logs[m] = 1 .. Len(logs[m]) /\ Len(logs[m]) \in Nat
    BY <1>4
  <2>3. Len(logs'[m]) = z /\ logs'[m] \in Seq(R \cup {G})
    <3>1. logs[m] \in Seq(R \cup {G}) /\ G \in R \cup {G}
      BY <1>4
    <3>2. QED
      BY <2>1, <3>1
  <2>4. DOMAIN logs'[m] = 1 .. z
    BY <2>3
  <2>5. logs'[m][z] = G
    BY <1>4, <2>1, <2>2
  <2>6. \A i \in 1 .. Len(logs[m]) : logs'[m][i] = logs[m][i]
    BY <1>4, <2>1, <2>2
  <2>7. 1 .. z = 1 .. Len(logs[m]) \cup {z} /\ z \notin 1 .. Len(logs[m])
    BY <2>2
  <2>8. QED
    BY <2>1, <2>2, <2>4, <2>5, <2>6, <2>7
<1> HIDE DEF z
<1>6. /\ InGroup = {} /\ InGroup' = G /\ Inflight = {} /\ Inflight' = G
  BY <1>1, <1>2 DEF InGroup, Inflight
<1>7. /\ \A e \in written : e.seq \in Nat /\ e.seq <= current.lastSequence
      /\ \A e \in G : e.seq \in Nat /\ current.lastSequence < e.seq
  BY <1>0, <1>3, <1>6 DEF SeqInv, WrittenNumbers, GroupNumbers, Entry
<1>8. Before(written, G) /\ written \cap G = {}
  <2>1. ASSUME NEW e \in written, NEW f \in G PROVE e.seq < f.seq
    BY <1>3, <1>7
  <2>2. ASSUME NEW e \in written, e \in G PROVE FALSE
    BY <1>7, <2>1, <2>2
  <2>3. QED
    BY <2>1, <2>2 DEF Before
<1>9. GroupNumbers'
  BY <1>0, <1>1, <1>2 DEF SeqInv, GroupNumbers
<1>10. WrittenNumbers'
  <2>1. written' \subseteq Entry
    BY <1>0, <1>1 DEF SeqInv, WrittenNumbers, GroupNumbers
  <2>2. \A e, f \in written' : e.seq = f.seq => e = f
    <3> SUFFICES ASSUME NEW e \in written', NEW f \in written', e.seq = f.seq PROVE e = f
      OBVIOUS
    <3>1. CASE e \in G /\ f \in G
      BY <1>0, <3>1 DEF SeqInv, GroupNumbers
    <3>2. CASE e \in written /\ f \in written
      BY <3>2 DEF SeqInv, WrittenNumbers
    <3>3. CASE (e \in written /\ f \in G) \/ (f \in written /\ e \in G)
      <4>1. e.seq \in Nat /\ f.seq \in Nat /\ (e.seq < f.seq \/ f.seq < e.seq)
        BY <1>7, <1>8, <3>3 DEF Before
      <4>2. QED
        BY <4>1
    <3>4. QED
      BY <1>1, <3>1, <3>2, <3>3
  <2>3. \A e \in written' : e.seq <= MaxSequence
    <3>1. ASSUME NEW e \in G PROVE e.seq <= MaxSequence
      <4>1. writers \in Seq(Writer) /\ group.n \in 0 .. Len(writers)
        BY DEF AckInv, GroupOK
      <4>2. /\ NumEntries(SubSeq(writers, 1, group.n)) \in Nat /\ NumEntries(writers) \in Nat
            /\ NumEntries(SubSeq(writers, 1, group.n)) <= NumEntries(writers)
        <5>1. Slots(SubSeq(writers, 1, group.n)) \subseteq Slots(writers)
          BY <4>1, SlotsOfPrefix
        <5>2. IsFiniteSet(Slots(writers)) /\ NumEntries(writers) \in Nat
          BY <4>1, SlotsAreFinite
        <5>3. SubSeq(writers, 1, group.n) \in Seq(Writer)
          BY <4>1, SlotsOfPrefix
        <5>4. NumEntries(SubSeq(writers, 1, group.n)) \in Nat
          BY <5>3, SlotsAreFinite
        <5>5. QED
          BY <5>1, <5>2, <5>4, FS_Subset DEF NumEntries
      <4>3. /\ e.seq <= current.lastSequence + Cardinality(G)
            /\ Cardinality(G) = NumEntries(SubSeq(writers, 1, group.n))
            /\ current.lastSequence + NumEntries(writers) <= MaxSequence
        BY <1>0, <1>3 DEF SeqInv, GroupNumbers, WrittenNumbers
      <4>4. e.seq \in Nat /\ current.lastSequence \in Nat /\ MaxSequence \in Nat
        BY <1>3, <1>7
      <4>5. QED
        BY <4>2, <4>3, <4>4
    <3>2. QED
      BY <1>1, <3>1 DEF SeqInv, WrittenNumbers
  <2>4. \A e \in written' \ InGroup' : e.seq <= current'.lastSequence
    BY <1>1, <1>6, <1>7
  <2>5. QED
    BY <1>1, <1>3, <2>1, <2>2, <2>3, <2>4 DEF SeqInv, WrittenNumbers
<1>11. Memory' = Memory \cup G /\ Flushed' = Flushed
  BY <1>1, <1>6, <1>8 DEF Memory, Flushed, SeqInv, MemoryNumbers
<1>12. MemoryNumbers'
  <2>1. Before(Flushed', Memory')
    BY <1>8, <1>11 DEF SeqInv, MemoryNumbers, Before, Flushed
  <2>2. Before(imm', mem' \cup Inflight')
    BY <1>1, <1>6, <1>8 DEF SeqInv, MemoryNumbers, Before
  <2>3. QED
    BY <1>1, <2>1, <2>2 DEF SeqInv, MemoryNumbers
<1>13. /\ Replayed' = Replayed /\ LogEntries(m)' = LogEntries(m) \cup G
       /\ \A n \in DOMAIN logs \ {m} : LogEntries(n)' = LogEntries(n)
  <2>1. Replayed' = Replayed
    BY <1>1, <1>5 DEF Replayed
  <2>2. \A n \in DOMAIN logs \ {m} : LogEntries(n)' = LogEntries(n)
    BY <1>5 DEF LogEntries
  <2>3. LogEntries(m)' = LogEntries(m) \cup G
    <3>1. LogEntries(m)' = UNION {logs'[m][i] : i \in DOMAIN logs[m] \cup {z}}
      BY <1>5 DEF LogEntries
    <3>2. QED
      BY <1>5, <3>1 DEF LogEntries
  <2>4. QED
    BY <2>1, <2>2, <2>3
<1>14. m \in Replayed
  BY <1>0, <1>3, LoggedIsMemory DEF LogInv, SeqInv
<1>15. LoggedEntries' = LoggedEntries \cup G
  BY <1>13, <1>14 DEF LoggedEntries, Replayed
<1>16. LogNumbers'
  <2>1. \A n, p \in Replayed' : \A i \in DOMAIN logs'[n], j \in DOMAIN logs'[p] :
          n < p \/ (n = p /\ i < j) => Before(logs'[n][i], logs'[p][j])
    <3> SUFFICES ASSUME NEW n \in Replayed', NEW p \in Replayed',
                        NEW i \in DOMAIN logs'[n], NEW j \in DOMAIN logs'[p],
                        n < p \/ (n = p /\ i < j)
                 PROVE  Before(logs'[n][i], logs'[p][j])
      OBVIOUS
    <3>1. n \in Replayed /\ p \in Replayed /\ n \in DOMAIN logs /\ p \in DOMAIN logs
      BY <1>13 DEF Replayed
    <3>2. ~(n = m /\ i = z)
      <4>1. ASSUME n = m, i = z PROVE FALSE
        <5>1. p \in Nat /\ p <= m
          BY <1>3, <3>1
        <5>2. p = m /\ z < j
          BY <1>3, <4>1, <5>1
        <5>3. j \in DOMAIN logs[m] \cup {z}
          BY <1>5, <5>2
        <5>4. QED
          BY <1>5, <5>2, <5>3
      <4>2. QED
        BY <4>1
    <3>3. i \in DOMAIN logs[n] /\ logs'[n][i] = logs[n][i]
      BY <1>5, <3>1, <3>2
    <3>4. CASE p = m /\ j = z
      <4>1. logs'[p][j] = G
        BY <1>5, <3>4
      <4>2. logs[n][i] \subseteq written
        BY <3>1, <3>3 DEF SeqInv, LogNumbers, LoggedEntries, LogEntries
      <4>3. QED
        BY <1>8, <3>3, <4>1, <4>2 DEF Before
    <3>5. CASE ~(p = m /\ j = z)
      <4>1. j \in DOMAIN logs[p] /\ logs'[p][j] = logs[p][j]
        BY <1>5, <3>1, <3>5
      <4>2. QED
        BY <3>1, <3>3, <4>1 DEF SeqInv, LogNumbers
    <3>6. QED
      BY <3>4, <3>5
  <2>2. LoggedEntries' \subseteq written'
    BY <1>1, <1>15 DEF SeqInv, LogNumbers
  <2>3. Before(written' \ LoggedEntries', LoggedEntries')
    <3>1. written' \ LoggedEntries' \subseteq written \ LoggedEntries
      BY <1>1, <1>15
    <3>2. Before(written \ LoggedEntries, LoggedEntries)
      BY DEF SeqInv, LogNumbers
    <3>3. QED
      BY <1>8, <1>15, <3>1, <3>2 DEF Before
  <2>4. LogEntries(logfile)' = mem' \cup Inflight'
    <3>1. LogEntries(m) = mem \cup Inflight
      BY <1>0, <1>3 DEF SeqInv, LogNumbers
    <3>2. QED
      BY <1>0, <1>1, <1>6, <1>13, <3>1
  <2>5. UNION {LogEntries(n)' : n \in Replayed' \ {logfile'}} =
            UNION {LogEntries(n) : n \in Replayed \ {logfile}}
    BY <1>0, <1>1, <1>13 DEF Replayed
  <2>6. UNION {LogEntries(n)' : n \in Replayed' \ {logfile'}} =
            IF Flushes' /\ bg'.pc = "install" THEN {} ELSE imm'
    BY <1>1, <1>3, <2>5 DEF SeqInv, LogNumbers, Flushes
  <2>7. \A n \in DOMAIN logs' : n <= logfile'
    BY <1>0, <1>1, <1>3, <1>5
  <2>8. QED
    BY <1>1, <1>3, <2>1, <2>2, <2>3, <2>4, <2>6, <2>7 DEF LogNumbers
<1>17. ManifestNumbers'
  <2>1. EditHolds' = EditHolds
    BY <1>1, <1>11 DEF EditHolds, Flushes
  <2>2. written' \ LoggedEntries' \subseteq written \ LoggedEntries
    BY <1>1, <1>15
  <2>3. QED
    BY <1>1, <2>1, <2>2 DEF SeqInv, ManifestNumbers
<1>18. QED
  BY <1>9, <1>10, <1>12, <1>16, <1>17 DEF SeqInv

\* MANIFEST stands for what the edit stands for.
LEMMA ManifestStepNumbers ==
    ASSUME FileInv, LogInv, SeqInv, WriteManifest
    PROVE  SeqInv' /\ written' \ LoggedEntries' = EditHolds
<1>1. /\ bg.pc = "log" /\ up = "open" /\ bg' = [bg EXCEPT !.pc = "install"]
      /\ manifest'.logNumber = bg.edit.logNumber
      /\ manifest'.lastSequence = bg.edit.lastSequence
      /\ UNCHANGED <<logs, written, mem, imm, up, writers, group, logfile, current>>
  BY DEF WriteManifest, FileInv, ThreadOK, Idle, queue, history
<1>2. bg'.pc = "install" /\ bg'.edit = bg.edit /\ Flushes' = Flushes
  BY <1>1 DEF FileInv, ThreadOK, Flushes
<1>3. GroupNumbers'
  BY <1>1 DEF SeqInv, GroupNumbers
<1>4. WrittenNumbers'
  BY <1>1 DEF SeqInv, WrittenNumbers, InGroup
<1>5. MemoryNumbers' /\ Flushed' = Flushed /\ Memory' = Memory /\ Inflight' = Inflight
  BY <1>1 DEF SeqInv, MemoryNumbers, Flushed, Memory, Inflight
<1>6. \A n : LogEntries(n)' = LogEntries(n)
  BY <1>1 DEF LogEntries
<1>7. /\ logfile \in DOMAIN logs /\ \A n \in DOMAIN logs : n \in Nat /\ n <= logfile
      /\ manifest.logNumber \in Nat /\ manifest.logNumber <= logfile
  BY <1>1 DEF SeqInv, LogNumbers, LogInv, NumbersOK, RecordsOK
<1>8. Replayed' = IF Flushes THEN {logfile} ELSE Replayed
  <2>1. CASE Flushes
    <3>1. manifest'.logNumber = logfile
      BY <1>1, <2>1 DEF LogInv, EditOK
    <3>2. QED
      BY <1>1, <1>7, <2>1, <3>1 DEF Replayed
  <2>2. CASE ~Flushes
    <3>1. manifest'.logNumber = manifest.logNumber
      BY <1>1, <2>2 DEF LogInv, EditOK
    <3>2. QED
      BY <1>1, <2>2, <3>1 DEF Replayed
  <2>3. QED
    BY <2>1, <2>2
<1>9. logfile \in Replayed /\ LoggedEntries = Memory /\ written \ LoggedEntries = Flushed
  BY <1>1, LoggedIsMemory DEF LogInv, SeqInv
<1>10. Replayed' \subseteq Replayed
  BY <1>8, <1>9
<1>11. LogEntries(logfile) = mem \cup Inflight
  BY <1>1 DEF SeqInv, LogNumbers
<1>12. LoggedEntries' = IF Flushes THEN mem \cup Inflight ELSE Memory
  <2>1. CASE Flushes
    <3>1. LoggedEntries' = UNION {LogEntries(n)' : n \in {logfile}}
      BY <1>8, <2>1 DEF LoggedEntries
    <3>2. QED
      BY <1>6, <1>11, <2>1, <3>1
  <2>2. CASE ~Flushes
    BY <1>6, <1>8, <1>9, <2>2 DEF LoggedEntries
  <2>3. QED
    BY <2>1, <2>2
<1>13. written' \ LoggedEntries' = EditHolds
  <2>1. imm \cap (mem \cup Inflight) = {} /\ imm \subseteq written
    BY MemoryApart DEF SeqInv, MemoryNumbers
  <2>2. QED
    BY <1>1, <1>12, <2>1 DEF EditHolds, Flushed, Memory
<1>14. LogNumbers'
  <2>1. Before(written' \ LoggedEntries', LoggedEntries')
    BY <1>12, <1>13 DEF EditHolds, SeqInv, MemoryNumbers, Before, Memory
  <2>2. LoggedEntries' \subseteq LoggedEntries
    BY <1>9, <1>12 DEF Memory
  <2>3. UNION {LogEntries(n)' : n \in Replayed' \ {logfile'}} =
            IF Flushes' /\ bg'.pc = "install" THEN {} ELSE imm'
    <3>1. CASE Flushes
      BY <1>1, <1>2, <1>8, <3>1
    <3>2. CASE ~Flushes
      <4>1. UNION {LogEntries(n) : n \in Replayed \ {logfile}} = imm
        BY <1>1, <3>2 DEF SeqInv, LogNumbers
      <4>2. QED
        BY <1>1, <1>2, <1>6, <1>8, <3>2, <4>1
    <3>3. QED
      BY <3>1, <3>2
  <2>4. LogEntries(logfile)' = mem' \cup Inflight'
    BY <1>1, <1>5, <1>6, <1>11
  <2>5. QED
    BY <1>1, <1>10, <2>1, <2>2, <2>3, <2>4 DEF SeqInv, LogNumbers
<1>15. ManifestNumbers'
  BY <1>1, <1>2, <1>13 DEF SeqInv, ManifestNumbers
<1>16. QED
  BY <1>3, <1>4, <1>5, <1>13, <1>14, <1>15 DEF SeqInv

\* The version is installed: what has been flushed is no longer in memory.
LEMMA InstallNumbers ==
    ASSUME FileInv, LogInv, SeqInv, Install
    PROVE  SeqInv' /\ Flushed' = EditHolds
<1>1. /\ bg.pc = "install"
      /\ UNCHANGED <<written, group, mem, writers, up, manifest, logfile>>
      /\ imm' = (IF Flushes THEN {} ELSE imm)
      /\ bg' = [bg EXCEPT !.pc = "merge", !.edit = NoEdit] \/ bg' = Idle
      /\ \/ logs' = logs
         \/ logs' = Only(logs, {n \in DOMAIN logs : n >= current'.logNumber})
      /\ current' = [current EXCEPT !.levels = ApplyEdit(current.levels, bg.edit),
                                    !.logNumber = bg.edit.logNumber,
                                    !.seekFile = NoFile]
  BY DEF Install, DeleteObsoleteFiles, history, Flushes
<1>2. up = "open"
  BY <1>1 DEF FileInv, ThreadOK, Idle
<1>3. /\ current'.logNumber = manifest.logNumber
      /\ current'.lastSequence = current.lastSequence
  BY <1>1 DEF FileInv, VersionOK, LogInv, EditOK
<1>4. bg'.pc \in {"merge", "idle"}
  <2>1. CASE bg' = [bg EXCEPT !.pc = "merge", !.edit = NoEdit]
    BY <2>1 DEF FileInv, ThreadOK
  <2>2. CASE bg' = Idle
    BY <2>2 DEF Idle
  <2>3. QED
    BY <1>1, <2>1, <2>2
<1>5. /\ Replayed' = Replayed /\ LoggedEntries' = LoggedEntries
      /\ DOMAIN logs' \subseteq DOMAIN logs
      /\ \A n \in DOMAIN logs' : logs'[n] = logs[n]
  <2>1. CASE logs' = logs
    BY <1>1, <2>1 DEF LoggedEntries, LogEntries, Replayed
  <2>2. CASE logs' = Only(logs, {n \in DOMAIN logs : n >= current'.logNumber})
    <3>1. /\ LoggedEntries' = LoggedEntries
          /\ DOMAIN logs' = {n \in DOMAIN logs : n >= manifest.logNumber}
          /\ \A n \in DOMAIN logs' : logs'[n] = logs[n]
      BY <1>1, <1>3, <2>2, KeptLogs
    <3>2. Replayed' = Replayed
      BY <1>1, <3>1 DEF Replayed
    <3>3. QED
      BY <3>1, <3>2
  <2>3. QED
    BY <1>1, <2>1, <2>2
<1>6. /\ Replayed \subseteq DOMAIN logs' /\ logfile \in Replayed
      /\ \A n \in Replayed : LogEntries(n)' = LogEntries(n)
  <2>1. logfile \in Replayed
    BY <1>2, LoggedIsMemory DEF LogInv, SeqInv
  <2>2. Replayed \subseteq DOMAIN logs'
    BY <1>5 DEF Replayed
  <2>3. \A n \in Replayed : LogEntries(n)' = LogEntries(n)
    BY <1>5, <2>2 DEF LogEntries
  <2>4. QED
    BY <2>1, <2>2, <2>3
<1>7. Inflight' = Inflight /\ InGroup' = InGroup
  BY <1>1 DEF Inflight, InGroup
<1>8. GroupNumbers'
  BY <1>1, <1>3 DEF SeqInv, GroupNumbers
<1>9. WrittenNumbers'
  BY <1>1, <1>3, <1>7 DEF SeqInv, WrittenNumbers
<1>10. /\ Memory' = (IF Flushes THEN mem \cup Inflight ELSE Memory)
       /\ Flushed' = (IF Flushes THEN Flushed \cup imm ELSE Flushed)
  <2>1. imm \cap (mem \cup Inflight) = {} /\ imm \subseteq written
    BY MemoryApart DEF SeqInv, MemoryNumbers
  <2>2. QED
    BY <1>1, <1>7, <2>1 DEF Memory, Flushed
<1>11. MemoryNumbers'
  <2>1. Before(Flushed', Memory')
    BY <1>10 DEF SeqInv, MemoryNumbers, Before, Memory
  <2>2. Before(imm', mem' \cup Inflight')
    BY <1>1, <1>7 DEF SeqInv, MemoryNumbers, Before
  <2>3. QED
    BY <1>1, <2>1, <2>2 DEF SeqInv, MemoryNumbers
<1>12. LogNumbers'
  <2>1. \A n, p \in Replayed' : \A i \in DOMAIN logs'[n], j \in DOMAIN logs'[p] :
          n < p \/ (n = p /\ i < j) => Before(logs'[n][i], logs'[p][j])
    BY <1>5, <1>6 DEF SeqInv, LogNumbers
  <2>2. UNION {LogEntries(n)' : n \in Replayed' \ {logfile'}} =
            UNION {LogEntries(n) : n \in Replayed \ {logfile}}
    BY <1>1, <1>5, <1>6
  <2>3. UNION {LogEntries(n)' : n \in Replayed' \ {logfile'}} =
            IF Flushes' /\ bg'.pc = "install" THEN {} ELSE imm'
    BY <1>1, <1>2, <1>4, <2>2 DEF SeqInv, LogNumbers
  <2>4. \A n \in DOMAIN logs' : n <= logfile'
    BY <1>1, <1>2, <1>5 DEF SeqInv, LogNumbers
  <2>5. LogEntries(logfile)' = mem' \cup Inflight'
    BY <1>1, <1>2, <1>6, <1>7 DEF SeqInv, LogNumbers
  <2>6. QED
    BY <1>1, <1>2, <1>5, <2>1, <2>3, <2>4, <2>5 DEF SeqInv, LogNumbers
<1>13. ManifestNumbers'
  BY <1>1, <1>4, <1>5 DEF SeqInv, ManifestNumbers
<1>14. QED
  BY <1>8, <1>9, <1>10, <1>11, <1>12, <1>13 DEF SeqInv, EditHolds

\* Steps that leave all entries where they are.
LEMMA ThreadNumbers ==
    ASSUME FileInv, LogInv, SeqInv,
           \/ StartFlush \/ InstallCompactionResults
           \/ \E l \in Level : WriteLevel0Table(l)
           \/ \E pick, in : TrivialMove(pick, in) \/ StartMerge(pick, in)
           \/ \E k \in Key : MergeOutput(k)
           \/ StartGet \/ FinishGet \/ WaitForRoom
    PROVE  SeqInv'
<1>1. UNCHANGED <<written, group, mem, imm, writers, up, logs, manifest, logfile>>
  BY DEF StartFlush, InstallCompactionResults, WriteLevel0Table, TrivialMove, StartMerge,
     MergeOutput, StartGet, FinishGet, WaitForRoom, disk, queue, history
<1>2. \/ current' = current
      \/ current' = [current EXCEPT !.nextFile = current.nextFile + 1]
      \/ \E n : current' = [current EXCEPT !.seekFile = n]
  BY DEF StartFlush, InstallCompactionResults, WriteLevel0Table, TrivialMove, StartMerge,
     MergeOutput, StartGet, FinishGet, WaitForRoom, disk, queue, history
<1>3. current'.lastSequence = current.lastSequence /\ current'.logNumber = current.logNumber
  BY <1>2 DEF FileInv, VersionOK
<1>4. CASE StartGet \/ FinishGet \/ WaitForRoom
  <2>1. bg' = bg
    BY <1>4 DEF StartGet, FinishGet, WaitForRoom
  <2>2. QED
    BY <1>1, <1>3, <2>1, SameNumbers DEF Flushes
<1>5. ASSUME bg.pc # "install", bg'.pc # "install",
             bg'.pc = "log" => up = "open" /\ bg'.edit.lastSequence = current.lastSequence
      PROVE  SeqInv'
  BY <1>1, <1>3, <1>5, SameNumbers DEF Flushes
<1>6. CASE StartFlush
  <2>1. bg.pc # "install" /\ bg'.pc = "flush"
    BY <1>6 DEF StartFlush, FileInv, ThreadOK
  <2>2. QED
    BY <1>5, <2>1
<1>7. ASSUME NEW k, NEW a, NEW d, NEW p, bg' = [bg EXCEPT !.pc = "log",
                                 !.edit = Edit(k, a, d, p, current)]
      PROVE  bg'.pc = "log" /\ bg'.edit.lastSequence = current.lastSequence
  <2>1. bg'.pc = "log" /\ bg'.edit = Edit(k, a, d, p, current)
    BY <1>7 DEF FileInv, ThreadOK
  <2>2. QED
    BY <2>1 DEF Edit
<1>8. CASE InstallCompactionResults
  <2>1. bg.pc = "merge"
    BY <1>8 DEF InstallCompactionResults
  <2>2. up = "open"
    BY <2>1 DEF FileInv, ThreadOK, Idle
  <2>3. bg'.pc = "log" /\ bg'.edit.lastSequence = current.lastSequence
    BY <1>7, <1>8 DEF InstallCompactionResults
  <2>4. QED
    BY <1>5, <2>1, <2>2, <2>3
<1>9. ASSUME NEW l \in Level, WriteLevel0Table(l) PROVE SeqInv'
  <2> DEFINE v == [current EXCEPT !.nextFile = current.nextFile + 1]
  <2>1. /\ bg.pc = "flush"
        /\ bg' = [bg EXCEPT !.pc = "log",
                            !.edit = Edit("flush", {<<l, current.nextFile>>}, {}, logfile, v)]
    BY <1>9 DEF WriteLevel0Table
  <2>2. up = "open"
    BY <2>1 DEF FileInv, ThreadOK, Idle
  <2>3. v.lastSequence = current.lastSequence
    BY DEF FileInv, VersionOK
  <2>4. bg'.pc = "log" /\ bg'.edit = Edit("flush", {<<l, current.nextFile>>}, {}, logfile, v)
    BY <2>1 DEF FileInv, ThreadOK
  <2>5. bg'.edit.lastSequence = v.lastSequence
    BY <2>4 DEF Edit
  <2>6. QED
    BY <1>5, <2>1, <2>2, <2>3, <2>4, <2>5
<1>10. ASSUME NEW pick, NEW in, TrivialMove(pick, in) PROVE SeqInv'
  <2>1. up = "open" /\ bg.pc = "idle"
    BY <1>10 DEF TrivialMove, MayCompact
  <2>2. bg'.pc = "log" /\ bg'.edit.lastSequence = current.lastSequence
    BY <1>7, <1>10 DEF TrivialMove
  <2>3. QED
    BY <1>5, <2>1, <2>2
<1>11. ASSUME NEW pick, NEW in, StartMerge(pick, in) PROVE SeqInv'
  <2>1. bg.pc = "idle" /\ bg'.pc = "merge"
    BY <1>11 DEF StartMerge, MayCompact, FileInv, ThreadOK
  <2>2. QED
    BY <1>5, <2>1
<1>12. ASSUME NEW k \in Key, MergeOutput(k) PROVE SeqInv'
  <2>1. bg.pc = "merge" /\ \E c : bg' = [bg EXCEPT !.comp = c]
    BY <1>12 DEF MergeOutput
  <2>2. bg'.pc = "merge"
    BY <2>1 DEF FileInv, ThreadOK
  <2>3. QED
    BY <1>5, <2>1, <2>2
<1>13. QED
  BY <1>4, <1>6, <1>8, <1>9, <1>10, <1>11, <1>12

\* A stop leaves the logs, or their records up to some one.
LEMMA StopNumbers ==
    ASSUME SeqInv, Stop, written' \subseteq written, LoggedEntries' \subseteq written',
           DOMAIN logs' = DOMAIN logs,
           \A n \in DOMAIN logs : /\ DOMAIN logs'[n] \subseteq DOMAIN logs[n]
                                  /\ \A i \in DOMAIN logs'[n] : logs'[n][i] = logs[n][i],
           LoggedEntries' \subseteq LoggedEntries,
           written' \ LoggedEntries' = written \ LoggedEntries
    PROVE  SeqInv'
<1>1. /\ up' = "down" /\ mem' = {} /\ imm' = {} /\ group' = NoGroup /\ writers' = <<>>
      /\ bg' = Idle /\ manifest' = manifest
  BY DEF Stop
<1>2. GroupNumbers'
  <2>1. SubSeq(writers', 1, 0) = <<>>
    BY <1>1
  <2>2. NumEntries(SubSeq(writers', 1, 0)) = 0
    <3>1. Slots(<<>>) = {}
      BY DEF Slots
    <3>2. QED
      BY <2>1, <3>1, FS_EmptySet DEF NumEntries
  <2>3. /\ group'.phase = "none" /\ group'.entries = {} /\ group'.n = 0
    BY <1>1 DEF NoGroup
  <2>4. QED
    BY <1>1, <2>2, <2>3, FS_EmptySet DEF GroupNumbers
<1>3. WrittenNumbers'
  BY <1>1 DEF SeqInv, WrittenNumbers
<1>4. Memory' = {} /\ Inflight' = {}
  BY <1>1 DEF Memory, Inflight, NoGroup
<1>5. MemoryNumbers'
  BY <1>1, <1>4 DEF MemoryNumbers, Before
<1>6. Replayed' = Replayed
  BY <1>1 DEF Replayed
<1>7. LogNumbers'
  <2>1. Before(written' \ LoggedEntries', LoggedEntries')
    BY DEF SeqInv, LogNumbers, Before
  <2>2. \A n, p \in Replayed' : \A i \in DOMAIN logs'[n], j \in DOMAIN logs'[p] :
          n < p \/ (n = p /\ i < j) => Before(logs'[n][i], logs'[p][j])
    BY <1>6 DEF SeqInv, LogNumbers, Replayed
  <2>3. QED
    BY <1>1, <2>1, <2>2 DEF LogNumbers
<1>8. ManifestNumbers'
  BY <1>1 DEF SeqInv, ManifestNumbers, Idle
<1>9. QED
  BY <1>2, <1>3, <1>5, <1>7, <1>8 DEF SeqInv

\* The process stops: the entries are where the files have them.
LEMMA CrashNumbers ==
    ASSUME SeqInv, Crash
    PROVE  SeqInv' /\ written' = written /\ LoggedEntries' = LoggedEntries
<1>1. Stop /\ logs' = logs /\ written' = written /\ manifest' = manifest
  BY DEF Crash, Stop
<1>2. LoggedEntries' = LoggedEntries
  BY <1>1 DEF LoggedEntries, LogEntries, Replayed
<1>3. QED
  BY <1>1, <1>2, StopNumbers DEF SeqInv, LogNumbers

\* What a loss of power takes are the newest entries.
LEMMA PowerNumbers ==
    ASSUME LogInv, SeqInv, PowerLoss
    PROVE  SeqInv' /\ written' \ LoggedEntries' = written \ LoggedEntries
<1>1. PICK kept, lost :
          /\ kept \in [DOMAIN logs -> 0..MaxSequence]
          /\ \A n \in DOMAIN logs : kept[n] <= Len(logs[n])
          /\ logs' = [n \in DOMAIN logs |-> SubSeq(logs[n], 1, kept[n])]
          /\ lost = UNION {UNION {logs[n][i] : i \in kept[n] + 1 .. Len(logs[n])} :
                              n \in {m \in DOMAIN logs : m >= manifest.logNumber}}
          /\ written' = written \ lost
  BY DEF PowerLoss
<1>2. Stop /\ manifest' = manifest
  BY DEF PowerLoss, Stop
<1>3. ASSUME NEW n \in DOMAIN logs
      PROVE  /\ DOMAIN logs'[n] = 1 .. kept[n] /\ DOMAIN logs[n] = 1 .. Len(logs[n])
             /\ kept[n] \in Nat /\ Len(logs[n]) \in Nat /\ kept[n] <= Len(logs[n])
             /\ \A i \in DOMAIN logs'[n] : logs'[n][i] = logs[n][i]
  <2>1. PICK R : logs[n] \in Seq(R)
    BY DEF LogInv, RecordsOK
  <2>2. kept[n] \in Nat /\ kept[n] <= Len(logs[n]) /\ logs'[n] = SubSeq(logs[n], 1, kept[n])
    BY <1>1
  <2>3. PICK s, k : s = logs[n] /\ k = kept[n]
    OBVIOUS
  <2>4. s \in Seq(R) /\ k \in Nat /\ k <= Len(s) /\ Len(s) \in Nat
    BY <2>1, <2>2, <2>3
  <2>5. /\ Len(SubSeq(s, 1, k)) = k /\ \A i \in 1..k : SubSeq(s, 1, k)[i] = s[i]
        /\ SubSeq(s, 1, k) \in Seq(R)
    <3>1. \A i \in 1..k : s[i] \in R
      BY <2>4
    <3>2. QED
      BY <2>4, <3>1, SubSeqProperties
  <2>6. DOMAIN SubSeq(s, 1, k) = 1..k /\ DOMAIN s = 1 .. Len(s)
    BY <2>4, <2>5
  <2>7. QED
    BY <2>2, <2>3, <2>4, <2>5, <2>6
<1>4. Replayed' = Replayed /\ Replayed \subseteq DOMAIN logs /\ DOMAIN logs' = DOMAIN logs
  BY <1>1, <1>2 DEF Replayed
<1>5. ASSUME NEW e
      PROVE  e \in LoggedEntries' <=> \E n \in Replayed : \E i \in 1 .. kept[n] : e \in logs[n][i]
  <2>1. e \in LoggedEntries' <=> \E n \in Replayed : \E i \in DOMAIN logs'[n] : e \in logs'[n][i]
    BY <1>4 DEF LoggedEntries, LogEntries
  <2>2. QED
    BY <1>3, <1>4, <2>1
<1>6. ASSUME NEW e
      PROVE  e \in lost <=> \E n \in Replayed : \E i \in kept[n] + 1 .. Len(logs[n]) : e \in logs[n][i]
  <2>1. lost = UNION {UNION {logs[n][i] : i \in kept[n] + 1 .. Len(logs[n])} : n \in Replayed}
    BY <1>1, Zenon DEF Replayed
  <2>2. QED
    BY <2>1
<1>7. ASSUME NEW e
      PROVE  e \in LoggedEntries <=> \E n \in Replayed : \E i \in 1 .. Len(logs[n]) : e \in logs[n][i]
  <2>1. e \in LoggedEntries <=> \E n \in Replayed : \E i \in DOMAIN logs[n] : e \in logs[n][i]
    BY DEF LoggedEntries, LogEntries
  <2>2. QED
    BY <1>3, <1>4, <2>1
<1>8. LoggedEntries = LoggedEntries' \cup lost
  <2>1. ASSUME NEW n \in Replayed
        PROVE  1 .. Len(logs[n]) = (1 .. kept[n]) \cup (kept[n] + 1 .. Len(logs[n]))
    <3>1. kept[n] \in Nat /\ Len(logs[n]) \in Nat /\ kept[n] <= Len(logs[n])
      BY <1>3, <1>4
    <3>2. QED
      BY <3>1
  <2>2. \A e : e \in LoggedEntries <=> e \in LoggedEntries' \/ e \in lost
    BY <1>5, <1>6, <1>7, <2>1
  <2>3. QED
    BY <2>2
<1>9. ASSUME NEW e, e \in LoggedEntries', e \in lost PROVE FALSE
  <2>1. PICK n \in Replayed : \E i \in 1 .. kept[n] : e \in logs[n][i]
    BY <1>5, <1>9
  <2>2. PICK p \in Replayed : \E j \in kept[p] + 1 .. Len(logs[p]) : e \in logs[p][j]
    BY <1>6, <1>9
  <2>3. PICK i \in 1 .. kept[n] : e \in logs[n][i]
    BY <2>1
  <2>4. PICK j \in kept[p] + 1 .. Len(logs[p]) : e \in logs[p][j]
    BY <2>2
  <2>5. /\ i \in DOMAIN logs[n] /\ j \in DOMAIN logs[p] /\ i \in Nat /\ j \in Nat
        /\ n = p => i < j
    <3>1. /\ kept[n] \in Nat /\ Len(logs[n]) \in Nat /\ kept[n] <= Len(logs[n])
          /\ kept[p] \in Nat /\ Len(logs[p]) \in Nat /\ kept[p] <= Len(logs[p])
          /\ DOMAIN logs[n] = 1 .. Len(logs[n]) /\ DOMAIN logs[p] = 1 .. Len(logs[p])
      BY <1>3, <1>4
    <3>2. i \in 1 .. Len(logs[n]) /\ i \in Nat /\ j \in 1 .. Len(logs[p]) /\ j \in Nat
      <4>1. ASSUME NEW a \in Nat, NEW b \in Nat, a <= b, NEW x \in 1 .. a
            PROVE  x \in 1 .. b /\ x \in Nat
        BY <4>1
      <4>2. ASSUME NEW a \in Nat, NEW b \in Nat, NEW x \in a + 1 .. b
            PROVE  x \in 1 .. b /\ x \in Nat
        OBVIOUS
      <4>3. i \in 1 .. Len(logs[n]) /\ i \in Nat
        BY <3>1, <4>1
      <4>4. j \in 1 .. Len(logs[p]) /\ j \in Nat
        BY <3>1, <4>2
      <4>5. QED
        BY <4>3, <4>4
    <3>3. n = p => i < j
      BY <3>1
    <3>4. QED
      BY <3>1, <3>2, <3>3
  <2>6. n \in Nat /\ p \in Nat
    BY <1>4 DEF LogInv, RecordsOK
  <2>7. Before(logs[n][i], logs[p][j]) \/ Before(logs[p][j], logs[n][i])
    <3>1. n < p \/ p < n \/ n = p
      BY <2>6
    <3>2. QED
      BY <2>5, <3>1 DEF SeqInv, LogNumbers
  <2>8. e.seq < e.seq /\ e.seq \in Nat
    <3>1. e \in written
      BY <1>8, <1>9 DEF SeqInv, LogNumbers
    <3>2. QED
      BY <2>3, <2>4, <2>7, <3>1 DEF Before, SeqInv, WrittenNumbers, Entry
  <2>9. QED
    BY <2>8
<1>10. written' \ LoggedEntries' = written \ LoggedEntries /\ LoggedEntries' \subseteq written'
  BY <1>1, <1>8, <1>9 DEF SeqInv, LogNumbers
<1>11. \A n \in DOMAIN logs : /\ DOMAIN logs'[n] \subseteq DOMAIN logs[n]
                              /\ \A i \in DOMAIN logs'[n] : logs'[n][i] = logs[n][i]
  <2> SUFFICES ASSUME NEW n \in DOMAIN logs PROVE DOMAIN logs'[n] \subseteq DOMAIN logs[n]
    BY <1>3
  <2>1. QED
    BY <1>3
<1>12. QED
  BY <1>1, <1>2, <1>4, <1>8, <1>10, <1>11, StopNumbers

\* The number of the last entry is found again.
LEMMA RecoverNumbers ==
    ASSUME FileInv, LogInv, SeqInv, Recover
    PROVE  SeqInv' /\ LoggedEntries' = LoggedEntries /\ written' = written
<1> DEFINE seqs == {e.seq : e \in LoggedEntries}
           full   == {n \in Replayed : LogEntries(n) # {}}
           first  == Max({manifest.nextFile} \cup Replayed) + 1
<1>1. PICK newLog : newLog = first + Len(OldestFirst(full))
  OBVIOUS
<1>2. /\ up = "down" /\ up' = "recovering" /\ logs' = LogsWith(newLog) /\ logfile' = newLog
      /\ current'.logNumber = newLog /\ current'.lastSequence = MaxSequenceOf(seqs)
      /\ UNCHANGED <<manifest, mem, imm, bg, group, writers, written>>
  BY <1>1 DEF Recover, queue, history, LoggedEntries
<1>3. newLog \in Nat /\ \A n \in DOMAIN logs : n \in Nat /\ n < newLog
  <2>1. /\ first \in Nat /\ newLog \in Nat /\ first <= newLog
        /\ \A n \in DOMAIN logs : n \in Nat /\ n < first
    BY <1>1, NumbersOfOpening DEF LogInv
  <2> HIDE DEF first
  <2>2. QED
    BY <2>1
<1> HIDE DEF first, full
<1>4. /\ DOMAIN logs' = DOMAIN logs \cup {newLog} /\ logs'[newLog] = <<>>
      /\ \A n \in DOMAIN logs : logs'[n] = logs[n]
  BY <1>2, <1>3 DEF LogsWith
<1>5. manifest.logNumber \in Nat
  BY DEF LogInv, NumbersOK
<1>6. Replayed' \subseteq Replayed \cup {newLog} /\ Replayed \subseteq Replayed'
  BY <1>2, <1>4 DEF Replayed
<1>7. /\ LogEntries(newLog)' = {} /\ DOMAIN logs'[newLog] = {}
      /\ \A n \in Replayed : LogEntries(n)' = LogEntries(n)
  BY <1>4 DEF LogEntries, Replayed
<1>8. LoggedEntries' = LoggedEntries
  <2>1. LoggedEntries' = UNION {LogEntries(n)' : n \in Replayed'}
    BY DEF LoggedEntries
  <2>2. ASSUME NEW e PROVE e \in LoggedEntries' <=> e \in LoggedEntries
    <3>1. e \in LoggedEntries' <=> \E n \in Replayed' : e \in LogEntries(n)'
      BY <2>1
    <3>2. e \in LoggedEntries <=> \E n \in Replayed : e \in LogEntries(n)
      BY DEF LoggedEntries
    <3>3. QED
      BY <1>6, <1>7, <3>1, <3>2
  <2>3. QED
    BY <2>2
<1>9. /\ current'.lastSequence \in 0..MaxSequence /\ manifest.lastSequence <= current'.lastSequence
      /\ \A e \in LoggedEntries : e.seq <= current'.lastSequence
  <2> DEFINE S == seqs \cup {manifest.lastSequence}
  <2>1. S \subseteq 0..MaxSequence /\ S # {} /\ MaxSequence \in Nat
    BY DEF SeqInv, ManifestNumbers, LogNumbers, WrittenNumbers, Entry
  <2>2. current'.lastSequence = Max(S)
    BY <1>2 DEF MaxSequenceOf
  <2>3. manifest.lastSequence \in S /\ \A e \in LoggedEntries : e.seq \in S
    OBVIOUS
  <2> HIDE DEF S, seqs
  <2>4. Max(S) \in S /\ \A y \in S : y <= Max(S)
    BY <2>1, GreatestOf
  <2>5. QED
    BY <2>1, <2>2, <2>3, <2>4
<1>10. /\ InGroup' = {} /\ Inflight' = {} /\ Memory' = Memory /\ Inflight = {}
       /\ group = NoGroup /\ writers = <<>>
  <2>1. group = NoGroup /\ writers = <<>>
    BY <1>2 DEF SeqInv, WrittenNumbers
  <2>2. QED
    BY <1>2, <2>1 DEF InGroup, Inflight, Memory, NoGroup
<1>11. GroupNumbers'
  <2>1. /\ group.phase = "none" /\ group.entries = {} /\ group.n = 0
    BY <1>10 DEF NoGroup
  <2>2. QED
    BY <1>2, <1>10, <2>1 DEF SeqInv, GroupNumbers
<1>12. WrittenNumbers'
  <2>1. ASSUME NEW e \in written PROVE e.seq <= current'.lastSequence
    <3>1. CASE e \in LoggedEntries
      BY <1>9, <3>1
    <3>2. CASE e \notin LoggedEntries
      <4>1. e.seq \in Nat /\ e.seq <= manifest.lastSequence /\ manifest.lastSequence \in 0..MaxSequence
        BY <3>2 DEF SeqInv, ManifestNumbers, WrittenNumbers, Entry
      <4>2. QED
        BY <1>9, <4>1
    <3>3. QED
      BY <3>1, <3>2
  <2>2. QED
    BY <1>2, <1>9, <1>10, <2>1 DEF SeqInv, WrittenNumbers
<1>13. Flushed' = Flushed /\ MemoryNumbers'
  BY <1>2, <1>10 DEF SeqInv, MemoryNumbers, Flushed
<1>14. LogNumbers'
  <2>1. \A n, p \in Replayed' : \A i \in DOMAIN logs'[n], j \in DOMAIN logs'[p] :
          n < p \/ (n = p /\ i < j) => Before(logs'[n][i], logs'[p][j])
    <3> SUFFICES ASSUME NEW n \in Replayed', NEW p \in Replayed',
                        NEW i \in DOMAIN logs'[n], NEW j \in DOMAIN logs'[p],
                        n < p \/ (n = p /\ i < j)
                 PROVE  Before(logs'[n][i], logs'[p][j])
      OBVIOUS
    <3>1. n \in Replayed /\ p \in Replayed
      BY <1>6, <1>7
    <3>2. logs'[n] = logs[n] /\ logs'[p] = logs[p]
      BY <1>4, <3>1 DEF Replayed
    <3>3. QED
      BY <3>1, <3>2 DEF SeqInv, LogNumbers
  <2>2. \A n \in DOMAIN logs' : n <= logfile'
    BY <1>2, <1>3, <1>4
  <2>3. LogEntries(logfile)' = {}
    BY <1>2, <1>7
  <2>4. QED
    BY <1>2, <1>8, <2>1, <2>2, <2>3 DEF SeqInv, LogNumbers
<1>15. ManifestNumbers'
  BY <1>2, <1>8, <1>13 DEF SeqInv, ManifestNumbers, EditHolds, Flushes
<1>16. QED
  BY <1>2, <1>8, <1>11, <1>12, <1>13, <1>14, <1>15 DEF SeqInv

\* The new MANIFEST leaves no log to replay, and the engine opens with it.
LEMMA OpenNumbers ==
    ASSUME FileInv, LogInv, SeqInv, SetCurrentFile \/ Opened
    PROVE  SeqInv' /\ (SetCurrentFile => LoggedEntries' = {} /\ written' = written)
<1>1. /\ bg = Idle /\ bg' = bg /\ up \in {"recovering", "installed"} /\ current' = current
      /\ mem = {} /\ imm = {} /\ group = NoGroup /\ writers = <<>>
      /\ UNCHANGED <<mem, imm, group, writers, written, logfile>>
  <2>1. up \in {"recovering", "installed"} /\ UNCHANGED <<bg, mem, imm, group, writers, written, current, logfile>>
    BY DEF SetCurrentFile, Opened, queue, history
  <2>2. QED
    BY <2>1 DEF FileInv, ThreadOK, LogInv, MemOK, SeqInv, WrittenNumbers
<1>2. /\ logfile \in DOMAIN logs /\ \A n \in DOMAIN logs : n \in Nat /\ n <= logfile
      /\ current.logNumber = logfile /\ LogEntries(logfile) = {}
  BY <1>1 DEF SeqInv, LogNumbers, LogInv, NumbersOK, RecordsOK
<1>3. /\ InGroup = {} /\ InGroup' = {} /\ Inflight' = {} /\ Inflight = {}
      /\ Memory' = {} /\ Memory = {} /\ Flushed' = written /\ EditHolds' = written
      /\ ~Flushes'
  BY <1>1 DEF InGroup, Inflight, Memory, Flushed, NoGroup, EditHolds, Flushes, Idle
<1>4. NumEntries(<<>>) = 0
  <2>1. Slots(<<>>) = {}
    BY DEF Slots
  <2>2. QED
    BY <2>1, FS_EmptySet DEF NumEntries
<1>5. MemoryNumbers'
  BY <1>1, <1>3 DEF MemoryNumbers, Before
<1>6. WrittenNumbers'
  BY <1>1, <1>3, <1>4 DEF SeqInv, WrittenNumbers
<1>7. GroupNumbers'
  <2>1. /\ group.phase = "none" /\ group.entries = {} /\ group.n = 0
    BY <1>1 DEF NoGroup
  <2>2. QED
    BY <1>1, <2>1 DEF SeqInv, GroupNumbers
<1>8. CASE SetCurrentFile
  <2>1. /\ up = "recovering" /\ up' = "installed" /\ logs' = logs
        /\ manifest'.logNumber = current.logNumber
        /\ manifest'.lastSequence = current.lastSequence
    BY <1>8 DEF SetCurrentFile
  <2>2. Replayed' = {logfile} /\ LoggedEntries' = {}
    <3>1. Replayed' = {logfile}
      BY <1>2, <2>1 DEF Replayed
    <3>2. PICK m : m = logfile
      OBVIOUS
    <3>3. LogEntries(m)' = {} /\ Replayed' = {m}
      BY <1>2, <2>1, <3>1, <3>2 DEF LogEntries
    <3>4. \A n \in Replayed' : LogEntries(n)' = {}
      BY <3>3
    <3>5. LoggedEntries' = {}
      BY <3>4 DEF LoggedEntries
    <3>6. QED
      BY <3>1, <3>5
  <2>3. LogNumbers'
    <3>1. LogEntries(logfile)' = {}
      BY <1>1, <1>2, <2>1 DEF LogEntries
    <3>2. \A n, p \in Replayed' : \A i \in DOMAIN logs'[n], j \in DOMAIN logs'[p] :
            n < p \/ (n = p /\ i < j) => Before(logs'[n][i], logs'[p][j])
      <4>1. Replayed' \subseteq Replayed
        <5>1. logfile \in Nat /\ manifest.logNumber \in Nat /\ manifest.logNumber <= logfile
          BY <1>2, <2>1 DEF LogInv, NumbersOK
        <5>2. QED
          BY <1>2, <2>2, <5>1 DEF Replayed
      <4>2. QED
        BY <2>1, <4>1 DEF SeqInv, LogNumbers
    <3>3. Before(written' \ LoggedEntries', LoggedEntries')
      BY <2>2 DEF Before
    <3>4. QED
      BY <1>1, <1>2, <2>1, <2>2, <3>1, <3>2, <3>3 DEF LogNumbers
  <2>4. ManifestNumbers'
    <3>1. /\ current.lastSequence \in 0..MaxSequence
          /\ \A e \in written : e.seq <= current.lastSequence
      BY <1>1, <1>3, <2>1 DEF SeqInv, WrittenNumbers
    <3>2. bg'.pc # "log"
      BY <1>1 DEF Idle
    <3>3. QED
      BY <1>1, <2>1, <3>1, <3>2 DEF ManifestNumbers
  <2>5. QED
    BY <1>1, <1>5, <1>6, <1>7, <2>2, <2>3, <2>4 DEF SeqInv
<1>9. CASE Opened
  <2>1. /\ up = "installed" /\ up' = "open" /\ manifest' = manifest
        /\ logs' = Only(logs, {n \in DOMAIN logs : n >= current.logNumber})
    BY <1>9 DEF Opened, DeleteObsoleteFiles
  <2>2. current.logNumber = manifest.logNumber
    BY <2>1 DEF LogInv, EditOK
  <2>3. /\ LoggedEntries' = LoggedEntries
        /\ DOMAIN logs' = {n \in DOMAIN logs : n >= manifest.logNumber}
        /\ \A n \in DOMAIN logs' : logs'[n] = logs[n]
    BY <2>1, <2>2, KeptLogs
  <2>4. LoggedEntries' = {}
    BY <2>1, <2>3 DEF SeqInv, LogNumbers
  <2>5. Replayed' = Replayed /\ Replayed = DOMAIN logs' /\ DOMAIN logs' \subseteq DOMAIN logs
    BY <2>1, <2>3 DEF Replayed
  <2>6. LogNumbers'
    <3>1. logfile \in DOMAIN logs'
      BY <1>2, <2>2, <2>3
    <3>2. LogEntries(logfile)' = {}
      BY <1>1, <1>2, <2>3, <3>1 DEF LogEntries
    <3>3. \A n, p \in Replayed' : \A i \in DOMAIN logs'[n], j \in DOMAIN logs'[p] :
            n < p \/ (n = p /\ i < j) => Before(logs'[n][i], logs'[p][j])
      BY <2>3, <2>5 DEF SeqInv, LogNumbers
    <3>4. UNION {LogEntries(n)' : n \in Replayed' \ {logfile'}} = {}
      BY <2>4 DEF LoggedEntries
    <3>5. Before(written' \ LoggedEntries', LoggedEntries') /\ LoggedEntries' \subseteq written'
      BY <2>4 DEF Before
    <3>6. \A n \in DOMAIN logs' : n <= logfile'
      BY <1>1, <1>2, <2>5
    <3>7. QED
      BY <1>1, <1>3, <2>1, <3>2, <3>3, <3>4, <3>5, <3>6 DEF LogNumbers
  <2>7. ManifestNumbers'
    <3>1. bg'.pc # "log"
      BY <1>1 DEF Idle
    <3>2. QED
      BY <1>1, <2>1, <2>3, <3>1 DEF SeqInv, ManifestNumbers
  <2>8. ~SetCurrentFile
    BY <2>1 DEF SetCurrentFile
  <2>9. QED
    BY <1>5, <1>6, <1>7, <2>6, <2>7, <2>8 DEF SeqInv
<1>10. QED
  BY <1>8, <1>9

\* Every step keeps the sequence numbers in their order.
LEMMA SeqNext == AckInv /\ FileInv /\ LogInv /\ SeqInv /\ [Next]_vars => SeqInv'
<1> SUFFICES ASSUME AckInv, FileInv, LogInv, SeqInv, [Next]_vars PROVE SeqInv'
  OBVIOUS
<1>1. CASE WriterStep
  BY <1>1, ThreadNumbers, SwitchNumbers, RecordNumbers, InsertNumbers, FinishNumbers,
     GroupStepNumbers DEF WriterStep
<1>2. CASE BackgroundStep
  BY <1>2, ThreadNumbers, ManifestStepNumbers, InstallNumbers DEF BackgroundStep
<1>3. CASE UNCHANGED vars
  BY <1>3, SameNumbers DEF vars, disk, queue, history, Flushes
<1>4. CASE StartGet \/ FinishGet
  BY <1>4, ThreadNumbers
<1>5. QED
  BY <1>1, <1>2, <1>3, <1>4, WriteNumbers, CrashNumbers, PowerNumbers, RecoverNumbers,
     OpenNumbers DEF Next

\* A database just created has no entries.
LEMMA InitNumbers == Init => SeqInv
<1> SUFFICES ASSUME Init PROVE SeqInv
  OBVIOUS
<1>1. /\ logs = [n \in {3} |-> <<>>] /\ logfile = 3 /\ up = "open" /\ bg = Idle
      /\ manifest.logNumber = 3 /\ manifest.lastSequence = 0 /\ current.lastSequence = 0
      /\ mem = {} /\ imm = {} /\ group = NoGroup /\ writers = <<>> /\ written = {}
  BY DEF Init, NoVersion
<1>2. /\ group.phase = "none" /\ group.entries = {} /\ group.n = 0 /\ bg.pc = "idle"
  BY <1>1 DEF NoGroup, Idle
<1>3. /\ Slots(<<>>) = {} /\ SubSeq(writers, 1, 0) = <<>>
  BY <1>1 DEF Slots
<1>4. NumEntries(<<>>) = 0
  BY <1>3, FS_EmptySet DEF NumEntries
<1>5. GroupNumbers
  BY <1>1, <1>2, <1>3, <1>4, FS_EmptySet DEF GroupNumbers
<1>6. WrittenNumbers
  BY <1>1, <1>4 DEF WrittenNumbers
<1>7. MemoryNumbers
  BY <1>1, <1>2 DEF MemoryNumbers, Before, Flushed, Memory, Inflight
<1>8. Replayed = {3} /\ LogEntries(3) = {} /\ LoggedEntries = {}
  <2>1. Replayed = {3} /\ LogEntries(3) = {}
    BY <1>1 DEF Replayed, LogEntries
  <2>2. LoggedEntries = UNION {LogEntries(n) : n \in {3}}
    BY <2>1 DEF LoggedEntries
  <2>3. QED
    BY <2>1, <2>2
<1>9. LogNumbers
  <2>1. \A n \in DOMAIN logs : n = 3 /\ DOMAIN logs[n] = {}
    BY <1>1
  <2>2. UNION {LogEntries(n) : n \in Replayed \ {logfile}} = {}
    BY <1>1, <1>8
  <2>3. Inflight = {} /\ ~Flushes
    BY <1>2 DEF Inflight, Flushes
  <2>4. \A n \in DOMAIN logs : n <= logfile
    BY <1>1, <2>1
  <2>5. Before(written \ LoggedEntries, LoggedEntries)
    BY <1>1 DEF Before
  <2>6. \A n, p \in Replayed : \A i \in DOMAIN logs[n], j \in DOMAIN logs[p] :
          n < p \/ (n = p /\ i < j) => Before(logs[n][i], logs[p][j])
    BY <2>1 DEF Replayed
  <2>7. QED
    BY <1>1, <1>8, <2>2, <2>3, <2>4, <2>5, <2>6 DEF LogNumbers
<1>10. ManifestNumbers
  BY <1>1, <1>2 DEF ManifestNumbers
<1>11. QED
  BY <1>5, <1>6, <1>7, <1>9, <1>10 DEF SeqInv
-----------------------------------------------------------------------------
(* Ranges of keys.                                                         *)

KeysOf(S) == {e.key : e \in S}

\* The keys of entries are keys.
LEMMA KeysAre ==
    ASSUME NEW S, S \subseteq Entry
    PROVE  /\ KeysOf(S) \subseteq Key /\ Key \subseteq Nat
           /\ \A e \in S : e.key \in Key /\ e.key \in KeysOf(S) /\ e.seq \in Nat
           /\ S # {} => KeysOf(S) # {}
BY DEF KeysOf, Entry

\* The range of a set of entries meets that of a file, or they are apart.
LEMMA RangesMeet ==
    ASSUME NEW S, S \subseteq Entry, S # {},
           NEW m, tables[m] \subseteq Entry, tables[m] # {}
    PROVE  Largest(m) >= Min(KeysOf(S)) /\ Smallest(m) <= Max(KeysOf(S))
               <=> ~Apart(tables[m], S)
<1> DEFINE A == KeysOf(tables[m])
           B == KeysOf(S)
<1>1. /\ A \subseteq Key /\ A # {} /\ B \subseteq Key /\ B # {} /\ Key \subseteq Nat
      /\ \A e \in tables[m] : e.key \in A
      /\ \A e \in S : e.key \in B
      /\ \A k \in A : \E e \in tables[m] : e.key = k
      /\ \A k \in B : \E e \in S : e.key = k
  BY KeysAre DEF KeysOf
<1>2. Smallest(m) = Min(A) /\ Largest(m) = Max(A)
  BY DEF Smallest, Largest, KeysOf
<1> HIDE DEF A, B
<1>3. /\ Min(A) \in A /\ Max(A) \in A /\ \A k \in A : Min(A) <= k /\ k <= Max(A)
      /\ Min(B) \in B /\ Max(B) \in B /\ \A k \in B : Min(B) <= k /\ k <= Max(B)
  BY <1>1, KeyExtremes
<1>4. Min(A) \in Nat /\ Max(A) \in Nat /\ Min(B) \in Nat /\ Max(B) \in Nat
  BY <1>1, <1>3
<1>5. ASSUME Max(A) >= Min(B), Min(A) <= Max(B), Apart(tables[m], S) PROVE FALSE
  <2>1. PICK a1 \in tables[m] : a1.key = Min(A)
    BY <1>1, <1>3
  <2>2. PICK a2 \in tables[m] : a2.key = Max(A)
    BY <1>1, <1>3
  <2>3. PICK b1 \in S : b1.key = Min(B)
    BY <1>1, <1>3
  <2>4. PICK b2 \in S : b2.key = Max(B)
    BY <1>1, <1>3
  <2>5. (a1.key < b2.key /\ a2.key < b1.key) \/ (b1.key < a2.key /\ b2.key < a1.key)
    BY <1>5 DEF Apart
  <2>6. QED
    BY <1>4, <1>5, <2>1, <2>2, <2>3, <2>4, <2>5
<1>6. ASSUME Max(A) < Min(B) PROVE Apart(tables[m], S)
  <2>1. ASSUME NEW e \in tables[m], NEW f \in S PROVE e.key < f.key
    <3>1. e.key \in A /\ f.key \in B /\ e.key \in Nat /\ f.key \in Nat
      BY <1>1
    <3>2. e.key <= Max(A) /\ Min(B) <= f.key
      BY <1>3, <3>1
    <3>3. QED
      BY <1>4, <1>6, <3>1, <3>2
  <2>2. QED
    BY <2>1 DEF Apart
<1>7. ASSUME Max(B) < Min(A) PROVE Apart(tables[m], S)
  <2>1. ASSUME NEW e \in tables[m], NEW f \in S PROVE f.key < e.key
    <3>1. e.key \in A /\ f.key \in B /\ e.key \in Nat /\ f.key \in Nat
      BY <1>1
    <3>2. f.key <= Max(B) /\ Min(A) <= e.key
      BY <1>3, <3>1
    <3>3. QED
      BY <1>4, <1>7, <3>1, <3>2
  <2>2. QED
    BY <2>1 DEF Apart
<1>8. Largest(m) >= Min(B) /\ Smallest(m) <= Max(B) <=> ~Apart(tables[m], S)
  BY <1>2, <1>4, <1>5, <1>6, <1>7
<1>9. QED
  BY <1>8 DEF B

TablesFilled(S) == \A n \in S : tables[n] # {} /\ tables[n] \subseteq Entry

\* The files that overlap a set of entries are those not apart from it.
LEMMA OverlappingIs ==
    ASSUME NEW F, TablesFilled(F), NEW S, S \subseteq Entry, S # {},
           NEW lo, NEW hi, lo = Min(KeysOf(S)), hi = Max(KeysOf(S))
    PROVE  Overlapping(F, lo, hi) = {n \in F : ~Apart(tables[n], S)}
<1>1. ASSUME NEW n \in F
      PROVE  Largest(n) >= Min(KeysOf(S)) /\ Smallest(n) <= Max(KeysOf(S))
                 <=> ~Apart(tables[n], S)
  BY RangesMeet DEF TablesFilled
<1>2. QED
  BY <1>1 DEF Overlapping

\* The range of files is the range of their entries.
LEMMA KeyRangeIs ==
    ASSUME NEW F
    PROVE  KeyRange(F) = <<Min(KeysOf(Entries(tables, F))), Max(KeysOf(Entries(tables, F)))>>
<1>1. UNION {{e.key : e \in tables[n]} : n \in F} = KeysOf(Entries(tables, F))
  BY DEF KeysOf, Entries
<1>2. QED
  BY <1>1 DEF KeyRange

\* Two sets of entries overlap when their ranges of keys meet.
LEMMA OverlapIs ==
    ASSUME NEW F, TablesFilled(F), NEW S, S \subseteq Entry, S # {}, ~Overlap(S, F)
    PROVE  \A n \in F : Apart(tables[n], S)
<1>1. CASE F = {}
  BY <1>1
<1>2. CASE F # {}
  <2>1. Overlapping(F, Min(KeysOf(S)), Max(KeysOf(S))) = {}
    BY <1>2 DEF Overlap, KeysOf
  <2>2. QED
    BY <2>1, OverlappingIs
<1>3. QED
  BY <1>1, <1>2

\* No file overlaps a key: none has it.
LEMMA KeyIsNotThere ==
    ASSUME NEW F, TablesFilled(F), NEW k \in Key, Overlapping(F, k, k) = {}
    PROVE  \A f \in Entries(tables, F) : f.key # k
<1> SUFFICES ASSUME NEW n \in F, NEW f \in tables[n], f.key = k PROVE FALSE
  BY DEF Entries
<1>1. KeysOf(tables[n]) \subseteq Key /\ k \in KeysOf(tables[n])
  BY KeysAre DEF TablesFilled
<1>2. Smallest(n) <= k /\ k <= Largest(n) /\ Smallest(n) \in Nat /\ Largest(n) \in Nat
  <2>1. Smallest(n) = Min(KeysOf(tables[n])) /\ Largest(n) = Max(KeysOf(tables[n]))
    BY DEF Smallest, Largest, KeysOf
  <2>2. /\ Min(KeysOf(tables[n])) \in KeysOf(tables[n]) /\ Min(KeysOf(tables[n])) <= k
        /\ Max(KeysOf(tables[n])) \in KeysOf(tables[n]) /\ k <= Max(KeysOf(tables[n]))
    BY <1>1, KeyExtremes
  <2>3. QED
    BY <1>1, <2>1, <2>2
<1>3. n \in Overlapping(F, k, k)
  BY <1>2 DEF Overlapping
<1>4. QED
  BY <1>3

-----------------------------------------------------------------------------
(* Inputs of a merge.                                                      *)

Below(t, x) == \A e \in t : e.key < x
Over(t, x)  == \A e \in t : x < e.key

\* A key is in the range of a table, above or below it.
LEMMA Sides ==
    ASSUME NEW t, t \subseteq Entry, NEW x \in Key
    PROVE  Spans(t, x) \/ Below(t, x) \/ Over(t, x)
<1>1. x \in Nat /\ \A e \in t : e.key \in Nat
  BY KeysAre
<1>2. QED
  BY <1>1 DEF Spans, Below, Over

\* A key that no file spans has every file of a covered set on one side.
LEMMA CoveredSides ==
    ASSUME NEW T, NEW B, Entries(T, B) \subseteq Entry, Covered(T, B), NEW x \in Key,
           \A n \in B : ~Spans(T[n], x)
    PROVE  Below(Entries(T, B), x) \/ Over(Entries(T, B), x)
<1>1. x \in Nat /\ \A e \in Entries(T, B) : e.key \in Nat
  BY KeysAre
<1>2. QED
  BY <1>1 DEF Covered, Below, Over

\* Files that are not apart from a covered range, whichever way, extend it.
LEMMA CoveredGrows ==
    ASSUME NEW T, NEW B, Entries(T, B) \subseteq Entry, Covered(T, B),
           NEW F, Entries(T, F) \subseteq Entry,
           \A n \in F : ~Apart(T[n], Entries(T, B))
    PROVE  Covered(T, B \cup F)
<1>1. SUFFICES ASSUME NEW e \in Entries(T, B \cup F), NEW f \in Entries(T, B \cup F),
                      NEW x \in Key, e.key <= x, x <= f.key,
                      \A n \in B \cup F : ~Spans(T[n], x)
               PROVE  FALSE
  BY DEF Covered
<1>2. /\ x \in Nat /\ \A a \in Entries(T, B) : a.key \in Nat
      /\ \A a \in Entries(T, F) : a.key \in Nat
  BY KeysAre
<1>3. \A n \in B \cup F : T[n] \subseteq Entry
  BY DEF Entries
<1>4. \A n \in F : T[n] \subseteq Entries(T, F)
  BY DEF Entries
<1>5. PICK n1 \in B \cup F : e \in T[n1]
  BY DEF Entries
<1>6. PICK n2 \in B \cup F : f \in T[n2]
  BY DEF Entries
<1>7. CASE Below(Entries(T, B), x)
  <2>1. ASSUME NEW n \in F PROVE Below(T[n], x)
    <3>1. Below(T[n], x) \/ Over(T[n], x)
      BY <1>1, <1>3, Sides
    <3>2. PICK a \in T[n], b \in Entries(T, B) : ~(b.key < a.key)
      BY DEF Apart
    <3>3. a.key \in Nat /\ b.key \in Nat /\ b.key < x
      BY <1>2, <1>4, <1>7 DEF Below
    <3>4. ~(x < a.key)
      BY <1>2, <3>2, <3>3
    <3>5. QED
      BY <3>1, <3>4 DEF Over
  <2>2. f.key < x
    BY <1>6, <1>7, <2>1 DEF Below, Entries
  <2>3. f.key \in Nat
    BY <1>2, <1>6 DEF Entries
  <2>4. QED
    BY <1>1, <1>2, <2>2, <2>3
<1>8. CASE Over(Entries(T, B), x)
  <2>1. ASSUME NEW n \in F PROVE Over(T[n], x)
    <3>1. Below(T[n], x) \/ Over(T[n], x)
      BY <1>1, <1>3, Sides
    <3>2. PICK a \in T[n], b \in Entries(T, B) : ~(a.key < b.key)
      BY DEF Apart
    <3>3. a.key \in Nat /\ b.key \in Nat /\ x < b.key
      BY <1>2, <1>4, <1>8 DEF Over
    <3>4. ~(a.key < x)
      BY <1>2, <3>2, <3>3
    <3>5. QED
      BY <3>1, <3>4 DEF Below
  <2>2. x < e.key
    BY <1>5, <1>8, <2>1 DEF Over, Entries
  <2>3. e.key \in Nat
    BY <1>2, <1>5 DEF Entries
  <2>4. QED
    BY <1>1, <1>2, <2>2, <2>3
<1>9. QED
  BY <1>1, <1>7, <1>8, CoveredSides

\* The files of a set that are not apart from S, and the smallest set closed
\* under that.
Meeting(T, F, S) == {n \in F : ~Apart(T[n], S)}
ClosedIn(T, F, X, S) ==
    /\ Meeting(T, F, X) \subseteq S
    /\ S # {} => Meeting(T, F, Entries(T, S)) \subseteq S

\* What is apart from a set is apart from a part of it.
LEMMA ApartParts ==
    ASSUME NEW t, NEW S, NEW U, Apart(t, S), U \subseteq S
    PROVE  Apart(t, U)
BY DEF Apart

\* The files that meet a set meet a larger one.
LEMMA MeetingMore ==
    ASSUME NEW T, NEW F, NEW S, NEW U, U \subseteq S
    PROVE  Meeting(T, F, U) \subseteq Meeting(T, F, S)
BY ApartParts DEF Meeting

\* Sets with an entry in common are not apart.
LEMMA NotApartFromItself ==
    ASSUME NEW t, NEW S, NEW e \in Entry, e \in t, e \in S
    PROVE  ~Apart(t, S)
<1>1. e.key \in Nat
  BY KeysAre
<1>2. QED
  BY <1>1 DEF Apart

\* What level 0 adds to a covered range.
LEMMA ClosureCovers ==
    ASSUME NEW T, NEW F, Entries(T, F) \subseteq Entry,
           NEW B, Entries(T, B) \subseteq Entry, Covered(T, B),
           NEW G, G = {n \in F : \A S \in SUBSET F : ClosedIn(T, F, Entries(T, B), S) => n \in S}
    PROVE  ClosedIn(T, F, Entries(T, B), G) /\ Covered(T, B \cup G)
<1>1. Meeting(T, F, Entries(T, B)) \subseteq G
  BY DEF ClosedIn, Meeting
<1>2. ASSUME G # {} PROVE Meeting(T, F, Entries(T, G)) \subseteq G
  <2> SUFFICES ASSUME NEW n \in Meeting(T, F, Entries(T, G)), NEW S \in SUBSET F,
                      ClosedIn(T, F, Entries(T, B), S)
               PROVE  n \in S
    BY DEF Meeting
  <2>1. G \subseteq S /\ S # {}
    BY <1>2
  <2>2. Entries(T, G) \subseteq Entries(T, S)
    BY <2>1 DEF Entries
  <2>3. QED
    BY <2>1, <2>2, MeetingMore DEF ClosedIn
<1>3. ASSUME NEW e \in Entries(T, B \cup G), NEW f \in Entries(T, B \cup G),
             NEW x \in Key, e.key <= x, x <= f.key,
             \A n \in B \cup G : ~Spans(T[n], x)
      PROVE  FALSE
  <2>1. Entries(T, G) \subseteq Entry /\ \A n \in F : T[n] \subseteq Entry
    BY DEF Entries
  <2>2. /\ x \in Nat /\ \A a \in Entries(T, B) : a.key \in Nat
        /\ \A n \in F : \A a \in T[n] : a.key \in Nat
    BY <2>1, KeysAre
  <2>3. e.key \in Nat /\ f.key \in Nat
    BY <2>2 DEF Entries
  <2>4. \A n \in G : Below(T[n], x) \/ Over(T[n], x)
    BY <1>3, <2>1, Sides
  <2>5. CASE Below(Entries(T, B), x)
    <3> DEFINE S == {n \in G : Below(T[n], x)}
    <3>1. ASSUME NEW U, Below(U, x), U \subseteq Entry, NEW n \in Meeting(T, F, U), n \in G PROVE n \in S
      <4>1. PICK a \in T[n], b \in U : ~(b.key < a.key)
        BY DEF Meeting, Apart
      <4>2. a.key \in Nat /\ b.key \in Nat /\ b.key < x
        BY <2>2, <3>1, KeysAre DEF Below
      <4>3. ~(x < a.key)
        BY <2>2, <4>1, <4>2
      <4>4. QED
        BY <2>4, <3>1, <4>3 DEF Over
    <3>2. Meeting(T, F, Entries(T, B)) \subseteq S
      BY <1>1, <2>5, <3>1
    <3>3. ASSUME S # {} PROVE Meeting(T, F, Entries(T, S)) \subseteq S
      <4>1. Below(Entries(T, S), x) /\ Entries(T, S) \subseteq Entries(T, G) /\ G # {}
        BY <3>3 DEF Below, Entries
      <4> HIDE DEF S
      <4>2. Meeting(T, F, Entries(T, S)) \subseteq G
        BY <1>2, <4>1, MeetingMore
      <4>3. QED
        BY <2>1, <3>1, <4>1, <4>2
    <3>4. ClosedIn(T, F, Entries(T, B), S) /\ S \in SUBSET F
      BY <3>2, <3>3 DEF ClosedIn
    <3>5. \A n \in G : Below(T[n], x)
      BY <3>4
    <3>6. f.key < x
      BY <2>5, <3>5 DEF Below, Entries
    <3>7. QED
      BY <1>3, <2>2, <2>3, <3>6
  <2>6. CASE Over(Entries(T, B), x)
    <3> DEFINE S == {n \in G : Over(T[n], x)}
    <3>1. ASSUME NEW U, Over(U, x), U \subseteq Entry, NEW n \in Meeting(T, F, U), n \in G PROVE n \in S
      <4>1. PICK a \in T[n], b \in U : ~(a.key < b.key)
        BY DEF Meeting, Apart
      <4>2. a.key \in Nat /\ b.key \in Nat /\ x < b.key
        BY <2>2, <3>1, KeysAre DEF Over
      <4>3. ~(a.key < x)
        BY <2>2, <4>1, <4>2
      <4>4. QED
        BY <2>4, <3>1, <4>3 DEF Below
    <3>2. Meeting(T, F, Entries(T, B)) \subseteq S
      BY <1>1, <2>6, <3>1
    <3>3. ASSUME S # {} PROVE Meeting(T, F, Entries(T, S)) \subseteq S
      <4>1. Over(Entries(T, S), x) /\ Entries(T, S) \subseteq Entries(T, G) /\ G # {}
        BY <3>3 DEF Over, Entries
      <4> HIDE DEF S
      <4>2. Meeting(T, F, Entries(T, S)) \subseteq G
        BY <1>2, <4>1, MeetingMore
      <4>3. QED
        BY <2>1, <3>1, <4>1, <4>2
    <3>4. ClosedIn(T, F, Entries(T, B), S) /\ S \in SUBSET F
      BY <3>2, <3>3 DEF ClosedIn
    <3>5. \A n \in G : Over(T[n], x)
      BY <3>4
    <3>6. x < e.key
      BY <2>6, <3>5 DEF Over, Entries
    <3>7. QED
      BY <1>3, <2>2, <2>3, <3>6
  <2>7. QED
    BY <1>3, <2>5, <2>6, CoveredSides
<1>4. Covered(T, B \cup G)
  BY <1>3 DEF Covered
<1>5. QED
  BY <1>1, <1>2, <1>4 DEF ClosedIn

\* GetOverlappingInputs for the range of the files B.
Get(levels, l, B) == GetOverlappingInputs(levels, l, KeyRange(B)[1], KeyRange(B)[2])

\* GetOverlappingInputs finds every file that meets the range, and at level 0
\* closes the set.
LEMMA GetIs ==
    ASSUME NEW levels, NEW l \in Level, TablesFilled(levels[l]),
           NEW B, TablesFilled(B), B # {}
    PROVE  /\ Get(levels, l, B) \subseteq levels[l]
           /\ Meeting(tables, levels[l], Entries(tables, B)) \subseteq Get(levels, l, B)
           /\ l > 0 => Get(levels, l, B) = Meeting(tables, levels[l], Entries(tables, B))
           /\ l = 0 /\ Get(levels, l, B) # {} =>
                 Meeting(tables, levels[l], Entries(tables, Get(levels, l, B)))
                     \subseteq Get(levels, l, B)
           /\ Covered(tables, B) => Covered(tables, B \cup Get(levels, l, B))
<1> DEFINE X == Entries(tables, B)
           F == levels[l]
<1>1. PICK G : G = Get(levels, l, B)
  OBVIOUS
<1>2. PICK lo, hi : lo = KeyRange(B)[1] /\ hi = KeyRange(B)[2]
  OBVIOUS
<1>3. X \subseteq Entry /\ X # {} /\ Entries(tables, F) \subseteq Entry
  BY DEF TablesFilled, Entries
<1>4. \A S : S # {} /\ S \subseteq F => /\ TablesFilled(S) /\ Entries(tables, S) \subseteq Entry
                                        /\ Entries(tables, S) # {}
  BY DEF TablesFilled, Entries
<1>5. ASSUME NEW S, S \subseteq Entry, S # {}
      PROVE  Overlapping(F, Min(KeysOf(S)), Max(KeysOf(S))) = Meeting(tables, F, S)
  BY <1>5, OverlappingIs DEF Meeting
<1>6. Overlapping(F, lo, hi) = Meeting(tables, F, X)
  BY <1>2, <1>3, <1>5, KeyRangeIs
<1>7. G = GetOverlappingInputs(levels, l, lo, hi)
  BY <1>1, <1>2 DEF Get
<1>8. CASE l > 0
  <2>1. G = Meeting(tables, F, X)
    BY <1>6, <1>7, <1>8 DEF GetOverlappingInputs
  <2>2. G \subseteq F /\ \A n \in G : ~Apart(tables[n], X)
    BY <2>1 DEF Meeting
  <2>3. Entries(tables, G) \subseteq Entry
    BY <1>3, <2>2 DEF Entries
  <2>4. Covered(tables, B) => Covered(tables, B \cup G)
    BY <1>3, <2>2, <2>3, CoveredGrows
  <2>5. l # 0
    BY <1>8 DEF Level
  <2>6. QED
    BY <1>1, <1>8, <2>1, <2>2, <2>4, <2>5
<1>9. CASE l = 0
  <2>1. ASSUME NEW S \in SUBSET F
        PROVE  /\ S # {} => Overlapping(F, KeyRange(S)[1], KeyRange(S)[2])
                                = Meeting(tables, F, Entries(tables, S))
    BY <1>4, <1>5, KeyRangeIs
  <2>2. ASSUME NEW S \in SUBSET F
        PROVE  ClosedIn(tables, F, X, S) <=>
                  /\ Overlapping(F, lo, hi) \subseteq S
                  /\ S # {} => Overlapping(F, KeyRange(S)[1], KeyRange(S)[2]) \subseteq S
    BY <1>6, <2>1 DEF ClosedIn
  <2>3. G = {n \in F : \A S \in SUBSET F :
                 (/\ Overlapping(F, lo, hi) \subseteq S
                  /\ S # {} => Overlapping(F, KeyRange(S)[1], KeyRange(S)[2]) \subseteq S)
                 => n \in S}
    BY <1>7, <1>9 DEF GetOverlappingInputs
  <2> HIDE DEF F, X
  <2>4. G = {n \in F : \A S \in SUBSET F : ClosedIn(tables, F, X, S) => n \in S}
    BY <2>2, <2>3
  <2>5. Covered(tables, B) => Covered(tables, B \cup G)
    BY <1>3, <2>4, ClosureCovers DEF X
  <2>6. ClosedIn(tables, F, X, G)
    <3>1. Meeting(tables, F, X) \subseteq G
      BY <2>4 DEF ClosedIn, Meeting
    <3>2. ASSUME G # {} PROVE Meeting(tables, F, Entries(tables, G)) \subseteq G
      <4> SUFFICES ASSUME NEW n \in Meeting(tables, F, Entries(tables, G)), NEW S \in SUBSET F,
                          ClosedIn(tables, F, X, S)
                   PROVE  n \in S
        BY <2>4 DEF Meeting
      <4>1. G \subseteq S /\ S # {}
        BY <2>4, <3>2
      <4>2. Entries(tables, G) \subseteq Entries(tables, S)
        BY <4>1 DEF Entries
      <4>3. QED
        BY <4>1, <4>2, MeetingMore DEF ClosedIn
    <3>3. QED
      BY <3>1, <3>2 DEF ClosedIn
  <2>7. G \subseteq F
    BY <2>4
  <2>8. ~(l > 0)
    BY <1>9
  <2>9. QED
    BY <1>1, <1>9, <2>5, <2>6, <2>7, <2>8 DEF ClosedIn, F, X
<1>10. l \in Nat
  BY DEF Level
<1>11. QED
  BY <1>8, <1>9, <1>10

\* What may be merged: the inputs cover a range of keys, and the other files of
\* their levels are apart from them.
MayMerge(T, levels, L, in0, in1) ==
    /\ in0 \subseteq levels[L] /\ in0 # {} /\ in1 \subseteq levels[L + 1]
    /\ Covered(T, in0 \cup in1)
    /\ \A n \in levels[L] \ in0, m \in in0 : Apart(T[n], T[m])
    /\ \A n \in levels[L + 1] \ in1, m \in in0 \cup in1 : Apart(T[n], T[m])

\* One file covers its range.
LEMMA CoveredFile ==
    ASSUME NEW T, NEW n
    PROVE  Covered(T, {n})
BY DEF Covered, Entries, Spans

\* The inputs of a merge leave nothing behind that meets them.
LEMMA MergeInputs ==
    ASSUME NEW levels, levels = current.levels,
           \A l \in Level : TablesFilled(levels[l]) /\ IsFiniteSet(levels[l]),
           Sorted(tables, levels),
           NEW L \in 0 .. kNumLevels - 2, NEW file \in levels[L], NEW in \in Inputs(L, file)
    PROVE  MayMerge(tables, levels, L, in[1], in[2])
<1> DEFINE in0  == IF L = 0 THEN Get(levels, 0, {file}) ELSE {file}
           in1  == Get(levels, L + 1, in0)
           wide == Get(levels, L, in0 \cup in1)
           in1w == Get(levels, L + 1, wide)
<1>1. /\ (in = <<in0, in1>> \/ (in = <<wide, in1w>> /\ Cardinality(in1w) = Cardinality(in1)))
      /\ L \in Level /\ L + 1 \in Level /\ L + 1 > 0 /\ L \in Nat
  <2>1. (in = <<in0, in1>> \/ (in = <<wide, in1w>> /\ Cardinality(in1w) = Cardinality(in1)))
    BY DEF Inputs, Get
  <2>2. L \in Level /\ L + 1 \in Level /\ L + 1 > 0 /\ L \in Nat
    BY DEF Level
  <2>3. QED
    BY <2>1, <2>2
<1>2. ASSUME NEW l \in Level, NEW n \in levels[l], NEW S, n \in S
      PROVE  ~Apart(tables[n], Entries(tables, S))
  <2>1. tables[n] # {} /\ tables[n] \subseteq Entry /\ tables[n] \subseteq Entries(tables, S)
    BY <1>2 DEF TablesFilled, Entries
  <2>2. QED
    BY <2>1, NotApartFromItself
\* Two files of a set with neither apart from a third.
<1>3. ASSUME NEW l \in Level, l > 0, NEW m \in levels[l], NEW n \in levels[l], m # n
      PROVE  Apart(tables[m], tables[n])
  BY <1>3 DEF Sorted, Level
<1>4. ASSUME NEW n, NEW S, Apart(tables[n], Entries(tables, S)), NEW m \in S
      PROVE  Apart(tables[n], tables[m])
  <2>1. tables[m] \subseteq Entries(tables, S)
    BY DEF Entries
  <2>2. QED
    BY <1>4, <2>1, ApartParts
<1>5. /\ in0 \subseteq levels[L] /\ file \in in0 /\ Covered(tables, in0)
      /\ \A n \in levels[L] \ in0, m \in in0 : Apart(tables[n], tables[m])
  <2>1. CASE L = 0
    <3>1. TablesFilled({file}) /\ Covered(tables, {file}) /\ L \in Level /\ TablesFilled(levels[L])
      BY <1>1, CoveredFile DEF TablesFilled
    <3>2. PICK G : G = Get(levels, L, {file})
      OBVIOUS
    <3>3. /\ G \subseteq levels[L]
          /\ Meeting(tables, levels[L], Entries(tables, {file})) \subseteq G
          /\ G # {} => Meeting(tables, levels[L], Entries(tables, G)) \subseteq G
          /\ Covered(tables, {file} \cup G)
      BY <2>1, <3>1, <3>2, GetIs
    <3>4. file \in G
      BY <1>1, <1>2, <3>3 DEF Meeting
    <3>5. {file} \cup G = G
      BY <3>4
    <3>6. ASSUME NEW n \in levels[L] \ G, NEW m \in G PROVE Apart(tables[n], tables[m])
      BY <1>4, <3>3 DEF Meeting
    <3>7. QED
      BY <2>1, <3>2, <3>3, <3>4, <3>5, <3>6
  <2>2. CASE L # 0
    <3>1. in0 = {file} /\ L > 0 /\ L \in Level
      BY <1>1, <2>2
    <3> HIDE DEF in0
    <3>2. Covered(tables, in0)
      BY <3>1, CoveredFile
    <3>3. \A n \in levels[L] \ in0, m \in in0 : Apart(tables[n], tables[m])
      BY <1>3, <3>1
    <3>4. QED
      BY <3>1, <3>2, <3>3
  <2>3. QED
    BY <2>1, <2>2
<1> HIDE DEF in0
<1>6. TablesFilled(in0) /\ in0 # {}
  BY <1>1, <1>5 DEF TablesFilled
<1>7. /\ in1 = Meeting(tables, levels[L + 1], Entries(tables, in0))
      /\ Covered(tables, in0 \cup in1)
  BY <1>1, <1>5, <1>6, GetIs
<1> HIDE DEF in1
<1>8. /\ in1 \subseteq levels[L + 1]
      /\ \A n \in levels[L + 1] \ in1, m \in in0 \cup in1 : Apart(tables[n], tables[m])
  <2>1. in1 \subseteq levels[L + 1]
    BY <1>7 DEF Meeting
  <2>2. ASSUME NEW n \in levels[L + 1] \ in1, NEW m \in in0 PROVE Apart(tables[n], tables[m])
    BY <1>4, <1>7 DEF Meeting
  <2>3. ASSUME NEW n \in levels[L + 1] \ in1, NEW m \in in1 PROVE Apart(tables[n], tables[m])
    BY <1>1, <1>3, <2>1
  <2>4. QED
    BY <2>1, <2>2, <2>3
<1>9. CASE in = <<in0, in1>>
  BY <1>5, <1>7, <1>8, <1>9 DEF MayMerge
<1>10. CASE in = <<wide, in1w>> /\ Cardinality(in1w) = Cardinality(in1)
  <2>1. TablesFilled(in0 \cup in1) /\ in0 \cup in1 # {}
    BY <1>1, <1>6, <1>8 DEF TablesFilled
  <2>2. /\ wide \subseteq levels[L]
        /\ Meeting(tables, levels[L], Entries(tables, in0 \cup in1)) \subseteq wide
        /\ L = 0 /\ wide # {} => Meeting(tables, levels[L], Entries(tables, wide)) \subseteq wide
        /\ Covered(tables, (in0 \cup in1) \cup wide)
    BY <1>1, <1>7, <2>1, GetIs
  <2> HIDE DEF wide
  <2>3. in0 \subseteq wide
    <3>1. ASSUME NEW n \in in0 PROVE n \in wide
      BY <1>1, <1>2, <1>5, <2>2 DEF Meeting
    <3>2. QED
      BY <3>1
  <2>4. TablesFilled(wide) /\ wide # {}
    BY <1>1, <1>5, <2>2, <2>3 DEF TablesFilled
  <2>5. in1w = Meeting(tables, levels[L + 1], Entries(tables, wide))
    BY <1>1, <2>4, GetIs
  <2> HIDE DEF in1w
  <2>6. in1 \subseteq in1w
    <3>1. Entries(tables, in0) \subseteq Entries(tables, wide)
      BY <2>3 DEF Entries
    <3>2. QED
      BY <1>7, <2>5, <3>1, MeetingMore
  <2>7. in1w = in1
    <3>1. in1w \subseteq levels[L + 1] /\ IsFiniteSet(levels[L + 1])
      BY <1>1, <2>5 DEF Meeting
    <3>2. IsFiniteSet(in1w)
      BY <3>1, FS_Subset
    <3>3. QED
      BY <1>10, <2>6, <3>2, FS_Subset
  <2>8. Covered(tables, wide \cup in1w)
    <3>1. (in0 \cup in1) \cup wide = wide \cup in1w
      BY <2>3, <2>7
    <3>2. QED
      BY <2>2, <3>1
  <2>9. ASSUME NEW n \in levels[L] \ wide, NEW m \in wide PROVE Apart(tables[n], tables[m])
    <3>1. CASE L = 0
      BY <1>4, <2>2, <2>4, <3>1 DEF Meeting
    <3>2. CASE L # 0
      BY <1>1, <1>3, <2>2, <3>2
    <3>3. QED
      BY <3>1, <3>2
  <2>10. ASSUME NEW n \in levels[L + 1] \ in1w, NEW m \in wide \cup in1w
         PROVE  Apart(tables[n], tables[m])
    <3>1. CASE m \in wide
      BY <1>4, <2>5, <3>1 DEF Meeting
    <3>2. CASE m \in in1w
      BY <1>1, <1>3, <1>8, <2>7, <3>2
    <3>3. QED
      BY <3>1, <3>2
  <2>11. in[1] = wide /\ in[2] = in1w
    BY <1>10
  <2>12. QED
    BY <1>8, <2>2, <2>4, <2>7, <2>8, <2>9, <2>10, <2>11 DEF MayMerge
<1>11. QED
  BY <1>1, <1>9, <1>10
-----------------------------------------------------------------------------
(* Levels and their edits.                                                 *)

\* The entries of files that stay are the same.
LEMMA SameEntries ==
    ASSUME NEW T, NEW U, NEW S, \A n \in S : T[n] = U[n]
    PROVE  Entries(T, S) = Entries(U, S)
BY DEF Entries

\* The files of the levels are what counts.
LEMMA GoodKept ==
    ASSUME NEW T, NEW U, NEW levels, NEW W, \A n \in Files(levels) : T[n] = U[n],
           Good(T, levels, W)
    PROVE  Good(U, levels, W)
<1>1. 0 \in Level /\ \A l \in Level : levels[l] \subseteq Files(levels)
  BY DEF Level, Files
<1>2. \A l \in Level : Entries(T, levels[l]) = Entries(U, levels[l])
  BY <1>1, SameEntries
<1>3. Entries(T, Files(levels)) = Entries(U, Files(levels))
  BY SameEntries
<1>4. Sorted(U, levels)
  BY <1>1, <1>2 DEF Good, Sorted
<1>5. Holds(U, levels, W)
  BY <1>3 DEF Good, Holds
<1>6. QED
  BY <1>4, <1>5 DEF Good

\* A merge has its place while the files of the levels stay.
LEMMA PlaceKept ==
    ASSUME NEW T, NEW U, NEW c, NEW levels, \A n \in Files(levels) : T[n] = U[n],
           MergePlace(T, c, levels)
    PROVE  MergePlace(U, c, levels)
<1>1. \A l \in Level : levels[l] \subseteq Files(levels)
  BY DEF Files
<1>2. c.in0 \cup c.in1 \subseteq Files(levels)
  BY <1>1 DEF MergePlace
<1>3. Merged(T, c) = Merged(U, c)
  BY <1>2, SameEntries DEF Merged
<1>4. QED
  BY <1>1, <1>2, <1>3 DEF MergePlace

\* A merge has done what it has done while its files stay.
LEMMA DoneKept ==
    ASSUME NEW T, NEW U, NEW c,
           \A n \in c.in0 \cup c.in1 \cup c.outputs \cup Files(c.base) : T[n] = U[n],
           MergeDone(T, c)
    PROVE  MergeDone(U, c)
<1>1. Merged(T, c) = Merged(U, c)
  BY SameEntries DEF Merged
<1>2. Entries(T, c.outputs) = Entries(U, c.outputs)
  BY SameEntries
<1>3. \A l \in Level : Entries(T, c.base[l]) = Entries(U, c.base[l])
  <2>1. \A l \in Level : c.base[l] \subseteq Files(c.base)
    BY DEF Files
  <2>2. QED
    BY <2>1, SameEntries
<1>4. Covered(U, c.in0 \cup c.in1)
  <2>1. Entries(T, c.in0 \cup c.in1) = Entries(U, c.in0 \cup c.in1)
    BY SameEntries
  <2>2. QED
    BY <2>1 DEF MergeDone, Covered
<1>5. Replaces(U, c, Entries(U, c.outputs), {e \in Merged(U, c) : e.key \notin c.todo})
  BY <1>1, <1>2, <1>3 DEF MergeDone, Replaces
<1>6. QED
  BY <1>1, <1>2, <1>4, <1>5 DEF MergeDone

\* The entries of a level are entries of the levels.
LEMMA EntriesUp ==
    ASSUME NEW T, NEW levels, NEW l \in Level
    PROVE  Entries(T, levels[l]) \subseteq Entries(T, Files(levels))
BY DEF Entries, Files

\* New levels: I is taken out of level L and J out of level K, and O put into K.
Swapped(new, lv, L, I, K, J, O) ==
    /\ L \in Level => new[L] = lv[L] \ I
    /\ K \in Level => new[K] = (lv[K] \ J) \cup O
    /\ \A m \in Level : m # L /\ m # K => new[m] = lv[m]

\* A merge: the inputs give way to what replaces them.
LEMMA MergedLevels ==
    ASSUME NEW T, NEW c, NEW lv, NEW W, W \subseteq Entry, Good(T, lv, W), MergePlace(T, c, lv),
           Covered(T, c.in0 \cup c.in1),
           Replaces(T, c, Entries(T, c.outputs), Merged(T, c)),
           \A m, n \in c.outputs : m # n => Apart(T[m], T[n]),
           NEW new,
           Swapped(new, lv, c.level, c.in0, c.level + 1, c.in1, c.outputs)
    PROVE  Good(T, new, W)
<1>0. PICK L, K, M, O : /\ L = c.level /\ K = c.level + 1
                      /\ M = Merged(T, c) /\ O = Entries(T, c.outputs)
  OBVIOUS
<1>1. /\ L \in Level /\ K \in Level /\ 0 \in Level /\ \A l \in Level : l \in Nat
      /\ K = L + 1 /\ K # L /\ K # 0 /\ L < K
  <2>1. L \in Level /\ L + 1 \in Level
    BY <1>0 DEF MergePlace
  <2>2. 0 \in Level /\ \A l \in Level : l \in Nat
    BY DEF Level
  <2>3. QED
    BY <1>0, <2>1, <2>2
<1>a. /\ new[L] = lv[L] \ c.in0
      /\ new[K] = (lv[K] \ c.in1) \cup c.outputs
      /\ \A l \in Level : l # L /\ l # K => new[l] = lv[l]
  BY <1>0, <1>1 DEF Swapped
<1>b. /\ c.in0 \subseteq lv[L] /\ c.in1 \subseteq lv[K]
      /\ \A n \in lv[L] \ c.in0 : Above(T[n], M)
      /\ \A n \in lv[K] \ c.in1, m \in c.in0 \cup c.in1 : Apart(T[n], T[m])
      /\ \A l \in Level : l > K => \A n \in lv[l] \ c.base[l] : Above(T[n], M)
  BY <1>0 DEF MergePlace
<1>c. /\ O \subseteq M
      /\ \A e \in M : Latest(e, M) =>
            \/ e \in O
            \/ /\ ~e.put /\ \A f \in O : f.key # e.key
               /\ \A l \in Level : l > K => \A f \in Entries(T, c.base[l]) : f.key # e.key
  BY <1>0 DEF Replaces
<1>d. M = Entries(T, c.in0 \cup c.in1)
  BY <1>0 DEF Merged
<1>e. O = Entries(T, c.outputs)
  BY <1>0
<1>2. O \subseteq M /\ M \subseteq Entries(T, lv[L]) \cup Entries(T, lv[K])
  BY <1>b, <1>c, <1>d DEF Entries
<1>3. ASSUME NEW l \in Level PROVE Entries(T, lv[l]) \subseteq W
  BY EntriesUp DEF Good, Holds
<1>4. M \subseteq W /\ O \subseteq W
  BY <1>1, <1>2, <1>3
<1>5. \A e \in W : e.key \in Nat /\ e.seq \in Nat
  BY KeysAre
\* Where the entries of the new levels come from.
<1>6. ASSUME NEW l \in Level, NEW e \in Entries(T, new[l])
      PROVE  \/ l # K /\ e \in Entries(T, lv[l])
             \/ l = K /\ \E n \in lv[l] \ c.in1 : e \in T[n]
             \/ l = K /\ e \in O
  <2>1. CASE l = L
    BY <1>1, <1>a, <2>1 DEF Entries
  <2>2. CASE l = K
    BY <1>a, <1>e, <2>2 DEF Entries
  <2>3. CASE l # L /\ l # K
    BY <1>a, <2>3
  <2>4. QED
    BY <2>1, <2>2, <2>3
<1>7. ASSUME NEW e \in Entries(T, new[L])
      PROVE  \E n \in lv[L] \ c.in0 : e \in T[n]
  BY <1>a DEF Entries
<1>8. ASSUME NEW l \in Level, NEW m \in Level, l < m,
             NEW e \in Entries(T, lv[l]), NEW f \in Entries(T, lv[m]), e.key = f.key
      PROVE  f.seq < e.seq
  BY <1>8 DEF Good, Sorted, Above
<1>9. ASSUME NEW l \in Level, NEW m \in Level, l < m,
             NEW e \in Entries(T, new[l]), NEW f \in Entries(T, new[m]), e.key = f.key
      PROVE  f.seq < e.seq
  <2>1. CASE f \in Entries(T, lv[m])
    <3>1. CASE e \in Entries(T, lv[l])
      BY <1>8, <1>9, <2>1, <3>1
    <3>2. CASE l = K /\ e \in O
      <4>1. e \in Entries(T, lv[L]) \/ e \in Entries(T, lv[l])
        BY <1>2, <3>2
      <4>2. L < m
        BY <1>1, <1>9, <3>2
      <4>3. QED
        BY <1>1, <1>8, <1>9, <2>1, <4>1, <4>2
    <3>3. QED
      BY <1>6, <3>1, <3>2 DEF Entries
  <2>2. CASE m = K /\ f \in O
    <3>1. l # K /\ e \in Entries(T, lv[l]) /\ l <= L
      BY <1>1, <1>6, <1>9, <2>2
    <3>2. CASE l = L
      <4>1. PICK n \in lv[L] \ c.in0 : e \in T[n]
        BY <1>7, <3>2
      <4>2. Above(T[n], M)
        BY <1>b
      <4>3. QED
        BY <1>2, <1>9, <2>2, <4>1, <4>2 DEF Above
    <3>3. CASE l < L
      <4>1. f \in Entries(T, lv[L]) \/ f \in Entries(T, lv[K])
        BY <1>2, <2>2
      <4>2. l < K
        BY <1>1, <3>3
      <4>3. QED
        BY <1>1, <1>8, <1>9, <3>1, <3>3, <4>1, <4>2
    <3>4. QED
      BY <1>1, <3>1, <3>2, <3>3
  <2>3. QED
    BY <1>6, <2>1, <2>2 DEF Entries
<1>10. ASSUME NEW l \in Level, l # K PROVE new[l] \subseteq lv[l]
  BY <1>10, <1>a
<1>11. ASSUME NEW n \in lv[K] \ c.in1, NEW o \in c.outputs PROVE Apart(T[n], T[o])
  <2>1. T[o] \subseteq M /\ \A m \in c.in0 \cup c.in1 : Apart(T[n], T[m])
    BY <1>2, <1>b, <1>e DEF Entries
  <2>2. T[n] \subseteq W /\ T[o] \subseteq W
    BY <1>1, <1>3, <1>4, <2>1 DEF Entries
  <2>3. ASSUME NEW a \in T[n] PROVE (\A e \in M : a.key < e.key) \/ (\A e \in M : e.key < a.key)
    <3> SUFFICES ASSUME NEW e \in M, ~(a.key < e.key), NEW f \in M, ~(f.key < a.key) PROVE FALSE
      OBVIOUS
    <3>1. a.key \in Key /\ e.key \in Nat /\ f.key \in Nat /\ a.key \in Nat
      BY <1>4, <1>5, <2>2 DEF Entry
    <3>2. e.key <= a.key /\ a.key <= f.key
      BY <3>1
    <3>3. PICK m \in c.in0 \cup c.in1 : Spans(T[m], a.key)
      BY <1>d, <3>1, <3>2 DEF Covered
    <3>4. PICK x \in T[m], y \in T[m] : x.key <= a.key /\ a.key <= y.key
      BY <3>3 DEF Spans
    <3>5. x \in M /\ y \in M
      BY <1>d, <3>4 DEF Entries
    <3>6. x.key \in Nat /\ y.key \in Nat
      BY <1>4, <1>5, <3>5
    <3>7. Apart(T[n], T[m])
      BY <2>1
    <3>8. QED
      BY <3>1, <3>4, <3>6, <3>7 DEF Apart
  \* All of n is on one side: a range between two of its keys would meet an input.
  <2>4. CASE \E a \in T[n] : \A e \in M : a.key < e.key
    <3>1. PICK a \in T[n] : \A e \in M : a.key < e.key
      BY <2>4
    <3>2. ASSUME NEW b \in T[n], NEW e \in T[o], ~(b.key < e.key) PROVE FALSE
      <4>1. e \in M /\ e.key < b.key /\ a.key < e.key
        BY <2>1, <2>3, <3>1, <3>2
      <4>2. PICK m \in c.in0 \cup c.in1 : e \in T[m]
        BY <1>d, <4>1 DEF Entries
      <4>3. Apart(T[n], T[m])
        BY <2>1
      <4>4. a.key \in Nat /\ b.key \in Nat /\ e.key \in Nat
        BY <1>5, <2>2
      <4>5. QED
        BY <4>1, <4>2, <4>3, <4>4 DEF Apart
    <3>3. QED
      BY <3>2 DEF Apart
  <2>5. CASE ~\E a \in T[n] : \A e \in M : a.key < e.key
    BY <2>1, <2>3, <2>5 DEF Apart
  <2>6. QED
    BY <2>4, <2>5
<1>12. ASSUME NEW n, NEW m, Apart(T[n], T[m]) PROVE Apart(T[m], T[n])
  BY <1>12 DEF Apart
<1>13. ASSUME NEW l \in Level \ {0}, NEW m \in new[l], NEW n \in new[l], m # n
       PROVE  Apart(T[m], T[n])
  <2>1. CASE m \in lv[l] /\ n \in lv[l]
    BY <1>13, <2>1 DEF Good, Sorted
  <2>2. CASE l = K
    <3>1. new[l] = (lv[K] \ c.in1) \cup c.outputs
      BY <1>a, <2>2
    <3>2. QED
      BY <1>11, <1>12, <1>13, <2>1, <2>2, <3>1
  <2>3. QED
    BY <1>10, <2>1, <2>2
<1>14. Sorted(T, new)
  <2>1. \A l, m \in Level : l < m => Above(Entries(T, new[l]), Entries(T, new[m]))
    BY <1>9 DEF Above
  <2>2. new[0] \subseteq lv[0]
    BY <1>1, <1>10
  <2>3. \A n, p \in new[0] : p < n => Above(T[n], T[p])
    BY <2>2 DEF Good, Sorted
  <2>4. QED
    BY <1>13, <2>1, <2>3 DEF Sorted
<1>15. Entries(T, Files(new)) \subseteq W
  <2> SUFFICES ASSUME NEW l \in Level, NEW e \in Entries(T, new[l]) PROVE e \in W
    BY DEF Entries, Files
  <2>1. e \in Entries(T, lv[l]) \/ e \in O
    BY <1>6 DEF Entries
  <2>2. QED
    BY <1>3, <1>4, <2>1
<1>16. ASSUME NEW e \in W, Latest(e, W)
       PROVE  \/ e \in Entries(T, Files(new))
              \/ ~e.put /\ \A f \in Entries(T, Files(new)) : f.key # e.key
  <2>1. CASE ~e.put /\ \A f \in Entries(T, Files(lv)) : f.key # e.key
    <3>1. Entries(T, Files(new)) \subseteq Entries(T, Files(lv))
      <4> SUFFICES ASSUME NEW l \in Level, NEW f \in Entries(T, new[l])
                   PROVE  f \in Entries(T, Files(lv))
        BY DEF Entries, Files
      <4>1. f \in Entries(T, lv[l]) \/ f \in Entries(T, lv[L]) \/ f \in Entries(T, lv[K])
        BY <1>2, <1>6 DEF Entries
      <4>2. QED
        BY <1>1, <4>1, EntriesUp
    <3>2. QED
      BY <2>1, <3>1
  <2>2. CASE e \in Entries(T, Files(lv)) /\ e \notin M
    <3>1. PICK l, n : l \in Level /\ n \in lv[l] /\ e \in T[n]
      BY <2>2 DEF Entries, Files
    <3>2. n \notin c.in0 \cup c.in1
      BY <1>d, <2>2, <3>1 DEF Entries
    <3>3. n \in new[l]
      BY <1>1, <1>a, <3>1, <3>2
    <3>4. QED
      BY <3>1, <3>3 DEF Entries, Files
  <2>3. CASE e \in M
    <3>1. Latest(e, M)
      BY <1>4, <1>16 DEF Latest
    <3>2. CASE e \in O
      <4>1. PICK n \in c.outputs : e \in T[n]
        BY <1>e, <3>2 DEF Entries
      <4>2. n \in new[K]
        BY <1>a
      <4>3. QED
        BY <1>1, <4>1, <4>2 DEF Entries, Files
    <3>3. CASE /\ ~e.put /\ \A f \in O : f.key # e.key
               /\ \A l \in Level : l > K => \A f \in Entries(T, c.base[l]) : f.key # e.key
      <4> SUFFICES ASSUME NEW l \in Level, NEW f \in Entries(T, new[l]), f.key = e.key
                   PROVE  FALSE
        BY <3>3 DEF Entries, Files
      <4>1. f \in W /\ f.seq <= e.seq /\ f.seq \in Nat /\ e.seq \in Nat
        BY <1>5, <1>15, <1>16 DEF Latest, Entries, Files
      <4>2. f \notin O
        BY <3>3
      <4>3. CASE l < L
        <5>1. f \in Entries(T, lv[l]) /\ l < K
          BY <1>1, <1>6, <4>2, <4>3
        <5>2. e \in Entries(T, lv[L]) \/ e \in Entries(T, lv[K])
          BY <1>2, <2>3
        <5>3. e.seq < f.seq
          BY <1>1, <1>8, <4>3, <5>1, <5>2
        <5>4. QED
          BY <4>1, <5>3
      <4>4. CASE l = L
        <5>1. PICK n \in lv[L] \ c.in0 : f \in T[n]
          BY <1>7, <4>4
        <5>2. e.seq < f.seq
          BY <1>b, <2>3, <5>1 DEF Above
        <5>3. QED
          BY <4>1, <5>2
      <4>5. CASE l = K
        <5>1. PICK n \in lv[K] \ c.in1 : f \in T[n]
          BY <1>6, <4>2, <4>5
        <5>2. PICK m \in c.in0 \cup c.in1 : e \in T[m]
          BY <1>d, <2>3 DEF Entries
        <5>3. f.key < e.key \/ e.key < f.key
          BY <1>b, <5>1, <5>2 DEF Apart
        <5>4. e.key \in Nat
          BY <1>5
        <5>5. QED
          BY <5>3, <5>4
      <4>6. CASE l > K
        <5>1. new[l] = lv[l]
          BY <1>1, <1>a, <4>6
        <5>2. PICK n \in lv[l] : f \in T[n]
          BY <5>1 DEF Entries
        <5>3. n \notin c.base[l]
          BY <3>3, <4>6, <5>2 DEF Entries
        <5>4. e.seq < f.seq
          BY <1>b, <2>3, <4>6, <5>2, <5>3 DEF Above
        <5>5. QED
          BY <4>1, <5>4
      <4>7. QED
        BY <1>1, <4>3, <4>4, <4>5, <4>6
    <3>4. QED
      BY <1>c, <2>3, <3>1, <3>2, <3>3
  <2>4. QED
    BY <1>16, <2>1, <2>2, <2>3 DEF Good, Holds
<1>17. QED
  BY <1>14, <1>15, <1>16 DEF Good, Holds

\* New files on top of level 0: newer than all that is there, and each newer than
\* those before it.
LEMMA ToppedLevels ==
    ASSUME NEW T, NEW lv, NEW W, W \subseteq Entry, Good(T, lv, W),
           NEW S, S \subseteq Nat, Entries(T, S) \subseteq Entry,
           \A n \in lv[0], p \in S : n \in Nat /\ n < p,
           Above(Entries(T, S), W),
           \A n, p \in S : p < n => Above(T[n], T[p]),
           NEW new,
           \A l \in Level : new[l] = IF l = 0 THEN lv[0] \cup S ELSE lv[l]
    PROVE  Good(T, new, W \cup Entries(T, S))
<1>1. 0 \in Level /\ \A l \in Level : l \in Nat /\ (l # 0 => 0 < l)
  BY DEF Level
<1>2. /\ new[0] = lv[0] \cup S
      /\ \A l \in Level \ {0} : new[l] = lv[l]
  BY <1>1
<1>3. ASSUME NEW l \in Level PROVE Entries(T, lv[l]) \subseteq W
  BY EntriesUp DEF Good, Holds
<1>4. \A e \in W \cup Entries(T, S) : e.key \in Nat /\ e.seq \in Nat
  BY KeysAre
<1>5. Entries(T, new[0]) = Entries(T, lv[0]) \cup Entries(T, S)
  BY <1>2 DEF Entries
<1>6. \A l, m \in Level : l < m => Above(Entries(T, new[l]), Entries(T, new[m]))
  <2> SUFFICES ASSUME NEW l \in Level, NEW m \in Level, l < m
               PROVE  Above(Entries(T, new[l]), Entries(T, new[m]))
    OBVIOUS
  <2>1. new[m] = lv[m] /\ Above(Entries(T, lv[l]), Entries(T, lv[m]))
    BY <1>1, <1>2 DEF Good, Sorted
  <2>2. CASE l = 0
    BY <1>3, <1>5, <2>1, <2>2 DEF Above
  <2>3. CASE l # 0
    BY <1>2, <2>1, <2>3
  <2>4. QED
    BY <2>2, <2>3
<1>7. ASSUME NEW n \in new[0], NEW p \in new[0], p < n PROVE Above(T[n], T[p])
  <2>1. CASE n \in lv[0] /\ p \in lv[0]
    BY <1>7, <2>1 DEF Good, Sorted
  <2>2. CASE n \in S /\ p \in S
    BY <1>7, <2>2
  <2>3. CASE n \in S /\ p \in lv[0]
    <3>1. T[n] \subseteq Entries(T, S) /\ T[p] \subseteq W
      BY <1>1, <1>3, <2>3 DEF Entries
    <3>2. QED
      BY <3>1 DEF Above
  <2>4. CASE n \in lv[0] /\ p \in S
    <3>1. n \in Nat /\ p \in Nat /\ n < p
      BY <2>4
    <3>2. QED
      BY <1>7, <3>1
  <2>5. QED
    BY <1>2, <2>1, <2>2, <2>3, <2>4
<1>8. Sorted(T, new)
  BY <1>2, <1>6, <1>7 DEF Good, Sorted
<1>9. Entries(T, Files(new)) = Entries(T, Files(lv)) \cup Entries(T, S)
  <2>1. Files(new) = Files(lv) \cup S
    BY <1>1, <1>2 DEF Files
  <2>2. QED
    BY <2>1 DEF Entries
<1>10. ASSUME NEW e \in W, Latest(e, W \cup Entries(T, S))
       PROVE  \/ e \in Entries(T, Files(new))
              \/ ~e.put /\ \A f \in Entries(T, Files(new)) : f.key # e.key
  <2>1. Latest(e, W)
    BY <1>10 DEF Latest
  <2>2. \/ e \in Entries(T, Files(lv))
        \/ ~e.put /\ \A f \in Entries(T, Files(lv)) : f.key # e.key
    BY <2>1 DEF Good, Holds
  <2>3. ASSUME NEW f \in Entries(T, S), f.key = e.key PROVE FALSE
    <3>1. f.seq <= e.seq
      BY <1>10, <2>3 DEF Latest
    <3>2. e.seq < f.seq
      BY <2>3 DEF Above
    <3>3. QED
      BY <1>4, <3>1, <3>2
  <2>4. QED
    BY <1>9, <2>2, <2>3
<1>11. Entries(T, Files(lv)) \subseteq W
  BY DEF Good, Holds
<1>12. Holds(T, new, W \cup Entries(T, S))
  BY <1>9, <1>10, <1>11 DEF Holds
<1>13. QED
  BY <1>8, <1>12 DEF Good

\* A memtable goes to a level above which, and in which, nothing overlaps it.
Flushing(T, lv, W, number, t, l, new) ==
    /\ W \subseteq Entry /\ Good(T, lv, W)
    /\ T[number] = t /\ t \subseteq Entry /\ Above(t, W)
    /\ number \in Nat /\ \A n \in lv[0] : n \in Nat /\ n < number
    /\ l \in Level
    /\ l # 0 => \A m \in Level : m <= l => \A n \in lv[m] : Apart(T[n], t)
    /\ \A m \in Level : new[m] = IF m = l THEN lv[m] \cup {number} ELSE lv[m]

\* The levels with the table of a memtable at level l.
LEMMA FlushedLevels ==
    ASSUME NEW T, NEW lv, NEW W, NEW number, NEW t, NEW l, NEW new,
           Flushing(T, lv, W, number, t, l, new)
    PROVE  Good(T, new, W \cup t)
<1> USE DEF Flushing
<1>1. CASE l = 0
  <2>1. PICK S : S = {number}
    OBVIOUS
  <2>2. S \subseteq Nat /\ Entries(T, S) = t /\ \A n, p \in S : p < n => Above(T[n], T[p])
    BY <2>1 DEF Entries
  <2>3. \A n \in lv[0], p \in S : n \in Nat /\ n < p
    BY <2>1
  <2>4. \A m \in Level : new[m] = IF m = 0 THEN lv[0] \cup S ELSE lv[m]
    BY <1>1, <2>1
  <2>5. Good(T, new, W \cup Entries(T, S))
    BY <2>2, <2>3, <2>4, ToppedLevels
  <2>6. QED
    BY <2>2, <2>5
<1>3. CASE l # 0
  <2>1. 0 \in Level /\ \A m \in Level : m \in Nat
    BY DEF Level
  <2>2. /\ new[l] = lv[l] \cup {number}
        /\ \A m \in Level : m # l => new[m] = lv[m]
    OBVIOUS
  <2>3. ASSUME NEW m \in Level PROVE Entries(T, lv[m]) \subseteq W
    BY EntriesUp DEF Good, Holds
  <2>4. \A e \in W \cup t : e.key \in Nat /\ e.seq \in Nat
    BY KeysAre
  <2>5. Entries(T, new[l]) = Entries(T, lv[l]) \cup t
    BY <2>2 DEF Entries
  <2>6. ASSUME NEW m \in Level, NEW k \in Level, m < k
        PROVE  Above(Entries(T, new[m]), Entries(T, new[k]))
    <3>1. Above(Entries(T, lv[m]), Entries(T, lv[k]))
      BY <2>6 DEF Good, Sorted
    <3>2. CASE m = l
      <4>1. new[k] = lv[k]
        BY <2>1, <2>2, <2>6, <3>2
      <4>2. QED
        BY <2>3, <2>5, <3>1, <3>2, <4>1 DEF Above
    <3>3. CASE k = l
      <4>1. new[m] = lv[m] /\ m <= l
        BY <2>1, <2>2, <2>6, <3>3
      <4>2. ASSUME NEW e \in Entries(T, lv[m]), NEW f \in t, e.key = f.key PROVE FALSE
        <5>1. PICK n \in lv[m] : e \in T[n]
          BY DEF Entries
        <5>2. Apart(T[n], t) /\ e.key \in Nat
          BY <1>3, <2>3, <2>4, <4>1
        <5>3. QED
          BY <4>2, <5>1, <5>2 DEF Apart
      <4>3. QED
        BY <2>5, <3>1, <3>3, <4>1, <4>2 DEF Above
    <3>4. CASE m # l /\ k # l
      BY <2>2, <3>1, <3>4
    <3>5. QED
      BY <3>2, <3>3, <3>4
  <2>7. new[0] = lv[0]
    BY <1>3, <2>1, <2>2
  <2>8. ASSUME NEW m \in Level \ {0}, NEW n \in new[m], NEW p \in new[m], n # p
        PROVE  Apart(T[n], T[p])
    <3>1. CASE n \in lv[m] /\ p \in lv[m]
      BY <2>8, <3>1 DEF Good, Sorted
    <3>2. CASE m = l
      <4>1. n \in lv[l] => Apart(T[n], t)
        BY <1>3, <2>1
      <4>2. p \in lv[l] => Apart(T[p], t)
        BY <1>3, <2>1
      <4>3. QED
        BY <2>2, <2>8, <3>1, <3>2, <4>1, <4>2 DEF Apart
    <3>3. QED
      BY <2>2, <3>1, <3>2
  <2>9. Sorted(T, new)
    <3>1. \A n, p \in new[0] : p < n => Above(T[n], T[p])
      BY <2>7 DEF Good, Sorted
    <3>2. QED
      BY <2>6, <2>8, <3>1 DEF Sorted
  <2>10. Entries(T, Files(new)) = Entries(T, Files(lv)) \cup t
    <3>1. Files(new) = Files(lv) \cup {number}
      BY <2>2 DEF Files
    <3>2. QED
      BY <3>1 DEF Entries
  <2>11. ASSUME NEW e \in W, Latest(e, W \cup t)
         PROVE  \/ e \in Entries(T, Files(new))
                \/ ~e.put /\ \A f \in Entries(T, Files(new)) : f.key # e.key
    <3>1. Latest(e, W)
      BY <2>11 DEF Latest
    <3>2. \/ e \in Entries(T, Files(lv))
          \/ ~e.put /\ \A f \in Entries(T, Files(lv)) : f.key # e.key
      BY <3>1 DEF Good, Holds
    <3>3. ASSUME NEW f \in t, f.key = e.key PROVE FALSE
      <4>1. f.seq <= e.seq
        BY <2>11, <3>3 DEF Latest
      <4>2. e.seq < f.seq
        BY <3>3 DEF Above
      <4>3. QED
        BY <2>4, <4>1, <4>2
    <3>4. QED
      BY <2>10, <3>2, <3>3
  <2>12. Entries(T, Files(lv)) \subseteq W
    BY DEF Good, Holds
  <2>13. Holds(T, new, W \cup t)
    BY <2>10, <2>11, <2>12 DEF Holds
  <2>14. QED
    BY <2>9, <2>13 DEF Good
<1>4. QED
  BY <1>1, <1>3

\* The place of a merge in progress is still its place.
LEMMA FlushedPlace ==
    ASSUME NEW T, NEW lv, NEW W, NEW number, NEW t, NEW l, NEW new,
           Flushing(T, lv, W, number, t, l, new), NEW c, MergePlace(T, c, lv)
    PROVE  MergePlace(T, c, new)
<1> USE DEF Flushing
<1>0. PICK L, K, M : L = c.level /\ K = c.level + 1 /\ M = Merged(T, c)
  OBVIOUS
<1>1. /\ L \in Level /\ K \in Level /\ \A m \in Level : m \in Nat
      /\ K = L + 1 /\ K # L /\ K # 0 /\ L < K
  <2>1. L \in Level /\ L + 1 \in Level
    BY <1>0 DEF MergePlace
  <2>2. \A m \in Level : m \in Nat
    BY DEF Level
  <2>3. QED
    BY <1>0, <2>1, <2>2
<1>2. /\ c.in0 \subseteq lv[L] /\ c.in1 \subseteq lv[K]
      /\ \A n \in lv[L] \ c.in0 : Above(T[n], M)
      /\ \A n \in lv[K] \ c.in1, m \in c.in0 \cup c.in1 : Apart(T[n], T[m])
      /\ \A m \in Level : m > K => \A n \in lv[m] \ c.base[m] : Above(T[n], M)
  BY <1>0 DEF MergePlace
<1>3. M \subseteq W
  <2>1. Entries(T, lv[L]) \subseteq W /\ Entries(T, lv[K]) \subseteq W
    BY <1>1, EntriesUp DEF Good, Holds
  <2>2. QED
    BY <1>0, <1>2, <2>1 DEF Merged, Entries
<1>4. Above(T[number], M)
  BY <1>3 DEF Above
<1>5. /\ \A m \in Level : lv[m] \subseteq new[m]
      /\ \A m \in Level : \A n \in new[m] : n \in lv[m] \/ (m = l /\ n = number)
  OBVIOUS
<1>6. ASSUME NEW n \in new[K] \ c.in1, NEW m \in c.in0 \cup c.in1 PROVE Apart(T[n], T[m])
  <2>1. CASE n \in lv[K]
    BY <1>2, <2>1
  <2>2. CASE K = l /\ n = number
    <3>1. Apart(T[m], t)
      BY <1>1, <1>2, <2>2
    <3>2. QED
      BY <2>2, <3>1 DEF Apart
  <2>3. QED
    BY <1>1, <1>5, <2>1, <2>2
<1>7. \A n \in new[L] \ c.in0 : Above(T[n], M)
  BY <1>1, <1>2, <1>4, <1>5
<1>8. \A m \in Level : m > K => \A n \in new[m] \ c.base[m] : Above(T[n], M)
  BY <1>2, <1>4, <1>5
<1>9. c.in0 \subseteq new[L] /\ c.in1 \subseteq new[K]
  BY <1>1, <1>2, <1>5
<1>10. QED
  BY <1>0, <1>1, <1>6, <1>7, <1>8, <1>9 DEF MergePlace

\* Where a merge begins.
LEMMA PlaceOfMerge ==
    ASSUME NEW T, NEW lv, NEW W, W \subseteq Entry, Good(T, lv, W),
           NEW L \in 0 .. kNumLevels - 2, NEW c, c.level = L, c.base = lv,
           MayMerge(T, lv, L, c.in0, c.in1)
    PROVE  MergePlace(T, c, lv) /\ Merged(T, c) \subseteq W
<1>1. L \in Level /\ L + 1 \in Level
  BY DEF Level
<1>2. \A m \in Level : Entries(T, lv[m]) \subseteq W
  BY EntriesUp DEF Good, Holds
<1>3. Merged(T, c) \subseteq W
  BY <1>1, <1>2 DEF Merged, Entries, MayMerge
<1>4. PICK K : K = L + 1
  OBVIOUS
<1>5. /\ L \in Level /\ K \in Level /\ L < K /\ c.level = L /\ c.level + 1 = K
  BY <1>1, <1>4
<1>6. /\ c.in0 \subseteq lv[L] /\ c.in1 \subseteq lv[K]
      /\ \A n \in lv[L] \ c.in0, m \in c.in0 : Apart(T[n], T[m])
      /\ \A n \in lv[K] \ c.in1, m \in c.in0 \cup c.in1 : Apart(T[n], T[m])
  BY <1>4 DEF MayMerge
<1>7. ASSUME NEW n \in lv[L] \ c.in0, NEW e \in T[n], NEW f \in Merged(T, c), e.key = f.key
      PROVE  f.seq < e.seq
  <2>1. e.key \in Nat
    BY <1>3, <1>7, KeysAre
  <2>2. PICK m \in c.in0 \cup c.in1 : f \in T[m]
    BY DEF Merged, Entries
  <2>3. CASE m \in c.in0
    BY <1>6, <1>7, <2>1, <2>2, <2>3 DEF Apart
  <2>4. CASE m \in c.in1
    <3>1. e \in Entries(T, lv[L]) /\ f \in Entries(T, lv[K])
      BY <1>6, <2>2, <2>4 DEF Entries
    <3>2. QED
      BY <1>5, <1>7, <3>1 DEF Good, Sorted, Above
  <2>5. QED
    BY <2>2, <2>3, <2>4
<1>8. \A n \in lv[L] \ c.in0 : Above(T[n], Merged(T, c))
  BY <1>7 DEF Above
<1>9. QED
  BY <1>3, <1>5, <1>6, <1>8 DEF MergePlace
-----------------------------------------------------------------------------
(* Files in order.                                                         *)

\* Whoever has i - 1 before it is the i-th: f lists S in an order, in which
\* prior[n] are those before n.
Lists(S, prior, f) ==
    /\ prior \in [S -> SUBSET S]
    /\ \A n \in S : n \notin prior[n]
    /\ \A m, n \in S : m = n \/ m \in prior[n] \/ n \in prior[m]
    /\ \A m, n \in S : m \in prior[n] => prior[m] \subseteq prior[n]
    /\ \A i \in 1 .. Cardinality(S) :
          (\E n \in S : Cardinality(prior[n]) = i - 1)
              => f[i] \in S /\ Cardinality(prior[f[i]]) = i - 1

\* A set listed in an order: every element has its place.
LEMMA Listing ==
    ASSUME NEW S, IsFiniteSet(S), NEW prior, NEW f, Lists(S, prior, f)
    PROVE  /\ Cardinality(S) \in Nat
           /\ \A i \in 1 .. Cardinality(S) : f[i] \in S
           /\ \A i, j \in 1 .. Cardinality(S) : i < j => f[i] \in prior[f[j]]
           /\ \A n \in S : \E i \in 1 .. Cardinality(S) : f[i] = n
<1> USE DEF Lists
<1>1. PICK C : C = Cardinality(S)
  OBVIOUS
<1>2. C \in Nat
  BY <1>1, FS_CardinalityType
<1> DEFINE r == [n \in S |-> Cardinality(prior[n])]
<1>3. ASSUME NEW n \in S
      PROVE  /\ IsFiniteSet(prior[n]) /\ r[n] \in Nat /\ r[n] < C
             /\ r[n] = Cardinality(prior[n])
  <2>1. prior[n] \in SUBSET S
    OBVIOUS
  <2>2. /\ IsFiniteSet(prior[n]) /\ Cardinality(prior[n]) <= C
        /\ (Cardinality(S) = Cardinality(prior[n]) => S = prior[n])
    BY <1>1, <2>1, FS_Subset
  <2>3. Cardinality(prior[n]) \in Nat /\ Cardinality(prior[n]) # C
    BY <1>1, <2>2, FS_CardinalityType
  <2>4. QED
    BY <1>2, <2>2, <2>3
<1>4. ASSUME NEW m \in S, NEW n \in S, m \in prior[n] PROVE r[m] < r[n]
  <2>1. prior[m] \in SUBSET prior[n] /\ prior[m] # prior[n]
    BY <1>4
  <2>2. Cardinality(prior[m]) <= Cardinality(prior[n]) /\ Cardinality(prior[m]) # Cardinality(prior[n])
    BY <1>3, <2>1, FS_Subset
  <2>3. QED
    BY <1>3, <2>2
<1>5. ASSUME NEW m \in S, NEW n \in S, r[m] = r[n] PROVE m = n
  BY <1>3, <1>4, <1>5
<1> HIDE DEF r
<1>6. PICK D : D = 0 .. C - 1
  OBVIOUS
<1>7. IsFiniteSet(D) /\ Cardinality(D) = C
  BY <1>2, <1>6, FS_Interval
<1>8. r \in Injection(S, D)
  <2>1. r \in [S -> D]
    <3>1. r = [n \in S |-> r[n]]
      BY DEF r
    <3>2. QED
      BY <1>2, <1>3, <1>6, <3>1
  <2>2. QED
    BY <1>5, <2>1 DEF Injection, IsInjective
<1>9. r \in Surjection(S, D)
  BY <1>1, <1>7, <1>8, FS_Injection
<1>10. ASSUME NEW i \in 1..C
       PROVE  f[i] \in S /\ r[f[i]] = i - 1
  <2>1. i - 1 \in D
    BY <1>2, <1>6
  <2>2. PICK n \in S : r[n] = i - 1
    BY <1>9, <2>1 DEF Surjection
  <2>3. QED
    BY <1>1, <1>3, <2>2
<1>11. ASSUME NEW i \in 1..C, NEW j \in 1..C, i < j PROVE f[i] \in prior[f[j]]
  <2>1. f[i] \in S /\ f[j] \in S /\ r[f[i]] < r[f[j]] /\ r[f[i]] \in Nat /\ r[f[j]] \in Nat
    BY <1>2, <1>3, <1>10, <1>11
  <2>2. ~(f[j] \in prior[f[i]]) /\ f[i] # f[j]
    BY <1>4, <2>1
  <2>3. QED
    BY <2>1, <2>2
<1>12. ASSUME NEW n \in S PROVE \E i \in 1..C : f[i] = n
  <2>1. r[n] + 1 \in 1..C /\ r[n] \in Nat
    BY <1>2, <1>3
  <2>2. f[r[n] + 1] \in S /\ r[f[r[n] + 1]] = r[n]
    BY <1>10, <2>1
  <2>3. QED
    BY <1>5, <2>1, <2>2
<1>13. QED
  BY <1>1, <1>2, <1>10, <1>11, <1>12

\* The files listed from the oldest on.
LEMMA OldestFirstIs ==
    ASSUME NEW S, S \subseteq Nat, IsFiniteSet(S), NEW f, f = OldestFirst(S)
    PROVE  /\ Cardinality(S) \in Nat /\ DOMAIN f = 1 .. Cardinality(S)
           /\ \A i \in DOMAIN f : f[i] \in S
           /\ \A i, j \in DOMAIN f : i < j => f[i] < f[j]
           /\ \A n \in S : \E i \in DOMAIN f : f[i] = n
<1>1. PICK prior : prior = [n \in S |-> {m \in S : m < n}]
  OBVIOUS
<1>2. /\ prior \in [S -> SUBSET S]
      /\ \A m, n \in S : m \in prior[n] <=> m < n
      /\ \A n \in S : prior[n] = {m \in S : m < n}
  BY <1>1
<1>3. DOMAIN f = 1 .. Cardinality(S)
  BY DEF OldestFirst
<1>4. ASSUME NEW i \in 1 .. Cardinality(S), \E n \in S : Cardinality(prior[n]) = i - 1
      PROVE  f[i] \in S /\ Cardinality(prior[f[i]]) = i - 1
  <2>1. \E n \in S : Cardinality({m \in S : m < n}) = i - 1
    BY <1>2, <1>4
  <2>2. f[i] = CHOOSE n \in S : Cardinality({m \in S : m < n}) = i - 1
    BY DEF OldestFirst
  <2>3. f[i] \in S /\ Cardinality({m \in S : m < f[i]}) = i - 1
    BY <2>1, <2>2
  <2>4. QED
    BY <1>2, <2>3
<1>5. /\ \A n \in S : n \notin prior[n]
      /\ \A m, n \in S : m = n \/ m \in prior[n] \/ n \in prior[m]
      /\ \A m, n \in S : m \in prior[n] => prior[m] \subseteq prior[n]
  <2>1. \A n \in S : n \in Nat
    OBVIOUS
  <2>2. ASSUME NEW m \in S, NEW n \in S, m \in prior[n], NEW x \in prior[m] PROVE x \in prior[n]
    <3>1. x \in S /\ x < m /\ m < n
      BY <1>2, <2>2
    <3>2. x < n
      BY <2>1, <3>1
    <3>3. QED
      BY <1>2, <3>1, <3>2
  <2>3. \A n \in S : n \notin prior[n]
    BY <1>2, <2>1
  <2>4. \A m, n \in S : m = n \/ m \in prior[n] \/ n \in prior[m]
    BY <1>2, <2>1
  <2>5. QED
    BY <2>2, <2>3, <2>4
<1>6. /\ Cardinality(S) \in Nat
      /\ \A i \in 1 .. Cardinality(S) : f[i] \in S
      /\ \A i, j \in 1 .. Cardinality(S) : i < j => f[i] \in prior[f[j]]
      /\ \A n \in S : \E i \in 1 .. Cardinality(S) : f[i] = n
  <2>1. prior \in [S -> SUBSET S]
    BY <1>2
  <2>2. \A i \in 1 .. Cardinality(S) :
           (\E n \in S : Cardinality(prior[n]) = i - 1)
               => f[i] \in S /\ Cardinality(prior[f[i]]) = i - 1
    BY <1>4
  <2>3. Lists(S, prior, f)
    BY <1>5, <2>1, <2>2 DEF Lists
  <2>4. QED
    BY <2>3, Listing
<1>7. QED
  BY <1>2, <1>3, <1>6

\* The files listed from the newest on.
LEMMA NewestFirstIs ==
    ASSUME NEW S, S \subseteq Nat, IsFiniteSet(S), NEW f, f = NewestFirst(S)
    PROVE  /\ Cardinality(S) \in Nat /\ DOMAIN f = 1 .. Cardinality(S)
           /\ \A i \in DOMAIN f : f[i] \in S
           /\ \A i, j \in DOMAIN f : i < j => f[j] < f[i]
           /\ \A n \in S : \E i \in DOMAIN f : f[i] = n
<1>1. PICK prior : prior = [n \in S |-> {m \in S : m > n}]
  OBVIOUS
<1>2. /\ prior \in [S -> SUBSET S]
      /\ \A m, n \in S : m \in prior[n] <=> m > n
      /\ \A n \in S : prior[n] = {m \in S : m > n}
  BY <1>1
<1>3. DOMAIN f = 1 .. Cardinality(S)
  BY DEF NewestFirst
<1>4. ASSUME NEW i \in 1 .. Cardinality(S), \E n \in S : Cardinality(prior[n]) = i - 1
      PROVE  f[i] \in S /\ Cardinality(prior[f[i]]) = i - 1
  <2>1. \E n \in S : Cardinality({m \in S : m > n}) = i - 1
    BY <1>2, <1>4
  <2>2. f[i] = CHOOSE n \in S : Cardinality({m \in S : m > n}) = i - 1
    BY DEF NewestFirst
  <2>3. f[i] \in S /\ Cardinality({m \in S : m > f[i]}) = i - 1
    BY <2>1, <2>2
  <2>4. QED
    BY <1>2, <2>3
<1>5. /\ \A n \in S : n \notin prior[n]
      /\ \A m, n \in S : m = n \/ m \in prior[n] \/ n \in prior[m]
      /\ \A m, n \in S : m \in prior[n] => prior[m] \subseteq prior[n]
  <2>1. \A n \in S : n \in Nat
    OBVIOUS
  <2>2. ASSUME NEW m \in S, NEW n \in S, m \in prior[n], NEW x \in prior[m] PROVE x \in prior[n]
    <3>1. x \in S /\ x > m /\ m > n
      BY <1>2, <2>2
    <3>2. x > n
      BY <2>1, <3>1
    <3>3. QED
      BY <1>2, <3>1, <3>2
  <2>3. \A n \in S : n \notin prior[n]
    BY <1>2, <2>1
  <2>4. \A m, n \in S : m = n \/ m \in prior[n] \/ n \in prior[m]
    BY <1>2, <2>1
  <2>5. QED
    BY <2>2, <2>3, <2>4
<1>6. /\ Cardinality(S) \in Nat
      /\ \A i \in 1 .. Cardinality(S) : f[i] \in S
      /\ \A i, j \in 1 .. Cardinality(S) : i < j => f[i] \in prior[f[j]]
      /\ \A n \in S : \E i \in 1 .. Cardinality(S) : f[i] = n
  <2>1. prior \in [S -> SUBSET S]
    BY <1>2
  <2>2. \A i \in 1 .. Cardinality(S) :
           (\E n \in S : Cardinality(prior[n]) = i - 1)
               => f[i] \in S /\ Cardinality(prior[f[i]]) = i - 1
    BY <1>4
  <2>3. Lists(S, prior, f)
    BY <1>5, <2>1, <2>2 DEF Lists
  <2>4. QED
    BY <2>3, Listing
<1>7. \A i, j \in DOMAIN f : i < j => f[j] < f[i]
  <2> SUFFICES ASSUME NEW i \in DOMAIN f, NEW j \in DOMAIN f, i < j PROVE f[j] < f[i]
    OBVIOUS
  <2>1. f[i] \in S /\ f[j] \in S /\ f[i] > f[j]
    BY <1>2, <1>3, <1>6
  <2>2. f[i] \in Nat /\ f[j] \in Nat
    BY <2>1
  <2>3. QED
    BY <2>1, <2>2
<1>8. QED
  BY <1>3, <1>6, <1>7

-----------------------------------------------------------------------------
(* An output of a merge.                                                   *)

\* A key that has its base level in the output is in no file below.
LEMMA BaseLevel ==
    ASSUME NEW c, c.level \in Level, \A l \in Level : TablesFilled(c.base[l]),
           NEW k \in Key, IsBaseLevelForKey(c, k)
    PROVE  \A l \in Level : l > c.level + 1 => \A f \in Entries(tables, c.base[l]) : f.key # k
<1> SUFFICES ASSUME NEW l \in Level, l > c.level + 1
             PROVE  \A f \in Entries(tables, c.base[l]) : f.key # k
  OBVIOUS
<1>1. l \in c.level + 2 .. kNumLevels - 1
  BY DEF Level
<1>2. Overlapping(c.base[l], k, k) = {}
  BY <1>1 DEF IsBaseLevelForKey
<1>3. QED
  BY <1>2, KeyIsNotThere

\* The merge c of the entries M writes kept, what it keeps of the entries X up
\* to the last key: the files are then U, and the merge is d.
OneOutput(c, M, last, X, kept, U, d) ==
    /\ MergeDone(tables, c) /\ c.level \in Level
    /\ \A l \in Level : TablesFilled(c.base[l])
    /\ M = Merged(tables, c) /\ M \subseteq Entry
    /\ \A e, f \in M : e.seq = f.seq => e = f
    /\ last \in Key /\ last \in c.todo
    /\ X = {e \in M : e.key \in c.todo /\ e.key <= last}
    /\ kept = Kept(c, X)
    /\ \A n \in c.in0 \cup c.in1 \cup c.outputs \cup Files(c.base) : U[n] = tables[n]
    /\ d.level = c.level /\ d.in0 = c.in0 /\ d.in1 = c.in1 /\ d.base = c.base
    /\ d.snapshot = c.snapshot /\ d.todo = {k \in c.todo : k > last}
    /\ \/ kept = {} /\ d.outputs = c.outputs
       \/ \E number : d.outputs = c.outputs \cup {number} /\ U[number] = kept

\* What is kept of the keys up to the last one stands for them.
LEMMA OutputDone ==
    ASSUME NEW c, NEW M, NEW last, NEW X, NEW kept, NEW U, NEW d,
           OneOutput(c, M, last, X, kept, U, d)
    PROVE  MergeDone(U, d)
<1> /\ MergeDone(tables, c) /\ c.level \in Level
    /\ \A l \in Level : TablesFilled(c.base[l])
    /\ M = Merged(tables, c) /\ M \subseteq Entry
    /\ \A e, f \in M : e.seq = f.seq => e = f
    /\ last \in Key /\ last \in c.todo
    /\ X = {e \in M : e.key \in c.todo /\ e.key <= last}
    /\ kept = Kept(c, X)
    /\ \A n \in c.in0 \cup c.in1 \cup c.outputs \cup Files(c.base) : U[n] = tables[n]
    /\ d.level = c.level /\ d.in0 = c.in0 /\ d.in1 = c.in1 /\ d.base = c.base
    /\ d.snapshot = c.snapshot /\ d.todo = {k \in c.todo : k > last}
    /\ \/ kept = {} /\ d.outputs = c.outputs
       \/ \E number : d.outputs = c.outputs \cup {number} /\ U[number] = kept
  BY DEF OneOutput
<1>1. MergeDone(U, c)
  BY DoneKept
<1>2. M = Merged(U, c)
  BY SameEntries DEF Merged
<1>3. PICK O, D : O = Entries(U, c.outputs) /\ D = {e \in M : e.key \notin c.todo}
  OBVIOUS
<1>4. /\ Covered(U, c.in0 \cup c.in1)
      /\ \A e \in M : e.seq <= c.snapshot
      /\ c.todo \subseteq {e.key : e \in M}
      /\ \A e \in M, k \in c.todo : e.key \notin c.todo => e.key < k
      /\ Replaces(U, c, O, D)
      /\ \A m, n \in c.outputs : m # n => Apart(U[m], U[n])
  BY <1>1, <1>2, <1>3 DEF MergeDone
<1>5. \A e \in M : e.key \in Nat /\ e.key \in Key /\ e.seq \in Nat
  BY KeysAre
<1>6. c.todo \subseteq Nat /\ last \in Nat
  BY <1>4, <1>5
<1>7. Merged(U, d) = M
  BY <1>2 DEF Merged
<1>8. \A l \in Level : Entries(U, c.base[l]) = Entries(tables, c.base[l])
  <2>1. \A l \in Level : c.base[l] \subseteq Files(c.base)
    BY DEF Files
  <2>2. QED
    BY <2>1, SameEntries
<1>9. kept \subseteq X /\ X \subseteq M /\ Entries(U, d.outputs) = O \cup kept
  <2>1. kept \subseteq X
    BY DEF Kept
  <2>2. Entries(U, d.outputs) = O \cup kept
    BY <1>3 DEF Entries
  <2>3. QED
    BY <2>1, <2>2
<1>10. \A e \in M : e.key \notin d.todo <=> (e \in D \/ e \in X)
  BY <1>3, <1>5, <1>6
<1>11. ASSUME NEW e \in X, Latest(e, X), e \notin kept
       PROVE  /\ ~e.put /\ \A f \in O \cup kept : f.key # e.key
              /\ \A l \in Level : l > c.level + 1 =>
                    \A f \in Entries(U, c.base[l]) : f.key # e.key
  <2>1. ~\E f \in X : f.key = e.key /\ e.seq < f.seq /\ f.seq <= c.snapshot
    <3> SUFFICES ASSUME NEW f \in X, f.key = e.key, e.seq < f.seq PROVE FALSE
      OBVIOUS
    <3>1. f.seq <= e.seq /\ f.seq \in Nat /\ e.seq \in Nat
      BY <1>5, <1>11 DEF Latest
    <3>2. QED
      BY <3>1
  <2>2. ~e.put /\ e.seq <= c.snapshot /\ IsBaseLevelForKey(c, e.key)
    BY <1>11, <2>1 DEF Kept
  <2>3. \A l \in Level : l > c.level + 1 => \A f \in Entries(U, c.base[l]) : f.key # e.key
    BY <1>5, <1>8, <2>2, BaseLevel
  <2>4. ASSUME NEW f \in O \cup kept, f.key = e.key PROVE FALSE
    <3>1. f \notin O
      BY <1>3, <1>4, <2>4 DEF Replaces
    <3>2. f \in kept /\ f \in X
      BY <1>9, <2>4, <3>1
    <3>3. f.seq <= e.seq /\ f.seq \in Nat /\ e.seq \in Nat
      BY <1>5, <1>11, <2>4, <3>2 DEF Latest
    <3>4. f.seq # e.seq
      BY <1>11, <3>2
    <3>5. f.seq < e.seq
      BY <3>3, <3>4
    <3>6. QED
      BY <2>2, <2>4, <3>2, <3>5 DEF Kept
  <2>5. QED
    BY <2>2, <2>3, <2>4
<1>12. Replaces(U, d, O \cup kept, D \cup X)
  <2>1. O \cup kept \subseteq D \cup X
    BY <1>4, <1>9 DEF Replaces
  <2>2. ASSUME NEW e \in D \cup X, Latest(e, D \cup X), e \notin O \cup kept
        PROVE  /\ ~e.put /\ \A f \in O \cup kept : f.key # e.key
               /\ \A l \in Level : l > d.level + 1 =>
                     \A f \in Entries(U, d.base[l]) : f.key # e.key
    <3>1. CASE e \in X
      <4>1. Latest(e, X)
        BY <2>2 DEF Latest
      <4>2. QED
        BY <1>11, <2>2, <3>1, <4>1
    <3>2. CASE e \in D
      <4>1. Latest(e, D)
        BY <2>2 DEF Latest
      <4>2. /\ ~e.put /\ \A f \in O : f.key # e.key
            /\ \A l \in Level : l > c.level + 1 =>
                  \A f \in Entries(U, c.base[l]) : f.key # e.key
        BY <1>4, <2>2, <3>2, <4>1 DEF Replaces
      <4>3. \A f \in kept : f.key # e.key
        BY <1>3, <1>9, <3>2
      <4>4. QED
        BY <4>2, <4>3
    <3>3. QED
      BY <3>1, <3>2
  <2>3. QED
    BY <2>1, <2>2 DEF Replaces
<1>13. D \cup X = {e \in M : e.key \notin d.todo}
  BY <1>3, <1>9, <1>10
<1>14. ASSUME NEW n \in c.outputs, NEW e \in U[n], NEW f \in kept PROVE e.key < f.key
  <2>1. e \in D
    BY <1>3, <1>4 DEF Entries, Replaces
  <2>2. QED
    BY <1>3, <1>4, <1>9, <2>1
<1>15. \A m, n \in d.outputs : m # n => Apart(U[m], U[n])
  BY <1>4, <1>14 DEF Apart
<1>16. /\ d.todo \subseteq {e.key : e \in M}
       /\ \A e \in M, k \in d.todo : e.key \notin d.todo => e.key < k
  <2>1. ASSUME NEW e \in M, NEW k \in d.todo, e.key \notin d.todo PROVE e.key < k
    <3>1. k \in c.todo /\ k > last /\ k \in Nat
      BY <1>6
    <3>2. CASE e.key \notin c.todo
      BY <1>4, <3>1, <3>2
    <3>3. CASE e.key \in c.todo
      <4>1. ~(e.key > last)
        BY <2>1, <3>3
      <4>2. QED
        BY <1>5, <1>6, <3>1, <4>1
    <3>4. QED
      BY <3>2, <3>3
  <2>2. QED
    BY <1>4, <2>1
<1>17. Covered(U, d.in0 \cup d.in1) /\ \A e \in M : e.seq <= d.snapshot
  BY <1>4
<1>18. Replaces(U, d, Entries(U, d.outputs), {e \in M : e.key \notin d.todo})
  BY <1>9, <1>12, <1>13
<1>19. QED
  BY <1>7, <1>15, <1>16, <1>17, <1>18 DEF MergeDone
-----------------------------------------------------------------------------
(* The tables, step by step.                                               *)

\* The rest of the types.
TypeInv ==
    /\ up \in {"down", "recovering", "installed", "open"}
    /\ current.seekFile \in Nat
    /\ {asleep, scheduled, reader.on} \subseteq BOOLEAN
    /\ Len(writers) <= MaxWriters

\* When the engine is not open, nothing is in memory.
LEMMA NoMemory ==
    ASSUME LogInv, up # "open"
    PROVE  Memory = {} /\ Flushed = written
BY DEF LogInv, MemOK, NoGroup, Memory, Inflight, Flushed

\* MANIFEST stands for what no log would bring back.
LEMMA ManifestIsGood ==
    ASSUME TypeInv, FileInv, LogInv, SeqInv, LevelsInv
    PROVE  Good(tables, manifest.levels, written \ LoggedEntries)
<1>1. CASE up \in {"down", "recovering"}
  BY <1>1 DEF LevelsInv
<1>2. CASE up = "installed"
  <2>1. LoggedEntries = {} /\ Flushed = written
    BY <1>2, NoMemory DEF SeqInv, LogNumbers
  <2>2. written \ LoggedEntries = Flushed /\ manifest.levels = current.levels
    BY <1>2, <2>1 DEF FileInv, ManifestOK
  <2>3. QED
    BY <1>2, <2>2 DEF LevelsInv
<1>3. CASE up = "open"
  <2>1. /\ Flushes /\ bg.pc = "install" => written \ LoggedEntries = Flushed \cup imm
        /\ ~(Flushes /\ bg.pc = "install") => written \ LoggedEntries = Flushed
    BY <1>3, LoggedIsMemory DEF SeqInv, LogInv
  <2>2. CASE bg.pc = "install"
    <3>1. manifest.levels = Edited
      BY <1>3, <2>2 DEF FileInv, ManifestOK, Edited
    <3>2. written \ LoggedEntries = EditHolds
      BY <2>1, <2>2 DEF EditHolds
    <3>3. QED
      BY <2>2, <3>1, <3>2 DEF LevelsInv
  <2>3. CASE bg.pc # "install"
    <3>1. manifest.levels = current.levels
      BY <1>3, <2>3 DEF FileInv, ManifestOK
    <3>2. QED
      BY <1>3, <2>1, <2>3, <3>1 DEF LevelsInv
  <2>4. QED
    BY <2>2, <2>3
<1>4. up \in {"down", "recovering", "installed", "open"}
  BY DEF TypeInv
<1>5. QED
  BY <1>1, <1>2, <1>3, <1>4

\* A step that leaves the files, the levels and what has been flushed.
LEMMA QuietTables ==
    ASSUME FileInv, TableInv, UNCHANGED <<tables, manifest, up, bg>>,
           current'.levels = current.levels,
           current'.nextFile \in {current.nextFile, current.nextFile + 1},
           Files(reader'.levels) \subseteq Files(reader.levels) \cup Files(current.levels),
           up # "open" => /\ reader' = reader /\ current' = current
                          /\ written' \ LoggedEntries' = written \ LoggedEntries,
           Flushed' = Flushed, Flushes => imm' = imm
    PROVE  TableInv'
<1>1. Edited' = Edited /\ Flushes' = Flushes /\ EditHolds' = EditHolds
  BY DEF Edited, Flushes, EditHolds
<1>2. NeededFiles' \subseteq NeededFiles
  BY DEF NeededFiles
<1>3. TablesOK'
  <2>1. \A n \in NeededFiles \cup Files(manifest.levels) : n \in Nat
    BY DEF FileInv, NoMissingFiles, TableInv, TablesOK
  <2>2. ASSUME up # "down", NEW n \in NeededFiles \cup Files(manifest.levels)
        PROVE  n < current'.nextFile
    <3>1. n < current.nextFile /\ n \in Nat /\ current.nextFile \in Nat
      BY <2>1, <2>2 DEF TableInv, TablesOK
    <3>2. QED
      BY <3>1
  <2>3. up # "down" => current'.nextFile \in Nat
    BY DEF TableInv, TablesOK
  <2>4. up = "down" => current' = NoVersion
    BY DEF TableInv, TablesOK
  <2>5. QED
    BY <1>1, <1>2, <2>2, <2>3, <2>4 DEF TableInv, TablesOK
<1>4. MergeInv'
  BY <1>1 DEF TableInv, MergeInv, Merging
<1>5. LevelsInv'
  <2>1. up \in {"down", "recovering"} => Good(tables, manifest.levels, written' \ LoggedEntries')
    BY DEF TableInv, LevelsInv
  <2>2. QED
    BY <1>1, <2>1 DEF TableInv, LevelsInv
<1>6. QED
  BY <1>3, <1>4, <1>5 DEF TableInv

\* What has been flushed, by its parts.
LEMMA FlushedIs ==
    ASSUME NEW V, NEW m, NEW i, NEW p, NEW G, V = written, m = mem, i = imm,
           p = group.phase, G = group.entries
    PROVE  /\ p = "insert" => Flushed = V \ (m \cup i \cup G)
           /\ p # "insert" => Flushed = V \ (m \cup i)
BY DEF Flushed, Memory, Inflight

\* Writers change neither the tables nor what has been flushed.
LEMMA WriterTables ==
    ASSUME AckInv, FileInv, LogInv, SeqInv, TableInv,
           (\E b \in Batches : Write(b)) \/ WriterStep
    PROVE  TableInv'
<1>1. UNCHANGED <<tables, manifest, up, bg, reader>>
  BY DEF Write, WriterStep, WaitForRoom, SwitchMemTable, BuildBatchGroup, AddRecord,
     InsertInto, FinishWrite, disk, history, queue
<1>2. \/ current' = current
      \/ current' = [current EXCEPT !.nextFile = current.nextFile + 1]
      \/ \E n : current' = [current EXCEPT !.lastSequence = n]
  BY DEF Write, WriterStep, WaitForRoom, SwitchMemTable, BuildBatchGroup, AddRecord,
     InsertInto, FinishWrite, disk, history, queue
<1>3. /\ current'.levels = current.levels
      /\ current'.nextFile \in {current.nextFile, current.nextFile + 1}
  BY <1>2 DEF FileInv, VersionOK
<1>4. group = [n |-> group.n, phase |-> group.phase, entries |-> group.entries]
  BY DEF AckInv, GroupOK
<1>5. up = "open"
  <2>1. group.phase # "none" \/ up = "open"
    BY DEF Write, WriterStep, WaitForRoom, SwitchMemTable, BuildBatchGroup, AtFront, AddRecord,
       InsertInto, FinishWrite
  <2>2. QED
    BY <2>1 DEF SeqInv, GroupNumbers
<1>6. Flushed' = Flushed /\ (Flushes => imm' = imm)
  <2>1. CASE \/ \E b \in Batches : Write(b)
             \/ WaitForRoom
    BY <2>1 DEF Write, WaitForRoom, history, Flushed, Memory, Inflight
  <2>2. CASE SwitchMemTable
    <3>1. /\ imm = {} /\ imm' = mem /\ mem' = {} /\ UNCHANGED <<group, written>>
      BY <2>2 DEF SwitchMemTable, queue, history
    <3>2. ~Flushes
      BY <3>1 DEF LogInv, EditOK
    <3>3. Memory' = Memory
      BY <3>1 DEF Memory, Inflight
    <3>4. QED
      BY <3>1, <3>2, <3>3 DEF Flushed
  <2>3. CASE \E n \in DOMAIN writers : BuildBatchGroup(n)
    <3>1. /\ group.phase = "none" /\ group'.phase = "log" /\ UNCHANGED <<mem, imm, written>>
      BY <2>3 DEF BuildBatchGroup, AtFront, NoGroup, history
    <3>2. Inflight' = Inflight
      BY <3>1 DEF Inflight
    <3>3. QED
      BY <3>1, <3>2 DEF Flushed, Memory
  <2>4. CASE AddRecord
    <3>1. /\ group.phase = "log" /\ written' = written \cup group.entries
          /\ group' = [group EXCEPT !.phase = "insert"] /\ UNCHANGED <<mem, imm>>
      BY <2>4 DEF AddRecord
    <3>2. group'.phase = "insert" /\ group'.entries = group.entries
      BY <1>4, <3>1
    <3>3. group.entries \cap written = {}
      <4>1. ASSUME NEW e \in group.entries, e \in written PROVE FALSE
        <5>1. current.lastSequence < e.seq /\ e.seq <= current.lastSequence
              /\ e.seq \in Nat /\ current.lastSequence \in Nat
          BY <1>5, <3>1, <4>1 DEF SeqInv, GroupNumbers, WrittenNumbers, InGroup, Entry
        <5>2. QED
          BY <5>1
      <4>2. QED
        BY <4>1
    <3>4. Flushed = written \ (mem \cup imm)
      BY <3>1 DEF Flushed, Memory, Inflight
    <3>5. Flushed' = (written \cup group.entries) \ (mem \cup imm \cup group.entries)
      BY <3>1, <3>2 DEF Flushed, Memory, Inflight
    <3>6. QED
      BY <3>1, <3>3, <3>4, <3>5
  <2>5. CASE InsertInto
    <3>1. /\ group.phase = "insert" /\ mem' = mem \cup group.entries
          /\ group' = [group EXCEPT !.phase = "finish"] /\ UNCHANGED <<imm, written>>
      BY <2>5 DEF InsertInto, history
    <3>2. group'.phase = "finish"
      BY <1>4, <3>1
    <3>3. Memory' = Memory
      BY <3>1, <3>2 DEF Memory, Inflight
    <3>4. QED
      BY <3>1, <3>3 DEF Flushed
  <2>6. CASE FinishWrite
    <3>1. /\ group.phase = "finish" /\ group'.phase = "none" /\ UNCHANGED <<mem, imm, written>>
      BY <2>6 DEF FinishWrite, NoGroup
    <3>2. Inflight' = Inflight
      BY <3>1 DEF Inflight
    <3>3. QED
      BY <3>1, <3>2 DEF Flushed, Memory
  <2>7. QED
    BY <2>1, <2>2, <2>3, <2>4, <2>5, <2>6 DEF WriterStep
<1>7. QED
  BY <1>1, <1>3, <1>5, <1>6, QuietTables

\* A read may charge a file with a seek; it leaves the tables.
LEMMA ReadTables ==
    ASSUME FileInv, TableInv, StartGet \/ FinishGet
    PROVE  TableInv'
<1>1. /\ UNCHANGED <<tables, manifest, up, bg, mem, imm, group, written>> /\ up = "open"
      /\ \/ current' = current
         \/ \E n : current' = [current EXCEPT !.seekFile = n]
  BY DEF StartGet, FinishGet, disk, queue, history
<1>2. current'.levels = current.levels /\ current'.nextFile = current.nextFile
  BY <1>1 DEF FileInv, VersionOK
<1>3. Files(reader'.levels) \subseteq Files(current.levels)
  <2>1. CASE StartGet
    BY <2>1 DEF StartGet
  <2>2. CASE FinishGet
    BY <2>2, NoFiles DEF FinishGet, NoReader
  <2>3. QED
    BY <2>1, <2>2
<1>4. Flushed' = Flushed
  BY <1>1 DEF Flushed, Memory, Inflight
<1>5. QED
  BY <1>1, <1>2, <1>3, <1>4, QuietTables

\* A step that changes nothing.
LEMMA NoStepTables ==
    ASSUME FileInv, TableInv, UNCHANGED vars
    PROVE  TableInv'
<1>1. UNCHANGED <<logs, tables, manifest, up, bg, mem, imm, group, written, current, reader>>
  BY DEF vars, disk, queue, history
<1>2. Flushed' = Flushed /\ LoggedEntries' = LoggedEntries
  BY <1>1 DEF Flushed, Memory, Inflight, LoggedEntries, LogEntries, Replayed
<1>3. QED
  BY <1>1, <1>2, QuietTables

\* A step of the background thread leaves the memory and the logs.
LEMMA ThreadFlushed ==
    ASSUME UNCHANGED <<mem, imm, group, written>>
    PROVE  Flushed' = Flushed
BY DEF Flushed, Memory, Inflight

\* The levels have their files, with their entries.
LEMMA LevelFiles ==
    ASSUME FileInv, TableInv, up # "down"
    PROVE  /\ \A l \in Level : TablesFilled(current.levels[l]) /\ IsFiniteSet(current.levels[l])
           /\ \A n \in NeededFiles : n \in Nat /\ n \in DOMAIN tables /\ n < current.nextFile
           /\ Files(current.levels) \subseteq NeededFiles
           /\ current.nextFile \in Nat
<1>1. Files(current.levels) \subseteq NeededFiles
  BY DEF NeededFiles
<1>2. /\ \A n \in NeededFiles : n \in Nat /\ n \in DOMAIN tables /\ n < current.nextFile
      /\ current.nextFile \in Nat
  BY DEF FileInv, TableInv, TablesOK
<1>3. ASSUME NEW l \in Level
      PROVE  TablesFilled(current.levels[l]) /\ IsFiniteSet(current.levels[l])
  <2>1. current.levels[l] \subseteq Files(current.levels)
    BY DEF Files
  <2>2. PICK S, b : S = current.levels[l] /\ b = current.nextFile
    OBVIOUS
  <2>3. S \in SUBSET Nat /\ b \in Nat /\ \A n \in S : n <= b
    BY <1>1, <1>2, <2>1, <2>2
  <2>4. IsFiniteSet(S)
    BY <2>3, FS_BoundedSetOfNaturals
  <2>5. TablesFilled(S)
    BY <1>1, <1>2, <2>1, <2>2 DEF TablesFilled, TableInv, TablesOK
  <2>6. QED
    BY <2>2, <2>4, <2>5
<1>4. QED
  BY <1>1, <1>2, <1>3

\* A merge in progress has its files in the levels.
LEMMA MergingFiles ==
    ASSUME FileInv, NEW c, c = bg.comp, NEW T, MergePlace(T, c, current.levels)
    PROVE  c.in0 \cup c.in1 \cup c.outputs \cup Files(c.base) \subseteq NeededFiles
<1>1. Files(current.levels) \cup Files(c.base) \cup c.outputs \subseteq NeededFiles
  BY DEF NeededFiles
<1>2. \A l \in Level : current.levels[l] \subseteq Files(current.levels)
  BY DEF Files
<1>3. c.in0 \cup c.in1 \subseteq Files(current.levels)
  BY <1>2 DEF MergePlace
<1>4. QED
  BY <1>1, <1>3
-----------------------------------------------------------------------------
(* The background thread.                                                  *)

\* File n of level m after an edit: it was there or was added.
LEMMA ApplyIs ==
    ASSUME NEW lv, NEW edit, NEW m \in Level, NEW n
    PROVE  n \in ApplyEdit(lv, edit)[m] <=>
              \/ n \in lv[m] /\ ~\E d \in edit.del : d[1] = m /\ d[2] = n
              \/ \E a \in edit.add : a[1] = m /\ a[2] = n
BY DEF ApplyEdit

\* File n of level m is in the set A of an edit.
Names(A, m, n) == \E a \in A : a[1] = m /\ a[2] = n

\* The files S at level l.
LEMMA FilesAt ==
    ASSUME NEW l, NEW S, NEW m, NEW n
    PROVE  Names(At(l, S), m, n) <=> m = l /\ n \in S
<1>1. \A a \in At(l, S) : a[1] = l /\ a[2] \in S
  BY DEF At
<1>2. \A x \in S : <<l, x>> \in At(l, S) /\ <<l, x>>[1] = l /\ <<l, x>>[2] = x
  BY DEF At
<1>3. QED
  BY <1>1, <1>2 DEF Names

AddsTo(edit, l, n) == edit.add = {<<l, n>>} /\ edit.del = {}

\* The edit of a flush adds its table.
LEMMA ApplyFlush ==
    ASSUME NEW lv, NEW edit, NEW l \in Level, NEW n, AddsTo(edit, l, n)
    PROVE  \A m \in Level : ApplyEdit(lv, edit)[m] = IF m = l THEN lv[m] \cup {n} ELSE lv[m]
<1> SUFFICES ASSUME NEW m \in Level
             PROVE  ApplyEdit(lv, edit)[m] = IF m = l THEN lv[m] \cup {n} ELSE lv[m]
  OBVIOUS
<1>1. ASSUME NEW x
      PROVE  x \in ApplyEdit(lv, edit)[m] <=> x \in lv[m] \/ (m = l /\ x = n)
  <2>1. (\E a \in edit.add : a[1] = m /\ a[2] = x) <=> m = l /\ x = n
    BY DEF AddsTo
  <2>2. ~\E d \in edit.del : d[1] = m /\ d[2] = x
    BY DEF AddsTo
  <2>3. x \in ApplyEdit(lv, edit)[m] <=>
              \/ x \in lv[m] /\ ~\E d \in edit.del : d[1] = m /\ d[2] = x
              \/ \E a \in edit.add : a[1] = m /\ a[2] = x
    BY ApplyIs
  <2>4. QED
    BY <2>1, <2>2, <2>3
<1>2. CASE m = l
  <2>1. ApplyEdit(lv, edit)[m] = lv[m] \cup {n}
    BY <1>1, <1>2
  <2>2. QED
    BY <1>2, <2>1
<1>3. CASE m # l
  <2>1. ApplyEdit(lv, edit)[m] = lv[m]
    BY <1>1, <1>3
  <2>2. QED
    BY <1>3, <2>1
<1>4. QED
  BY <1>2, <1>3

\* The edit takes I out of level L and J out of level K, and puts O into K.
Swaps(edit, L, I, K, J, O) ==
    edit.add = At(K, O) /\ edit.del = At(L, I) \cup At(K, J)

\* The edit of a merge swaps the inputs for the outputs.
LEMMA ApplyMerge ==
    ASSUME NEW lv, NEW edit, NEW L, NEW K, L # K, NEW O, NEW I, NEW J,
           Swaps(edit, L, I, K, J, O)
    PROVE  Swapped(ApplyEdit(lv, edit), lv, L, I, K, J, O)
<1>1. ASSUME NEW m \in Level, NEW x
      PROVE  x \in ApplyEdit(lv, edit)[m] <=>
                \/ x \in lv[m] /\ ~(m = L /\ x \in I) /\ ~(m = K /\ x \in J)
                \/ m = K /\ x \in O
  <2>1. Names(At(K, O), m, x) <=> m = K /\ x \in O
    BY FilesAt
  <2>2. (\E a \in edit.add : a[1] = m /\ a[2] = x) <=> m = K /\ x \in O
    BY <2>1 DEF Swaps, Names
  <2>3. Names(At(L, I), m, x) <=> m = L /\ x \in I
    BY FilesAt
  <2>4. Names(At(K, J), m, x) <=> m = K /\ x \in J
    BY FilesAt
  <2>5. (\E d \in edit.del : d[1] = m /\ d[2] = x) <=>
            Names(At(L, I), m, x) \/ Names(At(K, J), m, x)
    <3>1. edit.del = At(L, I) \cup At(K, J)
      BY DEF Swaps
    <3>2. QED
      BY <3>1 DEF Names
  <2>6. x \in ApplyEdit(lv, edit)[m] <=>
              \/ x \in lv[m] /\ ~\E d \in edit.del : d[1] = m /\ d[2] = x
              \/ \E a \in edit.add : a[1] = m /\ a[2] = x
    BY ApplyIs
  <2>7. QED
    BY <2>2, <2>3, <2>4, <2>5, <2>6
<1>2. L \in Level => ApplyEdit(lv, edit)[L] = lv[L] \ I
  BY <1>1
<1>3. K \in Level => ApplyEdit(lv, edit)[K] = (lv[K] \ J) \cup O
  BY <1>1
<1>4. \A m \in Level : m # L /\ m # K => ApplyEdit(lv, edit)[m] = lv[m]
  BY <1>1
<1>5. QED
  BY <1>2, <1>3, <1>4 DEF Swapped

\* The background thread works only while the engine is open.
LEMMA ThreadOpen ==
    ASSUME FileInv, bg.pc # "idle"
    PROVE  up = "open" /\ bg = [pc |-> bg.pc, comp |-> bg.comp, edit |-> bg.edit]
BY DEF FileInv, ThreadOK, Idle

\* A flush starts, alone or inside a merge.
LEMMA StartFlushTables ==
    ASSUME FileInv, LogInv, TableInv, StartFlush
    PROVE  TableInv'
<1>1. /\ up = "open" /\ bg' = [bg EXCEPT !.pc = "flush"] /\ bg.pc \in {"idle", "merge"}
      /\ UNCHANGED <<tables, manifest, up, current, reader, mem, imm, group, written>>
  BY DEF StartFlush, disk, queue, history
<1>2. bg'.pc = "flush" /\ bg'.comp = bg.comp /\ bg'.edit = bg.edit
  BY <1>1 DEF FileInv, ThreadOK
<1>3. Flushed' = Flushed
  BY <1>1, ThreadFlushed
<1>4. NeededFiles' \subseteq NeededFiles
  BY <1>1, <1>2 DEF NeededFiles
<1>5. TablesOK'
  BY <1>1, <1>2, <1>4 DEF TableInv, TablesOK
<1>6. MergeInv'
  BY <1>1, <1>2 DEF TableInv, MergeInv, Merging, Flushes
<1>7. LevelsInv'
  BY <1>1, <1>2, <1>3 DEF TableInv, LevelsInv
<1>8. QED
  BY <1>5, <1>6, <1>7 DEF TableInv

\* The memtable in a table of its own.
LEMMA FlushTables ==
    ASSUME FileInv, LogInv, SeqInv, TableInv, NEW l \in Level, WriteLevel0Table(l)
    PROVE  TableInv'
<1>1. PICK number, T, lv, t, c, F :
         /\ number = current.nextFile /\ T = tables' /\ lv = current.levels /\ t = imm
         /\ c = bg.comp /\ F = Flushed
  OBVIOUS
<1>2. /\ bg.pc = "flush"
      /\ T = [n \in DOMAIN tables \cup {number} |-> IF n = number THEN t ELSE tables[n]]
      /\ current' = [current EXCEPT !.nextFile = number + 1]
      /\ bg' = [bg EXCEPT !.pc = "log",
                          !.edit = Edit("flush", {<<l, number>>}, {}, logfile, current')]
      /\ l \in PickLevelForMemTableOutput(t)
      /\ UNCHANGED <<logs, manifest, up, mem, imm, logfile, group, reader, written>>
  BY <1>1 DEF WriteLevel0Table, queue, history
<1>3. /\ up = "open" /\ up # "down" /\ t # {} /\ ~Flushes /\ 0 \in Level
  BY <1>1, <1>2, ThreadOpen DEF LogInv, EditOK, Flushes, Level
<1>4. /\ bg'.pc = "log" /\ bg'.comp = c
      /\ bg'.edit = Edit("flush", {<<l, number>>}, {}, logfile, current')
  BY <1>1, <1>2 DEF FileInv, ThreadOK
<1>5. current'.levels = lv /\ current'.nextFile = number + 1 /\ number \in Nat
  BY <1>1, <1>2, <1>3, LevelFiles DEF FileInv, VersionOK
<1>6. /\ bg'.edit.kind = "flush" /\ bg'.edit.add = {<<l, number>>} /\ bg'.edit.del = {}
      /\ bg'.edit.nextFile = number + 1
  BY <1>4, <1>5 DEF Edit
<1>7. Flushes' /\ Flushed' = F /\ EditHolds' = F \cup t
  <2>1. Flushes'
    BY <1>4, <1>6 DEF Flushes
  <2>2. Flushed' = F
    BY <1>1, <1>2, ThreadFlushed
  <2>3. QED
    BY <1>1, <1>2, <2>1, <2>2 DEF EditHolds
<1>8. /\ \A n \in NeededFiles : n \in Nat /\ n \in DOMAIN tables /\ n < number
      /\ \A n \in Files(manifest.levels) : n \in DOMAIN tables /\ n < number
      /\ \A j \in Level : TablesFilled(lv[j])
      /\ Files(lv) \subseteq NeededFiles
  BY <1>1, <1>3, LevelFiles DEF FileInv, NoMissingFiles, TableInv, TablesOK
<1>9. /\ T[number] = t
      /\ \A n \in DOMAIN tables : n \in DOMAIN T /\ (n # number => T[n] = tables[n])
      /\ DOMAIN T = DOMAIN tables \cup {number}
  BY <1>2
<1>10. \A n \in NeededFiles \cup Files(manifest.levels) : T[n] = tables[n]
  BY <1>5, <1>8, <1>9
<1>11. /\ F \subseteq Entry /\ t \subseteq Entry /\ Above(t, F)
  <2>1. F \subseteq written /\ t \subseteq written
    BY <1>1 DEF Flushed, SeqInv, MemoryNumbers
  <2>2. t \subseteq Memory
    BY <1>1 DEF Memory
  <2>3. QED
    BY <1>1, <2>1, <2>2 DEF SeqInv, WrittenNumbers, MemoryNumbers, Before, Above
<1>12. Good(T, lv, F)
  <2>1. Good(tables, lv, F)
    BY <1>1, <1>3 DEF TableInv, LevelsInv
  <2>2. QED
    BY <1>8, <1>10, <2>1, GoodKept
<1>13. l # 0 => \A m \in Level : m <= l => \A n \in lv[m] : Apart(T[n], t)
  <2> SUFFICES ASSUME l # 0, NEW m \in Level, m <= l, NEW n \in lv[m] PROVE Apart(T[n], t)
    OBVIOUS
  <2>1. ~Overlap(t, lv[m])
    <3>1. \A j \in 0..l : ~Overlap(t, lv[j])
      BY <1>1, <1>2 DEF PickLevelForMemTableOutput
    <3>2. m \in 0..l
      BY DEF Level
    <3>3. QED
      BY <3>1, <3>2
  <2>2. Apart(tables[n], t)
    BY <1>3, <1>8, <1>11, <2>1, OverlapIs
  <2>3. n \in NeededFiles
    BY <1>8 DEF Files
  <2>4. QED
    BY <1>10, <2>2, <2>3
<1>14. PICK edit, new : edit = bg'.edit /\ new = ApplyEdit(lv, edit)
  OBVIOUS
<1>15. /\ \A m \in Level : new[m] = IF m = l THEN lv[m] \cup {number} ELSE lv[m]
       /\ new[l] = lv[l] \cup {number} /\ \A m \in Level : m # l => new[m] = lv[m]
  <2>1. AddsTo(edit, l, number)
    BY <1>6, <1>14 DEF AddsTo
  <2>2. \A m \in Level : ApplyEdit(lv, edit)[m] = IF m = l THEN lv[m] \cup {number} ELSE lv[m]
    BY <2>1, ApplyFlush
  <2>3. \A m \in Level : new[m] = IF m = l THEN lv[m] \cup {number} ELSE lv[m]
    BY <1>14, <2>2
  <2>4. QED
    BY <2>3
<1>16. Edited' = new
  BY <1>5, <1>14 DEF Edited
<1>17. \A n \in lv[0] : n \in Nat /\ n < number
  BY <1>3, <1>8 DEF Files
<1>f. Flushing(T, lv, F, number, t, l, new)
  BY <1>5, <1>9, <1>11, <1>12, <1>13, <1>15, <1>17 DEF Flushing
<1>18. Good(T, new, F \cup t)
  BY <1>f, FlushedLevels
<1>19. LevelsInv'
  BY <1>1, <1>2, <1>3, <1>4, <1>5, <1>7, <1>12, <1>16, <1>18 DEF LevelsInv
<1>20. TablesOK'
  <2>1. \A n \in DOMAIN T : n \in Nat /\ T[n] # {} /\ T[n] \subseteq Entry
    BY <1>3, <1>5, <1>9, <1>11 DEF TableInv, TablesOK
  <2>2. NeededFiles' \subseteq NeededFiles \cup {number}
    <3>1. Added(bg'.edit) = {number}
      BY <1>6 DEF Added
    <3>2. QED
      BY <1>1, <1>2, <1>4, <1>5, <3>1 DEF NeededFiles
  <2>3. \A n \in Nat : n < number => n < number + 1
    BY <1>5
  <2>4. number < number + 1 /\ number + 1 \in Nat
    BY <1>5
  <2>5. \A n \in Files(manifest.levels) : n \in Nat
    BY <1>8 DEF TableInv, TablesOK
  <2>6. \A n \in NeededFiles' \cup Files(manifest.levels) : n < number + 1
    BY <1>8, <2>2, <2>3, <2>4, <2>5
  <2>7. Files(new) \subseteq Files(lv) \cup {number}
    BY <1>15 DEF Files
  <2>8. \A n \in Files(new) : n < number + 1
    BY <1>8, <2>3, <2>4, <2>7
  <2>9. \A n \in Files(manifest.levels) : n < manifest.nextFile
    BY DEF TableInv, TablesOK
  <2>10. QED
    BY <1>1, <1>2, <1>3, <1>5, <1>6, <1>16, <2>1, <2>4, <2>6, <2>8, <2>9 DEF TablesOK
<1>21. MergeInv'
  <2>1. ASSUME c # NoCompaction
        PROVE  MergeDone(T, c) /\ MergePlace(T, c, lv) /\ MergePlace(T, c, new)
    <3>1. MergeDone(tables, c) /\ MergePlace(tables, c, lv)
      BY <1>1, <1>2, <2>1 DEF TableInv, MergeInv, Merging
    <3>2. \A n \in c.in0 \cup c.in1 \cup c.outputs \cup Files(c.base) : T[n] = tables[n]
      BY <1>1, <1>10, <3>1, MergingFiles
    <3>3. MergeDone(T, c)
      BY <3>1, <3>2, DoneKept
    <3>4. MergePlace(T, c, lv)
      BY <1>8, <1>10, <3>1, PlaceKept
    <3>5. MergePlace(T, c, new)
      BY <1>f, <3>4, FlushedPlace
    <3>6. QED
      BY <3>3, <3>4, <3>5
  <2>2. QED
    BY <1>1, <1>4, <1>5, <1>16, <2>1 DEF MergeInv, Merging
<1>22. QED
  BY <1>19, <1>20, <1>21 DEF TableInv

\* What a step of the background thread leaves as it was.
QuietThread ==
    UNCHANGED <<manifest, up, reader, mem, imm, group, written>>

\* The files of a merge are in the levels, and their entries are flushed.
LEMMA MergedAreThere ==
    ASSUME NEW T, NEW c, NEW lv, NEW W, Good(T, lv, W), MergePlace(T, c, lv)
    PROVE  Merged(T, c) \subseteq W
<1>1. c.in0 \cup c.in1 \subseteq Files(lv)
  BY DEF MergePlace, Files
<1>2. Merged(T, c) \subseteq Entries(T, Files(lv))
  BY <1>1 DEF Merged, Entries
<1>3. QED
  BY <1>2 DEF Good, Holds

\* A merge, or a move, that may be put into an edit.
Prepared(c, edit) ==
    /\ MergePlace(tables, c, current.levels)
    /\ Covered(tables, c.in0 \cup c.in1)
    /\ Replaces(tables, c, Entries(tables, c.outputs), Merged(tables, c))
    /\ \A m, n \in c.outputs : m # n => Apart(tables[m], tables[n])
    /\ c.outputs \subseteq NeededFiles
    /\ Swaps(edit, c.level, c.in0, c.level + 1, c.in1, c.outputs)
    /\ edit.kind # "flush" /\ edit.nextFile = current.nextFile

\* An edit that replaces the inputs of a merge by its outputs is on its way.
LEMMA PreparedTables ==
    ASSUME FileInv, SeqInv, TableInv, up = "open", NEW c, NEW edit, Prepared(c, edit),
           QuietThread, UNCHANGED <<tables, current>>,
           bg'.pc = "log", bg'.comp = bg.comp, bg'.edit = edit, bg.pc \in {"idle", "merge"}
    PROVE  TableInv'
<1>1. PICK lv, F, new : lv = current.levels /\ F = Flushed /\ new = ApplyEdit(lv, edit)
  OBVIOUS
<1>2. Swapped(new, lv, c.level, c.in0, c.level + 1, c.in1, c.outputs)
  <2>1. c.level # c.level + 1
    BY DEF Prepared, MergePlace, Level
  <2>2. Swaps(edit, c.level, c.in0, c.level + 1, c.in1, c.outputs)
    BY DEF Prepared
  <2>3. QED
    BY <1>1, <2>1, <2>2, ApplyMerge
<1>3. F \subseteq Entry /\ Good(tables, lv, F)
  BY <1>1 DEF Flushed, SeqInv, WrittenNumbers, TableInv, LevelsInv
<1>4. Good(tables, new, F)
  <2>1. /\ MergePlace(tables, c, lv) /\ Covered(tables, c.in0 \cup c.in1)
        /\ Replaces(tables, c, Entries(tables, c.outputs), Merged(tables, c))
        /\ \A m, n \in c.outputs : m # n => Apart(tables[m], tables[n])
    BY <1>1 DEF Prepared
  <2>2. QED
    BY <1>2, <1>3, <2>1, MergedLevels
<1>5. ~Flushes /\ ~Flushes' /\ Flushed' = F /\ EditHolds' = F /\ Edited' = new
  <2>1. ~Flushes /\ ~Flushes'
    BY DEF Flushes, Prepared
  <2>2. Flushed' = F
    BY <1>1, ThreadFlushed DEF QuietThread
  <2>3. QED
    BY <1>1, <2>1, <2>2 DEF EditHolds, Edited
<1>6. LevelsInv'
  BY <1>1, <1>3, <1>4, <1>5 DEF LevelsInv, QuietThread
<1>7. MergeInv'
  BY <1>5 DEF MergeInv
<1>8. NeededFiles' \subseteq NeededFiles
  <2>1. Added(edit) \subseteq c.outputs
    <3>1. edit.add = At(c.level + 1, c.outputs)
      BY DEF Prepared, Swaps
    <3>2. QED
      BY <3>1 DEF Added, At
  <2>2. c.outputs \subseteq NeededFiles
    BY DEF Prepared
  <2>3. QED
    BY <2>1, <2>2 DEF NeededFiles, QuietThread
<1>9. Files(new) \subseteq NeededFiles
  <2>1. \A m \in Level : new[m] \subseteq lv[m] \cup c.outputs
    BY <1>2 DEF Swapped
  <2>3. Files(new) \subseteq Files(lv) \cup c.outputs
    BY <2>1 DEF Files
  <2>4. QED
    BY <1>1, <2>3 DEF NeededFiles, Prepared
<1>10. TablesOK'
  <2>1. edit.nextFile = current.nextFile
    BY DEF Prepared
  <2>2. QED
    BY <1>5, <1>8, <1>9, <2>1 DEF TableInv, TablesOK, QuietThread
<1>11. QED
  BY <1>6, <1>7, <1>10 DEF TableInv

\* The inputs that were picked may be merged.
LEMMA PickedTables ==
    ASSUME FileInv, SeqInv, TableInv, up = "open",
           NEW pick \in Picks, NEW in \in Inputs(pick[1], pick[2])
    PROVE  /\ pick[1] \in 0 .. kNumLevels - 2
           /\ MayMerge(tables, current.levels, pick[1], in[1], in[2])
           /\ Flushed \subseteq Entry /\ Good(tables, current.levels, Flushed)
           /\ in[1] \cup in[2] \subseteq Files(current.levels)
<1>1. pick[1] \in 0 .. kNumLevels - 2 /\ pick[2] \in current.levels[pick[1]]
  BY DEF Picks
<1>2. Flushed \subseteq Entry /\ Good(tables, current.levels, Flushed)
  BY DEF Flushed, SeqInv, WrittenNumbers, TableInv, LevelsInv
<1>3. \A l \in Level : TablesFilled(current.levels[l]) /\ IsFiniteSet(current.levels[l])
  BY LevelFiles
<1>4. MayMerge(tables, current.levels, pick[1], in[1], in[2])
  BY <1>1, <1>2, <1>3, MergeInputs DEF Good
<1>5. pick[1] \in Level /\ pick[1] + 1 \in Level
  BY <1>1 DEF Level
<1>6. in[1] \cup in[2] \subseteq Files(current.levels)
  BY <1>4, <1>5 DEF MayMerge, Files
<1>7. QED
  BY <1>1, <1>2, <1>4, <1>6

\* A file that moves down is a merge of one file with itself as output.
LEMMA MoveTables ==
    ASSUME FileInv, SeqInv, TableInv,
           NEW pick \in Picks, NEW in \in Inputs(pick[1], pick[2]), TrivialMove(pick, in)
    PROVE  TableInv'
<1>1. PICK L, lv, I, edit : L = pick[1] /\ lv = current.levels /\ I = in[1] /\ edit = bg'.edit
  OBVIOUS
<1>2. PICK c : c = [level |-> L, in0 |-> I, in1 |-> {}, base |-> lv, snapshot |-> 0,
                    todo |-> {}, outputs |-> I]
  OBVIOUS
<1>3. /\ c.level = L /\ c.in0 = I /\ c.in1 = {} /\ c.base = lv /\ c.outputs = I
  BY <1>2
<1>4. /\ up = "open" /\ bg.pc = "idle" /\ Cardinality(I) = 1 /\ in[2] = {}
      /\ bg' = [bg EXCEPT !.pc = "log",
                          !.edit = Edit("move", At(L + 1, I), At(L, I),
                                        current.logNumber, current)]
      /\ UNCHANGED <<tables, current>> /\ QuietThread
  BY <1>1 DEF TrivialMove, MayCompact, disk, queue, history, QuietThread
<1>5. bg'.pc = "log" /\ bg'.comp = bg.comp
      /\ edit = Edit("move", At(L + 1, I), At(L, I), current.logNumber, current)
  BY <1>1, <1>4 DEF FileInv, ThreadOK
<1>6. /\ L \in 0 .. kNumLevels - 2 /\ MayMerge(tables, lv, L, c.in0, c.in1)
      /\ Flushed \subseteq Entry /\ Good(tables, lv, Flushed) /\ I \subseteq Files(lv)
  BY <1>1, <1>3, <1>4, PickedTables
<1>7. MergePlace(tables, c, lv)
  BY <1>3, <1>6, PlaceOfMerge
<1>8. \A m, n \in I : m = n
  <2>1. IsFiniteSet(I)
    <3>1. L \in Level
      BY <1>6 DEF Level
    <3>2. IsFiniteSet(lv[L])
      BY <1>1, <1>4, <3>1, LevelFiles
    <3>3. I \subseteq lv[L]
      BY <1>3, <1>6 DEF MayMerge
    <3>4. QED
      BY <3>2, <3>3, FS_Subset
  <2>2. \E x : I = {x}
    BY <1>4, <2>1, FS_Singleton
  <2>3. QED
    BY <2>2
<1>9. Replaces(tables, c, Entries(tables, c.outputs), Merged(tables, c))
  <2>1. Merged(tables, c) = Entries(tables, c.outputs)
    BY <1>3 DEF Merged
  <2>2. QED
    BY <2>1 DEF Replaces
<1>10. Swaps(edit, L, I, L + 1, {}, I) /\ edit.kind # "flush" /\ edit.nextFile = current.nextFile
  <2>1. At(L + 1, {}) = {}
    BY DEF At
  <2>2. edit.add = At(L + 1, I) /\ edit.del = At(L, I) /\ edit.kind = "move"
        /\ edit.nextFile = current.nextFile
    BY <1>5 DEF Edit
  <2>3. QED
    BY <2>1, <2>2 DEF Swaps
<1>11. Prepared(c, edit)
  <2>1. c.outputs \subseteq NeededFiles
    BY <1>1, <1>3, <1>6 DEF NeededFiles
  <2>2. Covered(tables, c.in0 \cup c.in1)
    BY <1>6 DEF MayMerge
  <2>3. QED
    BY <1>1, <1>3, <1>7, <1>8, <1>9, <1>10, <2>1, <2>2 DEF Prepared
<1>12. QED
  BY <1>1, <1>4, <1>5, <1>11, PreparedTables

\* The edit of a merge that is done.
LEMMA ResultsTables ==
    ASSUME FileInv, SeqInv, TableInv, InstallCompactionResults
    PROVE  TableInv'
<1>1. PICK c, edit, lv : c = bg.comp /\ edit = bg'.edit /\ lv = current.levels
  OBVIOUS
<1>2. /\ bg.pc = "merge" /\ c.todo = {}
      /\ bg' = [bg EXCEPT !.pc = "log",
                          !.edit = Edit("merge", At(c.level + 1, c.outputs),
                                        At(c.level, c.in0) \cup At(c.level + 1, c.in1),
                                        current.logNumber, current)]
      /\ UNCHANGED <<tables, current>> /\ QuietThread
  BY <1>1 DEF InstallCompactionResults, disk, queue, history, QuietThread
<1>3. up = "open"
  BY <1>2, ThreadOpen
<1>4. bg'.pc = "log" /\ bg'.comp = bg.comp
      /\ edit = Edit("merge", At(c.level + 1, c.outputs),
                     At(c.level, c.in0) \cup At(c.level + 1, c.in1), current.logNumber, current)
  BY <1>1, <1>2 DEF FileInv, ThreadOK
<1>5. MergeDone(tables, c) /\ MergePlace(tables, c, lv)
  BY <1>1, <1>2 DEF TableInv, MergeInv
<1>6. Replaces(tables, c, Entries(tables, c.outputs), Merged(tables, c))
  <2>1. {e \in Merged(tables, c) : e.key \notin c.todo} = Merged(tables, c)
    BY <1>2
  <2>2. QED
    BY <1>5, <2>1 DEF MergeDone
<1>7. Prepared(c, edit)
  <2>1. c.outputs \subseteq NeededFiles
    BY <1>1 DEF NeededFiles
  <2>2. /\ edit.add = At(c.level + 1, c.outputs)
        /\ edit.del = At(c.level, c.in0) \cup At(c.level + 1, c.in1)
        /\ edit.kind = "merge" /\ edit.nextFile = current.nextFile
    BY <1>4 DEF Edit
  <2>3. QED
    BY <1>1, <1>5, <1>6, <2>1, <2>2 DEF Prepared, MergeDone, Swaps
<1>8. QED
  BY <1>1, <1>2, <1>3, <1>4, <1>7, PreparedTables

\* A merge starts, with nothing done.
LEMMA StartMergeTables ==
    ASSUME FileInv, SeqInv, TableInv,
           NEW pick \in Picks, NEW in \in Inputs(pick[1], pick[2]), StartMerge(pick, in)
    PROVE  TableInv'
<1>1. PICK L, lv, M, c : L = pick[1] /\ lv = current.levels /\ c = bg'.comp
                         /\ M = Entries(tables, in[1] \cup in[2])
  OBVIOUS
<1>2. /\ up = "open" /\ bg.pc = "idle"
      /\ bg' = [bg EXCEPT !.pc = "merge",
                          !.comp = [level |-> L, in0 |-> in[1], in1 |-> in[2], base |-> lv,
                                    snapshot |-> current.lastSequence,
                                    todo |-> {e.key : e \in M}, outputs |-> {}]]
      /\ UNCHANGED <<tables, current>> /\ QuietThread
  BY <1>1 DEF StartMerge, MayCompact, disk, queue, history, QuietThread, Entries
<1>3. /\ bg'.pc = "merge" /\ bg'.edit = bg.edit
      /\ c = [level |-> L, in0 |-> in[1], in1 |-> in[2], base |-> lv,
              snapshot |-> current.lastSequence, todo |-> {e.key : e \in M}, outputs |-> {}]
  BY <1>1, <1>2 DEF FileInv, ThreadOK
<1>4. /\ c.level = L /\ c.in0 = in[1] /\ c.in1 = in[2] /\ c.base = lv /\ c.outputs = {}
      /\ c.snapshot = current.lastSequence /\ c.todo = {e.key : e \in M}
  BY <1>3
<1>5. /\ L \in 0 .. kNumLevels - 2 /\ MayMerge(tables, lv, L, c.in0, c.in1)
      /\ Flushed \subseteq Entry /\ Good(tables, lv, Flushed)
  BY <1>1, <1>2, <1>4, PickedTables
<1>6. MergePlace(tables, c, lv) /\ Merged(tables, c) \subseteq Flushed /\ M = Merged(tables, c)
  BY <1>1, <1>4, <1>5, PlaceOfMerge DEF Merged
<1>7. MergeDone(tables, c)
  <2>1. \A e \in M : e.seq <= c.snapshot
    BY <1>2, <1>4, <1>6, FlushedArePublished
  <2>2. \A e \in M : e.key \in c.todo
    BY <1>4
  <2>3. {e \in M : e.key \notin c.todo} = {}
    BY <2>2
  <2>4. Entries(tables, c.outputs) = {}
    BY <1>4 DEF Entries
  <2>5. Replaces(tables, c, Entries(tables, c.outputs), {e \in M : e.key \notin c.todo})
    BY <2>3, <2>4 DEF Replaces
  <2>6. Covered(tables, c.in0 \cup c.in1)
    BY <1>5 DEF MayMerge
  <2>7. c.todo \subseteq {e.key : e \in M}
    BY <1>4
  <2>8. \A m, n \in c.outputs : m # n => Apart(tables[m], tables[n])
    BY <1>4
  <2>9. \A e \in M, k \in c.todo : e.key \notin c.todo => e.key < k
    BY <2>2
  <2>10. QED
    BY <1>6, <2>1, <2>5, <2>6, <2>7, <2>8, <2>9 DEF MergeDone
<1>8. ~Flushes' /\ Flushed' = Flushed
  BY <1>2, <1>3, ThreadFlushed DEF Flushes, QuietThread
<1>9. MergeInv'
  <2>1. c # NoCompaction
    <3>1. L # -1
      BY <1>5
    <3>2. QED
      BY <1>4, <3>1 DEF NoCompaction
  <2>2. QED
    BY <1>1, <1>2, <1>3, <1>6, <1>7, <1>8, <2>1 DEF MergeInv, Merging
<1>10. LevelsInv'
  BY <1>1, <1>2, <1>3, <1>5, <1>8 DEF LevelsInv, QuietThread
<1>11. NeededFiles' \subseteq NeededFiles
  BY <1>1, <1>2, <1>3, <1>4 DEF NeededFiles, QuietThread
<1>12. TablesOK'
  BY <1>2, <1>3, <1>11 DEF TableInv, TablesOK, QuietThread
<1>13. QED
  BY <1>9, <1>10, <1>12 DEF TableInv

\* MANIFEST takes the edit.
LEMMA ManifestTables ==
    ASSUME FileInv, TableInv, WriteManifest
    PROVE  TableInv'
<1>1. /\ bg.pc = "log" /\ bg' = [bg EXCEPT !.pc = "install"]
      /\ manifest'.levels = ApplyEdit(manifest.levels, bg.edit)
      /\ manifest'.nextFile = bg.edit.nextFile
      /\ UNCHANGED <<tables, up, current, reader, mem, imm, group, written>>
  BY DEF WriteManifest, queue, history
<1>2. /\ up = "open" /\ bg'.pc = "install" /\ bg'.comp = bg.comp /\ bg'.edit = bg.edit
      /\ manifest'.levels = Edited
  BY <1>1, ThreadOpen DEF FileInv, ThreadOK, ManifestOK, Edited
<1>3. Edited' = Edited /\ Flushes' = Flushes /\ Flushed' = Flushed /\ EditHolds' = EditHolds
  <2>1. Edited' = Edited /\ Flushes' = Flushes
    BY <1>1, <1>2 DEF Edited, Flushes
  <2>2. Flushed' = Flushed
    BY <1>1, ThreadFlushed
  <2>3. QED
    BY <1>1, <2>1, <2>2 DEF EditHolds
<1>4. NeededFiles' = NeededFiles
  BY <1>1, <1>2 DEF NeededFiles
<1>5. Files(Edited) \subseteq NeededFiles
  <2>1. Files(Edited) \subseteq Files(current.levels) \cup Added(bg.edit)
    BY EditedFiles DEF Edited
  <2>2. QED
    BY <1>1, <2>1 DEF NeededFiles
<1>6. TablesOK'
  BY <1>1, <1>2, <1>3, <1>4, <1>5 DEF TableInv, TablesOK
<1>7. MergeInv'
  BY <1>1, <1>2, <1>3 DEF TableInv, MergeInv, Merging
<1>8. LevelsInv'
  BY <1>1, <1>2, <1>3 DEF TableInv, LevelsInv
<1>9. QED
  BY <1>6, <1>7, <1>8 DEF TableInv

\* The edit is installed, and the files that nobody needs are deleted.
LEMMA InstallTables ==
    ASSUME FileInv, LogInv, SeqInv, TableInv, Install
    PROVE  TableInv'
<1>1. PICK T, lv, new, c : T = tables' /\ lv = current.levels /\ new = Edited /\ c = bg.comp
  OBVIOUS
<1>2. /\ bg.pc = "install"
      /\ current' = [current EXCEPT !.levels = new, !.logNumber = bg.edit.logNumber,
                                    !.seekFile = NoFile]
      /\ bg' = IF bg.edit.kind = "flush" /\ c # NoCompaction
               THEN [bg EXCEPT !.pc = "merge", !.edit = NoEdit] ELSE Idle
      /\ T = tables \/ \E S : T = Only(tables, S)
      /\ UNCHANGED <<manifest, up, reader>>
  BY <1>1 DEF Install, DeleteObsoleteFiles, Edited
<1>3. up = "open"
  BY <1>2, ThreadOpen
<1>4. current'.levels = new /\ current'.nextFile = current.nextFile
  BY <1>2 DEF FileInv, VersionOK
<1>5. FileInv' /\ Flushed' = EditHolds
  BY InstallFiles, InstallNumbers
<1>6. /\ DOMAIN T \subseteq DOMAIN tables /\ \A n \in DOMAIN T : T[n] = tables[n]
      /\ NeededFiles' \subseteq DOMAIN T /\ Files(manifest.levels) \subseteq DOMAIN T
  <2>1. DOMAIN T \subseteq DOMAIN tables /\ \A n \in DOMAIN T : T[n] = tables[n]
    BY <1>2 DEF Only
  <2>2. NeededFiles' \subseteq DOMAIN T /\ Files(manifest.levels) \subseteq DOMAIN T
    BY <1>1, <1>2, <1>5 DEF FileInv, NoMissingFiles
  <2>3. QED
    BY <2>1, <2>2
<1>7. Files(new) \subseteq NeededFiles'
  BY <1>4 DEF NeededFiles
<1>8. Good(T, new, EditHolds)
  <2>1. Good(tables, new, EditHolds)
    BY <1>1, <1>2 DEF TableInv, LevelsInv
  <2>2. \A n \in Files(new) : T[n] = tables[n]
    BY <1>6, <1>7
  <2>3. QED
    BY <2>1, <2>2, GoodKept
<1>9. \/ bg' = Idle
      \/ Flushes /\ c # NoCompaction /\ bg'.pc = "merge" /\ bg'.comp = c
  BY <1>1, <1>2 DEF Flushes, FileInv, ThreadOK
<1>10. bg'.pc \in {"idle", "merge"}
  BY <1>9 DEF Idle
<1>11. LevelsInv'
  BY <1>1, <1>2, <1>3, <1>4, <1>5, <1>8, <1>10 DEF LevelsInv
<1>12. MergeInv'
  <2>1. CASE bg' = Idle
    BY <2>1 DEF MergeInv, Idle, Merging
  <2>2. CASE Flushes /\ c # NoCompaction /\ bg'.pc = "merge" /\ bg'.comp = c
    <3>1. MergeDone(tables, c) /\ MergePlace(tables, c, new) /\ MergePlace(tables, c, lv)
      BY <1>1, <2>2 DEF TableInv, MergeInv, Merging
    <3>2. c.in0 \cup c.in1 \subseteq Files(new)
      BY <3>1 DEF MergePlace, Files
    <3>3. c.outputs \cup Files(c.base) \subseteq NeededFiles'
      BY <2>2 DEF NeededFiles
    <3>4. \A n \in c.in0 \cup c.in1 \cup c.outputs \cup Files(c.base) : T[n] = tables[n]
      BY <1>6, <1>7, <3>2, <3>3
    <3>5. MergeDone(T, c)
      BY <3>1, <3>4, DoneKept
    <3>6. \A n \in Files(new) : T[n] = tables[n]
      BY <1>6, <1>7
    <3>7. MergePlace(T, c, new)
      BY <3>1, <3>6, PlaceKept
    <3>8. ~Flushes'
      BY <2>2 DEF Flushes
    <3>9. QED
      BY <1>1, <1>4, <2>2, <3>5, <3>7, <3>8 DEF MergeInv, Merging
  <2>3. QED
    BY <1>9, <2>1, <2>2
<1>13. TablesOK'
  <2>1. NeededFiles' \subseteq NeededFiles
    <3>1. Files(new) \subseteq Files(lv) \cup Added(bg.edit)
      BY <1>1, EditedFiles DEF Edited
    <3>2. Files(new) \subseteq NeededFiles
      BY <1>1, <1>2, <3>1 DEF NeededFiles
    <3>3. Files(bg'.comp.base) \cup bg'.comp.outputs \subseteq NeededFiles
      <4>1. CASE bg' = Idle
        BY <4>1, NoFiles DEF Idle, NoCompaction
      <4>2. CASE bg'.comp = c
        BY <1>1, <4>2 DEF NeededFiles
      <4>3. QED
        BY <1>9, <4>1, <4>2
    <3>4. NeededFiles' = Files(new) \cup Files(reader.levels) \cup Files(bg'.comp.base)
                           \cup bg'.comp.outputs
      BY <1>2, <1>4, <1>10 DEF NeededFiles
    <3>5. Files(reader.levels) \subseteq NeededFiles
      BY DEF NeededFiles
    <3>6. QED
      BY <3>2, <3>3, <3>4, <3>5
  <2>2. \A n \in DOMAIN T : n \in Nat /\ T[n] # {} /\ T[n] \subseteq Entry
    BY <1>6 DEF TableInv, TablesOK
  <2>3. QED
    BY <1>1, <1>2, <1>3, <1>4, <1>10, <2>1, <2>2 DEF TableInv, TablesOK
<1>14. QED
  BY <1>11, <1>12, <1>13 DEF TableInv

\* The place of a merge is a question of its inputs.
LEMMA SamePlace ==
    ASSUME NEW T, NEW c, NEW d, NEW lv, d.level = c.level, d.in0 = c.in0, d.in1 = c.in1,
           d.base = c.base, MergePlace(T, c, lv)
    PROVE  MergePlace(T, d, lv)
BY DEF MergePlace, Merged

\* One output file more.
LEMMA OutputTables ==
    ASSUME FileInv, SeqInv, TableInv, NEW last \in Key, MergeOutput(last)
    PROVE  TableInv'
<1>1. PICK c, number, M, X, kept, U, d, lv, F, rest :
         /\ c = bg.comp /\ number = current.nextFile /\ M = Merged(tables, c)
         /\ X = {e \in M : e.key \in c.todo /\ e.key <= last} /\ kept = Kept(c, X)
         /\ U = tables' /\ d = bg'.comp /\ lv = current.levels /\ F = Flushed
         /\ rest = {k \in c.todo : k > last}
  OBVIOUS
<1>2. /\ bg.pc = "merge" /\ last \in c.todo /\ QuietThread
      /\ \/ /\ kept = {} /\ UNCHANGED <<tables, current>>
            /\ bg' = [bg EXCEPT !.comp = [c EXCEPT !.todo = rest]]
         \/ /\ kept # {} /\ current' = [current EXCEPT !.nextFile = number + 1]
            /\ bg' = [bg EXCEPT !.comp = [[c EXCEPT !.todo = rest]
                                             EXCEPT !.outputs = c.outputs \cup {number}]]
            /\ U = [n \in DOMAIN tables \cup {number} |->
                       IF n = number THEN kept ELSE tables[n]]
  <2>1. kept = Kept(c, {e \in UNION {tables[n] : n \in c.in0 \cup c.in1} :
                           e.key \in c.todo /\ e.key <= last})
    BY <1>1 DEF Merged, Entries
  <2>2. CompactionOK(c)
    BY <1>1 DEF FileInv, ThreadOK
  <2>3. [c EXCEPT !.todo = rest].outputs = c.outputs
    BY <2>2, CompactionTodo
  <2>4. CASE kept = {}
    BY <1>1, <2>1, <2>4 DEF MergeOutput, queue, history, QuietThread
  <2>5. CASE kept # {}
    BY <1>1, <2>1, <2>3, <2>5 DEF MergeOutput, queue, history, QuietThread
  <2>6. QED
    BY <2>4, <2>5
<1>3. /\ up = "open" /\ Merging
      /\ MergeDone(tables, c) /\ MergePlace(tables, c, lv)
      /\ F \subseteq Entry /\ Good(tables, lv, F)
  BY <1>1, <1>2, ThreadOpen DEF TableInv, MergeInv, LevelsInv, Flushed, SeqInv, WrittenNumbers
<1>4. /\ bg'.pc = "merge" /\ bg'.edit = bg.edit
      /\ d \in {[c EXCEPT !.todo = rest],
                [[c EXCEPT !.todo = rest] EXCEPT !.outputs = c.outputs \cup {number}]}
      /\ kept = {} => d = [c EXCEPT !.todo = rest]
      /\ kept # {} => d = [[c EXCEPT !.todo = rest] EXCEPT !.outputs = c.outputs \cup {number}]
  BY <1>1, <1>2 DEF FileInv, ThreadOK
<1>5. /\ d.level = c.level /\ d.in0 = c.in0 /\ d.in1 = c.in1 /\ d.base = c.base
      /\ d.snapshot = c.snapshot /\ d.todo = rest
      /\ kept = {} => d.outputs = c.outputs
      /\ kept # {} => d.outputs = c.outputs \cup {number}
  <2>1. CompactionOK(c)
    BY <1>1 DEF FileInv, ThreadOK
  <2>2. CASE kept = {}
    <3>1. d = [c EXCEPT !.todo = rest]
      BY <1>4, <2>2
    <3>2. QED
      BY <2>1, <2>2, <3>1 DEF CompactionOK
  <2>3. CASE kept # {}
    <3>1. d = [[c EXCEPT !.todo = rest] EXCEPT !.outputs = c.outputs \cup {number}]
      BY <1>4, <2>3
    <3>2. QED
      BY <2>1, <2>3, <3>1 DEF CompactionOK
  <2>4. QED
    BY <2>2, <2>3
<1>6. /\ current'.levels = lv /\ number \in Nat
      /\ current'.nextFile = IF kept = {} THEN number ELSE number + 1
  <2>1. number \in Nat
    BY <1>1, <1>3, LevelFiles
  <2>2. QED
    BY <1>1, <1>2, <2>1 DEF FileInv, VersionOK
<1>7. /\ \A n \in NeededFiles : n \in Nat /\ n \in DOMAIN tables /\ n < number
      /\ \A n \in Files(manifest.levels) : n \in DOMAIN tables /\ n < number
      /\ \A j \in Level : TablesFilled(lv[j])
      /\ Files(lv) \subseteq NeededFiles
  BY <1>1, <1>3, LevelFiles DEF FileInv, NoMissingFiles, TableInv, TablesOK
<1>8. /\ \A n \in DOMAIN tables : n # number => U[n] = tables[n]
      /\ kept # {} => U[number] = kept
      /\ DOMAIN U = IF kept = {} THEN DOMAIN tables ELSE DOMAIN tables \cup {number}
  BY <1>1, <1>2
<1>9. \A n \in NeededFiles \cup Files(manifest.levels) : U[n] = tables[n]
  BY <1>6, <1>7, <1>8
<1>10. M \subseteq F /\ kept \subseteq M
  <2>1. M \subseteq F
    BY <1>1, <1>3, MergedAreThere
  <2>2. kept \subseteq X /\ X \subseteq M
    BY <1>1 DEF Kept
  <2>3. QED
    BY <2>1, <2>2
<1>11. c.in0 \cup c.in1 \cup c.outputs \cup Files(c.base) \subseteq NeededFiles
  BY <1>1, <1>3, MergingFiles
<1>12. MergeDone(U, d)
  <2>1. \A l \in Level : TablesFilled(c.base[l])
    <3>1. \A n \in NeededFiles : tables[n] # {} /\ tables[n] \subseteq Entry
      BY DEF FileInv, TableInv, TablesOK
    <3>2. \A l \in Level : c.base[l] \subseteq NeededFiles
      BY <1>11 DEF Files
    <3>3. QED
      BY <3>1, <3>2 DEF TablesFilled
  <2>2. \A e, f \in M : e.seq = f.seq => e = f
    <3>1. M \subseteq written
      BY <1>1, <1>10 DEF Flushed
    <3>2. QED
      BY <3>1 DEF SeqInv, WrittenNumbers
  <2>3. c.level \in Level /\ M \subseteq Entry
    BY <1>3, <1>10 DEF MergePlace
  <2>4. \A n \in c.in0 \cup c.in1 \cup c.outputs \cup Files(c.base) : U[n] = tables[n]
    BY <1>9, <1>11
  <2>5. \/ kept = {} /\ d.outputs = c.outputs
        \/ \E n : d.outputs = c.outputs \cup {n} /\ U[n] = kept
    BY <1>5, <1>8
  <2>6. d.todo = {k \in c.todo : k > last}
    BY <1>1, <1>5
  <2>7. last \in c.todo /\ MergeDone(tables, c)
    BY <1>2, <1>3
  <2>8. QED
    <3>1. OneOutput(c, M, last, X, kept, U, d)
      BY <1>1, <1>5, <2>1, <2>2, <2>3, <2>4, <2>5, <2>6, <2>7 DEF OneOutput
    <3>2. QED
      BY <3>1, OutputDone
<1>13. MergePlace(U, d, lv)
  <2>1. MergePlace(U, c, lv)
    BY <1>3, <1>7, <1>9, PlaceKept
  <2>2. QED
    BY <1>5, <2>1, SamePlace
<1>14. ~Flushes' /\ Flushed' = F
  BY <1>1, <1>2, <1>4, ThreadFlushed DEF Flushes, QuietThread
<1>15. MergeInv'
  <2>1. d # NoCompaction
    <3>1. d.level # -1
      BY <1>3, <1>5 DEF MergePlace, Level
    <3>2. QED
      BY <3>1 DEF NoCompaction
  <2>2. QED
    BY <1>1, <1>4, <1>6, <1>12, <1>13, <1>14, <2>1 DEF MergeInv, Merging
<1>16. LevelsInv'
  <2>1. Good(U, lv, F)
    BY <1>3, <1>7, <1>9, GoodKept
  <2>2. QED
    BY <1>1, <1>2, <1>3, <1>4, <1>6, <1>14, <2>1 DEF LevelsInv, QuietThread
<1>17. TablesOK'
  <2>1. NeededFiles' \subseteq NeededFiles \cup {number}
    <3>1. NeededFiles' = Files(lv) \cup Files(reader.levels) \cup Files(d.base) \cup d.outputs
      BY <1>1, <1>2, <1>4, <1>6 DEF NeededFiles, QuietThread
    <3>2. Files(d.base) \subseteq NeededFiles /\ d.outputs \subseteq NeededFiles \cup {number}
      BY <1>5, <1>11
    <3>3. Files(reader.levels) \subseteq NeededFiles
      BY DEF NeededFiles
    <3>4. QED
      BY <1>7, <3>1, <3>2, <3>3
  <2>2. kept = {} => NeededFiles' \subseteq NeededFiles
    BY <1>1, <1>2, <1>4, <1>5, <1>6 DEF NeededFiles, QuietThread
  <2>3. \A n \in Files(manifest.levels) : n \in Nat
    BY <1>7 DEF TableInv, TablesOK
  <2>4. \A n \in NeededFiles' \cup Files(manifest.levels) : n < current'.nextFile
    <3>1. CASE kept = {}
      BY <1>6, <1>7, <2>2, <3>1
    <3>2. CASE kept # {}
      <4>1. \A n \in Nat : n < number => n < number + 1
        BY <1>6
      <4>2. number < number + 1
        BY <1>6
      <4>3. QED
        BY <1>6, <1>7, <2>1, <2>3, <3>2, <4>1, <4>2
    <3>3. QED
      BY <3>1, <3>2
  <2>5. \A n \in DOMAIN U : n \in Nat /\ U[n] # {} /\ U[n] \subseteq Entry
    <3>1. kept \subseteq Entry
      BY <1>3, <1>10
    <3>2. \A n \in DOMAIN tables : n \in Nat /\ tables[n] # {} /\ tables[n] \subseteq Entry
      BY DEF TableInv, TablesOK
    <3>3. CASE kept = {}
      BY <1>1, <1>2, <3>2, <3>3
    <3>4. CASE kept # {}
      BY <1>6, <1>8, <3>1, <3>2, <3>4
    <3>5. QED
      BY <3>3, <3>4
  <2>6. current'.nextFile \in Nat
    BY <1>6
  <2>7. QED
    BY <1>1, <1>2, <1>3, <1>4, <2>4, <2>5, <2>6 DEF TableInv, TablesOK, QuietThread
<1>18. QED
  BY <1>15, <1>16, <1>17 DEF TableInv

\* When everything has stopped, the tables are those of the version in MANIFEST.
LEMMA StopTables ==
    ASSUME TypeInv, FileInv, LogInv, SeqInv, TableInv, Stop,
           written' \ LoggedEntries' = written \ LoggedEntries
    PROVE  TableInv'
<1>1. /\ up' = "down" /\ current' = NoVersion /\ bg' = Idle /\ reader' = NoReader
      /\ UNCHANGED <<tables, manifest>>
  BY DEF Stop
<1>2. bg'.pc = "idle" /\ bg'.comp = NoCompaction
  BY <1>1 DEF Idle
<1>3. TablesOK'
  BY <1>1, <1>2 DEF TableInv, TablesOK
<1>4. MergeInv'
  BY <1>1, <1>2 DEF MergeInv, Merging
<1>5. Good(tables, manifest.levels, written \ LoggedEntries)
  BY ManifestIsGood DEF TableInv
<1>6. LevelsInv'
  BY <1>1, <1>2, <1>5 DEF LevelsInv
<1>7. QED
  BY <1>3, <1>4, <1>6 DEF TableInv

\* Opening makes the logs into tables on top of level 0, in their order.
LEMMA RecoverTables ==
    ASSUME FileInv, LogInv, SeqInv, TableInv, Recover
    PROVE  TableInv'
<1>1. PICK lv, W, T, new, fullSet, full, first, newLog, S :
         /\ lv = manifest.levels /\ W = written \ LoggedEntries /\ T = tables'
         /\ new = current'.levels /\ fullSet = {n \in Replayed : LogEntries(n) # {}}
         /\ full = OldestFirst(fullSet)
         /\ first = Max({manifest.nextFile} \cup Replayed) + 1
         /\ newLog = first + Len(full) /\ S = first .. newLog - 1
  OBVIOUS
<1>2. /\ up = "down" /\ up' = "recovering"
      /\ T = [n \in DOMAIN tables \cup S |->
                 IF n >= first /\ n < newLog THEN LogEntries(full[n - first + 1])
                 ELSE tables[n]]
      /\ current' = [levels |-> [manifest.levels EXCEPT ![0] = @ \cup S],
                     logNumber |-> newLog, nextFile |-> newLog + 1,
                     lastSequence |-> MaxSequenceOf({e.seq : e \in UNION {LogEntries(n) : n \in Replayed}}),
                     seekFile |-> NoFile]
      /\ UNCHANGED <<manifest, mem, imm, bg, reader, group, written>>
  BY <1>1 DEF Recover, queue, history
<1>3. /\ current'.nextFile = newLog + 1 /\ new = [manifest.levels EXCEPT ![0] = @ \cup S]
  BY <1>1, <1>2
<1>4. /\ first \in Nat /\ newLog \in Nat /\ manifest.nextFile \in Nat
      /\ manifest.nextFile < first /\ fullSet \subseteq Nat /\ IsFiniteSet(fullSet)
      /\ newLog = first + Cardinality(fullSet) /\ Cardinality(fullSet) \in Nat
  BY <1>1, NumbersOfOpening DEF LogInv, NumbersOK
<1>a. full = OldestFirst(fullSet) /\ S = first .. newLog - 1
  BY <1>1
<1>5. /\ DOMAIN full = 1 .. Cardinality(fullSet)
      /\ \A i \in DOMAIN full : full[i] \in fullSet
      /\ \A i, j \in DOMAIN full : i < j => full[i] < full[j]
      /\ \A n \in fullSet : \E i \in DOMAIN full : full[i] = n
  BY <1>4, <1>a, OldestFirstIs
<1>6. /\ S \subseteq Nat /\ \A n \in S : first <= n /\ n < newLog
      /\ \A n \in S : n - first + 1 \in DOMAIN full
      /\ \A i \in DOMAIN full : first + i - 1 \in S /\ (first + i - 1) - first + 1 = i
  <2>1. PICK N : N = Cardinality(fullSet)
    OBVIOUS
  <2>2. N \in Nat /\ newLog = first + N /\ first \in Nat /\ S = first .. newLog - 1
        /\ DOMAIN full = 1 .. N
    BY <1>4, <1>5, <1>a, <2>1
  <2>3. ASSUME NEW n \in S
        PROVE  n \in Nat /\ first <= n /\ n < newLog /\ n - first + 1 \in DOMAIN full
    <3>1. n \in first .. newLog - 1
      BY <2>2
    <3>2. n \in Nat /\ first <= n /\ n < newLog /\ n - first + 1 \in 1 .. N
      BY <2>2, <3>1
    <3>3. QED
      BY <2>2, <3>2
  <2>4. ASSUME NEW i \in DOMAIN full
        PROVE  first + i - 1 \in S /\ (first + i - 1) - first + 1 = i
    <3>1. i \in 1 .. N
      BY <2>2
    <3>2. first + i - 1 \in first .. newLog - 1 /\ (first + i - 1) - first + 1 = i
      <4>1. first \in Nat /\ N \in Nat /\ newLog - 1 = first + N - 1
        BY <2>2
      <4>2. i \in Nat /\ 1 <= i /\ i <= N
        BY <3>1, <4>1
      <4>3. first + i - 1 \in first .. first + N - 1 /\ (first + i - 1) - first + 1 = i
        BY <4>1, <4>2
      <4>4. QED
        BY <4>1, <4>3
    <3>3. QED
      BY <2>2, <3>2
  <2>5. QED
    BY <2>3, <2>4
<1>7. /\ \A n \in S : T[n] = LogEntries(full[n - first + 1])
      /\ DOMAIN T = DOMAIN tables \cup S
      /\ \A n \in DOMAIN tables : n \notin S => T[n] = tables[n]
  <2>1. \A n \in S : T[n] = LogEntries(full[n - first + 1])
    BY <1>2, <1>6
  <2>2. DOMAIN T = DOMAIN tables \cup S
    BY <1>2
  <2>3. ASSUME NEW n \in DOMAIN tables, n \notin S PROVE T[n] = tables[n]
    <3>1. n \in Nat
      BY <2>3 DEF TableInv, TablesOK
    <3>2. ~(n >= first /\ n < newLog)
      BY <1>4, <1>a, <2>3, <3>1
    <3>3. QED
      BY <1>2, <2>3, <3>2
  <2>4. QED
    BY <2>1, <2>2, <2>3
<1>8. \A n \in fullSet : n \in Replayed /\ LogEntries(n) # {} /\ LogEntries(n) \subseteq LoggedEntries
  BY <1>1 DEF LoggedEntries
<1>9. Entries(T, S) = LoggedEntries
  <2>1. ASSUME NEW e \in Entries(T, S) PROVE e \in LoggedEntries
    <3>1. PICK n \in S : e \in T[n]
      BY <2>1 DEF Entries
    <3>2. QED
      BY <1>5, <1>6, <1>7, <1>8, <3>1
  <2>2. ASSUME NEW e \in LoggedEntries PROVE e \in Entries(T, S)
    <3>1. PICK m \in Replayed : e \in LogEntries(m)
      BY <2>2 DEF LoggedEntries
    <3>2. m \in fullSet
      BY <1>1, <3>1
    <3>3. PICK i \in DOMAIN full : full[i] = m
      BY <1>5, <3>2
    <3>4. PICK n : n = first + i - 1
      OBVIOUS
    <3>5. n \in S /\ n - first + 1 = i
      BY <1>6, <3>4
    <3>6. e \in T[n]
      BY <1>7, <3>1, <3>3, <3>5
    <3>7. QED
      BY <3>5, <3>6 DEF Entries
  <2>3. QED
    BY <2>1, <2>2
<1>10. /\ LoggedEntries \subseteq written /\ written \subseteq Entry
       /\ Before(W, LoggedEntries) /\ W \subseteq Entry /\ W \cup LoggedEntries = written
  BY <1>1 DEF SeqInv, LogNumbers, WrittenNumbers
<1>11. \A n \in Files(lv) : n \in DOMAIN tables /\ n \in Nat /\ n < first /\ n \notin S
  <2>1. \A n \in Files(lv) : n \in DOMAIN tables /\ n \in Nat /\ n < manifest.nextFile
    BY <1>1 DEF FileInv, NoMissingFiles, TableInv, TablesOK
  <2>2. QED
    BY <1>4, <1>6, <2>1
<1>12. \A n \in Files(lv) : T[n] = tables[n]
  BY <1>7, <1>11
<1>13. Good(T, lv, W)
  <2>1. Good(tables, lv, W)
    BY <1>1, <1>2 DEF TableInv, LevelsInv
  <2>2. QED
    BY <1>12, <2>1, GoodKept
<1>14. ASSUME NEW n \in S, NEW p \in S, p < n PROVE Above(T[n], T[p])
  <2>1. PICK i, j : i = p - first + 1 /\ j = n - first + 1
    OBVIOUS
  <2>2. i \in DOMAIN full /\ j \in DOMAIN full /\ i < j
    BY <1>4, <1>6, <1>14, <2>1
  <2>3. PICK a, b : a = full[i] /\ b = full[j]
    OBVIOUS
  <2>4. a \in Replayed /\ b \in Replayed /\ a < b
    BY <1>5, <1>8, <2>2, <2>3
  <2>5. ASSUME NEW e \in LogEntries(b), NEW f \in LogEntries(a) PROVE f.seq < e.seq
    <3>1. PICK x \in DOMAIN logs[b] : e \in logs[b][x]
      BY DEF LogEntries
    <3>2. PICK y \in DOMAIN logs[a] : f \in logs[a][y]
      BY DEF LogEntries
    <3>3. Before(logs[a][y], logs[b][x])
      BY <2>4, <3>1, <3>2 DEF SeqInv, LogNumbers
    <3>4. QED
      BY <3>1, <3>2, <3>3 DEF Before
  <2>6. T[n] = LogEntries(b) /\ T[p] = LogEntries(a)
    BY <1>7, <1>14, <2>1, <2>3
  <2>7. QED
    BY <2>5, <2>6 DEF Above
<1>15. 0 \in Level /\ lv = [l \in Level |-> lv[l]]
  BY <1>1 DEF Level, FileInv, ManifestOK
<1>16. \A l \in Level : new[l] = IF l = 0 THEN lv[0] \cup S ELSE lv[l]
  BY <1>1, <1>3, <1>15
<1>17. Good(T, new, written)
  <2>1. \A n \in lv[0], p \in S : n \in Nat /\ n < p
    <3>1. \A n \in lv[0] : n \in Nat /\ n < first
      BY <1>11, <1>15 DEF Files
    <3>2. QED
      BY <1>4, <1>6, <3>1
  <2>2. Above(Entries(T, S), W)
    BY <1>9, <1>10 DEF Above, Before
  <2>3. S \subseteq Nat /\ Entries(T, S) \subseteq Entry
    BY <1>6, <1>9, <1>10
  <2>4. \A n, p \in S : p < n => Above(T[n], T[p])
    BY <1>14
  <2>5. Good(T, new, W \cup Entries(T, S))
    BY <1>10, <1>13, <1>16, <2>1, <2>2, <2>3, <2>4, ToppedLevels
  <2>6. QED
    BY <1>9, <1>10, <2>5
<1>18. bg = Idle /\ bg' = Idle /\ bg'.pc = "idle" /\ bg'.comp = NoCompaction
  BY <1>2 DEF FileInv, ThreadOK, Idle
<1>19. Flushed' = written'
  <2>1. Memory = {} /\ Memory' = Memory
    BY <1>2, NoMemory DEF Memory, Inflight
  <2>2. QED
    BY <2>1 DEF Flushed
<1>20. LoggedEntries' = LoggedEntries /\ written' = written
  BY RecoverNumbers
<1>21. LevelsInv'
  BY <1>1, <1>2, <1>13, <1>17, <1>18, <1>19, <1>20 DEF LevelsInv
<1>22. MergeInv'
  BY <1>18 DEF MergeInv, Merging
<1>23. TablesOK'
  <2>1. Files(new) \subseteq Files(lv) \cup S
    BY <1>15, <1>16 DEF Files
  <2>2. reader = NoReader /\ Files(reader.levels) = {}
    <3>1. reader = NoReader
      BY <1>2 DEF TableInv, TablesOK
    <3>2. reader.levels = [l \in Level |-> {}]
      BY <3>1 DEF NoReader
    <3>3. QED
      BY <3>1, <3>2, NoFiles
  <2>3. Files(bg'.comp.base) = {} /\ bg'.comp.outputs = {}
    <3>1. bg'.comp.base = [l \in Level |-> {}] /\ bg'.comp.outputs = {}
      BY <1>18 DEF NoCompaction
    <3>2. QED
      BY <3>1, NoFiles
  <2>4. NeededFiles' \subseteq Files(lv) \cup S
    BY <1>1, <1>2, <1>18, <2>1, <2>2, <2>3 DEF NeededFiles
  <2>5. \A n \in Files(lv) \cup S : n < newLog + 1
    <3>1. \A n \in Files(lv) \cup S : n \in Nat /\ (n < newLog \/ n < first)
      BY <1>6, <1>11
    <3>2. first <= newLog
      BY <1>4
    <3>3. QED
      BY <1>4, <3>1, <3>2
  <2>6. \A n \in DOMAIN T : n \in Nat /\ T[n] # {} /\ T[n] \subseteq Entry
    <3>1. ASSUME NEW n \in S PROVE n \in Nat /\ T[n] # {} /\ T[n] \subseteq Entry
      <4>1. full[n - first + 1] \in fullSet
        BY <1>5, <1>6
      <4>2. QED
        BY <1>6, <1>7, <1>8, <1>10, <4>1
    <3>2. ASSUME NEW n \in DOMAIN tables, n \notin S
          PROVE  n \in Nat /\ T[n] # {} /\ T[n] \subseteq Entry
      BY <1>7, <3>2 DEF TableInv, TablesOK
    <3>3. QED
      BY <1>7, <3>1, <3>2
  <2>7. newLog + 1 \in Nat
    BY <1>4
  <2>8. QED
    BY <1>1, <1>2, <1>3, <1>18, <2>2, <2>4, <2>5, <2>6, <2>7 DEF TableInv, TablesOK
<1>24. QED
  BY <1>21, <1>22, <1>23 DEF TableInv

\* The new MANIFEST, and the end of opening.
LEMMA OpenTables ==
    ASSUME FileInv, LogInv, SeqInv, TableInv, SetCurrentFile \/ Opened
    PROVE  TableInv'
<1>1. CASE SetCurrentFile
  <2>1. /\ up = "recovering" /\ up' = "installed"
        /\ manifest'.levels = current.levels /\ manifest'.nextFile = current.nextFile
        /\ UNCHANGED <<tables, mem, imm, current, group, bg, reader, written>>
    BY <1>1 DEF SetCurrentFile, queue, history
  <2>2. bg = Idle /\ bg.pc = "idle" /\ bg.comp = NoCompaction
    BY <2>1 DEF FileInv, ThreadOK, Idle
  <2>3. Flushed' = Flushed /\ NeededFiles' = NeededFiles
    BY <2>1, ThreadFlushed DEF NeededFiles
  <2>4. Files(current.levels) \subseteq NeededFiles
    BY DEF NeededFiles
  <2>5. TablesOK'
    BY <2>1, <2>2, <2>3, <2>4 DEF TableInv, TablesOK
  <2>6. MergeInv'
    BY <2>1, <2>2 DEF MergeInv, Merging
  <2>7. LevelsInv'
    BY <2>1, <2>2, <2>3 DEF TableInv, LevelsInv
  <2>8. QED
    BY <2>5, <2>6, <2>7 DEF TableInv
<1>2. CASE Opened
  <2>1. PICK T : T = tables'
    OBVIOUS
  <2>2. /\ up = "installed" /\ up' = "open" /\ \E S : T = Only(tables, S)
        /\ UNCHANGED <<manifest, mem, imm, current, group, bg, reader, written>>
    BY <1>2, <2>1 DEF Opened, DeleteObsoleteFiles, queue, history
  <2>3. bg = Idle /\ bg.pc = "idle" /\ bg.comp = NoCompaction
    BY <2>2 DEF FileInv, ThreadOK, Idle
  <2>4. Flushed' = Flushed /\ NeededFiles' = NeededFiles
    BY <2>2, ThreadFlushed DEF NeededFiles
  <2>5. FileInv'
    BY <1>2, OpenFiles
  <2>6. /\ DOMAIN T \subseteq DOMAIN tables /\ \A n \in DOMAIN T : T[n] = tables[n]
        /\ Files(current.levels) \subseteq DOMAIN T
    <3>1. DOMAIN T \subseteq DOMAIN tables /\ \A n \in DOMAIN T : T[n] = tables[n]
      BY <2>2 DEF Only
    <3>2. NeededFiles' \subseteq DOMAIN T
      BY <2>1, <2>5 DEF FileInv
    <3>3. Files(current.levels) \subseteq NeededFiles
      BY DEF NeededFiles
    <3>4. QED
      BY <2>4, <3>1, <3>2, <3>3
  <2>7. TablesOK'
    BY <2>1, <2>2, <2>3, <2>4, <2>6 DEF TableInv, TablesOK
  <2>8. MergeInv'
    BY <2>2, <2>3 DEF MergeInv, Merging
  <2>9. Good(T, current.levels, Flushed)
    <3>1. Good(tables, current.levels, Flushed)
      BY <2>2 DEF TableInv, LevelsInv
    <3>2. \A n \in Files(current.levels) : T[n] = tables[n]
      BY <2>6
    <3>3. QED
      BY <3>1, <3>2, GoodKept
  <2>10. LevelsInv'
    BY <2>1, <2>2, <2>3, <2>4, <2>9 DEF LevelsInv
  <2>11. QED
    BY <2>7, <2>8, <2>10 DEF TableInv
<1>3. QED
  BY <1>1, <1>2

\* Every step keeps the tables in their order, with all they stand for.
LEMMA TableNext ==
    TypeInv /\ AckInv /\ FileInv /\ LogInv /\ SeqInv /\ TableInv /\ [Next]_vars => TableInv'
<1> SUFFICES ASSUME TypeInv, AckInv, FileInv, LogInv, SeqInv, TableInv, [Next]_vars
             PROVE  TableInv'
  OBVIOUS
<1>1. CASE (\E b \in Batches : Write(b)) \/ WriterStep
  BY <1>1, WriterTables
<1>2. CASE BackgroundStep
  <2>1. CASE StartFlush
    BY <2>1, StartFlushTables
  <2>2. CASE InstallCompactionResults
    BY <2>2, ResultsTables
  <2>3. CASE WriteManifest
    BY <2>3, ManifestTables
  <2>4. CASE Install
    BY <2>4, InstallTables
  <2>5. CASE \E l \in Level : WriteLevel0Table(l)
    BY <2>5, FlushTables
  <2>6. CASE \E pick \in Picks : \E in \in Inputs(pick[1], pick[2]) :
                 TrivialMove(pick, in) \/ StartMerge(pick, in)
    BY <2>6, MoveTables, StartMergeTables
  <2>7. CASE \E k \in Key : MergeOutput(k)
    BY <2>7, OutputTables
  <2>8. QED
    BY <1>2, <2>1, <2>2, <2>3, <2>4, <2>5, <2>6, <2>7 DEF BackgroundStep
<1>3. CASE StartGet \/ FinishGet
  BY <1>3, ReadTables
<1>4. CASE Crash \/ PowerLoss
  <2>1. Stop /\ written' \ LoggedEntries' = written \ LoggedEntries
    BY <1>4, CrashNumbers, PowerNumbers DEF Crash, PowerLoss
  <2>2. QED
    BY <2>1, StopTables
<1>5. CASE Recover
  BY <1>5, RecoverTables
<1>6. CASE SetCurrentFile \/ Opened
  BY <1>6, OpenTables
<1>7. CASE UNCHANGED vars
  BY <1>7, NoStepTables
<1>8. QED
  BY <1>1, <1>2, <1>3, <1>4, <1>5, <1>6, <1>7 DEF Next

\* A database just created has no tables.
LEMMA InitTables == Init => TypeInv /\ TableInv
<1> SUFFICES ASSUME Init PROVE TypeInv /\ TableInv
  OBVIOUS
<1>1. PICK none : none = [l \in Level |-> {}]
  OBVIOUS
<1>2. /\ DOMAIN tables = {} /\ manifest.levels = none /\ manifest.nextFile = 4
      /\ up = "open" /\ mem = {} /\ imm = {} /\ bg = Idle /\ reader = NoReader
      /\ current = [NoVersion EXCEPT !.logNumber = 3, !.nextFile = 4]
      /\ asleep = FALSE /\ scheduled = FALSE /\ writers = <<>> /\ written = {}
  BY <1>1 DEF Init
<1>3. current.levels = none /\ current.nextFile = 4 /\ current.seekFile = 0
  BY <1>1, <1>2 DEF NoVersion, NoFile
<1>4. TypeInv
  <2>1. ~reader.on /\ reader.on \in BOOLEAN
    BY <1>2 DEF NoReader
  <2>2. Len(writers) <= MaxWriters
    <3>1. Len(writers) = 0 /\ MaxWriters \in Nat
      BY <1>2
    <3>2. QED
      BY <3>1
  <2>3. asleep \in BOOLEAN /\ scheduled \in BOOLEAN
    BY <1>2
  <2>4. {asleep, scheduled, reader.on} \subseteq BOOLEAN
    BY <2>1, <2>3
  <2>5. current.seekFile \in Nat
    BY <1>3
  <2>6. up \in {"down", "recovering", "installed", "open"}
    BY <1>2
  <2>7. QED
    BY <2>2, <2>4, <2>5, <2>6 DEF TypeInv
<1>5. Files(none) = {} /\ \A l \in Level : none[l] = {}
  BY <1>1, NoFiles
<1>6. bg.pc = "idle" /\ bg.comp = NoCompaction
  BY <1>2 DEF Idle
<1>7. NeededFiles = {}
  <2>1. reader.levels = none /\ bg.comp.base = none /\ bg.comp.outputs = {}
    BY <1>1, <1>2, <1>6 DEF NoReader, NoCompaction
  <2>2. QED
    BY <1>3, <1>5, <1>6, <2>1 DEF NeededFiles
<1>8. TablesOK
  BY <1>2, <1>3, <1>5, <1>6, <1>7 DEF TablesOK
<1>9. MergeInv
  BY <1>2, <1>6 DEF MergeInv, Merging
<1>10. Good(tables, none, {})
  <2>1. \A l \in Level : Entries(tables, none[l]) = {}
    BY <1>5 DEF Entries
  <2>2. Entries(tables, Files(none)) = {}
    BY <1>5 DEF Entries
  <2>3. none[0] = {}
    BY <1>5 DEF Level
  <2>4. Sorted(tables, none)
    BY <1>5, <2>1, <2>3 DEF Sorted, Above
  <2>5. Holds(tables, none, {})
    BY <2>2 DEF Holds
  <2>6. QED
    BY <2>4, <2>5 DEF Good
<1>11. Flushed = {}
  BY <1>2 DEF Flushed
<1>12. LevelsInv
  BY <1>2, <1>3, <1>6, <1>10, <1>11 DEF LevelsInv
<1>13. QED
  BY <1>4, <1>8, <1>9, <1>12 DEF TableInv

\* Every step keeps the types.
LEMMA TypeNext ==
    TypeInv /\ AckInv /\ FileInv /\ TableInv /\ [Next]_vars => TypeInv'
<1> SUFFICES ASSUME TypeInv, AckInv, FileInv, TableInv, [Next]_vars PROVE TypeInv'
  OBVIOUS
<1>1. MaxWriters \in Nat /\ writers \in Seq(Writer) /\ Len(writers) \in Nat
  BY DEF AckInv
<1>2. up' \in {"down", "recovering", "installed", "open"}
  BY DEF Next, Write, WriterStep, WaitForRoom, SwitchMemTable, BuildBatchGroup, AddRecord,
     InsertInto, FinishWrite, BackgroundStep, StartFlush, InstallCompactionResults,
     WriteManifest, Install, WriteLevel0Table, TrivialMove, StartMerge, MergeOutput, StartGet,
     FinishGet, Crash, PowerLoss, Stop, Recover, SetCurrentFile, Opened, TypeInv, vars, disk,
     queue, history
<1>3. \/ UNCHANGED writers
      \/ \E w : writers' = Append(writers, w) /\ Len(writers) < MaxWriters
      \/ writers' = SubSeq(writers, group.n + 1, Len(writers))
      \/ writers' = <<>>
  BY DEF Next, Write, WriterStep, WaitForRoom, SwitchMemTable, BuildBatchGroup, AddRecord,
     InsertInto, FinishWrite, BackgroundStep, StartFlush, InstallCompactionResults,
     WriteManifest, Install, WriteLevel0Table, TrivialMove, StartMerge, MergeOutput, StartGet,
     FinishGet, Crash, PowerLoss, Stop, Recover, SetCurrentFile, Opened, vars, disk,
     queue, history
<1>4. Len(writers') <= MaxWriters
  <2>1. CASE UNCHANGED writers
    BY <2>1 DEF TypeInv
  <2>2. CASE \E w : writers' = Append(writers, w) /\ Len(writers) < MaxWriters
    BY <1>1, <2>2
  <2>3. CASE writers' = SubSeq(writers, group.n + 1, Len(writers))
    <3>1. group.n \in Nat /\ group.n <= Len(writers)
      BY DEF AckInv, GroupOK
    <3>2. Len(writers') <= Len(writers) /\ Len(writers') \in Nat
      <4>1. PICK a, z : a = group.n + 1 /\ z = Len(writers)
        OBVIOUS
      <4>2. a \in Nat /\ a >= 1 /\ z \in Nat /\ writers' = SubSeq(writers, a, z)
        BY <1>1, <2>3, <3>1, <4>1
      <4>3. Len(SubSeq(writers, a, z)) = IF a <= z THEN z - a + 1 ELSE 0
        BY <1>1, <4>2
      <4>4. CASE a <= z
        <5>1. Len(writers') = z - a + 1
          BY <4>2, <4>3, <4>4
        <5>2. z - a + 1 <= z /\ z - a + 1 \in Nat
          BY <4>2, <4>4
        <5>3. QED
          BY <4>1, <5>1, <5>2
      <4>5. CASE ~(a <= z)
        <5>1. Len(writers') = 0
          BY <4>2, <4>3, <4>5
        <5>2. QED
          BY <4>1, <4>2, <5>1
      <4>6. QED
        BY <4>4, <4>5
    <3>3. QED
      BY <1>1, <3>2 DEF TypeInv
  <2>4. CASE writers' = <<>>
    BY <1>1, <2>4
  <2>5. QED
    BY <1>3, <2>1, <2>2, <2>3, <2>4
<1>5. \/ current' = current
      \/ \E n : current' = [current EXCEPT !.nextFile = n]
      \/ \E n : current' = [current EXCEPT !.lastSequence = n]
      \/ \E n \in Charged(current.levels) : current' = [current EXCEPT !.seekFile = n]
      \/ current'.seekFile = 0
  <2>1. CASE (\E b \in Batches : Write(b)) \/ WriterStep
    BY <2>1 DEF Write, WriterStep, WaitForRoom, SwitchMemTable, BuildBatchGroup, AddRecord,
       InsertInto, FinishWrite
  <2>2. CASE BackgroundStep /\ ~Install
    BY <2>2 DEF BackgroundStep, StartFlush, InstallCompactionResults, WriteManifest,
       WriteLevel0Table, TrivialMove, StartMerge, MergeOutput
  <2>3. CASE Install
    BY <2>3 DEF Install, FileInv, VersionOK, NoFile
  <2>4. CASE StartGet \/ FinishGet
    BY <2>4 DEF StartGet, FinishGet
  <2>5. CASE Crash \/ PowerLoss
    <3>1. current' = NoVersion
      BY <2>5 DEF Crash, PowerLoss, Stop
    <3>2. QED
      BY <3>1 DEF NoVersion, NoFile
  <2>6. CASE Recover \/ SetCurrentFile \/ Opened
    <3>1. CASE Recover
      BY <3>1 DEF Recover, NoFile
    <3>2. CASE SetCurrentFile \/ Opened
      BY <3>2 DEF SetCurrentFile, Opened
    <3>3. QED
      BY <2>6, <3>1, <3>2
  <2>7. CASE UNCHANGED vars
    BY <2>7 DEF vars
  <2>8. QED
    BY <2>1, <2>2, <2>3, <2>4, <2>5, <2>6, <2>7 DEF Next
<1>6. current'.seekFile \in Nat
  <2>1. Charged(current.levels) \subseteq Nat
    <3>1. Charged(current.levels) \subseteq Files(current.levels)
      BY DEF Charged, Files, Level
    <3>2. Files(current.levels) \subseteq DOMAIN tables
      BY DEF FileInv, NeededFiles
    <3>3. QED
      BY <3>1, <3>2 DEF TableInv, TablesOK
  <2>2. QED
    BY <1>5, <2>1 DEF TypeInv, FileInv, VersionOK
<1>7. {asleep', scheduled', reader'.on} \subseteq BOOLEAN
  <2>1. CASE (\E b \in Batches : Write(b)) \/ WriterStep
    BY <2>1 DEF Write, WriterStep, WaitForRoom, SwitchMemTable, BuildBatchGroup, AddRecord,
       InsertInto, FinishWrite, MaybeScheduleCompaction, TypeInv, queue, history
  <2>2. CASE BackgroundStep /\ ~Install
    BY <2>2 DEF BackgroundStep, StartFlush, InstallCompactionResults, WriteManifest,
       WriteLevel0Table, TrivialMove, StartMerge, MergeOutput, TypeInv, queue, history
  <2>3. CASE Install
    <3>1. asleep' = FALSE /\ reader' = reader
      BY <2>3 DEF Install
    <3>2. \/ UNCHANGED scheduled
          \/ \E i, v : MaybeScheduleCompaction(FALSE, i, v)
      BY <2>3 DEF Install
    <3>3. scheduled' \in BOOLEAN
      BY <3>2 DEF TypeInv, MaybeScheduleCompaction
    <3>4. QED
      BY <3>1, <3>3 DEF TypeInv
  <2>4. CASE StartGet
    <3>1. reader'.on /\ reader'.on \in BOOLEAN
      BY <2>4 DEF StartGet
    <3>2. QED
      BY <2>4, <3>1 DEF StartGet, TypeInv, queue
  <2>9. CASE FinishGet
    <3>1. ~reader'.on /\ reader'.on \in BOOLEAN
      BY <2>9 DEF FinishGet, NoReader
    <3>2. \/ UNCHANGED scheduled
          \/ \E i, v : MaybeScheduleCompaction(scheduled, i, v)
      BY <2>9 DEF FinishGet
    <3>3. scheduled' \in BOOLEAN
      BY <3>2 DEF TypeInv, MaybeScheduleCompaction
    <3>4. QED
      BY <2>9, <3>1, <3>3 DEF FinishGet, TypeInv, queue
  <2>5. CASE Crash \/ PowerLoss
    <3>1. asleep' = FALSE /\ scheduled' = FALSE /\ reader' = NoReader
      BY <2>5 DEF Crash, PowerLoss, Stop
    <3>2. ~reader'.on /\ reader'.on \in BOOLEAN
      BY <3>1 DEF NoReader
    <3>3. QED
      BY <3>1, <3>2
  <2>6. CASE Recover \/ SetCurrentFile \/ Opened
    <3>1. asleep' = asleep /\ reader' = reader
      BY <2>6 DEF Recover, SetCurrentFile, Opened, queue
    <3>2. \/ UNCHANGED scheduled
          \/ \E i, v : MaybeScheduleCompaction(FALSE, i, v)
      BY <2>6 DEF Recover, SetCurrentFile, Opened
    <3>3. scheduled' \in BOOLEAN
      BY <3>2 DEF TypeInv, MaybeScheduleCompaction
    <3>4. QED
      BY <3>1, <3>3 DEF TypeInv
  <2>7. CASE UNCHANGED vars
    <3>1. UNCHANGED <<asleep, scheduled, reader>>
      BY <2>7 DEF vars, queue
    <3>2. QED
      BY <3>1 DEF TypeInv
  <2>8. QED
    BY <2>1, <2>2, <2>3, <2>4, <2>5, <2>6, <2>7, <2>9 DEF Next
<1>8. QED
  BY <1>2, <1>4, <1>6, <1>7 DEF TypeInv
-----------------------------------------------------------------------------
(* Searching.                                                              *)

\* Sets of entries of X to search, what is newer before what is older.
Stack(src, X) ==
    /\ src \in Seq(SUBSET X)
    /\ \A i, j \in 1 .. Len(src) : i < j => Above(src[i], src[j])

\* Sets listed one after the other are a stack.
LEMMA StackIs ==
    ASSUME NEW N \in Nat, NEW src, NEW X, DOMAIN src = 1 .. N, src = [i \in 1 .. N |-> src[i]],
           \A i \in 1 .. N : src[i] \subseteq X,
           \A i, j \in 1 .. N : i < j => Above(src[i], src[j])
    PROVE  Stack(src, X) /\ Len(src) = N
<1>1. src \in [1 .. N -> SUBSET X]
  OBVIOUS
<1>2. src \in Seq(SUBSET X)
  BY <1>1, SeqDef
<1>3. Len(src) = N
  BY <1>2
<1>4. QED
  BY <1>2, <1>3 DEF Stack

\* A stack is a list of sets.
LEMMA StackSources ==
    ASSUME NEW src, NEW X, Stack(src, X)
    PROVE  /\ Len(src) \in Nat /\ DOMAIN src = 1 .. Len(src)
           /\ \A i \in DOMAIN src : src[i] \subseteq X
BY LenProperties, ElementOfSeq DEF Stack

\* Every set of p is one of src.
Within(p, src) == \A i \in DOMAIN p : \E j \in DOMAIN src : src[j] = p[i]

\* One stack on top of another.
LEMMA StackUp ==
    ASSUME NEW p, NEW X, Stack(p, X), NEW q, NEW Y, Stack(q, Y), Above(X, Y)
    PROVE  /\ Stack(p \o q, X \cup Y)
           /\ Within(p, p \o q) /\ Within(q, p \o q)
<1>1. PICK m, n, pq : m = Len(p) /\ n = Len(q) /\ pq = p \o q
  OBVIOUS
<1>2. /\ m \in Nat /\ n \in Nat /\ DOMAIN p = 1..m /\ DOMAIN q = 1..n
      /\ \A i \in 1..m : p[i] \subseteq X
      /\ \A i \in 1..n : q[i] \subseteq Y
  BY <1>1, StackSources
<1>3. p \in Seq(SUBSET (X \cup Y)) /\ q \in Seq(SUBSET (X \cup Y))
  <2>1. p \in Seq(SUBSET X) /\ q \in Seq(SUBSET Y)
    BY DEF Stack
  <2>2. p \in [1..m -> SUBSET X] /\ q \in [1..n -> SUBSET Y]
    BY <1>1, <2>1, LenProperties
  <2>3. p \in [1..m -> SUBSET (X \cup Y)] /\ q \in [1..n -> SUBSET (X \cup Y)]
    BY <2>2
  <2>4. QED
    BY <1>2, <2>3, SeqDef
<1>4. /\ pq \in Seq(SUBSET (X \cup Y)) /\ Len(pq) = m + n
      /\ \A i \in 1 .. m + n : pq[i] = IF i <= m THEN p[i] ELSE q[i - m]
  BY <1>1, <1>3, ConcatProperties
<1>5. DOMAIN pq = 1 .. m + n
  BY <1>4, LenProperties
<1>6. /\ \A i \in 1..m : i \in 1 .. m + n /\ pq[i] = p[i]
      /\ \A i \in 1..n : m + i \in 1 .. m + n /\ pq[m + i] = q[i]
      /\ \A i \in 1 .. m + n : \/ i \in 1..m /\ pq[i] = p[i]
                               \/ i - m \in 1..n /\ i > m /\ pq[i] = q[i - m]
  <2>1. ASSUME NEW i \in 1..m PROVE i \in 1 .. m + n /\ pq[i] = p[i]
    BY <1>2, <1>4
  <2>2. ASSUME NEW i \in 1..n PROVE m + i \in 1 .. m + n /\ pq[m + i] = q[i]
    <3>1. m + i \in 1 .. m + n /\ ~(m + i <= m) /\ (m + i) - m = i
      BY <1>2
    <3>2. QED
      BY <1>4, <3>1
  <2>3. ASSUME NEW i \in 1 .. m + n
        PROVE  \/ i \in 1..m /\ pq[i] = p[i]
               \/ i - m \in 1..n /\ i > m /\ pq[i] = q[i - m]
    BY <1>2, <1>4
  <2>4. QED
    BY <2>1, <2>2, <2>3
<1>7. ASSUME NEW i \in 1 .. m + n, NEW j \in 1 .. m + n, i < j PROVE Above(pq[i], pq[j])
  <2>1. CASE j \in 1..m
    <3>1. i \in 1..m /\ j \in 1..m
      BY <1>2, <1>7, <2>1
    <3>2. Above(p[i], p[j])
      BY <1>1, <1>7, <3>1 DEF Stack
    <3>3. QED
      BY <1>6, <3>1, <3>2
  <2>2. CASE i \in 1..m /\ j \notin 1..m
    <3>1. pq[i] \subseteq X
      BY <1>2, <1>6, <2>2
    <3>2. pq[j] \subseteq Y
      BY <1>2, <1>6, <2>2
    <3>3. QED
      BY <3>1, <3>2 DEF Above
  <2>3. CASE i \notin 1..m /\ j \notin 1..m
    <3>1. /\ i - m \in 1..n /\ pq[i] = q[i - m]
          /\ j - m \in 1..n /\ pq[j] = q[j - m]
      BY <1>6, <2>3
    <3>2. i - m < j - m
      BY <1>2, <1>7
    <3>3. Above(q[i - m], q[j - m])
      BY <1>1, <3>1, <3>2 DEF Stack
    <3>4. QED
      BY <3>1, <3>3
  <2>5. i \notin 1..m => j \notin 1..m
    BY <1>2, <1>7
  <2>6. QED
    BY <2>1, <2>2, <2>3, <2>5
<1>8. Stack(pq, X \cup Y)
  BY <1>4, <1>7 DEF Stack
<1>9. Within(p, pq) /\ Within(q, pq)
  BY <1>2, <1>5, <1>6 DEF Within
<1>10. QED
  BY <1>1, <1>8, <1>9

\* The first source with something for the key has the newest.
LEMMA StackFinds ==
    ASSUME NEW src, NEW X, Stack(src, X), X \subseteq Entry,
           NEW k, NEW s \in Nat, NEW U, U \subseteq Entry,
           \A e \in U : e.key = k /\ e.seq <= s,
           \A e \in X : e.key = k /\ e.seq <= s => e \in U,
           \A e, f \in U : e.seq = f.seq => e = f,
           \A e \in U : (\A f \in U : f.seq <= e.seq) =>
               \/ \E i \in DOMAIN src : e \in src[i]
               \/ ~e.put /\ \A f \in X : f \in U => \A i \in DOMAIN src : f \notin src[i]
    PROVE  Search(src, k, s) = ValueOf(U)
<1>1. PICK hits : hits = {i \in DOMAIN src : Visible(src[i], k, s) # {}}
  OBVIOUS
<1>2. /\ \A i \in DOMAIN src : Visible(src[i], k, s) = src[i] \cap U
      /\ hits \subseteq Nat /\ DOMAIN src \subseteq Nat
  BY <1>1, StackSources DEF Visible
<1>3. Search(src, k, s) = IF hits = {} THEN 0 ELSE ValueOf(Visible(src[Min(hits)], k, s))
  BY <1>1 DEF Search
<1>4. U # {} => \E e \in U : \A f \in U : f.seq <= e.seq
  <2> SUFFICES ASSUME U # {} PROVE \E e \in U : \A f \in U : f.seq <= e.seq
    OBVIOUS
  <2>1. PICK ns : ns = {e.seq : e \in U}
    OBVIOUS
  <2>2. ns \subseteq 0..s /\ ns # {}
    BY <2>1 DEF Entry
  <2>3. Max(ns) \in ns /\ \A y \in ns : y <= Max(ns)
    BY <2>2, GreatestOf
  <2>4. PICK e \in U : e.seq = Max(ns)
    BY <2>1, <2>3
  <2>5. QED
    BY <2>1, <2>3, <2>4
<1>5. ASSUME NEW S, S \subseteq U, NEW e \in S, \A f \in S : f.seq <= e.seq
      PROVE  Newest(S) = e
  <2>1. Newest(S) \in S /\ \A f \in S : f.seq <= Newest(S).seq
    BY <1>5 DEF Newest
  <2>2. Newest(S).seq = e.seq
    BY <1>5, <2>1 DEF Entry
  <2>3. QED
    BY <1>5, <2>1, <2>2
<1>6. CASE hits = {}
  <2>1. \A i \in DOMAIN src : src[i] \cap U = {}
    BY <1>1, <1>2, <1>6
  <2>2. CASE U = {}
    BY <1>3, <1>6, <2>2 DEF ValueOf
  <2>3. CASE U # {}
    <3>1. PICK e \in U : \A f \in U : f.seq <= e.seq
      BY <1>4, <2>3
    <3>2. ~e.put
      BY <2>1, <3>1
    <3>3. Newest(U) = e
      BY <1>5, <3>1
    <3>4. QED
      BY <1>3, <1>6, <3>2, <3>3 DEF ValueOf
  <2>4. QED
    BY <2>2, <2>3
<1>7. CASE hits # {}
  <2>1. PICK m : m = Min(hits)
    OBVIOUS
  <2>2. m \in hits /\ \A i \in hits : m <= i
    <3>1. \E x \in hits : \A y \in hits : x <= y
      BY <1>2, <1>7, LeastOf
    <3>2. QED
      BY <2>1, <3>1 DEF Min
  <2>3. PICK V : V = src[m] \cap U
    OBVIOUS
  <2>4. V # {} /\ V \subseteq U /\ m \in DOMAIN src /\ src[m] \subseteq X
    BY <1>1, <1>2, <2>2, <2>3, StackSources
  <2>5. PICK e \in U : \A f \in U : f.seq <= e.seq
    BY <1>4, <2>4
  <2>6. PICK i \in DOMAIN src : e \in src[i]
    BY <2>3, <2>4, <2>5
  <2>7. i \in hits /\ m <= i /\ i \in Nat /\ m \in Nat
    BY <1>1, <1>2, <2>2, <2>5, <2>6
  <2>8. i = m
    <3> SUFFICES ASSUME m < i PROVE FALSE
      BY <2>7
    <3>1. PICK f \in V : TRUE
      BY <2>4
    <3>2. m \in 1 .. Len(src) /\ i \in 1 .. Len(src)
      BY <2>4, <2>6, StackSources
    <3>3. Above(src[m], src[i])
      BY <3>2 DEF Stack
    <3>4. e.seq < f.seq
      BY <2>3, <2>4, <2>5, <2>6, <3>1, <3>3 DEF Above
    <3>5. f.seq <= e.seq
      BY <2>4, <2>5, <3>1
    <3>6. f.seq \in Nat /\ e.seq \in Nat
      BY <2>4, <2>5, <3>1 DEF Entry
    <3>7. QED
      BY <3>4, <3>5, <3>6
  <2>9. e \in V
    BY <2>3, <2>5, <2>6, <2>8
  <2>10. Newest(V) = e
    BY <1>5, <2>4, <2>5, <2>9
  <2>11. Newest(U) = e
    BY <1>5, <2>5
  <2>12. ValueOf(V) = ValueOf(U)
    BY <2>4, <2>9, <2>10, <2>11 DEF ValueOf
  <2>13. Search(src, k, s) = ValueOf(V)
    BY <1>2, <1>3, <1>7, <2>1, <2>3, <2>4
  <2>14. QED
    BY <2>12, <2>13
<1>8. QED
  BY <1>6, <1>7

\* Where the search looks in a level: the first file that reaches to the key.
Reach(levels, l, k) == {n \in levels[l] : Largest(n) >= k}
PlaceIn(levels, l, k) ==
    UNION {tables[n] : n \in {m \in Reach(levels, l, k) :
               \A j \in Reach(levels, l, k) : Largest(m) <= Largest(j)}}

\* The entries of a key in a level are in the one file that is searched for it.
LEMMA PlaceOfKey ==
    ASSUME NEW levels, NEW l \in Level, TablesFilled(levels[l]), NEW k \in Key,
           \A m, n \in levels[l] : m # n => Apart(tables[m], tables[n]),
           NEW n \in levels[l], NEW e \in tables[n], e.key = k
    PROVE  e \in PlaceIn(levels, l, k)
<1>1. ASSUME NEW m \in levels[l]
      PROVE  /\ Largest(m) \in Key /\ Largest(m) \in Nat
             /\ \E f \in tables[m] : f.key = Largest(m)
             /\ \A f \in tables[m] : f.key \in Nat /\ f.key <= Largest(m)
  <2>1. PICK S, K : S = tables[m] /\ K = KeysOf(S)
    OBVIOUS
  <2>2. S # {} /\ S \subseteq Entry
    BY <2>1 DEF TablesFilled
  <2>3. K \subseteq Key /\ K # {} /\ Key \subseteq Nat /\ \A f \in S : f.key \in K
    BY <2>1, <2>2, KeysAre
  <2>4. Largest(m) = Max(K)
    BY <2>1 DEF Largest, KeysOf
  <2>5. Max(K) \in K /\ \A x \in K : x <= Max(K)
    BY <2>3, KeyExtremes
  <2>6. \E f \in S : f.key = Max(K)
    BY <2>1, <2>5 DEF KeysOf
  <2>7. QED
    BY <2>1, <2>3, <2>4, <2>5, <2>6
<1>2. k \in Nat /\ n \in Reach(levels, l, k)
  BY <1>1 DEF Reach
<1>3. ASSUME NEW j \in Reach(levels, l, k) PROVE Largest(n) <= Largest(j)
  <2>1. j \in levels[l] /\ Largest(j) >= k
    BY DEF Reach
  <2>2. CASE j = n
    BY <1>1, <2>2
  <2>3. CASE j # n
    <3>1. Apart(tables[n], tables[j])
      BY <2>1, <2>3
    <3>2. PICK g \in tables[j] : g.key = Largest(j)
      BY <1>1, <2>1
    <3>3. PICK f \in tables[n] : f.key = Largest(n)
      BY <1>1
    <3>4. Largest(j) \in Nat /\ Largest(n) \in Nat
      BY <1>1, <2>1
    <3>5. CASE f.key < g.key
      BY <3>2, <3>3, <3>4, <3>5
    <3>6. CASE ~(f.key < g.key)
      <4>1. g.key < e.key
        BY <3>1, <3>2, <3>3, <3>6 DEF Apart
      <4>2. QED
        BY <1>2, <2>1, <3>2, <3>4, <4>1
    <3>7. QED
      BY <3>5, <3>6
  <2>4. QED
    BY <2>2, <2>3
<1>4. QED
  BY <1>2, <1>3 DEF PlaceIn

\* The tables as they are searched: what is newer first, and every entry of the
\* key is in its place.
LEMMA TablesStack ==
    ASSUME NEW levels, NEW k \in Key, Sorted(tables, levels),
           \A l \in Level : TablesFilled(levels[l]),
           levels[0] \subseteq Nat, IsFiniteSet(levels[0])
    PROVE  /\ Stack(TableSources(levels, k), Entries(tables, Files(levels)))
           /\ \A e \in Entries(tables, Files(levels)) : e.key = k =>
                 \E i \in DOMAIN TableSources(levels, k) : e \in TableSources(levels, k)[i]
<1>1. PICK first, N, n, p, q, src, X, Y :
         /\ first = NewestFirst(levels[0]) /\ N = Cardinality(levels[0]) /\ n = kNumLevels - 1
         /\ p = [i \in DOMAIN first |-> tables[first[i]]]
         /\ q = [l \in 1 .. n |-> PlaceIn(levels, l, k)]
         /\ src = p \o q /\ X = Entries(tables, levels[0])
         /\ Y = UNION {Entries(tables, levels[l]) : l \in Level \ {0}}
  OBVIOUS
<1>2. TableSources(levels, k) = src
  BY <1>1 DEF TableSources, PlaceIn, Reach
<1>3. /\ N \in Nat /\ n \in Nat /\ DOMAIN first = 1 .. N /\ 0 \in Level
      /\ \A i \in 1 .. N : first[i] \in levels[0]
      /\ \A i, j \in 1 .. N : i < j => first[j] < first[i]
      /\ \A m \in levels[0] : \E i \in 1 .. N : first[i] = m
  <2>1. first = NewestFirst(levels[0]) /\ N = Cardinality(levels[0]) /\ n = kNumLevels - 1
    BY <1>1
  <2>2. n \in Nat /\ 0 \in Level
    BY <2>1 DEF Level
  <2>3. /\ Cardinality(levels[0]) \in Nat /\ DOMAIN first = 1 .. Cardinality(levels[0])
        /\ \A i \in DOMAIN first : first[i] \in levels[0]
        /\ \A i, j \in DOMAIN first : i < j => first[j] < first[i]
        /\ \A m \in levels[0] : \E i \in DOMAIN first : first[i] = m
    BY <2>1, NewestFirstIs
  <2>4. N \in Nat /\ DOMAIN first = 1 .. N
    BY <2>1, <2>3
  <2>5. QED
    BY <2>2, <2>3, <2>4
<1>4. \A l : l \in 1 .. n <=> l \in Level \ {0}
  <2>1. n = kNumLevels - 1 /\ Level = 0 .. n
    BY <1>1 DEF Level
  <2>2. n \in Nat
    BY <1>3
  <2>3. QED
    BY <2>1, <2>2
<1>5. Stack(p, X)
  <2>1. DOMAIN p = 1 .. N /\ p = [i \in 1 .. N |-> p[i]] /\ \A i \in 1 .. N : p[i] = tables[first[i]]
    BY <1>1, <1>3
  <2>2. ASSUME NEW i \in 1 .. N PROVE p[i] \subseteq X
    <3>1. first[i] \in levels[0] /\ p[i] = tables[first[i]]
      BY <1>3, <2>1
    <3>2. X = Entries(tables, levels[0])
      BY <1>1
    <3>3. QED
      BY <3>1, <3>2 DEF Entries
  <2>3. ASSUME NEW i \in 1 .. N, NEW j \in 1 .. N, i < j PROVE Above(p[i], p[j])
    <3>1. first[i] \in levels[0] /\ first[j] \in levels[0] /\ first[j] < first[i]
      BY <1>3, <2>3
    <3>2. Above(tables[first[i]], tables[first[j]])
      BY <3>1 DEF Sorted
    <3>3. QED
      BY <2>1, <3>2
  <2>4. QED
    BY <1>3, <2>1, <2>2, <2>3, StackIs
<1>6. \A l \in 1 .. n : PlaceIn(levels, l, k) \subseteq Entries(tables, levels[l])
  BY DEF PlaceIn, Reach, Entries
<1>7. Stack(q, Y)
  <2>1. /\ DOMAIN q = 1 .. n /\ q = [i \in 1 .. n |-> q[i]]
        /\ \A l \in 1 .. n : q[l] \subseteq Entries(tables, levels[l])
    BY <1>1, <1>6
  <2>2. \A l \in 1 .. n : q[l] \subseteq Y
    BY <1>1, <1>4, <2>1
  <2>3. ASSUME NEW l \in 1 .. n, NEW m \in 1 .. n, l < m PROVE Above(q[l], q[m])
    <3>1. Above(Entries(tables, levels[l]), Entries(tables, levels[m]))
      BY <1>4, <2>3 DEF Sorted
    <3>2. QED
      BY <2>1, <3>1 DEF Above
  <2>4. QED
    BY <1>3, <2>1, <2>2, <2>3, StackIs
<1>8. X \cup Y = Entries(tables, Files(levels))
  <2>1. ASSUME NEW e PROVE e \in X \cup Y <=> e \in Entries(tables, Files(levels))
    <3>1. e \in X \cup Y <=> \E l \in Level : e \in Entries(tables, levels[l])
      BY <1>1, <1>3
    <3>2. (\E l \in Level : e \in Entries(tables, levels[l]))
              <=> e \in Entries(tables, Files(levels))
      BY DEF Entries, Files
    <3>3. QED
      BY <3>1, <3>2
  <2>2. QED
    BY <2>1
<1>9. Above(X, Y)
  <2> SUFFICES ASSUME NEW e \in X, NEW f \in Y, e.key = f.key PROVE f.seq < e.seq
    BY DEF Above
  <2>1. PICK l \in Level \ {0} : f \in Entries(tables, levels[l])
    BY <1>1
  <2>2. 0 < l
    BY <2>1 DEF Level
  <2>3. Above(Entries(tables, levels[0]), Entries(tables, levels[l]))
    BY <1>3, <2>1, <2>2 DEF Sorted
  <2>4. QED
    BY <1>1, <2>1, <2>3 DEF Above
<1>10. Stack(src, X \cup Y) /\ Within(p, src) /\ Within(q, src)
  <2>1. src = p \o q
    BY <1>1
  <2>2. Stack(p \o q, X \cup Y)
    BY <1>5, <1>7, <1>9, StackUp
  <2>3. Within(p, p \o q) /\ Within(q, p \o q)
    BY <1>5, <1>7, <1>9, StackUp
  <2>4. QED
    BY <2>1, <2>2, <2>3
<1>11. ASSUME NEW e \in Entries(tables, Files(levels)), e.key = k
       PROVE  \E i \in DOMAIN src : e \in src[i]
  <2>1. PICK l \in Level : \E m \in levels[l] : e \in tables[m]
    BY DEF Entries, Files
  <2>a. PICK m \in levels[l] : e \in tables[m]
    BY <2>1
  <2>2. CASE l = 0
    <3>1. PICK i \in 1 .. N : first[i] = m
      BY <1>3, <2>2
    <3>2. i \in DOMAIN p /\ p[i] = tables[m]
      BY <1>1, <1>3, <3>1
    <3>3. QED
      BY <1>10, <2>a, <3>2 DEF Within
  <2>3. CASE l # 0
    <3>1. e \in PlaceIn(levels, l, k)
      BY <1>11, <2>a, <2>3, PlaceOfKey DEF Sorted
    <3>2. l \in DOMAIN q /\ q[l] = PlaceIn(levels, l, k)
      BY <1>1, <1>4, <2>3
    <3>3. QED
      BY <1>10, <3>1, <3>2 DEF Within
  <2>4. QED
    BY <2>2, <2>3
<1>12. QED
  BY <1>2, <1>8, <1>10, <1>11

\* The sets p, of the entries X, over the levels, which stand for W: together
\* they are what is in V as of s.
Layered(p, X, levels, W, V, s) ==
    /\ Stack(p, X) /\ \A e \in X : \E i \in DOMAIN p : e \in p[i]
    /\ Good(tables, levels, W)
    /\ \A l \in Level : TablesFilled(levels[l])
    /\ levels[0] \subseteq Nat /\ IsFiniteSet(levels[0])
    /\ V \subseteq Entry /\ \A e, f \in V : e.seq = f.seq => e = f
    /\ X \subseteq V /\ W \subseteq V /\ Above(X, W)
    /\ s \in Nat /\ \A e \in W : e.seq <= s
    /\ \A e \in V : e.seq <= s => e \in X \cup W

\* A search of the sets, and then of the levels, finds the newest entry.
LEMMA LayersFind ==
    ASSUME NEW p, NEW X, NEW levels, NEW W, NEW V, NEW s, Layered(p, X, levels, W, V, s),
           NEW k \in Key
    PROVE  Search(p \o TableSources(levels, k), k, s) = ValueOf(Visible(V, k, s))
<1>1. PICK q, Y, src, U : /\ q = TableSources(levels, k) /\ Y = Entries(tables, Files(levels))
                          /\ src = p \o q /\ U = Visible(V, k, s)
  OBVIOUS
<1>2. /\ Stack(q, Y) /\ \A e \in Y : e.key = k => \E i \in DOMAIN q : e \in q[i]
  <2>1. Sorted(tables, levels) /\ (\A l \in Level : TablesFilled(levels[l]))
        /\ levels[0] \subseteq Nat /\ IsFiniteSet(levels[0])
    BY DEF Layered, Good
  <2>2. QED
    BY <1>1, <2>1, TablesStack
<1>3. /\ Y \subseteq W
      /\ \A e \in W : Latest(e, W) =>
            \/ e \in Y
            \/ ~e.put /\ \A f \in Y : f.key # e.key
  BY <1>1 DEF Layered, Good, Holds
<1>4. Stack(p, X) /\ Above(X, Y)
  BY <1>3 DEF Layered, Above
<1>5. Stack(src, X \cup Y) /\ Within(p, src) /\ Within(q, src)
  <2>1. Stack(p \o q, X \cup Y) /\ Within(p, p \o q) /\ Within(q, p \o q)
    BY <1>2, <1>4, StackUp
  <2>2. src = p \o q
    BY <1>1
  <2>3. QED
    BY <2>1, <2>2
<1>6. \A e \in X : \E i \in DOMAIN src : e \in src[i]
  <2>1. \A e \in X : \E i \in DOMAIN p : e \in p[i]
    BY DEF Layered
  <2>2. QED
    BY <1>5, <2>1 DEF Within
<1>7. \A e \in Y : e.key = k => \E i \in DOMAIN src : e \in src[i]
  BY <1>2, <1>5 DEF Within
<1>8. /\ V \subseteq Entry /\ \A e, f \in V : e.seq = f.seq => e = f
      /\ X \subseteq V /\ W \subseteq V /\ Above(X, W)
      /\ s \in Nat /\ \A e \in W : e.seq <= s
      /\ \A e \in V : e.seq <= s => e \in X \cup W
  BY DEF Layered
<1>9. \A e : e \in U <=> e \in V /\ e.key = k /\ e.seq <= s
  BY <1>1 DEF Visible
<1>10. ASSUME NEW e \in U, \A f \in U : f.seq <= e.seq
       PROVE  \/ \E i \in DOMAIN src : e \in src[i]
              \/ ~e.put /\ \A f \in X \cup Y : f \in U => \A i \in DOMAIN src : f \notin src[i]
  <2>1. CASE e \in X
    BY <1>6, <2>1
  <2>2. CASE e \notin X
    <3>1. e \in W /\ e.key = k
      BY <1>8, <1>9, <2>2
    <3>2. Latest(e, W)
      BY <1>8, <1>9, <1>10, <3>1 DEF Latest
    <3>3. CASE e \in Y
      BY <1>7, <3>1, <3>3
    <3>4. CASE ~e.put /\ \A f \in Y : f.key # e.key
      <4>1. ASSUME NEW f \in X \cup Y, f \in U PROVE FALSE
        <5>1. f \in X /\ f.key = k
          BY <1>9, <3>1, <3>4, <4>1
        <5>2. e.seq < f.seq
          BY <1>8, <3>1, <5>1 DEF Above
        <5>3. f.seq <= e.seq /\ f.seq \in Nat /\ e.seq \in Nat
          BY <1>8, <1>10, <3>1, <4>1, <5>1 DEF Entry
        <5>4. QED
          BY <5>2, <5>3
      <4>2. QED
        BY <3>4, <4>1
    <3>5. QED
      BY <1>3, <3>1, <3>2, <3>3, <3>4
  <2>3. QED
    BY <2>1, <2>2
<1>11. Search(src, k, s) = ValueOf(U)
  <2>1. X \cup Y \subseteq Entry /\ U \subseteq Entry
    BY <1>3, <1>8, <1>9
  <2>2. \A e \in U : e.key = k /\ e.seq <= s
    BY <1>9
  <2>3. \A e \in X \cup Y : e.key = k /\ e.seq <= s => e \in U
    BY <1>3, <1>8, <1>9
  <2>4. \A e, f \in U : e.seq = f.seq => e = f
    BY <1>8, <1>9
  <2>5. PICK Z : Z = X \cup Y
    OBVIOUS
  <2>6. QED
    BY <1>5, <1>8, <1>10, <2>1, <2>2, <2>3, <2>4, <2>5, StackFinds
<1>12. QED
  BY <1>1, <1>11

\* What is searched in files that are kept stays what it was.
LEMMA SourcesKept ==
    ASSUME NEW levels, \A n \in Files(levels) : tables'[n] = tables[n], NEW k,
           levels[0] \subseteq Nat, IsFiniteSet(levels[0])
    PROVE  TableSources(levels, k)' = TableSources(levels, k)
<1>1. \A l \in Level : \A n \in levels[l] : tables'[n] = tables[n] /\ Largest(n)' = Largest(n)
  BY DEF Files, Largest
<1>2. \A l \in Level : Reach(levels, l, k)' = Reach(levels, l, k)
  BY <1>1 DEF Reach
<1>3. ASSUME NEW l \in Level PROVE PlaceIn(levels, l, k)' = PlaceIn(levels, l, k)
  <2>1. \A n \in Reach(levels, l, k) : tables'[n] = tables[n] /\ Largest(n)' = Largest(n)
    BY <1>1 DEF Reach
  <2>2. Reach(levels, l, k)' = Reach(levels, l, k)
    BY <1>2
  <2>3. QED
    BY <2>1, <2>2 DEF PlaceIn
<1>4. /\ \A l \in 1 .. kNumLevels - 1 : l \in Level
      /\ 0 \in Level
  BY DEF Level
<1>5. PICK f, n, T, U : /\ f = NewestFirst(levels[0]) /\ n = kNumLevels - 1
                        /\ T = tables /\ U = tables'
  OBVIOUS
<1>6. /\ TableSources(levels, k) = [i \in DOMAIN f |-> T[f[i]]]
                                     \o [l \in 1 .. n |-> PlaceIn(levels, l, k)]
      /\ TableSources(levels, k)' = [i \in DOMAIN f |-> U[f[i]]]
                                      \o [l \in 1 .. n |-> PlaceIn(levels, l, k)']
  BY <1>5 DEF TableSources, PlaceIn, Reach
<1>7. [i \in DOMAIN f |-> T[f[i]]] = [i \in DOMAIN f |-> U[f[i]]]
  <2>1. f = NewestFirst(levels[0])
    BY <1>5
  <2>2. \A i \in DOMAIN f : f[i] \in levels[0]
    BY <2>1, NewestFirstIs
  <2>3. \A i \in DOMAIN f : T[f[i]] = U[f[i]]
    BY <1>1, <1>4, <1>5, <2>2
  <2>4. QED
    BY <2>3
<1>8. [l \in 1 .. n |-> PlaceIn(levels, l, k)] = [l \in 1 .. n |-> PlaceIn(levels, l, k)']
  BY <1>3, <1>4, <1>5
<1>9. QED
  BY <1>6, <1>7, <1>8

\* The numbers up to b are finite.
LEMMA FiniteUpTo ==
    ASSUME NEW b \in Nat
    PROVE  IsFiniteSet(0..b)
<1>1. 0 \in Int /\ b \in Int
  OBVIOUS
<1>2. QED
  BY <1>1, FS_Interval

\* Files that are there and below a number are finite in each level.
LEMMA FiniteLevels ==
    ASSUME TableInv, NEW levels, Files(levels) \subseteq DOMAIN tables,
           NEW b \in Nat, \A n \in Files(levels) : n < b
    PROVE  \A l \in Level : /\ TablesFilled(levels[l]) /\ levels[l] \subseteq Nat
                            /\ IsFiniteSet(levels[l])
<1> SUFFICES ASSUME NEW l \in Level
             PROVE  TablesFilled(levels[l]) /\ levels[l] \subseteq Nat /\ IsFiniteSet(levels[l])
  OBVIOUS
<1>1. levels[l] \subseteq Files(levels)
  BY DEF Files
<1>2. \A n \in levels[l] : n \in 0..b /\ tables[n] # {} /\ tables[n] \subseteq Entry
  BY <1>1 DEF TableInv, TablesOK
<1>3. IsFiniteSet(0..b)
  BY FiniteUpTo
<1>4. IsFiniteSet(levels[l])
  BY <1>2, <1>3, FS_Subset
<1>5. QED
  BY <1>2, <1>4 DEF TablesFilled

\* Get as it would begin now: the memtables over the current version.
LEMMA OpenFinds ==
    ASSUME FileInv, SeqInv, TableInv, up = "open"
    PROVE  FindsLatest(<<mem, imm>>, current.levels, current.lastSequence)
<1>1. PICK p, X, lv, W, V, s : /\ p = <<mem, imm>> /\ X = mem \cup imm /\ lv = current.levels
                               /\ W = Flushed /\ V = written /\ s = current.lastSequence
  OBVIOUS
<1>2. Stack(p, X) /\ \A e \in X : \E i \in DOMAIN p : e \in p[i]
  <2>1. DOMAIN p = 1..2 /\ p = [i \in 1..2 |-> p[i]] /\ p[1] = mem /\ p[2] = imm
    BY <1>1
  <2>2. Above(mem, imm)
    BY DEF SeqInv, MemoryNumbers, Before, Above
  <2>3. \A i \in 1..2 : p[i] \subseteq X
    BY <1>1, <2>1
  <2>4. \A i, j \in 1..2 : i < j => Above(p[i], p[j])
    BY <2>1, <2>2
  <2>5. Stack(p, X)
    BY <2>1, <2>3, <2>4, StackIs
  <2>6. QED
    BY <1>1, <2>1, <2>5
<1>3. Good(tables, lv, W) /\ V \subseteq Entry /\ \A e, f \in V : e.seq = f.seq => e = f
  BY <1>1 DEF TableInv, LevelsInv, SeqInv, WrittenNumbers
<1>4. \A l \in Level : TablesFilled(lv[l]) /\ lv[l] \subseteq Nat /\ IsFiniteSet(lv[l])
  <2>1. Files(lv) \subseteq DOMAIN tables /\ \A n \in Files(lv) : n < current.nextFile
    BY <1>1, LevelFiles
  <2>2. current.nextFile \in Nat
    BY LevelFiles
  <2>3. QED
    BY <2>1, <2>2, FiniteLevels
<1>5. X \subseteq V /\ W \subseteq V /\ Above(X, W)
  <2>1. Before(Flushed, Memory)
    BY DEF SeqInv, MemoryNumbers
  <2>2. X \subseteq Memory
    BY <1>1 DEF Memory
  <2>3. QED
    BY <1>1, <2>1, <2>2 DEF SeqInv, MemoryNumbers, Flushed, Before, Above
<1>6. s \in Nat /\ \A e \in W : e.seq <= s
  BY <1>1, FlushedArePublished
<1>7. ASSUME NEW e \in V, e.seq <= s PROVE e \in X \cup W
  <2>1. e.seq \in Nat
    BY <1>3, <1>7 DEF Entry
  <2>2. e \notin Inflight
    BY <1>1, <1>6, <1>7, <2>1 DEF SeqInv, GroupNumbers, Inflight
  <2>3. QED
    BY <1>1, <1>7, <2>2 DEF Flushed, Memory
<1>8. Layered(p, X, lv, W, V, s)
  <2>1. 0 \in Level
    BY DEF Level
  <2>2. QED
    BY <1>2, <1>3, <1>4, <1>5, <1>6, <1>7, <2>1 DEF Layered
<1>9. \A k \in Key : Search(p \o TableSources(lv, k), k, s) = ValueOf(Visible(V, k, s))
  BY <1>8, LayersFind
<1>10. QED
  BY <1>1, <1>9 DEF FindsLatest, Truth

\* The files as they would be opened now.
LEMMA FilesFind ==
    ASSUME TypeInv, FileInv, LogInv, SeqInv, TableInv, NEW k \in Key
    PROVE  Search(RecoveredSources(k), k, MaxSequence) = Truth(k, MaxSequence)
<1>1. PICK first, N, p, X, lv, W, V :
         /\ first = NewestFirst(Replayed) /\ N = Cardinality(Replayed)
         /\ p = [i \in DOMAIN first |-> LogEntries(first[i])]
         /\ X = LoggedEntries /\ lv = manifest.levels /\ W = written \ LoggedEntries
         /\ V = written
  OBVIOUS
<1>2. RecoveredSources(k) = p \o TableSources(lv, k)
  BY <1>1 DEF RecoveredSources
<1>3. Replayed \subseteq Nat /\ IsFiniteSet(Replayed)
  <2>1. PICK b \in Nat : DOMAIN logs \subseteq 0..b
    BY DEF LogInv, RecordsOK
  <2>2. IsFiniteSet(0..b)
    BY FiniteUpTo
  <2>3. Replayed \subseteq DOMAIN logs
    BY DEF Replayed
  <2>4. IsFiniteSet(Replayed)
    BY <2>1, <2>2, <2>3, FS_Subset
  <2>5. Replayed \subseteq Nat
    BY <2>1, <2>3
  <2>6. QED
    BY <2>4, <2>5
<1>4. /\ N \in Nat /\ DOMAIN first = 1 .. N
      /\ \A i \in 1 .. N : first[i] \in Replayed
      /\ \A i, j \in 1 .. N : i < j => first[j] < first[i]
      /\ \A n \in Replayed : \E i \in 1 .. N : first[i] = n
  <2>1. PICK R : R = Replayed
    OBVIOUS
  <2>2. first = NewestFirst(R) /\ N = Cardinality(R)
    BY <1>1, <2>1
  <2>3. R \subseteq Nat /\ IsFiniteSet(R)
    BY <1>3, <2>1
  <2>4. /\ N \in Nat /\ DOMAIN first = 1 .. N
        /\ \A i \in 1 .. N : first[i] \in R
        /\ \A i, j \in 1 .. N : i < j => first[j] < first[i]
        /\ \A n \in R : \E i \in 1 .. N : first[i] = n
    <3>1. /\ Cardinality(R) \in Nat /\ DOMAIN first = 1 .. Cardinality(R)
          /\ \A i \in DOMAIN first : first[i] \in R
          /\ \A i, j \in DOMAIN first : i < j => first[j] < first[i]
          /\ \A n \in R : \E i \in DOMAIN first : first[i] = n
      BY <2>2, <2>3, NewestFirstIs
    <3>2. DOMAIN first = 1 .. N /\ N \in Nat
      BY <2>2, <3>1
    <3>3. QED
      BY <3>1, <3>2
  <2>5. QED
    BY <2>1, <2>4
<1>5. Stack(p, X) /\ \A e \in X : \E i \in DOMAIN p : e \in p[i]
  <2>1. DOMAIN p = 1 .. N /\ p = [i \in 1 .. N |-> p[i]] /\ \A i \in 1 .. N : p[i] = LogEntries(first[i])
    BY <1>1, <1>4
  <2>2. ASSUME NEW i \in 1 .. N PROVE p[i] \subseteq X
    BY <1>1, <1>4, <2>1 DEF LoggedEntries
  <2>3. ASSUME NEW i \in 1 .. N, NEW j \in 1 .. N, i < j PROVE Above(p[i], p[j])
    <3>1. PICK a, b : a = first[i] /\ b = first[j]
      OBVIOUS
    <3>2. a \in Replayed /\ b \in Replayed /\ b < a
      BY <1>4, <2>3, <3>1
    <3>3. ASSUME NEW e \in LogEntries(a), NEW f \in LogEntries(b) PROVE f.seq < e.seq
      <4>1. PICK x \in DOMAIN logs[a] : e \in logs[a][x]
        BY DEF LogEntries
      <4>2. PICK y \in DOMAIN logs[b] : f \in logs[b][y]
        BY DEF LogEntries
      <4>3. Before(logs[b][y], logs[a][x])
        BY <3>2, <4>1, <4>2 DEF SeqInv, LogNumbers
      <4>4. QED
        BY <4>1, <4>2, <4>3 DEF Before
    <3>4. p[i] = LogEntries(a) /\ p[j] = LogEntries(b)
      BY <2>1, <3>1
    <3>5. QED
      BY <3>3, <3>4 DEF Above
  <2>4. Stack(p, X)
    BY <1>4, <2>1, <2>2, <2>3, StackIs
  <2>5. ASSUME NEW e \in X PROVE \E i \in DOMAIN p : e \in p[i]
    <3>1. PICK n \in Replayed : e \in LogEntries(n)
      BY <1>1 DEF LoggedEntries
    <3>2. PICK i \in 1 .. N : first[i] = n
      BY <1>4
    <3>3. QED
      BY <2>1, <3>1, <3>2
  <2>6. QED
    BY <2>4, <2>5
<1>6. Good(tables, lv, W) /\ V \subseteq Entry /\ \A e, f \in V : e.seq = f.seq => e = f
  BY <1>1, ManifestIsGood DEF TableInv, SeqInv, WrittenNumbers
<1>7. \A l \in Level : TablesFilled(lv[l]) /\ lv[l] \subseteq Nat /\ IsFiniteSet(lv[l])
  <2>1. Files(lv) \subseteq DOMAIN tables /\ \A n \in Files(lv) : n < manifest.nextFile
    BY <1>1 DEF FileInv, NoMissingFiles, TableInv, TablesOK
  <2>2. manifest.nextFile \in Nat
    BY DEF LogInv, NumbersOK
  <2>3. QED
    BY <2>1, <2>2, FiniteLevels
<1>8. X \subseteq V /\ W \subseteq V /\ Above(X, W) /\ X \cup W = V
  BY <1>1 DEF SeqInv, LogNumbers, Before, Above
<1>9. MaxSequence \in Nat /\ \A e \in V : e.seq <= MaxSequence
  BY <1>1 DEF SeqInv, WrittenNumbers
<1>10. Layered(p, X, lv, W, V, MaxSequence)
  <2>1. 0 \in Level
    BY DEF Level
  <2>2. QED
    BY <1>5, <1>6, <1>7, <1>8, <1>9, <2>1 DEF Layered
<1>11. Search(p \o TableSources(lv, k), k, MaxSequence) = ValueOf(Visible(V, k, MaxSequence))
  BY <1>10, LayersFind
<1>12. QED
  BY <1>1, <1>2, <1>11 DEF Truth

\* Files of a level that are apart do not overlap.
LEMMA DisjointLevels ==
    ASSUME FileInv, TableInv
    PROVE  LevelsAreDisjoint
<1> SUFFICES ASSUME NEW l \in Level \ {0}, NEW m \in current.levels[l],
                    NEW n \in current.levels[l], m # n
             PROVE  Overlapping({m}, Smallest(n), Largest(n)) = {}
  BY DEF LevelsAreDisjoint
<1>1. up # "down"
  <2> SUFFICES ASSUME up = "down" PROVE FALSE
    OBVIOUS
  <2>1. current.levels = [j \in Level |-> {}]
    BY DEF TableInv, TablesOK, NoVersion
  <2>2. QED
    BY <2>1
<1>2. TablesFilled(current.levels[l])
  BY <1>1, LevelFiles
<1>3. TablesFilled({m}) /\ tables[n] \subseteq Entry /\ tables[n] # {}
  BY <1>2 DEF TablesFilled
<1>4. Apart(tables[m], tables[n])
  BY <1>1 DEF TableInv, LevelsInv, Good, Sorted
<1>5. Smallest(n) = Min(KeysOf(tables[n])) /\ Largest(n) = Max(KeysOf(tables[n]))
  BY DEF Smallest, Largest, KeysOf
<1>6. Overlapping({m}, Smallest(n), Largest(n)) = {x \in {m} : ~Apart(tables[x], tables[n])}
  BY <1>3, <1>5, OverlappingIs
<1>7. QED
  BY <1>4, <1>6

\* A step that leaves a read its files, and writes nothing that it would see.
LEMMA ReadKept ==
    ASSUME FileInv, TableInv, ReadInv, FileInv', UNCHANGED <<up, reader>>,
           reader.on => /\ \A n \in Files(reader.levels) : tables'[n] = tables[n]
                        /\ reader.seq <= current'.lastSequence
                        /\ \A k : Visible(written', k, reader.seq) = Visible(written, k, reader.seq)
    PROVE  ReadInv'
<1>1. CASE ~reader.on
  BY <1>1 DEF ReadInv, ReadIsSnapshot
<1>2. CASE reader.on
  <2>1. PICK m, i, lv, s : m = reader.mem /\ i = reader.imm /\ lv = reader.levels /\ s = reader.seq
    OBVIOUS
  <2>2. reader'.on /\ m = reader'.mem /\ i = reader'.imm /\ lv = reader'.levels /\ s = reader'.seq
    BY <1>2, <2>1
  <2>3. up = "open" /\ s \in Nat /\ \A k \in Key :
            Search(<<m, i>> \o TableSources(lv, k), k, s) = Truth(k, s)
    BY <1>2, <2>1 DEF ReadInv, ReadIsSnapshot, FindsLatest
  <2>4. \A n \in Files(lv) : tables'[n] = tables[n]
    BY <1>2, <2>1
  <2>5. lv[0] \subseteq Nat /\ IsFiniteSet(lv[0])
    <3>1. Files(lv) \subseteq NeededFiles
      BY <2>1 DEF NeededFiles
    <3>2. Files(lv) \subseteq DOMAIN tables /\ \A n \in Files(lv) : n < current.nextFile
      BY <2>3, <3>1, LevelFiles
    <3>3. current.nextFile \in Nat /\ 0 \in Level
      BY <2>3, LevelFiles DEF Level
    <3>4. QED
      BY <3>2, <3>3, FiniteLevels
  <2>6. ASSUME NEW k \in Key
        PROVE  Search(<<m, i>> \o TableSources(lv, k)', k, s) = Truth(k, s)'
    <3>1. TableSources(lv, k)' = TableSources(lv, k)
      BY <2>4, <2>5, SourcesKept
    <3>2. Truth(k, s)' = Truth(k, s)
      BY <1>2, <2>1 DEF Truth
    <3>3. QED
      BY <2>3, <3>1, <3>2
  <2>7. Files(lv) \subseteq DOMAIN tables'
    BY <2>2 DEF FileInv, NeededFiles
  <2>8. FindsLatest(<<reader.mem, reader.imm>>, reader.levels, reader.seq)'
    BY <2>2, <2>6 DEF FindsLatest, TableSources, Truth, Largest
  <2>9. ReadIsSnapshot'
    BY <2>2, <2>7, <2>8 DEF ReadIsSnapshot
  <2>10. QED
    BY <1>2, <2>1, <2>2, <2>3, <2>9 DEF ReadInv
<1>3. QED
  BY <1>1, <1>2

\* The writers write what no read in progress is to see.
LEMMA WriterReads ==
    ASSUME AckInv, FileInv, SeqInv, TableInv, ReadInv, FileInv',
           (\E b \in Batches : Write(b)) \/ WriterStep
    PROVE  ReadInv'
<1>1. UNCHANGED <<tables, up, reader>> /\ up = "open"
  BY DEF Write, WriterStep, WaitForRoom, SwitchMemTable, BuildBatchGroup, AddRecord,
     InsertInto, FinishWrite, disk, AtFront, SeqInv, GroupNumbers
<1>2. current.lastSequence \in Nat
  BY <1>1 DEF SeqInv, WrittenNumbers
<1>3. current'.lastSequence \in Nat /\ current.lastSequence <= current'.lastSequence
  <2>1. CASE FinishWrite
    <3>1. Cardinality(group.entries) \in Nat
      BY FS_CardinalityType DEF SeqInv, GroupNumbers
    <3>2. current'.lastSequence = current.lastSequence + Cardinality(group.entries)
      BY <2>1 DEF FinishWrite, FileInv, VersionOK
    <3>3. QED
      BY <1>2, <3>1, <3>2
  <2>2. CASE ~FinishWrite
    <3>1. current'.lastSequence = current.lastSequence
      BY <2>2 DEF Write, WriterStep, WaitForRoom, SwitchMemTable, BuildBatchGroup, AddRecord,
         InsertInto, FileInv, VersionOK
    <3>2. QED
      BY <1>2, <3>1
  <2>3. QED
    BY <2>1, <2>2
<1>4. ASSUME reader.on, NEW k
      PROVE  Visible(written', k, reader.seq) = Visible(written, k, reader.seq)
  <2>1. CASE AddRecord
    <3>1. written' = written \cup group.entries
      BY <2>1 DEF AddRecord
    <3>2. \A e \in group.entries : current.lastSequence < e.seq /\ e.seq \in Nat
      BY <2>1 DEF AddRecord, SeqInv, GroupNumbers, Entry
    <3>3. reader.seq \in Nat /\ reader.seq <= current.lastSequence
      BY <1>4 DEF ReadInv
    <3>4. \A e \in group.entries : ~(e.seq <= reader.seq)
      BY <1>2, <3>2, <3>3
    <3>5. QED
      BY <3>1, <3>4 DEF Visible
  <2>2. CASE ~AddRecord
    <3>1. written' = written
      BY <2>2 DEF Write, WriterStep, WaitForRoom, SwitchMemTable, BuildBatchGroup, InsertInto,
         FinishWrite, history
    <3>2. QED
      BY <3>1
  <2>3. QED
    BY <2>1, <2>2
<1>5. reader.on => reader.seq <= current'.lastSequence
  BY <1>2, <1>3 DEF ReadInv
<1>6. QED
  BY <1>1, <1>4, <1>5, ReadKept

\* The background thread takes new numbers for its tables, and deletes none
\* that the read needs.
LEMMA ThreadReads ==
    ASSUME FileInv, TableInv, ReadInv, FileInv', BackgroundStep
    PROVE  ReadInv'
<1>1. UNCHANGED <<up, reader, written>>
  BY DEF BackgroundStep, StartFlush, InstallCompactionResults, WriteManifest, Install,
     WriteLevel0Table, TrivialMove, StartMerge, MergeOutput, history
<1>2. current'.lastSequence = current.lastSequence
  BY DEF BackgroundStep, StartFlush, InstallCompactionResults, WriteManifest, Install,
     WriteLevel0Table, TrivialMove, StartMerge, MergeOutput, FileInv, VersionOK
<1>3. ASSUME reader.on, NEW n \in Files(reader.levels) PROVE tables'[n] = tables[n]
  <2>1. up = "open" /\ n \in NeededFiles
    BY <1>3 DEF ReadInv, NeededFiles
  <2>2. n \in DOMAIN tables /\ n \in Nat /\ n < current.nextFile /\ current.nextFile \in Nat
    BY <2>1, LevelFiles
  <2>3. n # current.nextFile
    BY <2>2
  <2>4. CASE \E l \in Level : WriteLevel0Table(l)
    BY <2>2, <2>3, <2>4 DEF WriteLevel0Table
  <2>5. CASE \E k \in Key : MergeOutput(k)
    BY <2>2, <2>3, <2>5 DEF MergeOutput
  <2>6. CASE Install
    <3>1. \/ tables' = tables
          \/ \E S : tables' = Only(tables, S) /\ Files(reader.levels) \subseteq S
      <4>1. CASE bg.edit.kind = "move"
        BY <2>6, <4>1 DEF Install
      <4>2. CASE bg.edit.kind # "move"
        <5>1. PICK v, c : DeleteObsoleteFiles(v, c)
          BY <2>6, <4>2 DEF Install
        <5>2. PICK S : S = Files(v.levels) \cup Files(reader.levels)
                              \cup Files(c.base) \cup c.outputs
          OBVIOUS
        <5>3. tables' = Only(tables, S)
          BY <5>1, <5>2 DEF DeleteObsoleteFiles
        <5>4. QED
          BY <5>2, <5>3
      <4>3. QED
        BY <4>1, <4>2
    <3>2. QED
      BY <1>3, <2>2, <3>1 DEF Only
  <2>7. CASE UNCHANGED tables
    BY <2>7
  <2>8. QED
    BY <2>4, <2>5, <2>6, <2>7 DEF BackgroundStep, StartFlush, InstallCompactionResults,
       WriteManifest, TrivialMove, StartMerge, disk
<1>4. reader.on => reader.seq <= current'.lastSequence
  BY <1>2 DEF ReadInv
<1>5. QED
  BY <1>1, <1>3, <1>4, ReadKept

\* Every step leaves a read in progress what it began with.
LEMMA ReadNext ==
    AckInv /\ FileInv /\ SeqInv /\ TableInv /\ ReadInv /\ [Next]_vars => ReadInv'
<1> SUFFICES ASSUME AckInv, FileInv, SeqInv, TableInv, ReadInv, [Next]_vars
             PROVE  ReadInv'
  OBVIOUS
<1>1. FileInv'
  BY FileNext
<1>2. CASE (\E b \in Batches : Write(b)) \/ WriterStep
  BY <1>1, <1>2, WriterReads
<1>3. CASE BackgroundStep
  BY <1>1, <1>3, ThreadReads
<1>4. CASE StartGet
  <2>1. PICK m, i, lv, s : m = mem /\ i = imm /\ lv = current.levels /\ s = current.lastSequence
    OBVIOUS
  <2>2. reader' = [on |-> TRUE, seq |-> s, mem |-> m, imm |-> i, levels |-> lv]
    BY <1>4, <2>1 DEF StartGet
  <2>3. UNCHANGED <<tables, current, written, up>> /\ up = "open"
    BY <1>4 DEF StartGet, disk
  <2>4. \A k \in Key : Search(<<m, i>> \o TableSources(lv, k), k, s) = Truth(k, s)
    BY <2>1, <2>3, OpenFinds DEF FindsLatest
  <2>5. /\ \A k : TableSources(lv, k)' = TableSources(lv, k)
        /\ \A k : Truth(k, s)' = Truth(k, s)
    BY <2>3 DEF TableSources, Truth, Largest
  <2>6. \A k \in Key : Search(<<m, i>> \o TableSources(lv, k)', k, s) = Truth(k, s)'
    BY <2>4, <2>5
  <2>7. m = reader'.mem /\ i = reader'.imm /\ lv = reader'.levels /\ s = reader'.seq
    BY <2>2
  <2>8. FindsLatest(<<reader.mem, reader.imm>>, reader.levels, reader.seq)'
    BY <2>6, <2>7 DEF FindsLatest, TableSources, Truth, Largest
  <2>9. Files(reader'.levels) \subseteq DOMAIN tables'
    BY <1>1 DEF FileInv, NeededFiles
  <2>10. ReadIsSnapshot'
    BY <2>8, <2>9 DEF ReadIsSnapshot
  <2>11. s \in Nat /\ s <= s
    BY <2>1, <2>3, FlushedArePublished
  <2>12. QED
    BY <2>1, <2>3, <2>7, <2>10, <2>11 DEF ReadInv
<1>5. CASE FinishGet \/ Crash \/ PowerLoss
  <2>1. ~reader'.on
    BY <1>5 DEF FinishGet, Crash, PowerLoss, Stop, NoReader
  <2>2. QED
    BY <2>1 DEF ReadInv, ReadIsSnapshot
<1>6. CASE Recover \/ SetCurrentFile \/ Opened
  <2>1. reader' = reader /\ up # "open"
    BY <1>6 DEF Recover, SetCurrentFile, Opened
  <2>2. ~reader'.on
    BY <2>1 DEF TableInv, TablesOK, NoReader
  <2>3. QED
    BY <2>2 DEF ReadInv, ReadIsSnapshot
<1>7. CASE UNCHANGED vars
  <2>1. UNCHANGED <<up, reader, written, tables, current>>
    BY <1>7 DEF vars, disk, history
  <2>2. QED
    BY <1>1, <2>1, ReadKept DEF ReadInv
<1>8. QED
  BY <1>2, <1>3, <1>4, <1>5, <1>6, <1>7 DEF Next

-----------------------------------------------------------------------------
(* What Get finds, and what the files hold.                                *)

\* All that the theorems below rest on.
EngineInv ==
    TypeInv /\ AckInv /\ FileInv /\ LogInv /\ SeqInv /\ TableInv /\ ReadInv

\* The invariant holds in every state.
LEMMA EngineAlways == Spec => []EngineInv
<1>1. Init => EngineInv
  <2> SUFFICES ASSUME Init PROVE EngineInv
    OBVIOUS
  <2>1. ~reader.on
    BY DEF Init, NoReader
  <2>2. ReadInv
    BY <2>1 DEF ReadInv, ReadIsSnapshot
  <2>3. QED
    BY <2>2, InitTables, InitAcks, InitFiles, InitLogs, InitNumbers DEF EngineInv
<1>2. EngineInv /\ [Next]_vars => EngineInv'
  BY TypeNext, AckNext, FileNext, LogNext, SeqNext, TableNext, ReadNext DEF EngineInv
<1>3. QED
  BY <1>1, <1>2, PTL DEF Spec

\* DBImpl::Get, Version::Get: through the memtables, the files of level 0 and
\* one file of each deeper level, a read finds the latest value that was
\* published when it began, whatever is written, flushed, merged, deleted and
\* opened again before and meanwhile; and files of a deeper level never overlap,
\* though a memtable goes down into the levels while a merge writes to them.
THEOREM ReadsAreLatest == Spec => []GetFindsLatest
<1>1. ASSUME EngineInv PROVE GetFindsLatest
  <2>1. LevelsAreDisjoint
    BY <1>1, DisjointLevels DEF EngineInv
  <2>2. ReadIsSnapshot
    BY <1>1 DEF EngineInv, ReadInv
  <2>3. up = "open" => FindsLatest(<<mem, imm>>, current.levels, current.lastSequence)
    BY <1>1, OpenFinds DEF EngineInv
  <2>4. QED
    BY <2>1, <2>2, <2>3 DEF GetFindsLatest
<1>2. QED
  BY <1>1, EngineAlways, PTL

\* The version in memory, and the rest of the types.
LEMMA Types == EngineInv => TypeOK
<1> SUFFICES ASSUME EngineInv PROVE TypeOK
  OBVIOUS
<1>1. up \in {"down", "recovering", "installed", "open"}
  BY DEF EngineInv, TypeInv
<1>2. current \in Versions
  <2>1. current.levels \in [Level -> SUBSET Nat]
    <3>1. current.levels = [l \in Level |-> current.levels[l]]
      BY DEF EngineInv, FileInv, VersionOK
    <3>2. \A n \in Files(current.levels) : n \in Nat
      BY DEF EngineInv, FileInv, NeededFiles, TableInv, TablesOK
    <3>3. \A l \in Level : current.levels[l] \subseteq Nat
      BY <3>2 DEF Files
    <3>4. QED
      BY <3>1, <3>3
  <2>2. current.logNumber \in Nat /\ current.nextFile \in Nat
    BY DEF EngineInv, LogInv, NumbersOK, TableInv, TablesOK, NoVersion
  <2>3. current.lastSequence \in 0..MaxSequence
    <3>1. MaxSequence \in Nat
      OBVIOUS
    <3>2. CASE up = "down"
      <4>1. current.lastSequence = 0
        BY <3>2 DEF EngineInv, TableInv, TablesOK, NoVersion
      <4>2. QED
        BY <3>1, <4>1
    <3>3. QED
      BY <3>2 DEF EngineInv, SeqInv, WrittenNumbers
  <2>4. current.seekFile \in Nat
    BY DEF EngineInv, TypeInv
  <2>5. current = [levels |-> current.levels, logNumber |-> current.logNumber,
                   nextFile |-> current.nextFile, lastSequence |-> current.lastSequence,
                   seekFile |-> current.seekFile]
    <3>1. current = [levels |-> [l \in Level |-> current.levels[l]],
                     logNumber |-> current.logNumber, nextFile |-> current.nextFile,
                     lastSequence |-> current.lastSequence, seekFile |-> current.seekFile]
      BY DEF EngineInv, FileInv, VersionOK
    <3>2. QED
      BY <3>1
  <2>6. QED
    BY <2>1, <2>2, <2>3, <2>4, <2>5 DEF Versions
<1>3. DOMAIN logs \subseteq Nat
  BY DEF EngineInv, LogInv, RecordsOK
<1>4. DOMAIN tables \subseteq Nat /\ \A n \in DOMAIN tables : tables[n] # {}
  BY DEF EngineInv, TableInv, TablesOK
<1>5. up # "down" => logfile \in DOMAIN logs
  BY DEF EngineInv, LogInv, NumbersOK
<1>6. {asleep, scheduled, reader.on} \subseteq BOOLEAN /\ Len(writers) <= MaxWriters
  BY DEF EngineInv, TypeInv
<1>7. group.n <= Len(writers)
  BY DEF EngineInv, AckInv, GroupOK, NoGroup
<1>8. QED
  BY <1>1, <1>2, <1>3, <1>4, <1>5, <1>6, <1>7 DEF TypeOK

\* DBImpl::Write, CompactMemTable, DoCompactionWork, VersionSet::LogAndApply and
\* DeleteObsoleteFiles: at any moment the logs that opening would replay and the
\* tables that MANIFEST names hold, for every key, the latest that a log has
\* received.  No log is deleted or passed over too early, a merge loses no row
\* and brings no deleted row back, and no number is used for a second table.
THEOREM NothingIsForgotten == Spec => []FilesHoldAll
<1>1. ASSUME EngineInv PROVE FilesHoldAll
  <2>1. TypeOK
    BY <1>1, Types
  <2>2. NoMissingFiles /\ MemoryIsLogged
    BY <1>1, MemoryLogged DEF EngineInv, FileInv
  <2>3. ASSUME NEW k \in Key
        PROVE  Search(RecoveredSources(k), k, MaxSequence) = Truth(k, MaxSequence)
    BY <1>1, FilesFind DEF EngineInv
  <2>4. QED
    BY <2>1, <2>2, <2>3 DEF FilesHoldAll
<1>2. QED
  BY <1>1, EngineAlways, PTL

-----------------------------------------------------------------------------
(* The store that the engine is.                                           *)

\* A number that an entry has, or none.
Reached(s) == s = 0 \/ \E e \in written : e.seq = s

\* The last number that the files have.
FileStamp == Max({manifest.lastSequence} \cup {e.seq : e \in LoggedEntries})

\* The group is numbered from the last number on; the numbers that the version,
\* MANIFEST and an edit on its way have as their last are those of entries.
StampInv ==
    /\ group.phase # "none" => group.entries = GroupEntries(group.n, current.lastSequence)
    /\ Reached(manifest.lastSequence)
    /\ up # "down" =>
          Reached(current.lastSequence) /\ manifest.lastSequence <= current.lastSequence
    /\ bg.pc = "log" =>
          Reached(bg.edit.lastSequence) /\ bg.edit.lastSequence <= current.lastSequence

\* The greatest number is there.
LEMMA FileStampIs ==
    ASSUME SeqInv
    PROVE  /\ FileStamp \in 0..MaxSequence
           /\ \/ FileStamp = manifest.lastSequence
              \/ \E e \in LoggedEntries : e.seq = FileStamp
           /\ manifest.lastSequence <= FileStamp
           /\ \A e \in LoggedEntries : e.seq <= FileStamp
<1>1. PICK S : S = {manifest.lastSequence} \cup {e.seq : e \in LoggedEntries}
  OBVIOUS
<1>2. \A e \in LoggedEntries : e.seq \in Nat /\ e.seq <= MaxSequence
  BY DEF SeqInv, LogNumbers, WrittenNumbers, Entry
<1>3. manifest.lastSequence \in 0..MaxSequence /\ MaxSequence \in Nat
  BY DEF SeqInv, ManifestNumbers
<1>4. S \subseteq 0..MaxSequence /\ S # {}
  BY <1>1, <1>2, <1>3
<1>5. Max(S) \in S /\ \A y \in S : y <= Max(S)
  BY <1>3, <1>4, GreatestOf
<1>6. FileStamp = Max(S)
  BY <1>1 DEF FileStamp
<1>7. QED
  BY <1>1, <1>4, <1>5, <1>6

\* A number that is reached, and that no entry exceeds, is the one that the files
\* have.
LEMMA TopIsStamp ==
    ASSUME SeqInv, NEW s \in Nat, Reached(s), manifest.lastSequence <= s,
           \A e \in written : e.seq <= s
    PROVE  FileStamp = s
<1>1. FileStamp \in Nat /\ manifest.lastSequence \in Nat /\ manifest.lastSequence <= FileStamp
  BY FileStampIs DEF SeqInv, ManifestNumbers
<1>2. FileStamp <= s
  BY FileStampIs DEF SeqInv, LogNumbers
<1>3. s <= FileStamp
  <2>1. CASE s = 0
    BY <1>1, <2>1
  <2>2. CASE \E e \in written : e.seq = s
    <3>1. PICK e \in written : e.seq = s
      BY <2>2
    <3>2. CASE e \in LoggedEntries
      BY <3>1, <3>2, FileStampIs
    <3>3. CASE e \notin LoggedEntries
      <4>1. s <= manifest.lastSequence
        BY <3>1, <3>3 DEF SeqInv, ManifestNumbers
      <4>2. QED
        BY <1>1, <4>1
    <3>4. QED
      BY <3>2, <3>3
  <2>3. QED
    BY <2>1, <2>2 DEF Reached
<1>4. QED
  BY <1>1, <1>2, <1>3

\* The slots of the first n writers are ranked from 1 to their number.
LEMMA LastSlot ==
    ASSUME writers \in Seq(Writer), NEW n \in 1 .. Len(writers), NEW s \in Nat
    PROVE  \E e \in GroupEntries(n, s) : e.seq = s + NumEntries(SubSeq(writers, 1, n))
<1>1. /\ n \in 0 .. Len(writers) /\ writers[n] \in Writer
      /\ DOMAIN writers[n].batch \subseteq Key /\ DOMAIN writers[n].batch # {}
  BY WriterFields
<1>2. PICK k : /\ k \in DOMAIN writers[n].batch
               /\ \A j \in DOMAIN writers[n].batch : j <= k
  BY <1>1, KeyExtremes
<1>3. PICK ws : ws = SubSeq(writers, 1, n)
  OBVIOUS
<1>4. Slots(ws) = {q \in Slots(writers) : q[1] <= n}
  BY <1>1, <1>3, SlotsOfPrefix
<1>5. PICK p : p = <<n, k>>
  OBVIOUS
<1>6. p \in Slots(writers) /\ p[1] = n /\ p[2] = k /\ p \in Slots(ws)
  <2>1. <<n, k>> \in Slots(writers)
    BY <1>2, SlotsAre
  <2>2. QED
    BY <1>4, <1>5, <2>1
<1>7. {q \in Slots(writers) : NotAfter(q, p)} = Slots(ws)
  <2>1. ASSUME NEW q \in Slots(writers) PROVE NotAfter(q, p) <=> q[1] <= n
    <3>1. q[1] \in 1 .. Len(writers) /\ q[2] \in DOMAIN writers[q[1]].batch
      BY SlotsAre
    <3>2. q[1] = n => q[2] <= k
      BY <1>2, <3>1
    <3>3. QED
      BY <1>6, <3>1, <3>2 DEF NotAfter
  <2>2. QED
    BY <1>4, <2>1
<1>8. Cardinality({q \in Slots(writers) : NotAfter(q, p)}) = NumEntries(ws)
  BY <1>7 DEF NumEntries
<1>9. PICK e : e = [seq |-> s + Cardinality({q \in Slots(writers) : NotAfter(q, p)}),
                   key |-> p[2], put |-> writers[p[1]].batch[p[2]], id |-> writers[p[1]].id]
  OBVIOUS
<1>10. e \in GroupEntries(n, s)
  BY <1>3, <1>6, <1>9 DEF GroupEntries
<1>11. e.seq = s + NumEntries(ws)
  BY <1>8, <1>9
<1>12. QED
  BY <1>3, <1>10, <1>11

\* One more writer does not change the numbers of those before it.
LEMMA GroupStays ==
    ASSUME writers \in Seq(Writer), NEW w \in Writer, writers' = Append(writers, w),
           NEW n \in 0 .. Len(writers), NEW s
    PROVE  GroupEntries(n, s)' = GroupEntries(n, s)
<1>1. PICK ws, vs, m : ws = writers /\ vs = Append(writers, w) /\ m = Len(writers)
  OBVIOUS
<1>2. /\ vs \in Seq(Writer) /\ m \in Nat /\ Len(vs) = m + 1 /\ SubSeq(vs, 1, n) = SubSeq(ws, 1, n)
      /\ \A i \in 1 .. m : vs[i] = ws[i]
  BY <1>1, NumEntriesAppend
<1>3. PICK P : P = Slots(SubSeq(ws, 1, n))
  OBVIOUS
<1>4. /\ P = {q \in Slots(ws) : q[1] <= n} /\ P = {q \in Slots(vs) : q[1] <= n}
  <2>1. ws \in Seq(Writer) /\ n \in 0 .. Len(ws) /\ n \in 0 .. Len(vs)
    BY <1>1, <1>2
  <2>2. QED
    BY <1>2, <1>3, <2>1, SlotsOfPrefix
<1>5. ASSUME NEW p \in P
      PROVE  {q \in Slots(vs) : NotAfter(q, p)} = {q \in Slots(ws) : NotAfter(q, p)}
  <2>1. p[1] \in Nat /\ p[1] <= n
    BY <1>1, <1>4, SlotsAre
  <2>2. ASSUME NEW q \in Slots(vs) \cup Slots(ws), NotAfter(q, p) PROVE q \in P
    <3>1. q[1] \in Nat
      <4>1. CASE q \in Slots(vs)
        <5>1. q[1] \in 1 .. Len(vs)
          BY <1>2, <4>1, SlotsAre
        <5>2. QED
          BY <5>1
      <4>2. CASE q \in Slots(ws)
        <5>1. q[1] \in 1 .. Len(ws)
          BY <1>1, <4>2, SlotsAre
        <5>2. QED
          BY <5>1
      <4>3. QED
        BY <4>1, <4>2
    <3>2. q[1] <= n
      BY <2>1, <2>2, <3>1 DEF NotAfter
    <3>3. QED
      BY <1>4, <3>2
  <2>3. QED
    BY <1>4, <2>2
<1>6. \A p \in P : vs[p[1]] = ws[p[1]]
  <2>1. \A p \in P : p[1] \in 1 .. Len(ws)
    BY <1>1, <1>4, SlotsAre
  <2>2. QED
    BY <1>1, <1>2, <2>1
<1>7. /\ GroupEntries(n, s) =
            {[seq |-> s + Cardinality({q \in Slots(ws) : NotAfter(q, p)}), key |-> p[2],
              put |-> ws[p[1]].batch[p[2]], id |-> ws[p[1]].id] : p \in P}
      /\ GroupEntries(n, s)' =
            {[seq |-> s + Cardinality({q \in Slots(vs) : NotAfter(q, p)}), key |-> p[2],
              put |-> vs[p[1]].batch[p[2]], id |-> vs[p[1]].id] : p \in P}
  <2>1. Slots(writers)' = Slots(vs) /\ Slots(SubSeq(writers, 1, n))' = Slots(SubSeq(vs, 1, n))
    BY <1>1 DEF Slots
  <2>2. GroupEntries(n, s) =
            {[seq |-> s + Cardinality({q \in Slots(ws) : NotAfter(q, p)}), key |-> p[2],
              put |-> ws[p[1]].batch[p[2]], id |-> ws[p[1]].id] : p \in P}
    BY <1>1, <1>3 DEF GroupEntries
  <2>3. GroupEntries(n, s)' =
            {[seq |-> s + Cardinality({q \in Slots(writers)' : NotAfter(q, p)}), key |-> p[2],
              put |-> writers'[p[1]].batch[p[2]], id |-> writers'[p[1]].id]
                : p \in Slots(SubSeq(writers, 1, n))'}
    BY DEF GroupEntries, NotAfter
  <2>4. writers' = vs /\ Slots(SubSeq(writers, 1, n))' = P
    BY <1>1, <1>2, <1>3, <2>1
  <2>5. QED
    BY <2>1, <2>2, <2>3, <2>4
<1>8. ASSUME NEW p \in P
      PROVE  [seq |-> s + Cardinality({q \in Slots(ws) : NotAfter(q, p)}), key |-> p[2],
              put |-> ws[p[1]].batch[p[2]], id |-> ws[p[1]].id] =
             [seq |-> s + Cardinality({q \in Slots(vs) : NotAfter(q, p)}), key |-> p[2],
              put |-> vs[p[1]].batch[p[2]], id |-> vs[p[1]].id]
  BY <1>5, <1>6
<1>9. QED
  BY <1>7, <1>8

\* No step takes a written number away, unless power fails.
LEMMA ReachedStays ==
    ASSUME written \subseteq written', NEW s, Reached(s)
    PROVE  Reached(s)'
BY DEF Reached

\* A writer's step.
LEMMA WriterStamp ==
    ASSUME AckInv, FileInv, SeqInv, StampInv, (\E b \in Batches : Write(b)) \/ WriterStep
    PROVE  StampInv'
<1>1. /\ UNCHANGED <<manifest, up, bg>> /\ up = "open" /\ written \subseteq written'
  BY DEF Write, WriterStep, WaitForRoom, SwitchMemTable, BuildBatchGroup, AddRecord,
     InsertInto, FinishWrite, disk, AtFront, SeqInv, GroupNumbers, history
<1>2. current.lastSequence \in Nat /\ manifest.lastSequence \in Nat
  BY <1>1 DEF SeqInv, WrittenNumbers, ManifestNumbers
<1>3. /\ current'.lastSequence \in Nat /\ current.lastSequence <= current'.lastSequence
      /\ Reached(current.lastSequence)'
  <2>1. CASE FinishWrite
    <3>1. /\ group.phase = "finish" /\ written' = written
          /\ current'.lastSequence = current.lastSequence + Cardinality(group.entries)
      BY <2>1 DEF FinishWrite, FileInv, VersionOK
    <3>2. /\ group.n \in DOMAIN writers /\ writers \in Seq(Writer)
          /\ Cardinality(group.entries) = NumEntries(SubSeq(writers, 1, group.n))
          /\ group.entries \subseteq written
          /\ Cardinality(group.entries) \in Nat
      BY <3>1, FS_CardinalityType DEF SeqInv, GroupNumbers, AckInv, GroupOK
    <3>3. group.entries = GroupEntries(group.n, current.lastSequence)
      BY <3>1 DEF StampInv
    <3>4. PICK n : n = group.n
      OBVIOUS
    <3>5. n \in 1 .. Len(writers)
      BY <3>2, <3>4
    <3>6. \E e \in GroupEntries(n, current.lastSequence) :
             e.seq = current.lastSequence + NumEntries(SubSeq(writers, 1, n))
      BY <1>2, <3>2, <3>5, LastSlot
    <3>7. \E e \in group.entries : e.seq = current'.lastSequence
      BY <3>1, <3>2, <3>3, <3>4, <3>6
    <3>8. current'.lastSequence \in Nat /\ current.lastSequence <= current'.lastSequence
      BY <1>2, <3>1, <3>2
    <3>9. Reached(current.lastSequence)'
      <4>1. \E e \in written' : e.seq = current'.lastSequence
        BY <3>1, <3>2, <3>7
      <4>2. QED
        BY <4>1 DEF Reached
    <3>10. QED
      BY <3>8, <3>9
  <2>2. CASE ~FinishWrite
    <3>1. current'.lastSequence = current.lastSequence
      BY <2>2 DEF Write, WriterStep, WaitForRoom, SwitchMemTable, BuildBatchGroup,
         AddRecord, InsertInto, FileInv, VersionOK
    <3>2. Reached(current.lastSequence)
      BY <1>1 DEF StampInv
    <3>3. QED
      BY <1>1, <1>2, <3>1, <3>2 DEF Reached
  <2>3. QED
    BY <2>1, <2>2
<1>4. group'.phase # "none" =>
         group'.entries = GroupEntries(group.n, current.lastSequence)'
  <2>1. CASE \E b \in Batches : Write(b)
    <3>1. PICK b \in Batches : Write(b)
      BY <2>1
    <3>2. PICK w : w = [id |-> issued + 1, batch |-> b]
      OBVIOUS
    <3>3. w \in Writer /\ writers \in Seq(Writer) /\ writers' = Append(writers, w)
      BY <3>1, <3>2 DEF Write, Writer, AckInv
    <3>4. group' = group /\ current' = current
      BY <3>1 DEF Write
    <3>5. PICK n, s : n = group.n /\ s = current.lastSequence
      OBVIOUS
    <3>6. n \in 0 .. Len(writers)
      BY <3>5 DEF AckInv, GroupOK
    <3>7. GroupEntries(n, s)' = GroupEntries(n, s)
      BY <3>3, <3>6, GroupStays
    <3>8. GroupEntries(group.n, current.lastSequence)' = GroupEntries(n, s)'
      BY <3>4, <3>5 DEF GroupEntries
    <3>9. QED
      BY <3>4, <3>5, <3>7, <3>8 DEF StampInv
  <2>2. CASE \E n \in DOMAIN writers : BuildBatchGroup(n)
    <3>1. PICK n \in DOMAIN writers : BuildBatchGroup(n)
      BY <2>2
    <3>2. /\ group' = [n |-> n, phase |-> "log", entries |-> GroupEntries(n, current.lastSequence)]
          /\ writers' = writers /\ current' = current
      BY <3>1 DEF BuildBatchGroup
    <3>3. PICK m, s : m = n /\ s = current.lastSequence
      OBVIOUS
    <3>4. group'.n = m /\ group'.entries = GroupEntries(m, s) /\ current'.lastSequence = s
      BY <3>2, <3>3
    <3>5. GroupEntries(m, s)' = GroupEntries(m, s)
      BY <3>2 DEF GroupEntries, Slots, NotAfter
    <3>6. GroupEntries(group.n, current.lastSequence)' = GroupEntries(m, s)'
      BY <3>4 DEF GroupEntries
    <3>7. QED
      BY <3>4, <3>5, <3>6
  <2>3. CASE WaitForRoom \/ SwitchMemTable \/ AddRecord \/ InsertInto
    <3>1. /\ group'.n = group.n /\ group'.entries = group.entries /\ writers' = writers
          /\ group'.phase # "none" => group.phase # "none"
          /\ current'.lastSequence = current.lastSequence
      BY <2>3 DEF WaitForRoom, SwitchMemTable, AddRecord, InsertInto, queue, AckInv, GroupOK,
         FileInv, VersionOK
    <3>2. GroupEntries(group.n, current.lastSequence)' =
             GroupEntries(group.n, current.lastSequence)
      BY <3>1 DEF GroupEntries, Slots, NotAfter
    <3>3. QED
      BY <3>1, <3>2 DEF StampInv
  <2>4. CASE FinishWrite
    <3>1. group'.phase = "none"
      BY <2>4 DEF FinishWrite, NoGroup
    <3>2. QED
      BY <3>1
  <2>5. QED
    BY <2>1, <2>2, <2>3, <2>4 DEF WriterStep
<1>5. Reached(manifest.lastSequence)' /\ (bg.pc = "log" => Reached(bg.edit.lastSequence)')
  BY <1>1 DEF StampInv, Reached
<1>6. manifest'.lastSequence <= current'.lastSequence
  BY <1>1, <1>2, <1>3 DEF StampInv
<1>7. bg.pc = "log" => bg.edit.lastSequence <= current'.lastSequence
  BY <1>2, <1>3 DEF StampInv, SeqInv, ManifestNumbers
<1>8. QED
  BY <1>1, <1>3, <1>4, <1>5, <1>6, <1>7 DEF StampInv

\* What the thread has for MANIFEST has the number of the version it began with.
LEMMA EditStamp ==
    ASSUME FileInv, BackgroundStep, bg'.pc = "log"
    PROVE  \/ bg.pc = "log" /\ bg'.edit = bg.edit
           \/ up = "open" /\ bg'.edit.lastSequence = current.lastSequence
<1>1. bg = [pc |-> bg.pc, comp |-> bg.comp, edit |-> bg.edit] /\ VersionOK(current)
  BY DEF FileInv, ThreadOK
<1>2. CASE StartFlush \/ WriteManifest \/ Install
  <2>1. CASE StartFlush \/ WriteManifest
    BY <1>1, <2>1 DEF StartFlush, WriteManifest
  <2>2. CASE Install
    <3>1. bg' = Idle \/ bg' = [bg EXCEPT !.pc = "merge", !.edit = NoEdit]
      BY <2>2 DEF Install
    <3>2. bg'.pc # "log"
      <4>1. Idle.pc = "idle"
        BY DEF Idle
      <4>2. PICK e : e = NoEdit
        OBVIOUS
      <4>3. [bg EXCEPT !.pc = "merge", !.edit = e].pc = "merge"
        BY <1>1
      <4>4. QED
        BY <3>1, <4>1, <4>2, <4>3
    <3>3. QED
      BY <3>2
  <2>3. QED
    BY <1>2, <2>1, <2>2
<1>3. CASE InstallCompactionResults
  <2>1. bg'.edit.lastSequence = current.lastSequence /\ bg.pc = "merge"
    BY <1>1, <1>3 DEF InstallCompactionResults, Edit
  <2>2. QED
    BY <2>1, ThreadOpen
<1>4. CASE \E l \in Level : WriteLevel0Table(l)
  <2>1. PICK l \in Level : WriteLevel0Table(l)
    BY <1>4
  <2>2. bg'.edit.lastSequence = current.lastSequence /\ bg.pc = "flush"
    BY <1>1, <2>1 DEF WriteLevel0Table, Edit, VersionOK
  <2>3. QED
    BY <2>2, ThreadOpen
<1>5. CASE MayCompact /\ \E pick \in Picks : \E in \in Inputs(pick[1], pick[2]) :
                             TrivialMove(pick, in) \/ StartMerge(pick, in)
  <2>1. PICK pick \in Picks : \E in \in Inputs(pick[1], pick[2]) :
           TrivialMove(pick, in) \/ StartMerge(pick, in)
    BY <1>5
  <2>2. PICK in \in Inputs(pick[1], pick[2]) : TrivialMove(pick, in) \/ StartMerge(pick, in)
    BY <2>1
  <2>3. CASE TrivialMove(pick, in)
    <3>1. bg'.edit.lastSequence = current.lastSequence
      BY <1>1, <2>3 DEF TrivialMove, Edit
    <3>2. QED
      BY <1>5, <3>1 DEF MayCompact
  <2>4. CASE StartMerge(pick, in)
    <3>1. bg'.pc = "merge"
      BY <1>1, <2>4 DEF StartMerge
    <3>2. QED
      BY <3>1
  <2>5. QED
    BY <2>2, <2>3, <2>4
<1>6. CASE \E k \in Key : MergeOutput(k)
  <2>1. PICK k \in Key : MergeOutput(k)
    BY <1>6
  <2>2. bg'.pc = "merge"
    BY <1>1, <2>1 DEF MergeOutput
  <2>3. QED
    BY <2>2
<1>7. QED
  BY <1>2, <1>3, <1>4, <1>5, <1>6 DEF BackgroundStep

\* The thread, and readers, write nothing and number nothing.
LEMMA ThreadStamp ==
    ASSUME FileInv, SeqInv, StampInv, BackgroundStep \/ StartGet \/ FinishGet \/ UNCHANGED vars
    PROVE  StampInv'
<1>1. UNCHANGED <<up, group, writers, written>> /\ current'.lastSequence = current.lastSequence
  BY DEF BackgroundStep, StartFlush, InstallCompactionResults, WriteManifest, Install,
     WriteLevel0Table, TrivialMove, StartMerge, MergeOutput, StartGet, FinishGet, vars, queue,
     history, FileInv, VersionOK
<1>2. GroupEntries(group.n, current.lastSequence)' = GroupEntries(group.n, current.lastSequence)
  BY <1>1 DEF GroupEntries, Slots, NotAfter
<1>3. \A s : Reached(s)' <=> Reached(s)
  BY <1>1 DEF Reached
<1>4. bg'.pc = "log" => Reached(bg.edit.lastSequence)' /\ bg'.edit.lastSequence <= current'.lastSequence
  <2>1. CASE bg' = bg
    BY <1>1, <1>3, <2>1 DEF StampInv
  <2>2. CASE bg' # bg /\ bg'.pc = "log"
    <3>1. BackgroundStep
      BY <2>2 DEF StartGet, FinishGet, vars
    <3>2. CASE bg.pc = "log" /\ bg'.edit = bg.edit
      BY <1>1, <1>3, <3>2 DEF StampInv
    <3>3. CASE up = "open" /\ bg'.edit.lastSequence = current.lastSequence
      <4>1. Reached(current.lastSequence)'
        BY <1>1, <1>3, <3>3 DEF StampInv
      <4>2. Reached(bg.edit.lastSequence)'
        BY <1>1, <3>3, <4>1 DEF Reached
      <4>3. current.lastSequence \in Nat
        BY <3>3 DEF SeqInv, WrittenNumbers
      <4>4. QED
        BY <1>1, <3>3, <4>2, <4>3
    <3>4. QED
      BY <2>2, <3>1, <3>2, <3>3, EditStamp
  <2>3. QED
    BY <2>1, <2>2
<1>5. \/ manifest' = manifest
      \/ manifest'.lastSequence = bg.edit.lastSequence /\ bg.pc = "log"
  <2>1. CASE WriteManifest
    BY <2>1 DEF WriteManifest
  <2>2. CASE ~WriteManifest
    <3>1. manifest' = manifest
      BY <2>2 DEF BackgroundStep, StartFlush, InstallCompactionResults, Install,
         WriteLevel0Table, TrivialMove, StartMerge, MergeOutput, StartGet, FinishGet, vars, disk
    <3>2. QED
      BY <3>1
  <2>3. QED
    BY <2>1, <2>2
<1>6. QED
  BY <1>1, <1>2, <1>3, <1>4, <1>5 DEF StampInv

\* Stopping leaves the numbers of the files.
LEMMA StopStamp ==
    ASSUME StampInv, Crash
    PROVE  StampInv'
<1>1. UNCHANGED <<manifest, written>> /\ up' = "down" /\ group'.phase = "none" /\ bg'.pc = "idle"
  BY DEF Crash, Stop, NoGroup, Idle
<1>2. Reached(manifest.lastSequence)'
  BY <1>1 DEF StampInv, Reached
<1>3. QED
  BY <1>1, <1>2 DEF StampInv

\* Opening goes on from the last number that the files have.
LEMMA OpenStamp ==
    ASSUME FileInv, SeqInv, StampInv, Recover \/ SetCurrentFile \/ Opened
    PROVE  /\ StampInv'
           /\ Recover => current'.lastSequence = FileStamp
<1>1. /\ up # "open" /\ group = NoGroup /\ bg = Idle
      /\ UNCHANGED <<written, group, bg>>
  BY DEF Recover, SetCurrentFile, Opened, SeqInv, WrittenNumbers, FileInv, ThreadOK, queue, history
<1>2. group'.phase = "none" /\ bg'.pc = "idle"
  BY <1>1 DEF NoGroup, Idle
<1>3. \A s : Reached(s) => Reached(s)'
  BY <1>1 DEF Reached
<1>4. CASE Recover
  <2>1. current'.lastSequence = FileStamp /\ manifest' = manifest
    <3>1. PICK S : S = {e.seq : e \in LoggedEntries}
      OBVIOUS
    <3>2. current'.lastSequence = MaxSequenceOf(S)
      BY <1>4, <3>1 DEF Recover, LoggedEntries
    <3>3. FileStamp = MaxSequenceOf(S)
      <4>1. {manifest.lastSequence} \cup S = S \cup {manifest.lastSequence}
        OBVIOUS
      <4>2. QED
        BY <3>1, <4>1 DEF FileStamp, MaxSequenceOf
    <3>4. QED
      BY <1>4, <3>2, <3>3 DEF Recover
  <2>2. manifest.lastSequence <= FileStamp /\ Reached(FileStamp)
    BY FileStampIs DEF StampInv, Reached, SeqInv, LogNumbers
  <2>3. Reached(manifest.lastSequence)' /\ Reached(current.lastSequence)'
    <3>1. Reached(manifest.lastSequence) /\ Reached(FileStamp)
      BY <2>2 DEF StampInv
    <3>2. PICK s, t : s = FileStamp /\ t = manifest.lastSequence
      OBVIOUS
    <3>3. Reached(s)' /\ Reached(t)' /\ current'.lastSequence = s /\ manifest'.lastSequence = t
      BY <1>3, <2>1, <3>1, <3>2
    <3>4. QED
      BY <3>3 DEF Reached
  <2>4. QED
    BY <1>2, <2>1, <2>2, <2>3 DEF StampInv
<1>5. CASE SetCurrentFile \/ Opened
  <2>1. /\ up # "down" /\ current' = current
        /\ manifest'.lastSequence \in {manifest.lastSequence, current.lastSequence}
    <3>1. CASE SetCurrentFile
      BY <3>1 DEF SetCurrentFile
    <3>2. CASE Opened
      BY <3>2 DEF Opened
    <3>3. QED
      BY <1>5, <3>1, <3>2
  <2>2. current.lastSequence \in Nat
    BY <2>1 DEF SeqInv, WrittenNumbers
  <2>3. manifest'.lastSequence <= current'.lastSequence
    BY <2>1, <2>2 DEF StampInv
  <2>4. Reached(manifest.lastSequence)' /\ Reached(current.lastSequence)'
    BY <1>3, <2>1 DEF StampInv, Reached
  <2>5. ~Recover
    BY <2>1 DEF Recover
  <2>6. QED
    BY <1>2, <2>3, <2>4, <2>5 DEF StampInv
<1>6. QED
  BY <1>4, <1>5

\* Every step of the engine keeps the last numbers those of entries.
LEMMA StampNext ==
    ASSUME ~PowerFails, AckInv, FileInv, SeqInv, StampInv, [Next]_vars
    PROVE  StampInv'
BY WriterStamp, ThreadStamp, StopStamp, OpenStamp DEF Next, PowerLoss

\* A new database has no entry, and the number zero.
LEMMA InitStamp == Init => StampInv
BY DEF Init, StampInv, NoGroup, Idle, Reached, NoVersion

-----------------------------------------------------------------------------
(* The rows of the store.                                                  *)

\* Between two openings, the last number of the version is that of the files.
LEMMA TopIsCurrent ==
    ASSUME SeqInv, StampInv, up \in {"recovering", "installed"}
    PROVE  FileStamp = current.lastSequence
<1>1. PICK s : s = current.lastSequence
  OBVIOUS
<1>2. s \in Nat /\ Reached(s) /\ manifest.lastSequence <= s
  BY <1>1 DEF SeqInv, WrittenNumbers, StampInv
<1>3. InGroup = {}
  BY DEF SeqInv, WrittenNumbers, InGroup, NoGroup
<1>4. \A e \in written : e.seq <= s
  BY <1>1, <1>3 DEF SeqInv, WrittenNumbers
<1>5. QED
  BY <1>1, <1>2, <1>4, TopIsStamp

\* The number as of which the store is read.
LEMMA StampIs ==
    ASSUME SeqInv, StampInv
    PROVE  /\ up = "open" => Stamp = current.lastSequence
           /\ up # "open" => /\ Stamp = FileStamp
                             /\ \A e \in written : e.seq <= Stamp
           /\ Stamp \in Nat
<1>1. up = "open" => Stamp = current.lastSequence
  BY DEF Stamp
<1>2. up # "open" => Stamp = FileStamp
  BY DEF Stamp, FileStamp, LoggedEntries
<1>3. ASSUME NEW e \in written PROVE e.seq <= FileStamp
  <2>1. CASE e \in LoggedEntries
    BY <2>1, FileStampIs
  <2>2. CASE e \notin LoggedEntries
    <3>1. e.seq \in Nat /\ e.seq <= manifest.lastSequence /\ manifest.lastSequence \in Nat
      BY <2>2 DEF SeqInv, ManifestNumbers, WrittenNumbers, Entry
    <3>2. FileStamp \in Nat /\ manifest.lastSequence <= FileStamp
      BY FileStampIs
    <3>3. QED
      BY <3>1, <3>2
  <2>3. QED
    BY <2>1, <2>2
<1>4. Stamp \in Nat
  <2>1. FileStamp \in Nat
    BY FileStampIs
  <2>2. up # "down" => current.lastSequence \in Nat
    BY DEF SeqInv, WrittenNumbers
  <2>3. QED
    BY <1>1, <1>2, <2>1, <2>2
<1>5. QED
  BY <1>1, <1>2, <1>3, <1>4

\* The rows are what was written up to that number.
LEMMA RowsAre ==
    ASSUME TypeInv, FileInv, LogInv, SeqInv, TableInv, StampInv
    PROVE  Rows = [k \in Key |-> Truth(k, Stamp)]
<1> SUFFICES ASSUME NEW k \in Key
             PROVE  (IF up = "open"
                     THEN Search(<<mem, imm>> \o TableSources(current.levels, k), k,
                                 current.lastSequence)
                     ELSE Search(RecoveredSources(k), k, MaxSequence)) = Truth(k, Stamp)
  BY DEF Rows
<1>1. CASE up = "open"
  BY <1>1, OpenFinds, StampIs DEF FindsLatest
<1>2. CASE up # "open"
  <2>1. Search(RecoveredSources(k), k, MaxSequence) = Truth(k, MaxSequence)
    BY FilesFind
  <2>2. Visible(written, k, MaxSequence) = Visible(written, k, Stamp)
    <3>1. \A e \in written : e.seq <= MaxSequence /\ e.seq <= Stamp
      BY <1>2, StampIs DEF SeqInv, WrittenNumbers
    <3>2. QED
      BY <3>1 DEF Visible
  <2>3. QED
    BY <1>2, <2>1, <2>2 DEF Truth
<1>3. QED
  BY <1>1, <1>2

\* The newest of the entries that a search sees.
LEMMA NewestIs ==
    ASSUME NEW S, NEW e \in S, \A f \in S : f.seq \in Nat /\ f.seq <= e.seq,
           \A f \in S : f.seq = e.seq => f = e
    PROVE  ValueOf(S) = IF e.put THEN e.seq ELSE 0
<1>1. Newest(S) = e
  <2>1. \A f \in S : f.seq <= Newest(S).seq /\ Newest(S) \in S
    BY DEF Newest
  <2>2. Newest(S).seq = e.seq
    BY <2>1
  <2>3. QED
    BY <2>1, <2>2
<1>2. QED
  BY <1>1 DEF ValueOf

\* The rank of a slot: all slots of the writers before, and those of its own
\* batch up to its key.
LEMMA RankIs ==
    ASSUME writers \in Seq(Writer), NEW i \in 1 .. Len(writers), NEW k \in DOMAIN writers[i].batch
    PROVE  Rank(<<i, k>>) = NumEntries(SubSeq(writers, 1, i - 1))
                              + Cardinality({j \in DOMAIN writers[i].batch : j <= k})
<1> DEFINE A == Slots(SubSeq(writers, 1, i - 1))
           D == {j \in DOMAIN writers[i].batch : j <= k}
           B == {i} \X D
           U == {q \in Slots(writers) : NotAfter(q, <<i, k>>)}
<1>1. /\ i - 1 \in 0 .. Len(writers) /\ i \in Nat
      /\ SubSeq(writers, 1, i - 1) \in Seq(Writer)
      /\ A = {q \in Slots(writers) : q[1] <= i - 1}
  <2>1. i - 1 \in 0 .. Len(writers) /\ i \in Nat
    OBVIOUS
  <2>2. QED
    BY <2>1, SlotsOfPrefix
<1>2. IsFiniteSet(A) /\ Cardinality(A) = NumEntries(SubSeq(writers, 1, i - 1))
  BY <1>1, SlotsAreFinite DEF NumEntries
<1>3. IsFiniteSet(D) /\ IsFiniteSet(B) /\ Cardinality(B) = Cardinality(D)
  <2>1. writers[i] \in Writer
    OBVIOUS
  <2>2. D \subseteq Key
    BY <2>1, WriterFields
  <2>3. IsFiniteSet(D)
    BY <2>2, FS_Subset
  <2> HIDE DEF D
  <2>4. PICK f : f = [j \in D |-> <<i, j>>]
    OBVIOUS
  <2>5. f \in [D -> B] /\ \A j \in D : f[j] = <<i, j>>
    BY <2>4
  <2>6. \A x, y \in D : f[x] = f[y] => x = y
    BY <2>5
  <2>7. \A t \in B : \E x \in D : f[x] = t
    BY <2>5
  <2> HIDE DEF B
  <2>8. QED
    BY <2>3, <2>5, <2>6, <2>7, SameSize
<1>4. U = A \cup B /\ A \cap B = {}
  <2>1. ASSUME NEW q \in Slots(writers)
        PROVE  NotAfter(q, <<i, k>>) <=> q \in A \/ q \in B
    <3>1. q = <<q[1], q[2]>> /\ q[1] \in 1 .. Len(writers) /\ q[2] \in DOMAIN writers[q[1]].batch
      BY SlotsAre
    <3>2. q \in A <=> q[1] < i
      BY <1>1, <3>1
    <3>3. q \in B <=> q[1] = i /\ q[2] <= k
      BY <3>1
    <3>4. QED
      BY <3>2, <3>3 DEF NotAfter
  <2>2. A \subseteq Slots(writers)
    BY <1>1
  <2>3. B \subseteq Slots(writers)
    BY SlotsAre
  <2>4. \A q \in B : q[1] = i
    OBVIOUS
  <2>5. \A q \in A : q[1] <= i - 1
    BY <1>1
  <2>6. U = A \cup B
    BY <2>1, <2>2, <2>3
  <2>7. A \cap B = {}
    <3> HIDE DEF A, B
    <3> QED
      BY <1>1, <2>4, <2>5
  <2>8. QED
    BY <2>6, <2>7
<1>5. Cardinality(A \cup B) = Cardinality(A) + Cardinality(B)
  <2>1. Cardinality(A \cap B) = 0 /\ Cardinality(A) \in Nat /\ Cardinality(B) \in Nat
    BY <1>2, <1>3, <1>4, FS_EmptySet, FS_CardinalityType
  <2> HIDE DEF A, B
  <2>2. Cardinality(A \cup B) = Cardinality(A) + Cardinality(B) - Cardinality(A \cap B)
    BY <1>2, <1>3, FS_Union
  <2>3. QED
    BY <2>1, <2>2
<1>6. Rank(<<i, k>>) = Cardinality(U)
  BY DEF Rank
<1>7. QED
  BY <1>2, <1>3, <1>4, <1>5, <1>6

\* A slot after another one has no smaller rank.
LEMMA RankGrows ==
    ASSUME writers \in Seq(Writer), NEW p \in Slots(writers), NEW q \in Slots(writers),
           NotAfter(q, p)
    PROVE  Rank(q) <= Rank(p)
<1>1. PICK P, Q : /\ P = {r \in Slots(writers) : NotAfter(r, p)}
                  /\ Q = {r \in Slots(writers) : NotAfter(r, q)}
  OBVIOUS
<1>2. Q \subseteq P
  BY <1>1, SlotOrder
<1>3. IsFiniteSet(P)
  BY <1>1, SlotsAreFinite, FS_Subset
<1>4. Cardinality(Q) <= Cardinality(P)
  BY <1>2, <1>3, FS_Subset
<1>5. QED
  BY <1>1, <1>4 DEF Rank

\* The writers of the group that write a key.
In(n, k) == {i \in 1..n : k \in DOMAIN writers[i].batch}

\* The value of a key once the group is in: that of its last writer, if it has
\* one.
GroupValue(n, s, k, V) ==
    /\ In(n, k) = {} =>
          ValueOf(Visible(V, k, s + NumEntries(SubSeq(writers, 1, n)))) =
             ValueOf(Visible(V, k, s))
    /\ \A i \in In(n, k) :
          (\A j \in In(n, k) : j <= i) =>
             ValueOf(Visible(V, k, s + NumEntries(SubSeq(writers, 1, n)))) =
                IF writers[i].batch[k] THEN s + Rank(<<i, k>>) ELSE 0

\* A key that the group writes has what its last writer there gave it; another
\* one has what it had.
LEMMA GroupRows ==
    ASSUME writers \in Seq(Writer), NEW n \in 1 .. Len(writers), NEW s \in Nat, NEW k \in Key,
           NEW V, V \subseteq Entry, GroupEntries(n, s) \subseteq V,
           \A e \in V \ GroupEntries(n, s) : e.seq <= s
    PROVE  GroupValue(n, s, k, V)
<1>1. PICK G, N : G = GroupEntries(n, s) /\ N = NumEntries(SubSeq(writers, 1, n))
  OBVIOUS
<1>2. /\ G \subseteq Entry /\ N \in Nat
      /\ \A e \in G : s < e.seq /\ e.seq <= s + N
  BY <1>1, GroupIsNumbered
<1>3. \A e \in V : e.seq \in Nat
  BY DEF Entry
<1>4. ASSUME NEW p \in Slots(SubSeq(writers, 1, n))
      PROVE  /\ p = <<p[1], p[2]>> /\ p[1] \in 1..n /\ p \in Slots(writers)
             /\ p[2] \in DOMAIN writers[p[1]].batch
  <2>1. p \in Slots(writers) /\ p[1] <= n
    BY SlotsOfPrefix
  <2>2. p = <<p[1], p[2]>> /\ p[1] \in 1 .. Len(writers) /\ p[2] \in DOMAIN writers[p[1]].batch
    BY <2>1, SlotsAre
  <2>3. QED
    BY <2>1, <2>2
<1>5. ASSUME NEW e \in G
      PROVE  \E p \in Slots(SubSeq(writers, 1, n)) :
                e.seq = s + Rank(p) /\ e.key = p[2] /\ e.put = writers[p[1]].batch[p[2]]
  <2>1. G = {[seq |-> s + Rank(p), key |-> p[2], put |-> writers[p[1]].batch[p[2]],
              id |-> writers[p[1]].id] : p \in Slots(SubSeq(writers, 1, n))}
    BY <1>1 DEF GroupEntries, Rank
  <2>2. PICK p \in Slots(SubSeq(writers, 1, n)) :
           e = [seq |-> s + Rank(p), key |-> p[2], put |-> writers[p[1]].batch[p[2]],
                id |-> writers[p[1]].id]
    BY <2>1
  <2>3. QED
    BY <2>2
<1>6. CASE In(n, k) = {}
  <2>1. \A e \in G : e.key # k
    <3> SUFFICES ASSUME NEW e \in G, e.key = k PROVE FALSE
      OBVIOUS
    <3>1. PICK p \in Slots(SubSeq(writers, 1, n)) : e.key = p[2]
      BY <1>5
    <3>2. p[1] \in In(n, k)
      BY <1>4, <3>1 DEF In
    <3>3. QED
      BY <1>6, <3>2
  <2>2. \A e \in V : e.key = k => e.seq <= s /\ e.seq <= s + N
    BY <1>1, <1>2, <1>3, <2>1
  <2>3. Visible(V, k, s + N) = Visible(V, k, s)
    BY <2>2 DEF Visible
  <2>4. QED
    BY <1>1, <1>6, <2>3 DEF GroupValue
<1>7. ASSUME NEW i \in In(n, k), \A j \in In(n, k) : j <= i
      PROVE  ValueOf(Visible(V, k, s + N)) =
                IF writers[i].batch[k] THEN s + Rank(<<i, k>>) ELSE 0
  <2>1. i \in 1..n /\ i \in 1 .. Len(writers) /\ k \in DOMAIN writers[i].batch
    BY DEF In
  <2>2. PICK p : p = <<i, k>>
    OBVIOUS
  <2>3. p \in Slots(writers) /\ p[1] = i /\ p[2] = k /\ p \in Slots(SubSeq(writers, 1, n))
    <3>1. <<i, k>> \in Slots(writers)
      BY <2>1, SlotsAre
    <3>2. p[1] = i /\ p[2] = k /\ i <= n
      BY <2>1, <2>2
    <3>3. QED
      BY <2>2, <3>1, <3>2, SlotsOfPrefix
  <2>4. PICK e : e = [seq |-> s + Rank(p), key |-> p[2], put |-> writers[p[1]].batch[p[2]],
                      id |-> writers[p[1]].id]
    OBVIOUS
  <2>5. e \in G
    BY <1>1, <2>3, <2>4 DEF GroupEntries, Rank
  <2>6. e.seq = s + Rank(p) /\ e.key = k /\ e.put = writers[i].batch[k]
    BY <2>3, <2>4
  <2>7. e \in Visible(V, k, s + N)
    BY <1>1, <1>2, <2>5, <2>6 DEF Visible
  <2>8. ASSUME NEW f \in Visible(V, k, s + N)
        PROVE  f.seq \in Nat /\ f.seq <= e.seq /\ (f.seq = e.seq => f = e)
    <3>1. f \in V /\ f.key = k /\ f.seq \in Nat
      BY <1>3 DEF Visible
    <3>2. CASE f \notin G
      <4>1. f.seq <= s /\ s < e.seq /\ e.seq \in Nat
        BY <1>1, <1>2, <1>3, <2>5, <3>1, <3>2
      <4>2. f.seq <= e.seq /\ f.seq # e.seq
        BY <3>1, <4>1
      <4>3. QED
        BY <3>1, <4>2
    <3>3. CASE f \in G
      <4>1. PICK q \in Slots(SubSeq(writers, 1, n)) : f.seq = s + Rank(q) /\ f.key = q[2]
        BY <1>5, <3>3
      <4>2. q = <<q[1], q[2]>> /\ q[1] \in 1..n /\ q \in Slots(writers) /\ q[2] = k
            /\ q[2] \in DOMAIN writers[q[1]].batch
        BY <1>4, <3>1, <4>1
      <4>3. q[1] \in In(n, k)
        BY <4>2 DEF In
      <4>4. q[1] <= i
        BY <1>7, <4>3
      <4>5. NotAfter(q, p)
        BY <2>1, <2>3, <4>2, <4>4, KeysAreBounded DEF NotAfter
      <4>6. Rank(q) <= Rank(p)
        BY <2>3, <4>2, <4>5, RankGrows
      <4>7. Rank(p) \in Nat /\ Rank(q) \in Nat
        BY <2>3, <4>2, Ranks
      <4>8. f.seq <= e.seq
        BY <2>6, <4>1, <4>6, <4>7
      <4>9. f.seq = e.seq => f = e
        BY <1>1, <2>5, <3>3, GroupIsNumbered
      <4>10. QED
        BY <3>1, <4>8, <4>9
    <3>4. QED
      BY <3>2, <3>3
  <2>9. PICK S : S = Visible(V, k, s + N)
    OBVIOUS
  <2>10. ValueOf(S) = IF e.put THEN e.seq ELSE 0
    BY <2>7, <2>8, <2>9, NewestIs
  <2>11. QED
    BY <2>2, <2>6, <2>9, <2>10
<1>8. QED
  BY <1>1, <1>6, <1>7 DEF GroupValue

\* What the store is, in terms of what was written.
StoreInv ==
    /\ Stamp \in Nat
    /\ Rows = [k \in Key |-> Truth(k, Stamp)]
    /\ up # "open" => Stamp = FileStamp
    /\ up # "down" => Stamp = current.lastSequence

\* Reading the store is reading what was written up to its number.
LEMMA StoreIs ==
    ASSUME EngineInv, StampInv
    PROVE  StoreInv
<1>1. Rows = [k \in Key |-> Truth(k, Stamp)]
  BY RowsAre DEF EngineInv
<1>2. Stamp \in Nat /\ (up # "open" => Stamp = FileStamp) /\ (up = "open" => Stamp = current.lastSequence)
  BY StampIs DEF EngineInv
<1>3. up \in {"recovering", "installed"} => FileStamp = current.lastSequence
  BY TopIsCurrent DEF EngineInv
<1>4. up \in {"down", "recovering", "installed", "open"}
  BY DEF EngineInv, TypeInv
<1>5. QED
  BY <1>1, <1>2, <1>3, <1>4 DEF StoreInv

\* The store counts as the engine does.
LEMMA StoreOperators ==
    /\ \A S : DS!Max(S) = Max(S)
    /\ \A S : DS!Cardinality(S) = Cardinality(S)
<1>1. \A S : DS!Max(S) = Max(S)
  BY DEF DS!Max, Max
<1>2. \A S : DS!Cardinality(S) = Cardinality(S)
  BY DEF DS!Cardinality, Cardinality, DS!IsFiniteSet, IsFiniteSet
<1>3. QED
  BY <1>1, <1>2

\* The batches that wait.
LEMMA PendingIs ==
    ASSUME writers \in Seq(Writer)
    PROVE  /\ Pending \in Seq(Batches) /\ Len(Pending) = Len(writers)
           /\ DOMAIN Pending = 1 .. Len(writers)
           /\ \A i \in 1 .. Len(writers) : Pending[i] = writers[i].batch
<1>1. Len(writers) \in Nat /\ DOMAIN writers = 1 .. Len(writers)
  OBVIOUS
<1>2. \A i \in 1 .. Len(writers) : writers[i].batch \in Batches
  <2>1. \A i \in 1 .. Len(writers) : writers[i] \in Writer
    OBVIOUS
  <2>2. QED
    BY <2>1 DEF Writer
<1>3. Pending = [i \in 1 .. Len(writers) |-> writers[i].batch]
  BY <1>1 DEF Pending
<1>4. QED
  BY <1>1, <1>2, <1>3

\* The store counts the entries of waiting batches as the engine does.
LEMMA StoreCount ==
    ASSUME writers \in Seq(Writer), NEW n \in 0 .. Len(writers)
    PROVE  DS!Count(n) = NumEntries(SubSeq(writers, 1, n))
<1>1. UNION {{i} \X DOMAIN Pending[i] : i \in 1..n} = Slots(SubSeq(writers, 1, n))
  <2>1. \A i \in 1..n : DOMAIN Pending[i] = DOMAIN SubSeq(writers, 1, n)[i].batch
    BY PendingIs
  <2>2. DOMAIN SubSeq(writers, 1, n) = 1..n
    OBVIOUS
  <2>3. QED
    BY <2>1, <2>2 DEF Slots
<1>2. DS!Count(n) = Cardinality(UNION {{i} \X DOMAIN Pending[i] : i \in 1..n})
  BY StoreOperators DEF DS!Count
<1>3. QED
  BY <1>1, <1>2 DEF NumEntries

\* The rows after the group, as the store has them.
LEMMA StoreRows ==
    ASSUME EngineInv, StampInv, group.phase \in {"insert", "finish"}
    PROVE  DS!RowsAfter(group.n) =
              [k \in Key |-> Truth(k, Stamp + NumEntries(SubSeq(writers, 1, group.n)))]
<1>1. PICK n, s, V : n = group.n /\ s = Stamp /\ V = written
  OBVIOUS
<1>2. /\ up = "open" /\ n \in 1 .. Len(writers) /\ writers \in Seq(Writer)
      /\ s = current.lastSequence /\ s \in Nat
      /\ Rows = [k \in Key |-> ValueOf(Visible(V, k, s))]
  <2>1. group.phase # "none"
    OBVIOUS
  <2>2. up = "open" /\ group.n \in DOMAIN writers /\ writers \in Seq(Writer)
    BY <2>1 DEF EngineInv, SeqInv, GroupNumbers, AckInv
  <2>3. StoreInv
    BY StoreIs
  <2>4. QED
    BY <1>1, <2>2, <2>3 DEF StoreInv, Truth
<1>3. /\ V \subseteq Entry /\ GroupEntries(n, s) \subseteq V
      /\ \A e \in V \ GroupEntries(n, s) : e.seq <= s
  <2>1. group.entries = GroupEntries(n, s) /\ group.entries \subseteq written
    BY <1>1, <1>2 DEF StampInv, EngineInv, AckInv, GroupOK
  <2>2. InGroup = GroupEntries(n, s)
    BY <2>1 DEF InGroup
  <2>3. QED
    BY <1>1, <1>2, <2>1, <2>2 DEF EngineInv, SeqInv, WrittenNumbers
<1>4. ASSUME NEW k \in Key
      PROVE  (LET in   == {i \in 1..n : k \in DOMAIN Pending[i]}
                  last == DS!Max(in)
                  b    == Pending[last]
              IN  IF in = {} THEN Rows[k]
                  ELSE IF b[k]
                  THEN Stamp + DS!Count(last - 1) + DS!Cardinality({j \in DOMAIN b : j <= k})
                  ELSE 0) =
             ValueOf(Visible(V, k, s + NumEntries(SubSeq(writers, 1, n))))
  <2>1. {i \in 1..n : k \in DOMAIN Pending[i]} = In(n, k)
    BY <1>2, PendingIs DEF In
  <2>5. GroupValue(n, s, k, V)
    BY <1>2, <1>3, GroupRows
  <2>2. CASE In(n, k) = {}
    BY <1>2, <2>1, <2>2, <2>5 DEF GroupValue
  <2>3. CASE In(n, k) # {}
    <3>1. PICK last : last = Max(In(n, k))
      OBVIOUS
    <3>2. last \in In(n, k) /\ \A j \in In(n, k) : j <= last
      <4>1. In(n, k) \subseteq 0..n /\ n \in Nat
        BY <1>2 DEF In
      <4>2. QED
        BY <2>3, <3>1, <4>1, GreatestOf
    <3>3. last \in 1 .. Len(writers) /\ k \in DOMAIN writers[last].batch
      BY <1>2, <3>2 DEF In
    <3>4. ValueOf(Visible(V, k, s + NumEntries(SubSeq(writers, 1, n)))) =
             IF writers[last].batch[k] THEN s + Rank(<<last, k>>) ELSE 0
      BY <2>5, <3>2 DEF GroupValue
    <3>5. Rank(<<last, k>>) = DS!Count(last - 1)
                                + Cardinality({j \in DOMAIN writers[last].batch : j <= k})
      <4>1. last - 1 \in 0 .. Len(writers)
        BY <3>3
      <4>2. DS!Count(last - 1) = NumEntries(SubSeq(writers, 1, last - 1))
        BY <1>2, <4>1, StoreCount
      <4>3. QED
        BY <1>2, <3>3, <4>2, RankIs
    <3>6. DS!Count(last - 1) \in Nat /\ Cardinality({j \in DOMAIN writers[last].batch : j <= k}) \in Nat
      <4>1. last - 1 \in 0 .. Len(writers)
        BY <3>3
      <4>2. DS!Count(last - 1) = NumEntries(SubSeq(writers, 1, last - 1))
        BY <1>2, <4>1, StoreCount
      <4>3. NumEntries(SubSeq(writers, 1, last - 1)) \in Nat
        BY <1>2, <4>1, SlotsOfPrefix, SlotsAreFinite
      <4>4. writers[last] \in Writer
        BY <1>2, <3>3
      <4>5. IsFiniteSet({j \in DOMAIN writers[last].batch : j <= k})
        <5>1. {j \in DOMAIN writers[last].batch : j <= k} \subseteq Key
          BY <4>4, WriterFields
        <5>2. QED
          BY <5>1, FS_Subset
      <4>6. QED
        BY <4>2, <4>3, <4>5, FS_CardinalityType
    <3>7. Pending[last] = writers[last].batch
      BY <1>2, <3>3, PendingIs
    <3>8. s + Rank(<<last, k>>) = s + DS!Count(last - 1)
                                + Cardinality({j \in DOMAIN writers[last].batch : j <= k})
      BY <1>2, <3>5, <3>6
    <3>9. DS!Max({i \in 1..n : k \in DOMAIN Pending[i]}) = last
      BY <2>1, <3>1, StoreOperators
    <3>10. DS!Cardinality({j \in DOMAIN writers[last].batch : j <= k})
              = Cardinality({j \in DOMAIN writers[last].batch : j <= k})
      BY StoreOperators
    <3>11. QED
      BY <1>1, <2>1, <2>3, <3>4, <3>7, <3>8, <3>9, <3>10
  <2>4. QED
    BY <2>2, <2>3
<1>5. DS!RowsAfter(n) =
         [k \in Key |-> ValueOf(Visible(V, k, s + NumEntries(SubSeq(writers, 1, n))))]
  BY <1>4 DEF DS!RowsAfter
<1>6. QED
  BY <1>1, <1>5 DEF Truth

\* Steps that the store does not see.
LEMMA StoreStays ==
    ASSUME StoreInv, StoreInv', writers' = writers, Stamp' = Stamp,
           \/ written' = written
           \/ \E G : written' = written \cup G /\ \A e \in G : ~(e.seq <= Stamp)
    PROVE  UNCHANGED DS!vars
<1>1. PICK s, V, W : s = Stamp /\ V = written /\ W = written'
  OBVIOUS
<1>2. \A k : Visible(W, k, s) = Visible(V, k, s)
  <2>1. CASE written' = written
    BY <1>1, <2>1
  <2>2. CASE \E G : written' = written \cup G /\ \A e \in G : ~(e.seq <= Stamp)
    BY <1>1, <2>2 DEF Visible
  <2>3. QED
    BY <2>1, <2>2
<1>3. Rows = [k \in Key |-> ValueOf(Visible(V, k, s))]
  BY <1>1 DEF StoreInv, Truth
<1>4. Rows' = [k \in Key |-> ValueOf(Visible(W, k, s))]
  <2>1. Rows' = [k \in Key |-> Truth(k, Stamp)']
    BY DEF StoreInv
  <2>2. \A k : Truth(k, Stamp)' = ValueOf(Visible(W, k, s))
    BY <1>1 DEF Truth, ValueOf, Newest, Visible
  <2>3. QED
    BY <2>1, <2>2
<1>5. Rows' = Rows
  BY <1>2, <1>3, <1>4
<1>6. Pending' = Pending
  BY DEF Pending
<1>7. QED
  BY <1>5, <1>6 DEF DS!vars

\* A batch comes in.
LEMMA StoreSubmits ==
    ASSUME EngineInv, StoreInv, StoreInv', NEW b \in Batches, Write(b)
    PROVE  DS!Submit
<1>1. /\ up = "open" /\ up' = up /\ current' = current /\ written' = written
      /\ writers' = Append(writers, [id |-> issued + 1, batch |-> b])
      /\ writers \in Seq(Writer) /\ issued \in Nat
  BY DEF Write, EngineInv, AckInv
<1>2. Stamp' = Stamp
  BY <1>1 DEF StoreInv
<1>3. Rows' = Rows
  <2>1. PICK s, V : s = Stamp /\ V = written
    OBVIOUS
  <2>2. Rows = [k \in Key |-> ValueOf(Visible(V, k, s))]
    BY <2>1 DEF StoreInv, Truth
  <2>3. Rows' = [k \in Key |-> Truth(k, Stamp)']
    BY DEF StoreInv
  <2>4. \A k : Truth(k, Stamp)' = ValueOf(Visible(V, k, s))
    BY <1>1, <1>2, <2>1 DEF Truth, ValueOf, Newest, Visible
  <2>5. QED
    BY <2>2, <2>3, <2>4
<1>4. Pending' = Append(Pending, b)
  <2>1. PICK w, vs : w = [id |-> issued + 1, batch |-> b] /\ vs = Append(writers, w)
    OBVIOUS
  <2>2. /\ DOMAIN vs = 1 .. Len(writers) + 1 /\ vs[Len(writers) + 1].batch = b
        /\ \A i \in 1 .. Len(writers) : vs[i] = writers[i]
    <3>1. w.batch = b
      BY <2>1
    <3>2. QED
      BY <1>1, <2>1, <3>1
  <2>3. Pending' = [i \in DOMAIN vs |-> vs[i].batch]
    BY <1>1, <2>1 DEF Pending
  <2>4. PICK P, m : P = Pending /\ m = Len(writers)
    OBVIOUS
  <2>5. /\ P \in Seq(Batches) /\ Len(P) = m /\ m \in Nat
        /\ \A i \in 1 .. m : P[i] = writers[i].batch
    BY <1>1, <2>4, PendingIs
  <2>6. Append(P, b) = [i \in 1 .. m + 1 |-> IF i = m + 1 THEN b ELSE P[i]]
    <3>1. PICK Q : Q = Append(P, b)
      OBVIOUS
    <3>2. /\ Q \in Seq(Batches) /\ Len(Q) = m + 1 /\ Q[m + 1] = b
          /\ \A i \in 1 .. m : Q[i] = P[i]
      BY <2>5, <3>1
    <3>3. Q = [i \in 1 .. m + 1 |-> Q[i]]
      BY <2>5, <3>2
    <3>4. \A i \in 1 .. m + 1 : Q[i] = IF i = m + 1 THEN b ELSE P[i]
      BY <2>5, <3>2
    <3>5. QED
      BY <3>1, <3>3, <3>4
  <2>7. \A i \in 1 .. m + 1 : vs[i].batch = IF i = m + 1 THEN b ELSE P[i]
    <3> SUFFICES ASSUME NEW i \in 1 .. m + 1
                 PROVE  vs[i].batch = IF i = m + 1 THEN b ELSE P[i]
      OBVIOUS
    <3>1. CASE i = m + 1
      BY <2>2, <2>4, <3>1
    <3>2. CASE i # m + 1
      <4>1. i \in 1 .. m
        BY <2>5, <3>2
      <4>2. QED
        BY <2>2, <2>4, <2>5, <3>2, <4>1
    <3>3. QED
      BY <3>1, <3>2
  <2>8. Pending' = [i \in 1 .. m + 1 |-> vs[i].batch]
    BY <2>2, <2>3, <2>4
  <2>9. QED
    BY <2>4, <2>6, <2>7, <2>8
<1>5. QED
  BY <1>2, <1>3, <1>4 DEF DS!Submit

\* Rows as of a later number.
LEMMA StoreLater ==
    ASSUME StoreInv', written' = written, NEW t, Stamp' = t
    PROVE  Rows' = [k \in Key |-> Truth(k, t)]
<1>1. Rows' = [k \in Key |-> Truth(k, Stamp)']
  BY DEF StoreInv
<1>2. \A k : Truth(k, Stamp)' = Truth(k, t)
  BY DEF Truth, ValueOf, Newest, Visible
<1>3. QED
  BY <1>1, <1>2

\* The first writer answers for its group.
LEMMA StoreAnswers ==
    ASSUME EngineInv, StampInv, StoreInv, StoreInv', FinishWrite
    PROVE  DS!Answer
<1>1. PICK n : n = group.n
  OBVIOUS
<1>2. /\ group.phase = "finish" /\ up = "open" /\ up' = up /\ written' = written
      /\ current'.lastSequence = current.lastSequence + Cardinality(group.entries)
      /\ writers' = SubSeq(writers, n + 1, Len(writers))
      /\ writers \in Seq(Writer) /\ n \in 1 .. Len(writers)
      /\ Cardinality(group.entries) = NumEntries(SubSeq(writers, 1, n))
  BY <1>1 DEF FinishWrite, EngineInv, AckInv, FileInv, VersionOK, SeqInv, GroupNumbers
<1>3. Stamp' = Stamp + NumEntries(SubSeq(writers, 1, n))
  BY <1>2 DEF StoreInv
<1>4. DS!Count(n) = NumEntries(SubSeq(writers, 1, n))
  BY <1>2, StoreCount
<1>5. Rows' = DS!RowsAfter(n)
  <2>1. PICK t : t = Stamp'
    OBVIOUS
  <2>2. Rows' = [k \in Key |-> Truth(k, t)]
    BY <1>2, <2>1, StoreLater
  <2>3. DS!RowsAfter(n) = [k \in Key |-> Truth(k, t)]
    BY <1>1, <1>2, <1>3, <2>1, StoreRows
  <2>4. QED
    BY <2>2, <2>3
<1>6. Pending' = SubSeq(Pending, n + 1, Len(Pending))
  <2>1. PICK ws : ws = writers
    OBVIOUS
  <2>2. PICK vs : vs = SubSeq(ws, n + 1, Len(ws))
    OBVIOUS
  <2>3. /\ ws \in Seq(Writer) /\ Len(ws) \in Nat /\ n \in 1 .. Len(ws)
        /\ DOMAIN vs = 1 .. Len(ws) - n
        /\ \A i \in 1 .. Len(ws) - n : vs[i] = ws[i + n]
    BY <1>2, <2>1, <2>2
  <2>4. Pending' = [i \in 1 .. Len(ws) - n |-> vs[i].batch]
    BY <1>2, <2>1, <2>2, <2>3 DEF Pending
  <2>5. /\ Pending \in Seq(Batches) /\ Len(Pending) = Len(ws)
        /\ \A i \in 1 .. Len(ws) : Pending[i] = ws[i].batch
    BY <1>2, <2>1, PendingIs
  <2>6. SubSeq(Pending, n + 1, Len(Pending)) = [i \in 1 .. Len(ws) - n |-> Pending[i + n]]
    BY <2>3, <2>5
  <2>7. \A i \in 1 .. Len(ws) - n : vs[i].batch = Pending[i + n]
    <3> SUFFICES ASSUME NEW i \in 1 .. Len(ws) - n PROVE vs[i].batch = Pending[i + n]
      OBVIOUS
    <3>1. i + n \in 1 .. Len(ws)
      BY <2>3
    <3>2. Pending[i + n] = ws[i + n].batch
      BY <2>5, <3>1
    <3>3. QED
      BY <2>3, <3>2
  <2>8. QED
    BY <2>4, <2>6, <2>7
<1>7. n \in DOMAIN Pending
  BY <1>2, PendingIs
<1>8. QED
  BY <1>3, <1>4, <1>5, <1>6, <1>7 DEF DS!Answer, DS!Apply

\* The process stops.
LEMMA StoreStops ==
    ASSUME EngineInv, StampInv, StoreInv, StoreInv', Crash
    PROVE  DS!Stop
<1>1. /\ UNCHANGED <<logs, manifest, written>> /\ up' = "down" /\ writers' = <<>>
      /\ writers \in Seq(Writer)
  BY DEF Crash, Stop, EngineInv, AckInv
<1>2. FileStamp' = FileStamp
  BY <1>1 DEF FileStamp, LoggedEntries, Replayed, LogEntries
<1>3. Stamp' = FileStamp
  BY <1>1, <1>2 DEF StoreInv
<1>4. Pending' = <<>>
  BY <1>1 DEF Pending
<1>5. Len(Pending) = Len(writers) /\ Len(writers) \in Nat
  BY <1>1, PendingIs
<1>6. CASE group.phase \in {"insert", "finish"}
  <2>1. PICK n, s, N : n = group.n /\ s = Stamp /\ N = NumEntries(SubSeq(writers, 1, group.n))
    OBVIOUS
  <2>2. /\ up = "open" /\ n \in 1 .. Len(writers) /\ s = current.lastSequence /\ s \in Nat
        /\ group.entries \subseteq written /\ group.entries = GroupEntries(n, s)
    BY <1>6, <2>1 DEF EngineInv, SeqInv, GroupNumbers, AckInv, GroupOK, StampInv, StoreInv
  <2>3. N \in Nat
    BY <1>1, <2>1, <2>2, GroupIsNumbered
  <2>4. FileStamp = s + N
    <3>1. PICK t : t = s + N
      OBVIOUS
    <3>2. t \in Nat /\ s <= t
      <4>1. s \in Nat /\ N \in Nat
        BY <2>2, <2>3
      <4>2. s + N \in Nat /\ s <= s + N
        BY <4>1
      <4>3. QED
        BY <3>1, <4>2
    <3>3. Reached(t)
      <4>1. \E e \in GroupEntries(n, s) : e.seq = t
        BY <1>1, <2>1, <2>2, <3>1, LastSlot
      <4>2. QED
        BY <2>2, <4>1 DEF Reached
    <3>4. manifest.lastSequence <= t
      BY <2>2, <3>2 DEF StampInv, EngineInv, SeqInv, ManifestNumbers
    <3>5. \A e \in written : e.seq <= t
      <4>1. \A e \in GroupEntries(n, s) : e.seq <= t
        BY <1>1, <2>1, <2>2, <3>1, GroupIsNumbered
      <4>2. \A e \in written \ group.entries : e.seq \in Nat /\ e.seq <= s
        BY <1>6, <2>2 DEF EngineInv, SeqInv, WrittenNumbers, InGroup, Entry
      <4>3. QED
        BY <2>2, <3>2, <4>1, <4>2
    <3>6. SeqInv
      BY DEF EngineInv
    <3>7. QED
      BY <3>1, <3>2, <3>3, <3>4, <3>5, <3>6, TopIsStamp
  <2>5. Stamp' = Stamp + DS!Count(n)
    <3>1. DS!Count(n) = N
      BY <1>1, <2>1, <2>2, StoreCount
    <3>2. QED
      BY <1>3, <2>1, <2>4, <3>1
  <2>6. Rows' = DS!RowsAfter(n)
    <3>1. PICK t : t = s + N
      OBVIOUS
    <3>2. Rows' = [k \in Key |-> Truth(k, t)]
      BY <1>1, <1>3, <2>4, <3>1, StoreLater
    <3>3. DS!RowsAfter(n) = [k \in Key |-> Truth(k, t)]
      BY <1>6, <2>1, <3>1, StoreRows
    <3>4. QED
      BY <3>2, <3>3
  <2>7. n \in 0 .. Len(Pending)
    BY <1>5, <2>2
  <2>8. QED
    BY <1>4, <2>5, <2>6, <2>7 DEF DS!Stop, DS!Apply
<1>7. CASE group.phase \notin {"insert", "finish"}
  <2>1. FileStamp = Stamp
    <3>1. CASE up = "open"
      <4>1. PICK s : s = current.lastSequence
        OBVIOUS
      <4>2. SeqInv /\ s \in Nat /\ Reached(s) /\ manifest.lastSequence <= s /\ Stamp = s
        BY <3>1, <4>1 DEF EngineInv, SeqInv, WrittenNumbers, StampInv, StoreInv
      <4>3. InGroup = {}
        BY <1>7 DEF InGroup
      <4>4. \A e \in written : e.seq <= s
        BY <3>1, <4>1, <4>3 DEF EngineInv, SeqInv, WrittenNumbers
      <4>5. QED
        BY <4>2, <4>4, TopIsStamp
    <3>2. CASE up # "open"
      BY <3>2 DEF StoreInv
    <3>3. QED
      BY <3>1, <3>2
  <2>2. DS!Count(0) = 0
    <3>1. UNION {{i} \X DOMAIN Pending[i] : i \in 1..0} = {}
      OBVIOUS
    <3>2. QED
      BY <3>1, StoreOperators, FS_EmptySet DEF DS!Count
  <2>3. DS!RowsAfter(0) = Rows
    <3>1. Rows = [k \in Key |-> Rows[k]]
      BY DEF Rows
    <3>2. \A k : {i \in 1..0 : k \in DOMAIN Pending[i]} = {}
      OBVIOUS
    <3>3. QED
      BY <3>1, <3>2 DEF DS!RowsAfter
  <2>4. Stamp' = Stamp + DS!Count(0)
    BY <1>3, <2>1, <2>2 DEF StoreInv
  <2>5. Rows' = Rows
    <3>1. PICK t : t = Stamp
      OBVIOUS
    <3>2. Rows' = [k \in Key |-> Truth(k, t)]
      BY <1>1, <1>3, <2>1, <3>1, StoreLater
    <3>3. Rows = [k \in Key |-> Truth(k, t)]
      BY <3>1 DEF StoreInv
    <3>4. QED
      BY <3>2, <3>3
  <2>6. 0 \in 0 .. Len(Pending)
    BY <1>5
  <2>7. QED
    BY <1>4, <2>3, <2>4, <2>5, <2>6 DEF DS!Stop, DS!Apply
<1>8. QED
  BY <1>6, <1>7

\* Every step of the engine is one of the store, or none.
LEMMA StoreNext ==
    ASSUME ~PowerFails, EngineInv, StampInv, StoreInv, StoreInv', [Next]_vars
    PROVE  [DS!Next]_(DS!vars)
<1>1. CASE \E b \in Batches : Write(b)
  BY <1>1, StoreSubmits DEF DS!Next
<1>2. CASE FinishWrite
  BY <1>2, StoreAnswers DEF DS!Next
<1>3. CASE Crash
  BY <1>3, StoreStops DEF DS!Next
<1>4. CASE \/ BackgroundStep \/ StartGet \/ FinishGet \/ UNCHANGED vars
           \/ WaitForRoom \/ SwitchMemTable \/ AddRecord \/ InsertInto
           \/ \E n \in DOMAIN writers : BuildBatchGroup(n)
  <2>1. writers' = writers /\ up' = up
    BY <1>4 DEF BackgroundStep, StartFlush, InstallCompactionResults, WriteManifest, Install,
       WriteLevel0Table, TrivialMove, StartMerge, MergeOutput, StartGet, FinishGet, vars, queue,
       WaitForRoom, SwitchMemTable, BuildBatchGroup, AddRecord, InsertInto
  <2>2. current'.lastSequence = current.lastSequence
    BY <1>4 DEF BackgroundStep, StartFlush, InstallCompactionResults, WriteManifest, Install,
       WriteLevel0Table, TrivialMove, StartMerge, MergeOutput, StartGet, FinishGet, vars,
       WaitForRoom, SwitchMemTable, BuildBatchGroup, AddRecord, InsertInto, EngineInv, FileInv,
       VersionOK
  <2>3. CASE AddRecord
    <3>1. group.phase # "none" /\ written' = written \cup group.entries
      BY <2>3 DEF AddRecord
    <3>2. up = "open" /\ current.lastSequence \in Nat
      BY <3>1 DEF EngineInv, SeqInv, GroupNumbers, WrittenNumbers
    <3>3. Stamp = current.lastSequence /\ Stamp' = Stamp
      BY <2>1, <2>2, <3>2 DEF StoreInv
    <3>4. \A e \in group.entries : ~(e.seq <= Stamp)
      <4>1. \A e \in group.entries : current.lastSequence < e.seq /\ e.seq \in Nat
        BY DEF EngineInv, SeqInv, GroupNumbers, Entry
      <4>2. QED
        BY <3>2, <3>3, <4>1
    <3>5. UNCHANGED DS!vars
      BY <2>1, <3>1, <3>3, <3>4, StoreStays
    <3>6. QED
      BY <3>5
  <2>4. CASE ~AddRecord
    <3>1. written' = written
      BY <1>4, <2>4 DEF BackgroundStep, StartFlush, InstallCompactionResults, WriteManifest,
         Install, WriteLevel0Table, TrivialMove, StartMerge, MergeOutput, StartGet, FinishGet,
         vars, WaitForRoom, SwitchMemTable, BuildBatchGroup, InsertInto, history
    <3>2. Stamp' = Stamp
      <4>1. CASE up # "down"
        BY <2>1, <2>2, <4>1 DEF StoreInv
      <4>2. CASE up = "down"
        <5>1. group.phase = "none" /\ bg.pc = "idle"
          BY <4>2 DEF EngineInv, SeqInv, WrittenNumbers, NoGroup, FileInv, ThreadOK, Idle
        <5>2. UNCHANGED vars
          BY <1>4, <4>2, <5>1 DEF BackgroundStep, StartFlush, InstallCompactionResults,
             WriteManifest, Install, WriteLevel0Table, MayCompact, MergeOutput, StartGet,
             FinishGet, WaitForRoom, SwitchMemTable, BuildBatchGroup, AddRecord, InsertInto,
             AtFront
        <5>3. QED
          BY <5>2 DEF vars, disk, Stamp, Replayed, LogEntries
      <4>3. QED
        BY <4>1, <4>2
    <3>3. UNCHANGED DS!vars
      BY <2>1, <3>1, <3>2, StoreStays
    <3>4. QED
      BY <3>3
  <2>5. QED
    BY <2>3, <2>4
<1>5. CASE Recover \/ SetCurrentFile \/ Opened
  <2>1. /\ writers' = writers /\ written' = written /\ up' # "down"
        /\ Recover => up = "down"
        /\ SetCurrentFile \/ Opened => up # "down" /\ current' = current
    BY <1>5 DEF Recover, SetCurrentFile, Opened, queue, history
  <2>2. Stamp' = current'.lastSequence
    BY <2>1 DEF StoreInv
  <2>3. Stamp' = Stamp
    <3>1. CASE Recover
      <4>1. current'.lastSequence = FileStamp
        BY <3>1, OpenStamp DEF EngineInv
      <4>2. Stamp = FileStamp
        BY <2>1, <3>1 DEF StoreInv
      <4>3. QED
        BY <2>2, <4>1, <4>2
    <3>2. CASE SetCurrentFile \/ Opened
      BY <2>1, <2>2, <3>2 DEF StoreInv
    <3>3. QED
      BY <1>5, <3>1, <3>2
  <2>4. UNCHANGED DS!vars
    BY <2>1, <2>3, StoreStays
  <2>5. QED
    BY <2>4
<1>6. QED
  BY <1>1, <1>2, <1>3, <1>4, <1>5 DEF Next, WriterStep, PowerLoss

\* A new database is an empty store.
LEMMA InitStore == Init /\ StoreInv => DS!Init
<1> SUFFICES ASSUME Init, StoreInv PROVE DS!Init
  OBVIOUS
<1>1. written = {} /\ writers = <<>> /\ up = "open" /\ current.lastSequence = 0
  BY DEF Init, NoVersion
<1>2. Stamp = 0
  BY <1>1 DEF StoreInv
<1>3. \A k : Truth(k, Stamp) = 0
  BY <1>1 DEF Truth, Visible, ValueOf
<1>4. Rows = [k \in Key |-> 0]
  BY <1>3 DEF StoreInv
<1>5. Pending = <<>>
  BY <1>1 DEF Pending
<1>6. QED
  BY <1>2, <1>4, <1>5 DEF DS!Init

\* DBImpl::Write, BuildBatchGroup and DB::Open: unless the phone loses power, the
\* engine is a store that applies the batches it was given whole and in their
\* order, that has applied what it answered for, and that a stop of the process
\* leaves with all it had answered for and whole batches of what was waiting,
\* whatever is flushed, merged, deleted and replayed.
THEOREM StoreIsDurable ==
    ASSUME ~PowerFails
    PROVE  Spec => ImplementsStore
<1>1. Spec => [](EngineInv /\ StampInv)
  <2>1. EngineInv /\ StampInv /\ [Next]_vars => StampInv'
    BY StampNext DEF EngineInv
  <2>2. QED
    BY <2>1, EngineAlways, InitStamp, PTL DEF Spec
<1>2. EngineInv /\ StampInv => StoreInv
  BY StoreIs
<1>3. EngineInv /\ StampInv /\ StoreInv /\ StoreInv' /\ [Next]_vars => [DS!Next]_(DS!vars)
  BY StoreNext
<1>4. QED
  BY <1>1, <1>2, <1>3, InitStore, PTL DEF Spec, ImplementsStore, DS!Spec
=============================================================================
