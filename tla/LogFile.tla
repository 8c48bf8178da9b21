------------------------------ MODULE LogFile ------------------------------
(***************************************************************************)
(* The log format of leveldb (log_writer.cc, log_reader.cc): records cut   *)
(* into fragments that never cross a block, appended to a file; the        *)
(* process or the phone stops at any byte; the file is read back.  Both    *)
(* the write-ahead log and the MANIFEST are such files.                    *)
(*                                                                         *)
(* The file is a sequence of bytes.  A byte of a header stands for what    *)
(* the header says, its checksum included; a byte of payload for the       *)
(* record and the position it comes from; Zero for filler.  The reader     *)
(* starts at offset 0, as both of its users ask.                           *)
(***************************************************************************)
EXTENDS Integers, Sequences, SequencesExt, FiniteSets, FiniteSetsExt

CONSTANTS
    kBlockSize,  \* bytes in a block
    kHeaderSize, \* bytes in the header of a fragment
    MaxLength,   \* bound: bytes in a record
    MaxRecords   \* bound: records in a file

\* What the constants have to satisfy.
LogAssumption ==
    /\ kHeaderSize \in Nat \ {0, 1}
    /\ kBlockSize \in Nat /\ kBlockSize > kHeaderSize
    /\ MaxLength \in Nat /\ MaxRecords \in Nat

VARIABLES
    phase,    \* "write", "read" or "done"
    file,     \* the bytes
    lengths,  \* the records handed to AddRecord, by their lengths
    ends,     \* history: where in the file each complete record ends
    left,     \* AddRecord: bytes of the last record still to be emitted
    begin,    \* AddRecord: is the next fragment the first one?
    offset,   \* block_offset_
    damage,   \* history: the bytes cut off or lost
    logReader    \* the state of the Reader

logWriter == <<file, lengths, ends, left, begin, offset>>
logVars   == <<phase, logWriter, damage, logReader>>

Zero == <<"zero">>
Payload(r, i) == <<"payload", r, i>>
Header(type, r, from, n, i) == <<"header", type, r, from, n, i>>

Filler(n) == [i \in 1..n |-> Zero]
Bytes(r, from, n) == [i \in 1..n |-> Payload(r, from + i)]

\* A fragment of n bytes of record r, after the first `from' bytes.
Fragment(type, r, from, n) ==
    [i \in 1..kHeaderSize |-> Header(type, r, from, n, i)] \o Bytes(r, from, n)

-----------------------------------------------------------------------------
\* The writer.

NewReader ==
    [buffer |-> <<>>, at |-> 0, eof |-> FALSE, scratch |-> <<>>,
     inFragmented |-> FALSE, records |-> <<>>, dropped |-> FALSE]

LogInit ==
    /\ phase = "write"
    /\ file = <<>> /\ lengths = <<>> /\ ends = <<>>
    /\ left = 0 /\ begin = FALSE /\ offset = 0
    /\ damage = {}
    /\ logReader = NewReader

AddRecord(n) ==
    /\ phase = "write" /\ ~begin /\ left = 0
    /\ Len(lengths) < MaxRecords
    /\ lengths' = Append(lengths, n)
    /\ left' = n /\ begin' = TRUE
    /\ UNCHANGED <<phase, file, ends, offset, damage, logReader>>

\* The end of the block that is too short for a header.
Trailer == IF kBlockSize - offset < kHeaderSize THEN kBlockSize - offset ELSE 0

FragmentType(end) ==
    IF begin THEN (IF end THEN "full" ELSE "first")
    ELSE (IF end THEN "last" ELSE "middle")

\* One turn of the loop of AddRecord, with EmitPhysicalRecord.
EmitPhysicalRecord ==
    LET r       == Len(lengths)
        start   == IF Trailer > 0 \/ offset = kBlockSize THEN 0 ELSE offset
        avail   == kBlockSize - start - kHeaderSize
        n       == IF left < avail THEN left ELSE avail
        written == file \o Filler(Trailer)
                     \o Fragment(FragmentType(left = n), r, lengths[r] - left, n)
    IN  /\ phase = "write" /\ (begin \/ left > 0)
        /\ file' = written
        /\ offset' = start + kHeaderSize + n
        /\ left' = left - n
        /\ begin' = FALSE
        /\ ends' = IF left = n THEN Append(ends, Len(written)) ELSE ends
        /\ UNCHANGED <<phase, lengths, damage, logReader>>

-----------------------------------------------------------------------------
\* What happens to the file.  A process that stops, even inside an append,
\* leaves a prefix.  A phone that loses power may also lose pages that were
\* not written back before later ones; they read as zeros.

Cut(c) ==
    /\ phase = "write"
    /\ file' = SubSeq(file, 1, c)
    /\ damage' = c + 1 .. Len(file)
    /\ phase' = "read"
    /\ UNCHANGED <<lengths, ends, left, begin, offset, logReader>>

Hole(i, j) ==
    /\ phase = "write"
    /\ file' = [k \in DOMAIN file |-> IF k \in i..j THEN Zero ELSE file[k]]
    /\ damage' = i..j
    /\ phase' = "read"
    /\ UNCHANGED <<lengths, ends, left, begin, offset, logReader>>

-----------------------------------------------------------------------------
\* The reader.

\* The rest of the block is a trailer, and the last read was a full one.
ReadBlock ==
    LET to    == logReader.at + kBlockSize
        block == SubSeq(file, logReader.at + 1, IF to < Len(file) THEN to ELSE Len(file))
    IN  /\ phase = "read" /\ Len(logReader.buffer) < kHeaderSize /\ ~logReader.eof
        /\ logReader' = [logReader EXCEPT !.buffer = block, !.at = @ + Len(block),
                                    !.eof = Len(block) < kBlockSize]
        /\ UNCHANGED <<phase, logWriter, damage>>

\* What the buffer begins with: the bytes of a header are read for what they
\* say, and the checksum tells whether header and payload belong together.
HeaderAt(buf) ==
    IF Head(buf) = Zero
    THEN [type |-> "zero", n |-> 0]
    ELSE [type |-> Head(buf)[2], n |-> Head(buf)[5]]

ZeroHeader(buf) == \A i \in 1..kHeaderSize : buf[i] = Zero

ChecksumOK(buf) ==
    /\ Head(buf) # Zero
    /\ SubSeq(buf, 1, kHeaderSize + HeaderAt(buf).n)
         = Fragment(Head(buf)[2], Head(buf)[3], Head(buf)[4], Head(buf)[5])

\* Fault: what was gathered of a record stays when its next part is bad.
BadRecordKept(r) == [r EXCEPT !.buffer = <<>>]

\* kBadRecord: the rest of the block is skipped, with the record in progress.
BadRecord(r) ==
    [r EXCEPT !.buffer = <<>>, !.inFragmented = FALSE, !.scratch = <<>>,
              !.dropped = @ \/ r.inFragmented]

\* The switch of ReadRecord on the type of a fragment.
TakeFragment(r, type, bytes) ==
    CASE type = "full" ->
            [r EXCEPT !.records = Append(@, bytes), !.scratch = <<>>,
                      !.inFragmented = FALSE, !.dropped = @ \/ r.scratch # <<>>]
      [] type = "first" ->
            [r EXCEPT !.scratch = bytes, !.inFragmented = TRUE,
                      !.dropped = @ \/ r.scratch # <<>>]
      [] type = "middle" /\ r.inFragmented ->
            [r EXCEPT !.scratch = @ \o bytes]
      [] type = "last" /\ r.inFragmented ->
            [r EXCEPT !.records = Append(@, r.scratch \o bytes),
                      !.scratch = <<>>, !.inFragmented = FALSE]
      [] OTHER -> [r EXCEPT !.dropped = TRUE]

\* The buffer ends inside a header or inside a payload.
Truncated(buf) ==
    Len(buf) >= kHeaderSize => kHeaderSize + HeaderAt(buf).n > Len(buf)

ReadPhysicalRecord ==
    LET buf  == logReader.buffer
        n    == HeaderAt(buf).n
        rest == [logReader EXCEPT !.buffer = SubSeq(buf, kHeaderSize + n + 1, Len(buf))]
    IN  /\ phase = "read" /\ Len(buf) >= kHeaderSize
        /\ ~(logReader.eof /\ Truncated(buf))
        /\ logReader' =
             IF ZeroHeader(buf) THEN BadRecord(logReader)
             ELSE IF Truncated(buf) \/ ~ChecksumOK(buf)
             THEN [BadRecord(logReader) EXCEPT !.dropped = TRUE]
             ELSE TakeFragment(rest, HeaderAt(buf).type,
                               SubSeq(buf, kHeaderSize + 1, kHeaderSize + n))
        /\ UNCHANGED <<phase, logWriter, damage>>

\* Fault: what was gathered of a record that has no end is given back.
ReadEndGivesRest ==
    /\ phase = "read" /\ logReader.eof /\ Truncated(logReader.buffer)
    /\ phase' = "done"
    /\ logReader' = [logReader EXCEPT !.buffer = <<>>, !.scratch = <<>>,
                                !.inFragmented = FALSE,
                                !.records = IF logReader.inFragmented
                                            THEN Append(@, logReader.scratch) ELSE @]
    /\ UNCHANGED <<logWriter, damage>>

\* kEof: a record in progress is forgotten and nothing is reported.
ReadEnd ==
    /\ phase = "read" /\ logReader.eof /\ Truncated(logReader.buffer)
    /\ phase' = "done"
    /\ logReader' = [logReader EXCEPT !.buffer = <<>>, !.scratch = <<>>,
                                !.inFragmented = FALSE]
    /\ UNCHANGED <<logWriter, damage>>

LogNext ==
    \/ \E n \in 0..MaxLength : AddRecord(n)
    \/ EmitPhysicalRecord
    \/ \E c \in 0..Len(file) : Cut(c)
    \/ \E i \in DOMAIN file : \E j \in i..Len(file) : Hole(i, j)
    \/ ReadBlock \/ ReadPhysicalRecord \/ ReadEnd

LogSpec == LogInit /\ [][LogNext]_logVars

-----------------------------------------------------------------------------
\* The properties.

\* The variables have their types, and the writer's assertions hold: no
\* fragment crosses a block, and block_offset_ is where the file ends.
LogTypeOK ==
    /\ phase \in {"write", "read", "done"}
    /\ lengths \in Seq(0..MaxLength)
    /\ left \in 0..MaxLength /\ begin \in BOOLEAN
    /\ offset \in 0..kBlockSize
    /\ phase = "write" => (offset - Len(file)) % kBlockSize = 0
    /\ logReader.eof \in BOOLEAN /\ logReader.inFragmented \in BOOLEAN

\* The r-th record as it was handed to AddRecord.
Original(r) == Bytes(r, 0, lengths[r])

IsCut == damage = {} \/ Len(file) < Max(damage \cup {0})

\* A log that was cut short anywhere gives back exactly the records that were
\* complete, and none is reported as corrupt: a crash in the middle of an
\* append loses that append and nothing else.
CutGivesPrefix ==
    phase = "done" /\ IsCut =>
        /\ logReader.records =
             [r \in 1..Cardinality({e \in DOMAIN ends : ends[e] <= Len(file)})
                 |-> Original(r)]
        /\ ~logReader.dropped

\* Whatever is missing from the file, what comes back are records as they
\* were written, in their order: no record is made of the parts of two.
OnlyWholeRecords ==
    \E f \in [DOMAIN logReader.records -> DOMAIN lengths] :
        /\ \A i \in DOMAIN f : logReader.records[i] = Original(f[i])
        /\ \A i, j \in DOMAIN f : i < j => f[i] <= f[j]

\* A record none of whose blocks is damaged comes back.
DamageIsLocal ==
    phase = "done" =>
        \A r \in DOMAIN ends :
            LET from == IF r = 1 THEN 0 ELSE ends[r - 1]
                hit  == {(b - 1) \div kBlockSize : b \in damage}
                in   == {(b - 1) \div kBlockSize : b \in from + 1 .. ends[r]}
            IN  hit \cap in = {} =>
                    \E i \in DOMAIN logReader.records : logReader.records[i] = Original(r)

\* log_writer.cc, log_reader.cc: fragments stay inside blocks; whatever is
\* missing, only whole records come back, in their order, and all those none
\* of whose blocks is damaged.
DamageIsContained == LogTypeOK /\ OnlyWholeRecords /\ DamageIsLocal
=============================================================================
