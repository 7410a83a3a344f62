---------------------------- MODULE ReplayWriter ----------------------------
(***************************************************************************)
(* The replay file and the metadata file of a match (replay.rs).  Records  *)
(* go through a compressor that holds some bytes back; the file is closed  *)
(* near its size cap, at the end of the match, or when the writer is       *)
(* dropped.  Any write may fail.  Records are only counted: a stream holds *)
(* the first of them, the metadata those its recorder was shown.           *)
(***************************************************************************)
EXTENDS Integers, FiniteSetsExt

CONSTANTS
    Options,      \* [max, trailer, meta]: the cap or Nil, and what is asked for
    Nil,
    CloseMargin,  \* CLOSE_MARGIN
    Reserve,      \* TRAILER_RESERVE: the longest trailer
    Sizes,        \* bytes a record takes once compressed
    Block,        \* most bytes the compressor and the buffer hold back
    EndBytes,     \* bytes the end of the stream takes
    MaxRecords    \* bound: records of a match, the header included

ReplayWriterAssumption ==
    /\ {CloseMargin, Reserve, Block, EndBytes, MaxRecords} \subseteq Nat
    /\ MaxRecords >= 1 /\ Nil \notin BOOLEAN
    /\ Sizes \subseteq Nat \ {0} /\ \E b \in Sizes : \A c \in Sizes : b >= c
    /\ \A o \in Options : o.max = Nil \/ o.max \in Nat

VARIABLES
    opts,      \* what the match was asked to leave
    records,   \* records of the match so far
    out,       \* "open", "failed" by a write, "closed" whole, "broken" at its end
    written,   \* ReplayWriter::written: bytes that reached the file
    block,     \* bytes the compressor holds back
    stored,    \* records written to the stream
    truncated, \* ReplayWriter::truncated
    meta,      \* records the recorder was shown, Nil once taken
    left,      \* what the metadata file holds: Nil until written
    answer     \* what finish returned, or Nil

replayVars == <<opts, records, out, written, block, stored, truncated, meta, left, answer>>

ReplayTypeOK ==
    /\ opts \in Options /\ records \in 1..MaxRecords
    /\ out \in {"open", "failed", "closed", "broken"}
    /\ written \in Nat /\ block \in 0..Block
    /\ stored \in 0..records /\ truncated \in BOOLEAN
    /\ meta \in 0..records \cup {Nil} /\ left \in 0..records \cup {Nil}
    /\ answer \in BOOLEAN \cup {Nil}

\* The cap of the stream: the trailer is written after it, inside the file's.
Limit(o) == IF o.trailer THEN Max({o.max - Reserve, o.max \div 2}) ELSE o.max

\* after_write: what is left of it for the stream's end.
Margin(o) == Min({CloseMargin, Limit(o) \div 4})

\* after_write: no room is left but for the stream's end.
Near(bytes) == opts.max # Nil /\ bytes + Margin(opts) >= Limit(opts)

\* What CLOSE_MARGIN and TRAILER_RESERVE are set aside for fits them, whatever the
\* cap: a record, what is held back and the end of the stream fit the margin, and a
\* cap with a trailer is at least twice its reserve.  No cap is under a byte.
RoomToClose ==
    \A o \in Options : o.max # Nil =>
        /\ Limit(o) >= 1
        /\ \A b \in Sizes : Block + b + EndBytes <= Margin(o) + 1
        /\ o.trailer => o.max >= 2 * Reserve

\* ReplayWriter::open: the header is the first record, and the recorder, which
\* is not shown it, starts after it.
ReplayInit ==
    /\ opts \in Options
    /\ records = 1 /\ out = "open" /\ stored = 1
    /\ written = 0 /\ block = Block
    /\ truncated = FALSE
    /\ meta = 0 /\ left = Nil /\ answer = Nil

-----------------------------------------------------------------------------
\* ReplayWriter::end of a stream still open, with bytes in the file, h held and
\* the recorder at m: the compressor's last bytes, the trailer if the metadata
\* goes with the replay, and the flush; each may fail, some bytes on disk.  The
\* trailer may be as short as nothing.
CloseStream(bytes, h, m) ==
    /\ block' = 0
    /\ \E trailer \in IF opts.trailer /\ m # Nil THEN {0, Reserve} ELSE {0} :
          LET whole == bytes + h + EndBytes + trailer
          IN  \/ out' = "closed" /\ written' = whole
              \/ out' = "broken" /\ written' \in bytes..whole

\* The metadata is taken from the recorder once, and its file may not be written.
TakeMeta(m) ==
    /\ meta' = Nil
    /\ left' \in IF m # Nil /\ opts.meta THEN {m, left} ELSE {left}

\* Mutant: a failed write only skips its record.
MutWriteFails(m) ==
    /\ stored' = stored /\ meta' = m
    /\ UNCHANGED <<out, written, block, truncated, left>>

\* A write fails, some of its bytes on disk: the stream cannot be closed, and the
\* recorder goes on.
WriteFails(m) ==
    /\ out' = "failed" /\ truncated' = TRUE
    /\ block' = 0 /\ meta' = m
    /\ written' \in written..(written + block + Max(Sizes))
    /\ UNCHANGED <<stored, left>>

\* A record of b bytes is written, h of what is held staying back; near the cap
\* the stream is closed.
WriteRecord(m, b, h) ==
    LET bytes == written + block + b - h
    IN  /\ h <= block + b
        /\ stored' = stored + 1
        /\ IF Near(bytes)
           THEN /\ CloseStream(bytes, h, m) /\ TakeMeta(m)
                /\ truncated' = TRUE
           ELSE /\ written' = bytes /\ block' = h /\ meta' = m
                /\ UNCHANGED <<out, truncated, left>>

\* ReplayWriter::record, record_snapshot: the recorder is shown the record
\* whether or not it can be written.
record ==
    /\ answer = Nil /\ records < MaxRecords
    /\ records' = records + 1
    /\ LET m == IF meta = Nil THEN Nil ELSE meta + 1
       IN  IF out = "open"
           THEN WriteFails(m) \/ \E b \in Sizes, h \in 0..Block : WriteRecord(m, b, h)
           ELSE meta' = m /\ UNCHANGED <<out, written, block, stored, truncated, left>>
    /\ UNCHANGED <<opts, answer>>

\* ReplayWriter::finish, or the drop of a writer let go before.
finish ==
    /\ answer = Nil /\ answer' = truncated
    /\ IF out = "open"
       THEN CloseStream(written, block, meta) ELSE UNCHANGED <<out, written, block>>
    /\ TakeMeta(meta)
    /\ UNCHANGED <<opts, records, stored, truncated>>

ReplayNext == record \/ finish

ReplaySpec == ReplayInit /\ [][ReplayNext]_replayVars
-----------------------------------------------------------------------------
(* Properties. *)

\* The file never grows past the cap it was given, trailer and all ("The file is
\* closed before it grows past max_bytes").
SizeCapped == opts.max # Nil => written <= opts.max

\* A record is left out only behind the last one the file holds: a stream that
\* failed or was closed takes no more, so that a replay plays up to a tick and
\* never past a hole.
NoHoles == [][stored' > stored => stored = records]_replayVars

\* Where the result line says the replay is whole, every record is in it, unless
\* its very end could not be written.
SaysTruncated == answer = FALSE /\ out # "broken" => out = "closed" /\ stored = records

\* "ReplayWriter::finish tells whether records were left out."
\* Not so: when the end of the stream fails, `truncated` stays as it was.
FinishTells == answer = FALSE => out = "closed"

\* "The recorder goes on when the replay stops at its cap."
\* Not so: at the cap after_write calls end, which takes the recorder.
RecorderGoesOn == answer = Nil => meta # Nil

\* A replay is under its cap, without a hole, and says when it was cut.
ReplayWhole == [](ReplayTypeOK /\ SizeCapped /\ SaysTruncated) /\ NoHoles
=============================================================================
