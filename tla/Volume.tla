------------------------------- MODULE Volume -------------------------------
(***************************************************************************)
(* The life of one device across processes: it is formatted (--init, with  *)
(* or without --force), served (--serve: recordings, QUICK_FORMAT, pages   *)
(* of records), captured to (CLI), listed and dumped (-D), repaired        *)
(* (--repair-chunk-bytes).  One process runs at a time; it may die         *)
(* between any two writes, and inside a write of several blocks.           *)
(*                                                                         *)
(* Every process is a chain of device I/O: a completion runs its callback, *)
(* which submits the next I/O or ends the chain.  How packets become       *)
(* chunks is module Recorder's subject: here a recording adds a chunk of   *)
(* records in one step.  Requests of the web interface come one at a time, *)
(* through the slot module AdminBridge describes.                          *)
(*                                                                         *)
(* Addresses are blocks: 0 is the header, then one block per TOC slot,     *)
(* then data.  Every record is RecLen blocks long.  era, a history field   *)
(* of headers, entries and records, numbers the format they belong to, and *)
(* laid the chunk size a segment was really packed with.                   *)
(*                                                                         *)
(* As in Recorder, a definition that stands just before another it         *)
(* resembles is a fault the runs must notice.                              *)
(***************************************************************************)
EXTENDS RecordReader

CONSTANTS
    SegmentSlots,   \* CHRONO_TOC_SLOT_COUNT
    DataBlocks,     \* blocks of the data area
    RecLen,         \* blocks of a record
    ZeroBlocks,     \* TOC blocks one zero-fill write of a format covers
    Signals,        \* whether a SIGINT may reach a process that records nothing
    MaxBoots, MaxFormats, MaxFaults, MaxRecords    \* bounds of the model

ASSUME VolumeAssumption ==
    /\ {SegmentSlots, RecLen, ZeroBlocks} \subseteq Nat \ {0}
    /\ ChunkSizes \subseteq Nat \ {0} /\ ChunkSizes # {}
    /\ \A c \in ChunkSizes : RecLen <= c
    /\ {DataBlocks, MaxBoots, MaxFormats, MaxFaults, MaxRecords} \subseteq Nat
    /\ Signals \in BOOLEAN

VARIABLES
    disk,   \* what the device holds: hdr, toc, data
    p,      \* the process, or what it left behind
    load    \* how much of each bound is used, and what once went wrong

vars == <<disk, p, load>>

-----------------------------------------------------------------------------
Slots     == 0 .. SegmentSlots - 1
TocStart  == 1                              \* toc_start_block
DataStart == TocStart + SegmentSlots        \* data_start_block
NumBlocks == DataStart + DataBlocks
BlockSize == 1                              \* the device's own block_size

\* kind: this program's volume, another version of it, its V1 superblock, or
\* anything else.  A zeroed header has toc_start 0.
Header ==
    [kind : {"V2", "V2other", "V1", "none"}, block_size : Nat,
     toc_start : Nat, next_segment_id : Nat, next_data_block : Nat, era : Nat]
NoHeader == [kind |-> "none", block_size |-> 0, toc_start |-> 0,
             next_segment_id |-> 0, next_data_block |-> 0, era |-> 0]

\* A block that holds no entry at all is not magic; a zeroed one is FREE.
Entry ==
    [magic : BOOLEAN, state : {"FREE", "OPEN", "FINALIZED"}, segment_id : Nat,
     start_block : Nat, block_count : Int, record_count : Nat, chunk : Nat,
     laid : Nat, era : Nat]
FreeEntry ==
    [magic |-> FALSE, state |-> "FREE", segment_id |-> 0, start_block |-> 0,
     block_count |-> 0, record_count |-> 0, chunk |-> 0, laid |-> 0, era |-> 0]

\* chrono_segment_classify does not take it for NOT_FOUND.
Visible(e) == e.magic /\ e.state # "FREE"

Modes == {"init", "force", "serve", "capture", "list", "dump", "repair"}

\* An outstanding I/O: len blocks from block at.
Reads  == {"check", "header", "list", "entry", "chunk", "pageEntry", "page"}
Writes == {"zero", "initHdr", "qfZero", "qfHdr", "claimToc", "claimHdr",
           "finHdr", "finToc", "repair"}
Io == [op : Reads \cup Writes, at : 0 .. NumBlocks - 1, len : Nat]

Process ==
    [up : BOOLEAN, mode : Modes, buf_size : ChunkSizes, dump_segment_id : Slots,
     io : SUBSET Io, vol : Header, vol_buf : Header, io_buf : Entry,
     staged : Header, init_cur_block : Nat,
     segment_id : Slots, segment_start_block : Nat, next_write_block : Nat,
     record_count : Nat, recording : BOOLEAN, stopping : BOOLEAN,
     shutting_down : BOOLEAN, cursor : Cursor, target : Entry, listed : Seq(Entry),
     request : {"none", "start", "stop", "format", "page"},
     rc : {"none", "ok", "fail"},    \* of the last request, or of the process
     said : {"none", "start", "stop", "format", "page"},   \* what rc answers
     faulted : BOOLEAN]              \* history: one of its I/Os failed

TypeOK ==
    /\ disk \in [hdr : Header, toc : [Slots -> Entry],
                 data : [DataStart .. NumBlocks - 1 -> Cell]]
    /\ p \in Process
    /\ load \in [boots : Nat, formats : Nat, faults : Nat, header_lost : BOOLEAN]

-----------------------------------------------------------------------------
(* Ends and submissions *)

\* cleanup_and_stop, fail_started: what is outstanding is aborted.
Exit(s, rc) == [s EXCEPT !.up = FALSE, !.recording = FALSE, !.io = {},
                         !.rc = rc, !.said = "none"]

\* chrono_admin_fulfill
Fulfill(s, rc) == [s EXCEPT !.request = "none", !.rc = rc, !.said = s.request]

\* How a chain reports: to the caller of a request, or as the exit code.
Report(s, rc) == IF s.mode = "serve" THEN Fulfill(s, rc) ELSE Exit(s, rc)

Submit(s, op, at, len) ==
    [s EXCEPT !.io = @ \cup {[op |-> op, at |-> at, len |-> len]}]

-----------------------------------------------------------------------------
(* --init *)

FreshHeader(era) ==
    [kind |-> "V2", block_size |-> BlockSize, toc_start |-> TocStart,
     next_segment_id |-> 0, next_data_block |-> DataStart, era |-> era]

\* The next zero-fill write, or the header once the TOC is done.
InitHeaderFirst(s) ==
    IF s.init_cur_block = TocStart
    THEN Submit([s EXCEPT !.vol_buf = s.vol, !.init_cur_block = TocStart + 1],
                "initHdr", 0, 1)
    ELSE IF s.init_cur_block > DataStart THEN Exit(s, "ok")
    ELSE Submit(s, "zero", s.init_cur_block - 1,
                Min({ZeroBlocks, DataStart + 1 - s.init_cur_block}))

InitZero(s) ==
    IF s.init_cur_block >= DataStart
    THEN Submit([s EXCEPT !.vol_buf = s.vol], "initHdr", 0, 1)
    ELSE Submit(s, "zero", s.init_cur_block,
                Min({ZeroBlocks, DataStart - s.init_cur_block}))

\* A volume of any version, or a V1 capture, is only formatted with --force.
Refused(h) == h.kind \in {"V2", "V2other", "V1"}

InitChecked(s, era) ==
    IF Refused(s.vol_buf) /\ s.mode # "force" THEN Exit(s, "fail")
    ELSE InitZero([s EXCEPT !.vol = FreshHeader(era),
                            !.init_cur_block = TocStart])

InitZeroed(s) ==
    InitZero([s EXCEPT !.init_cur_block =
                @ + Min({ZeroBlocks, DataStart - @})])

-----------------------------------------------------------------------------
(* QUICK_FORMAT: the same chain on a staged header, inside the daemon *)

QuickFormatZeroUncleared(s) ==
    IF s.init_cur_block >= DataStart
    THEN Submit([s EXCEPT !.vol_buf = s.staged], "qfHdr", 0, 1)
    ELSE Submit(s, "qfZero", s.init_cur_block,
                Min({ZeroBlocks, DataStart - s.init_cur_block}))

QuickFormatZero(s) ==
    IF s.init_cur_block >= DataStart
    THEN Submit([s EXCEPT !.vol_buf = s.staged], "qfHdr", 0, 1)
    ELSE Submit([s EXCEPT !.io_buf = FreeEntry], "qfZero", s.init_cur_block,
                Min({ZeroBlocks, DataStart - s.init_cur_block}))

QuickFormatLive(s, era) ==
    IF s.recording THEN Fulfill(s, "fail")
    ELSE QuickFormatZero([s EXCEPT !.staged = FreshHeader(era),
                                   !.vol = FreshHeader(era),
                                   !.init_cur_block = TocStart])

QuickFormat(s, era) ==
    IF s.recording THEN Fulfill(s, "fail")
    ELSE QuickFormatZero([s EXCEPT !.staged = FreshHeader(era),
                                   !.init_cur_block = TocStart])

QuickFormatZeroed(s) ==
    QuickFormatZero([s EXCEPT !.init_cur_block =
                       @ + Min({ZeroBlocks, DataStart - @})])

QuickFormatDone(s) ==
    Fulfill([s EXCEPT !.vol = s.staged, !.next_write_block = DataStart,
                      !.record_count = 0], "ok")

-----------------------------------------------------------------------------
(* Recording: claim, chunks, finalize; by the daemon and by the CLI *)

ClaimSegmentOneTooMany(s) ==
    LET id == s.vol.next_segment_id
        t == [s EXCEPT !.segment_id = id,
                       !.segment_start_block = s.vol.next_data_block,
                       !.io_buf = [FreeEntry EXCEPT !.magic = TRUE,
                          !.state = "OPEN", !.segment_id = id,
                          !.start_block = s.vol.next_data_block,
                          !.chunk = s.buf_size, !.laid = s.buf_size,
                          !.era = s.vol.era]]
    IN  IF s.recording THEN Fulfill(s, "fail")
        ELSE IF id > SegmentSlots THEN Report(s, "fail")
        ELSE Submit(t, "claimToc", s.vol.toc_start + id, 1)

ClaimSegmentStart(s) ==
    LET id == s.vol.next_segment_id
        t == [s EXCEPT !.segment_id = id,
                       !.segment_start_block = s.vol.next_data_block,
                       !.io_buf = [FreeEntry EXCEPT !.magic = TRUE,
                          !.state = "OPEN", !.segment_id = id,
                          !.start_block = s.vol.next_data_block,
                          !.chunk = s.buf_size, !.laid = s.buf_size,
                          !.era = s.vol.era]]
    IN  IF s.recording THEN Fulfill(s, "fail")
        ELSE IF id >= SegmentSlots THEN Report(s, "fail")
        ELSE Submit(t, "claimToc", s.vol.toc_start + id, 1)

ClaimTocDone(s) ==
    LET v == [s.vol EXCEPT !.next_segment_id = @ + 1]
    IN  Submit([s EXCEPT !.vol = v, !.vol_buf = v], "claimHdr", 0, 1)

\* The CLI starts its poller here; recording says so for both.
ClaimHeaderDone(s) ==
    LET t == [s EXCEPT !.next_write_block = s.segment_start_block,
                       !.record_count = 0, !.recording = TRUE]
    IN  IF s.mode = "serve"
        THEN Fulfill([t EXCEPT !.stopping = FALSE], "ok") ELSE t

\* finalize_segment_and_stop, daemon_finalize_segment.
FinalizeTocFirst(s) ==
    LET v == [s.vol EXCEPT !.next_data_block = s.next_write_block]
    IN  Submit([s EXCEPT !.vol = v, !.vol_buf = v,
                  !.io_buf = [FreeEntry EXCEPT !.magic = TRUE,
                     !.state = "FINALIZED", !.segment_id = s.segment_id,
                     !.start_block = s.segment_start_block,
                     !.block_count = s.next_write_block - s.segment_start_block,
                     !.record_count = s.record_count,
                     !.chunk = s.buf_size, !.laid = s.buf_size,
                     !.era = s.vol.era]],
               "finToc", s.vol.toc_start + s.segment_id, 1)

FinalizeSegment(s) ==
    LET v == [s.vol EXCEPT !.next_data_block = s.next_write_block]
    IN  Submit([s EXCEPT !.vol = v, !.vol_buf = v], "finHdr", 0, 1)

\* Goes on whether or not the header could be written.
FinalizeHeaderDone(s) ==
    Submit([s EXCEPT !.io_buf = [FreeEntry EXCEPT !.magic = TRUE,
              !.state = "FINALIZED", !.segment_id = s.segment_id,
              !.start_block = s.segment_start_block,
              !.block_count = s.next_write_block - s.segment_start_block,
              !.record_count = s.record_count,
              !.chunk = s.buf_size, !.laid = s.buf_size, !.era = s.vol.era]],
           "finToc", s.vol.toc_start + s.segment_id, 1)

\* A recording that ended by SIGINT takes the process with it.
FinalizeTocDone(s, ok) ==
    IF s.mode # "serve" \/ s.shutting_down THEN Exit(s, "ok")
    ELSE Fulfill([s EXCEPT !.recording = FALSE], IF ok THEN "ok" ELSE "fail")

\* How many records the last flush of a stop can drop: they are counted, but
\* on a full device their buffer is not written.
LeftOver(s) ==
    IF s.mode = "serve" /\ s.recording /\ s.next_write_block + s.buf_size > NumBlocks
    THEN 0 .. Min({s.buf_size \div RecLen, MaxRecords - s.record_count})
    ELSE {0}

\* begin_shutdown, daemon_stop_recording, with no write outstanding; n records
\* are dropped with the last buffer.
StopRecording(s, n) ==
    IF s.stopping THEN s
    ELSE FinalizeSegment([s EXCEPT !.stopping = TRUE, !.record_count = @ + n])

-----------------------------------------------------------------------------
(* Reading back *)

\* The next chunk; a read past the end of the device is refused.
Goes(s, op, c) ==
    LET t == [s EXCEPT !.cursor = c]
    IN  IF c.end # "" THEN Report(t, c.end)
        ELSE IF c.cur_block + c.chunk > NumBlocks THEN Report(t, "fail")
        ELSE Submit(t, op, c.cur_block, c.chunk)

\* dump_segment_entry_read_complete; an open segment is no error.
DumpEntryRead(s) ==
    LET t == [s EXCEPT !.target = s.io_buf]
    IN  CASE ~Visible(s.io_buf) -> Exit(t, "fail")
          [] Visible(s.io_buf) /\ s.io_buf.state = "OPEN" -> Exit(t, "ok")
          [] OTHER -> Goes([t EXCEPT !.segment_id = s.io_buf.segment_id],
                           "chunk", Started(s.io_buf, s.buf_size))

\* --repair-chunk-bytes: the entry just read, with another chunk size.
RepairEntryAnew(s, size) ==
    IF ~Visible(s.io_buf) THEN Exit(s, "fail")
    ELSE IF s.io_buf.state = "OPEN" THEN Exit(s, "ok")
    ELSE Submit([s EXCEPT !.io_buf = [FreeEntry EXCEPT !.magic = TRUE,
                    !.state = "FINALIZED", !.segment_id = s.dump_segment_id,
                    !.chunk = size, !.era = s.vol.era]],
                "repair", s.vol.toc_start + s.dump_segment_id, 1)

RepairEntryRead(s, size) ==
    IF ~Visible(s.io_buf) THEN Exit(s, "fail")
    ELSE IF s.io_buf.state = "OPEN" THEN Exit(s, "ok")
    ELSE Submit([s EXCEPT !.io_buf.chunk = size], "repair",
                s.vol.toc_start + s.dump_segment_id, 1)

\* admin_records_entry_read_complete; an open segment is EAGAIN.
PageEntryRead(s) ==
    LET t == [s EXCEPT !.target = s.io_buf]
        c == PageStarted(s.io_buf, s.buf_size, s.cursor.req_offset,
                         s.cursor.req_limit)
    IN  IF ~Visible(s.io_buf) \/ s.io_buf.state = "OPEN" THEN Fulfill(t, "fail")
        ELSE Goes(t, "page", c)

ListNext(s) ==
    IF Len(s.listed) >= s.vol.next_segment_id THEN Exit(s, "ok")
    ELSE Submit(s, "list", s.vol.toc_start + Len(s.listed), 1)

\* volume_header_read_complete, daemon_volume_header_read_complete.
Accepted(h) == h.kind = "V2" /\ h.block_size = BlockSize

HeaderRead(s) ==
    LET t == [s EXCEPT !.vol = s.vol_buf]
    IN  IF ~Accepted(s.vol_buf) THEN Exit(s, "fail")
        ELSE CASE s.mode = "serve"   -> t
               [] s.mode = "capture" -> ClaimSegmentStart(t)
               [] s.mode = "list"    -> ListNext(t)
               [] s.mode \in {"dump", "repair"} ->
                    Submit(t, "entry", t.vol.toc_start + t.dump_segment_id, 1)

-----------------------------------------------------------------------------
(* Starting *)

\* The state g_ctx starts from, with the first I/O of the mode.
Booted(mode, buf_size, seg) ==
    [up |-> TRUE, mode |-> mode, buf_size |-> buf_size, dump_segment_id |-> seg,
     io |-> {[op |-> IF mode \in {"init", "force"} THEN "check" ELSE "header",
              at |-> 0, len |-> 1]},
     vol |-> NoHeader, vol_buf |-> NoHeader, io_buf |-> FreeEntry,
     staged |-> NoHeader, init_cur_block |-> 0,
     segment_id |-> 0, segment_start_block |-> 0, next_write_block |-> 0,
     record_count |-> 0, recording |-> FALSE, stopping |-> FALSE,
     shutting_down |-> FALSE, cursor |-> NoCursor, target |-> FreeEntry, listed |-> <<>>,
     request |-> "none", rc |-> "none", said |-> "none", faulted |-> FALSE]

\* A device that never held a volume, one this program does not accept, and
\* one that an older program recorded to, without the chunk size in its entry.
StaleEntry(size, chunk, era) ==
    [magic |-> TRUE, state |-> "FINALIZED", segment_id |-> 0,
     start_block |-> DataStart, block_count |-> 2 * size,
     record_count |-> 2 * (size \div RecLen), chunk |-> chunk, laid |-> size,
     era |-> era]

\* n records from number first on, in a chunk.
Laid(era, seg, first, n) ==
    [k \in 0 .. n * RecLen - 1 |->
       IF k % RecLen = 0
       THEN [era |-> era, seg |-> seg, seq |-> first + k \div RecLen, len |-> RecLen]
       ELSE Blank]

\* data with chunk written over it at block b, zero-padded to size.
Stored(data, b, chunk, size) ==
    [k \in DOMAIN data |->
       IF k \in b .. b + size - 1
       THEN IF k - b \in DOMAIN chunk THEN chunk[k - b] ELSE Blank
       ELSE data[k]]

Unformatted ==
    [hdr  : {NoHeader, [NoHeader EXCEPT !.kind = "V1"],
             [FreshHeader(0) EXCEPT !.kind = "V2other"],
             [FreshHeader(0) EXCEPT !.block_size = BlockSize + 1]},
     toc  : {[g \in Slots |-> StaleEntry(Min(ChunkSizes), 0, 0)]},
     data : {[b \in DataStart .. NumBlocks - 1 |-> Blank]}]

Older(size) ==
    LET n == size \div RecLen
        none == [b \in DataStart .. NumBlocks - 1 |-> Blank]
        one == Stored(none, DataStart, Laid(1, 0, 0, n), size)
    IN  [hdr  |-> [FreshHeader(1) EXCEPT !.next_segment_id = 1,
                                         !.next_data_block = @ + 2 * size],
         toc  |-> [g \in Slots |-> IF g = 0 THEN StaleEntry(size, 0, 1)
                                   ELSE FreeEntry],
         data |-> Stored(one, DataStart + size, Laid(1, 0, n, n), size)]

Off == [Booted("list", Min(ChunkSizes), 0) EXCEPT !.up = FALSE, !.io = {}]

\* An older program recorded its two chunks, so the device has room for them.
Init ==
    /\ disk \in Unformatted \cup
                {Older(size) : size \in {c \in ChunkSizes : 2 * c <= DataBlocks}}
    /\ p = Off
    /\ load = [boots |-> 0, formats |-> 1, faults |-> 0, header_lost |-> FALSE]

-----------------------------------------------------------------------------
(* The device *)

\* The device after it has written the blocks B of request r.
Performed(r, B) ==
    [disk EXCEPT
       !.hdr = IF 0 \notin B THEN @
               ELSE IF r.op \in {"initHdr", "qfHdr", "claimHdr", "finHdr"}
               THEN p.vol_buf ELSE NoHeader,
       !.toc = [g \in Slots |->
                  IF TocStart + g \notin B THEN @[g]
                  ELSE IF TocStart + g = r.at THEN p.io_buf ELSE FreeEntry]]

Blocks(r) == r.at .. r.at + r.len - 1

\* The process with what a read has brought.
Filled(r) ==
    [p EXCEPT !.io = @ \ {r},
       !.vol_buf = IF r.op \in {"check", "header"} THEN disk.hdr ELSE @,
       !.io_buf = IF r.op \in {"list", "entry", "pageEntry"}
                  THEN disk.toc[r.at - TocStart] ELSE @]

Cells(r) == [k \in 0 .. r.len - 1 |-> disk.data[r.at + k]]

\* What the callback of a successful I/O does; a repair's size is its option.
Continued(s, r, size) ==
    CASE r.op = "check"     -> InitChecked(s, load.formats + 1)
      [] r.op = "zero"      -> InitZeroed(s)
      [] r.op = "initHdr"   -> Exit(s, "ok")
      [] r.op = "header"    -> HeaderRead(s)
      [] r.op = "qfZero"    -> QuickFormatZeroed(s)
      [] r.op = "qfHdr"     -> QuickFormatDone(s)
      [] r.op = "claimToc"  -> ClaimTocDone(s)
      [] r.op = "claimHdr"  -> ClaimHeaderDone(s)
      [] r.op = "list"      -> ListNext([s EXCEPT !.listed = Append(@, s.io_buf)])
      [] r.op = "entry"     -> IF s.mode = "repair" THEN RepairEntryRead(s, size)
                               ELSE DumpEntryRead(s)
      [] r.op = "repair"    -> Exit(s, "ok")
      [] r.op = "chunk"     -> Goes(s, "chunk", DumpChunkRead(s.cursor, Cells(r)))
      [] r.op = "pageEntry" -> PageEntryRead(s)
      [] r.op = "page"      -> Goes(s, "page", PageChunkRead(s.cursor, Cells(r)))

-----------------------------------------------------------------------------
(* Actions *)

Boot ==
    \E mode \in Modes, size \in ChunkSizes, seg \in Slots :
        /\ ~p.up /\ load.boots < MaxBoots
        /\ mode \in {"init", "force"} => load.formats < MaxFormats
        /\ mode \notin {"dump", "repair"} => seg = 0
        /\ mode \in {"init", "force", "list", "repair"} => size = Min(ChunkSizes)
        /\ p' = Booted(mode, size, seg)
        /\ load' = [load EXCEPT !.boots = @ + 1]
        /\ UNCHANGED disk

\* An I/O succeeds and its callback runs.
IoDone ==
    \E r \in p.io, size \in ChunkSizes :
        /\ p.up /\ r.op \notin {"finHdr", "finToc"}
        /\ r.op # "entry" \/ p.mode # "repair" => size = Min(ChunkSizes)
        /\ disk' = IF r.op \in Writes THEN Performed(r, Blocks(r)) ELSE disk
        /\ p' = Continued(Filled(r), r, size)
        /\ load' = [load EXCEPT !.formats = IF r.op = "check" THEN @ + 1 ELSE @]

\* An I/O fails, or is refused when it is submitted: the chain ends.
IoFails ==
    \E r \in p.io :
        /\ p.up /\ r.op \notin {"finHdr", "finToc"}
        /\ load.faults < MaxFaults
        /\ LET s == [p EXCEPT !.io = @ \ {r}, !.faulted = TRUE]
           IN  p' = IF r.op = "header" THEN Exit(s, "fail") ELSE Report(s, "fail")
        /\ load' = [load EXCEPT !.faults = @ + 1]
        /\ UNCHANGED disk

\* The two writes of finalize, which only log a failure.
FinalizeIo ==
    \E r \in p.io, ok \in BOOLEAN :
        /\ p.up /\ r.op \in {"finHdr", "finToc"}
        /\ ok \/ load.faults < MaxFaults
        /\ disk' = IF ok THEN Performed(r, Blocks(r)) ELSE disk
        /\ p' = LET s == [p EXCEPT !.io = @ \ {r}, !.faulted = @ \/ ~ok]
                IN  IF r.op = "finHdr" THEN FinalizeHeaderDone(s)
                    ELSE FinalizeTocDone(s, ok)
        /\ load' = [load EXCEPT !.faults = IF ok THEN @ ELSE @ + 1,
                                !.header_lost = @ \/ (r.op = "finHdr" /\ ~ok)]

\* What the last request answered, if one has, is taken; nothing reads it again.
Taken(s) == IF s.said = "none" THEN s
            ELSE [s EXCEPT !.rc = "none", !.said = "none", !.cursor = NoCursor,
                           !.target = FreeEntry]

\* A request of the web interface, once the daemon is ready.
Ready == p.up /\ p.mode = "serve" /\ p.vol.kind = "V2" /\ ~p.shutting_down
         /\ p.request = "none"
Asked(request) == [Taken(p) EXCEPT !.request = request]

RecordingStart ==
    /\ Ready
    /\ p' = ClaimSegmentStart(Asked("start"))
    /\ UNCHANGED <<disk, load>>

RecordingStop ==
    /\ Ready /\ p.recording
    /\ \E n \in LeftOver(p) : p' = StopRecording(Asked("stop"), n)
    /\ UNCHANGED <<disk, load>>

QuickFormatAsked ==
    /\ Ready /\ load.formats < MaxFormats
    /\ p' = QuickFormat(Asked("format"), load.formats + 1)
    /\ load' = [load EXCEPT !.formats = @ + 1]
    /\ UNCHANGED disk

PageAsked ==
    \E seg \in Slots, offset \in 0 .. MaxRecords - 1, limit \in 1 .. MaxRecords :
        /\ Ready
        /\ p' = Submit([Asked("page") EXCEPT
                          !.cursor = [NoCursor EXCEPT !.req_offset = offset,
                                                      !.req_limit = limit]],
                       "pageEntry", p.vol.toc_start + seg, 1)
        /\ UNCHANGED <<disk, load>>

\* A chunk of records reaches the device; a CLI capture meets no packet here.
Record ==
    \E n \in 1 .. p.buf_size \div RecLen :
        /\ p.up /\ p.mode = "serve" /\ p.recording /\ ~p.stopping
        /\ p.record_count + n <= MaxRecords
        /\ p.next_write_block + p.buf_size <= NumBlocks
        /\ disk' = [disk EXCEPT !.data =
                      Stored(@, p.next_write_block,
                             Laid(p.vol.era, p.segment_id, p.record_count, n),
                             p.buf_size)]
        /\ p' = [Taken(p) EXCEPT !.record_count = @ + n,
                                 !.next_write_block = @ + p.buf_size]
        /\ UNCHANGED load

\* SIGINT: daemon_shutdown_cb, or app_shutdown_cb in every other mode.  A
\* daemon that records nothing leaves with whatever is outstanding.
Recording == p.recording /\ (p.mode = "serve" => p.request = "none")
Interrupt ==
    /\ p.up /\ ~p.shutting_down
    /\ Signals \/ Recording \/ (p.mode = "serve" /\ ~p.recording)
    /\ \E n \in LeftOver(p) :
          p' = LET s == [Taken(p) EXCEPT !.shutting_down = TRUE]
               IN  IF s.mode = "serve" /\ ~s.recording THEN Exit(s, "ok")
                   ELSE StopRecording(s, n)
    /\ UNCHANGED <<disk, load>>

\* The process dies; the device may have done part of an outstanding write.
Crash ==
    /\ p.up /\ p.io # {}
    /\ p' = Off
    /\ \E r \in p.io : \E B \in SUBSET Blocks(r) :
          disk' = IF r.op \in Writes THEN Performed(r, B) ELSE disk
    /\ UNCHANGED load

Next ==
    \/ Boot \/ IoDone \/ IoFails \/ FinalizeIo
    \/ RecordingStart \/ RecordingStop \/ QuickFormatAsked \/ PageAsked
    \/ Record \/ Interrupt \/ Crash

Spec == Init /\ [][Next]_vars
=============================================================================
