------------------------------ MODULE Recorder ------------------------------
(***************************************************************************)
(* One chrontabulator process and the device it records to: the segment    *)
(* claim, the capture path (capture_poll, flush_buffer, retry_flush,       *)
(* write_complete), the stop and finalize chain, process death and the     *)
(* next start, for the daemon (ServeMode) and for the CLI capture mode.    *)
(*                                                                         *)
(* Every handler runs to completion on the single SPDK reactor thread, so  *)
(* an action is one whole handler.  The synchronous calls a handler makes  *)
(* are operators from a context to the context they leave; the context is  *)
(* app_context_t, fields under their C names.  What interleaves is the     *)
(* order of packets, requests, I/O completions, signals and crashes.       *)
(*                                                                         *)
(* A definition that stands just before another it resembles, with the     *)
(* same parameters, is a fault in it that the runs must notice; only the   *)
(* second of the two is part of the specification.                         *)
(*                                                                         *)
(* Blocks are counted in write chunks (buf_size_blocks = 1) and bytes in   *)
(* units of which a chunk holds BufSize.  Block 0 stands for the header    *)
(* and the TOC; data starts at DataStart.                                  *)
(***************************************************************************)
EXTENDS Integers, FiniteSets

CONSTANTS
    ServeMode,      \* opts.serve_mode: daemon, or CLI capture
    WriteBufCount,  \* write_buf_count
    BufSize,        \* buf_size, in units
    NumBlocks,      \* blocks of the device
    SegmentSlots,   \* toc_slot_count
    Threshold,      \* CHRONO_WRITE_FAILURE_THRESHOLD
    CountLimit,     \* opts.count_limit, 0 for none
    PoolSize,       \* spdk_bdev_io objects this channel can hold
    RecSizes,       \* sizes of the records packets make
    MaxPackets, MaxRefusals, MaxIoErrors, MaxBoots  \* bounds of the model

ASSUME RecorderAssumption ==
    /\ ServeMode \in BOOLEAN
    /\ WriteBufCount \in Nat \ {0}
    /\ BufSize \in Nat \ {0}
    /\ NumBlocks \in Nat \ {0}
    /\ SegmentSlots \in Nat \ {0}
    /\ Threshold \in Nat \ {0}
    /\ {CountLimit, PoolSize, MaxPackets, MaxRefusals, MaxIoErrors, MaxBoots}
          \subseteq Nat
    /\ RecSizes \subseteq Nat \ {0}

VARIABLES
    ctx,    \* g_ctx, with the requests its bdev channel has outstanding
    disk,   \* what the device holds
    load    \* how much of each bound the environment has used

vars == <<ctx, disk, load>>

-----------------------------------------------------------------------------
Buffers   == 0 .. WriteBufCount - 1
NoBuf     == WriteBufCount          \* bdev_io_wait is not queued
Slots     == 0 .. SegmentSlots - 1
DataStart == 1                      \* vol.data_start_block

\* cached_num_blocks is assigned in daemon_finish_startup only; a CLI
\* capture leaves it at the zero main() set.
CachedNumBlocks == IF ServeMode THEN NumBlocks ELSE 0

\* A cell is one unit of a chunk.  len = 0: no record header starts here.
Cell  == [seg : Nat, seq : Nat, len : Nat]
Blank == [seg |-> 0, seq |-> 0, len |-> 0]
Chunk == [0 .. BufSize - 1 -> Cell]
EmptyChunk == [k \in 0 .. BufSize - 1 |-> Blank]

\* A device in use holds records of before the format: they parse.
StaleChunk ==
    [EmptyChunk EXCEPT ![0] = [seg |-> SegmentSlots, seq |-> 0, len |-> 1]]

Header == [next_segment_id : Nat, next_data_block : Nat]
Entry  == [state : {"FREE", "OPEN", "FINALIZED"}, start_block : Nat,
           block_count : Int, record_count : Nat, dropped_count : Nat]
EmptyEntry(state, start) ==
    [state |-> state, start_block |-> start, block_count |-> 0,
     record_count |-> 0, dropped_count |-> 0]
FreeEntry == EmptyEntry("FREE", 0)

\* A submitted write: data of buffer id to block at, the header, or the TOC
\* slot at.  For finalize, id is the number of the chain it belongs to.
Ops     == {"data", "claimToc", "claimHdr", "finHdr", "finToc"}
Request == {r \in [op : Ops, id : Nat, at : Nat] :
               r.op = "data" => r.id \in Buffers}

\* The submissions one handler can make; the device refuses a set of them.
Refusable == {"retry", "data", "hdr", "toc"}

WriteBuf == [used : 0 .. BufSize, in_flight : BOOLEAN, target_block : Nat,
             data : Chunk]

Context ==
    [up : BOOLEAN, rx_poller : BOOLEAN, recording : BOOLEAN,
     stopping : BOOLEAN, shutting_down : BOOLEAN,
     segment_id : Nat, segment_start_block : Nat, next_write_block : Nat,
     buffers : [Buffers -> WriteBuf], cur_buf : Buffers,
     pending_writes : Int, consecutive_write_failures : Nat,
     record_count : Nat, dropped_count : Nat,
     last_stop_reason : {"NONE", "USER", "DISK_FULL", "COUNT_LIMIT",
                         "WRITE_FAILURES"},
     vol : Header, vol_buf : Header, io_buf : Entry,
     io : SUBSET Request, bdev_io_wait : Buffers \cup {NoBuf},
     wait_requeued : BOOLEAN,    \* the one wait entry was queued twice
     admin_req : {"none", "start", "stop"},
     chains : Nat]               \* finalize chains this process started

Load == [packets : Nat, refusals : Nat, io_errors : Nat, boots : Nat]

TypeOK ==
    /\ ctx \in Context
    /\ disk \in [hdr : Header, toc : [Slots -> Entry],
                 data : [0 .. NumBlocks - 1 -> Chunk]]
    /\ load \in Load

-----------------------------------------------------------------------------
(* The device, as the code uses it. *)

\* The bdev layer has a free bdev_io and the device does not refuse.
Accepts(s, kind, refuse) ==
    kind \notin refuse /\ Cardinality(s.io) < PoolSize

Submitted(s, op, id, at) ==
    [s EXCEPT !.io = @ \cup {[op |-> op, id |-> id, at |-> at]}]

\* The device after it has performed the writes of W; it reads the buffers
\* in place.
Performed(W) ==
    [hdr  |-> IF \E r \in W : r.op \in {"claimHdr", "finHdr"}
              THEN ctx.vol_buf ELSE disk.hdr,
     toc  |-> [g \in Slots |->
                 IF \E r \in W : r.op \in {"claimToc", "finToc"} /\ r.at = g
                 THEN ctx.io_buf ELSE disk.toc[g]],
     data |-> [b \in 0 .. NumBlocks - 1 |->
                 IF \E i \in Buffers :
                       [op |-> "data", id |-> i, at |-> b] \in W
                 THEN ctx.buffers[CHOOSE i \in Buffers :
                        [op |-> "data", id |-> i, at |-> b] \in W].data
                 ELSE disk.data[b]]]

-----------------------------------------------------------------------------
(* Leaving: cleanup_and_stop, fail_started, daemon_teardown_and_exit *)

Teardown(s) == [s EXCEPT !.up = FALSE, !.rx_poller = FALSE]

-----------------------------------------------------------------------------
(* Finalize: the header first, then the TOC entry *)

FinalizeTocUnanswered(s) ==
    LET t == [s EXCEPT !.recording = FALSE]
    IN  IF ~ServeMode \/ s.shutting_down THEN Teardown(t) ELSE t

FinalizeTocStays(s) ==
    [s EXCEPT !.recording = FALSE, !.admin_req = "none"]

FinalizeTocDone(s) ==
    LET t == [s EXCEPT !.recording = FALSE]
    IN  IF ~ServeMode \/ s.shutting_down
        THEN Teardown(t)
        ELSE [t EXCEPT !.admin_req = "none"]

FinalizedEntry(s) ==
    [state |-> "FINALIZED", start_block |-> s.segment_start_block,
     block_count |-> s.next_write_block - s.segment_start_block,
     record_count |-> s.record_count, dropped_count |-> s.dropped_count]

\* Runs whether the header write succeeded or not.
FinalizeHeaderDone(s, chain, refuse) ==
    LET t == [s EXCEPT !.io_buf = FinalizedEntry(s)]
    IN  IF Accepts(t, "toc", refuse)
        THEN Submitted(t, "finToc", chain, s.segment_id)
        ELSE FinalizeTocDone(t)

FinalizeWithStaleHeader(s, refuse) ==
    LET t == [s EXCEPT !.vol_buf = s.vol, !.chains = @ + 1,
                       !.vol.next_data_block = s.next_write_block]
    IN  IF Accepts(t, "hdr", refuse)
        THEN Submitted(t, "finHdr", t.chains, 0)
        ELSE FinalizeHeaderDone(t, t.chains, refuse)

FinalizeWithoutAdvance(s, refuse) ==
    LET t == [s EXCEPT !.vol_buf = s.vol, !.chains = @ + 1]
    IN  IF Accepts(t, "hdr", refuse)
        THEN Submitted(t, "finHdr", t.chains, 0)
        ELSE FinalizeHeaderDone(t, t.chains, refuse)

FinalizeOnDeviceOnly(s, refuse) ==
    LET t == [s EXCEPT !.vol_buf.next_data_block = s.next_write_block,
                       !.chains = @ + 1]
    IN  IF Accepts(t, "hdr", refuse)
        THEN Submitted(t, "finHdr", t.chains, 0)
        ELSE FinalizeHeaderDone(t, t.chains, refuse)

FinalizeSegment(s, refuse) ==
    LET v == [s.vol EXCEPT !.next_data_block = s.next_write_block]
        t == [s EXCEPT !.vol = v, !.vol_buf = v, !.chains = @ + 1]
    IN  IF Accepts(t, "hdr", refuse)
        THEN Submitted(t, "finHdr", t.chains, 0)
        ELSE FinalizeHeaderDone(t, t.chains, refuse)

\* The test write_complete and retry_flush end with.
NeverFinalizeLate(s, refuse) == s

FinalizeIfDrained(s, refuse) ==
    IF s.stopping /\ s.pending_writes = 0 THEN FinalizeSegment(s, refuse)
                                          ELSE s

-----------------------------------------------------------------------------
(* The write path *)

HasRoom(s) == s.next_write_block + 1 <= CachedNumBlocks

Released(s, i) ==
    [s EXCEPT !.buffers[i].in_flight = FALSE, !.buffers[i].used = 0]

HandedOffUnpadded(s, i) ==
    [s EXCEPT !.buffers[i].in_flight = TRUE,
              !.buffers[i].target_block = s.next_write_block,
              !.pending_writes = @ + 1]

\* flush_buffer up to its call of retry_flush: pad with zeros, fix the target.
HandedOff(s, i) ==
    LET b == s.buffers[i]
    IN  [s EXCEPT
           !.buffers[i] = [used |-> b.used, in_flight |-> TRUE,
              target_block |-> s.next_write_block,
              data |-> [k \in 0 .. BufSize - 1 |->
                          IF k < b.used THEN b.data[k] ELSE Blank]],
           !.pending_writes = @ + 1]

AdvancedNowhere(s) == s
Advanced(s) == [s EXCEPT !.next_write_block = @ + 1]

\* retry_flush refuses a target past the end, and the device may refuse.
Refused(s, i, kind, refuse) ==
    kind \in refuse \/ s.buffers[i].target_block + 1 > CachedNumBlocks

\* -ENOMEM: the context's only wait entry is queued with this buffer as its
\* argument.  Queued a second time it stays linked to itself: the earlier
\* argument is gone and SPDK keeps firing the entry.
WaitForIo(s, i) ==
    [s EXCEPT !.bdev_io_wait = i,
              !.wait_requeued = @ \/ s.bdev_io_wait # NoBuf]

\* With the live position, not the buffer's own target.
IssuedAtPosition(s, i, kind, refuse) ==
    IF Refused(s, i, kind, refuse)
      THEN [Released(s, i) EXCEPT !.pending_writes = @ - 1]
    ELSE IF Cardinality(s.io) >= PoolSize THEN WaitForIo(s, i)
    ELSE Submitted(s, "data", i, s.next_write_block)

\* The part of retry_flush before a refusal is reported.
Issued(s, i, kind, refuse) ==
    IF Refused(s, i, kind, refuse)
      THEN [Released(s, i) EXCEPT !.pending_writes = @ - 1]
    ELSE IF Cardinality(s.io) >= PoolSize THEN WaitForIo(s, i)
    ELSE Submitted(s, "data", i, s.buffers[i].target_block)

\* chrono_note_write_failure without its call of the stop function.
FailureCounted(s) ==
    LET n == s.consecutive_write_failures + 1
    IN  [s EXCEPT !.consecutive_write_failures = n,
                  !.last_stop_reason =
                     IF n >= Threshold THEN "WRITE_FAILURES" ELSE @]

\* The flush a stop makes; stopping is set, so a refusal that is reported
\* inside it cannot stop again.
FinalFlush(s, i, refuse) ==
    IF s.buffers[i].used = 0 THEN s
    ELSE IF ~HasRoom(s) THEN [s EXCEPT !.buffers[i].used = 0]
    ELSE LET h == HandedOff(s, i)
             t == Issued(h, i, "data", refuse)
         IN  Advanced(IF Refused(h, i, "data", refuse)
                      THEN FinalizeIfDrained(FailureCounted(t), refuse)
                      ELSE t)

StopWithoutDrain(s, refuse) ==
    IF s.stopping THEN s
    ELSE FinalizeSegment(FinalFlush([s EXCEPT !.stopping = TRUE,
                                              !.rx_poller = @ /\ ServeMode],
                                    s.cur_buf, refuse), refuse)

\* daemon_stop_recording and begin_shutdown.
StopRecording(s, refuse) ==
    IF s.stopping THEN s
    ELSE LET t == FinalFlush([s EXCEPT !.stopping = TRUE,
                                       !.rx_poller = @ /\ ServeMode],
                             s.cur_buf, refuse)
         IN  IF t.pending_writes = 0 THEN FinalizeSegment(t, refuse) ELSE t

NoteWriteFailureLate(s, refuse) ==
    LET t == FailureCounted(s)
    IN  IF t.consecutive_write_failures > Threshold
        THEN StopRecording(t, refuse) ELSE t

NoteWriteFailure(s, refuse) ==
    LET t == FailureCounted(s)
    IN  IF t.consecutive_write_failures >= Threshold
        THEN StopRecording(t, refuse) ELSE t

RetryFlush(s, i, kind, refuse) ==
    LET t == Issued(s, i, kind, refuse)
    IN  IF Refused(s, i, kind, refuse)
        THEN FinalizeIfDrained(NoteWriteFailure(t, refuse), refuse)
        ELSE t

FlushBuffer(s, i, refuse) ==
    IF s.buffers[i].used = 0 THEN s
    ELSE IF ~HasRoom(s) THEN [s EXCEPT !.buffers[i].used = 0]
    ELSE Advanced(RetryFlush(HandedOff(s, i), i, "data", refuse))

\* spdk_bdev_free_io: a bdev_io comes back, so a queued waiter is fired.
FreeIo(s, r, refuse) ==
    LET t == [s EXCEPT !.io = @ \ {r}]
    IN  IF s.bdev_io_wait = NoBuf THEN t
        ELSE RetryFlush([t EXCEPT !.bdev_io_wait =
                            IF s.wait_requeued THEN @ ELSE NoBuf],
                        s.bdev_io_wait, "retry", refuse)

WriteCompleteKeepsFailed(s, r, ok, refuse) ==
    LET t == Released(FreeIo(s, r, refuse), r.id)
    IN  IF ~ok THEN NoteWriteFailure(t, refuse)
        ELSE FinalizeIfDrained([t EXCEPT !.pending_writes = @ - 1,
                                  !.consecutive_write_failures = 0], refuse)

WriteCompleteLeaksFailed(s, r, ok, refuse) ==
    LET t == FreeIo(s, r, refuse)
        u == IF ok THEN [Released(t, r.id) EXCEPT !.consecutive_write_failures = 0]
                   ELSE NoteWriteFailure(t, refuse)
    IN  FinalizeIfDrained([u EXCEPT !.pending_writes = @ - 1], refuse)

WriteComplete(s, r, ok, refuse) ==
    LET t == Released(FreeIo(s, r, refuse), r.id)
        u == IF ok THEN [t EXCEPT !.consecutive_write_failures = 0]
                   ELSE NoteWriteFailure(t, refuse)
    IN  FinalizeIfDrained([u EXCEPT !.pending_writes = @ - 1], refuse)

-----------------------------------------------------------------------------
(* The capture path: one packet of ours *)

Dropped(s) == [s EXCEPT !.dropped_count = @ + 1]

FitsOneOver(b, size) == b.used + size <= BufSize + 1
Fits(b, size) == b.used + size <= BufSize

PutRecord(data, off, rec) ==
    [k \in 0 .. BufSize - 1 |->
       IF k = off THEN rec
       ELSE IF off < k /\ k < off + rec.len THEN Blank ELSE data[k]]

Appended(s, size) ==
    LET b == s.buffers[s.cur_buf]
        rec == [seg |-> s.segment_id, seq |-> s.record_count, len |-> size]
    IN  [s EXCEPT !.record_count = @ + 1,
                  !.buffers[s.cur_buf] =
                     [b EXCEPT !.data = PutRecord(b.data, b.used, rec),
                               !.used = b.used + size]]

\* The record is stored; the count limit may stop the recording.
Recorded(s, size, refuse) ==
    LET t == Appended(s, size)
    IN  IF CountLimit # 0 /\ t.record_count >= CountLimit
        THEN StopRecording([t EXCEPT !.last_stop_reason = "COUNT_LIMIT"],
                           refuse)
        ELSE t

\* The current buffer cannot take the record: flush it and try the next.
NextBuffer(s, size, refuse) ==
    LET t == [FlushBuffer(s, s.cur_buf, refuse)
                EXCEPT !.cur_buf = (s.cur_buf + 1) % WriteBufCount]
    IN  IF t.buffers[t.cur_buf].in_flight \/ size > BufSize
        THEN Dropped(t) ELSE Recorded(t, size, refuse)

CapturePollIntoBusy(s, size, refuse) ==
    LET b == s.buffers[s.cur_buf]
    IN  IF Fits(b, size) THEN Recorded(s, size, refuse)
        ELSE IF HasRoom(s) THEN NextBuffer(s, size, refuse)
        ELSE StopRecording([Dropped(s) EXCEPT
                              !.last_stop_reason = "DISK_FULL"], refuse)

CapturePoll(s, size, refuse) ==
    LET b == s.buffers[s.cur_buf]
    IN  IF b.in_flight THEN Dropped(s)
        ELSE IF Fits(b, size) THEN Recorded(s, size, refuse)
        ELSE IF HasRoom(s) THEN NextBuffer(s, size, refuse)
        ELSE StopRecording([Dropped(s) EXCEPT
                              !.last_stop_reason = "DISK_FULL"], refuse)

-----------------------------------------------------------------------------
(* Claiming a segment: the TOC entry first, then the header *)

ClaimFailed(s) ==
    IF ServeMode THEN [s EXCEPT !.admin_req = "none"] ELSE Teardown(s)

ClaimSegmentStart(s, refuse) ==
    LET t == [s EXCEPT !.segment_id = s.vol.next_segment_id,
                       !.segment_start_block = s.vol.next_data_block,
                       !.io_buf = EmptyEntry("OPEN", s.vol.next_data_block)]
    IN  IF s.vol.next_segment_id >= SegmentSlots THEN ClaimFailed(s)
        ELSE IF Accepts(t, "toc", refuse)
        THEN Submitted(t, "claimToc", 0, t.segment_id)
        ELSE ClaimFailed(t)

ClaimTocDoneSameSlot(s, ok, refuse) ==
    IF ~ok THEN ClaimFailed(s)
    ELSE IF Accepts(s, "hdr", refuse)
    THEN Submitted([s EXCEPT !.vol_buf = s.vol], "claimHdr", 0, 0)
    ELSE ClaimFailed(s)

ClaimTocDone(s, ok, refuse) ==
    LET v == [s.vol EXCEPT !.next_segment_id = @ + 1]
        t == [s EXCEPT !.vol = v, !.vol_buf = v]
    IN  IF ~ok THEN ClaimFailed(s)
        ELSE IF Accepts(t, "hdr", refuse)
        THEN Submitted(t, "claimHdr", 0, 0)
        ELSE ClaimFailed(t)

ClaimHeaderDoneKeepsPosition(s, ok) ==
    IF ~ok THEN ClaimFailed(s)
    ELSE [s EXCEPT
            !.cur_buf = 0,
            !.buffers = [i \in Buffers |->
               [s.buffers[i] EXCEPT !.used = 0, !.in_flight = FALSE]],
            !.record_count = 0, !.dropped_count = 0,
            !.last_stop_reason = "NONE", !.consecutive_write_failures = 0,
            !.stopping = FALSE, !.recording = TRUE, !.admin_req = "none"]

\* The daemon resets the whole session; the CLI starts its poller.
ClaimHeaderDone(s, ok) ==
    IF ~ok THEN ClaimFailed(s)
    ELSE IF ServeMode
    THEN [s EXCEPT
            !.next_write_block = s.segment_start_block, !.cur_buf = 0,
            !.buffers = [i \in Buffers |->
               [s.buffers[i] EXCEPT !.used = 0, !.in_flight = FALSE]],
            !.record_count = 0, !.dropped_count = 0,
            !.last_stop_reason = "NONE", !.consecutive_write_failures = 0,
            !.stopping = FALSE, !.recording = TRUE, !.admin_req = "none"]
    ELSE [s EXCEPT !.next_write_block = s.segment_start_block,
                   !.rx_poller = TRUE]

-----------------------------------------------------------------------------
(* Starting: g_ctx is zeroed, the header is read *)

EmptyBuffers ==
    [i \in Buffers |-> [used |-> 0, in_flight |-> FALSE, target_block |-> 0,
                        data |-> EmptyChunk]]

Fresh(hdr) ==
    [up |-> TRUE, rx_poller |-> ServeMode, recording |-> FALSE,
     stopping |-> FALSE, shutting_down |-> FALSE,
     segment_id |-> 0, segment_start_block |-> 0, next_write_block |-> 0,
     buffers |-> EmptyBuffers,
     cur_buf |-> 0, pending_writes |-> 0, consecutive_write_failures |-> 0,
     record_count |-> 0, dropped_count |-> 0, last_stop_reason |-> "NONE",
     vol |-> hdr, vol_buf |-> hdr, io_buf |-> FreeEntry,
     io |-> {}, bdev_io_wait |-> NoBuf, wait_requeued |-> FALSE,
     admin_req |-> "none", chains |-> 0]

\* A daemon waits for a request; a CLI capture claims its segment at once.
Started(hdr, refuse) ==
    IF ServeMode THEN Fresh(hdr) ELSE ClaimSegmentStart(Fresh(hdr), refuse)

FormattedHeader == [next_segment_id |-> 0, next_data_block |-> DataStart]

Init ==
    /\ ctx = Started(FormattedHeader, {})
    /\ disk = [hdr |-> FormattedHeader, toc |-> [g \in Slots |-> FreeEntry],
               data |-> [b \in 0 .. NumBlocks - 1 |-> StaleChunk]]
    /\ load = [packets |-> 0, refusals |-> 0, io_errors |-> 0, boots |-> 0]

-----------------------------------------------------------------------------
(* Actions *)

\* The bounds: how many handlers may meet a refusal, how many I/Os may fail.
Charge(refuse, ok) ==
    /\ refuse # {} => load.refusals < MaxRefusals
    /\ ~ok => load.io_errors < MaxIoErrors
    /\ load' = [load EXCEPT !.refusals = IF refuse = {} THEN @ ELSE @ + 1,
                            !.io_errors = IF ok THEN @ ELSE @ + 1]

\* Outside a session the daemon frees the packet and counts nothing.
Packet ==
    \E size \in RecSizes, refuse \in SUBSET {"data", "hdr", "toc"} :
        /\ ctx.up /\ ctx.rx_poller
        /\ ServeMode => ctx.recording /\ ~ctx.stopping
        /\ load.packets < MaxPackets
        /\ refuse # {} => load.refusals < MaxRefusals
        /\ ctx' = CapturePoll(ctx, size, refuse)
        /\ load' = [load EXCEPT !.packets = @ + 1,
                      !.refusals = IF refuse = {} THEN @ ELSE @ + 1]
        /\ UNCHANGED disk

\* The single admin slot is taken until the request is fulfilled.
RecordingStart ==
    \E refuse \in SUBSET {"toc"} :
        /\ ServeMode /\ ctx.up /\ ctx.admin_req = "none"
        /\ ~ctx.shutting_down /\ ~ctx.recording
        /\ Charge(refuse, TRUE)
        /\ ctx' = ClaimSegmentStart([ctx EXCEPT !.admin_req = "start"], refuse)
        /\ UNCHANGED disk

RecordingStop ==
    \E refuse \in SUBSET {"data", "hdr", "toc"} :
        /\ ServeMode /\ ctx.up /\ ctx.admin_req = "none" /\ ctx.recording
        /\ Charge(refuse, TRUE)
        /\ ctx' = StopRecording([ctx EXCEPT !.admin_req = "stop",
                                            !.last_stop_reason = "USER"],
                                refuse)
        /\ UNCHANGED disk

\* SIGINT: daemon_shutdown_cb, app_shutdown_cb.
Shutdown ==
    \E refuse \in SUBSET {"data", "hdr", "toc"} :
        /\ ctx.up /\ ~ctx.shutting_down
        /\ Charge(refuse, TRUE)
        /\ ctx' = LET s == [ctx EXCEPT !.shutting_down = TRUE]
                  IN  IF ServeMode /\ ~s.recording THEN Teardown(s)
                      ELSE StopRecording(s, refuse)
        /\ UNCHANGED disk

\* The device answers request r: it performed the write, or the write failed.
Answered(r, ok, refuse) ==
    /\ ctx.up /\ r \in ctx.io
    /\ Charge(refuse, ok)
    /\ disk' = IF ok THEN Performed({r}) ELSE disk

DataWritten ==
    \E r \in ctx.io, ok \in BOOLEAN, refuse \in SUBSET Refusable :
        /\ r.op = "data" /\ Answered(r, ok, refuse)
        /\ ctx' = WriteComplete(ctx, r, ok, refuse)

ClaimTocWritten ==
    \E r \in ctx.io, ok \in BOOLEAN, refuse \in SUBSET Refusable :
        /\ r.op = "claimToc" /\ Answered(r, ok, refuse)
        /\ ctx' = ClaimTocDone(FreeIo(ctx, r, refuse), ok, refuse)

ClaimHeaderWritten ==
    \E r \in ctx.io, ok \in BOOLEAN, refuse \in SUBSET Refusable :
        /\ r.op = "claimHdr" /\ Answered(r, ok, refuse)
        /\ ctx' = ClaimHeaderDone(FreeIo(ctx, r, refuse), ok)

FinalizeHeaderWritten ==
    \E r \in ctx.io, ok \in BOOLEAN, refuse \in SUBSET Refusable :
        /\ r.op = "finHdr" /\ Answered(r, ok, refuse)
        /\ ctx' = FinalizeHeaderDone(FreeIo(ctx, r, refuse), r.id, refuse)

FinalizeTocWritten ==
    \E r \in ctx.io, ok \in BOOLEAN, refuse \in SUBSET Refusable :
        /\ r.op = "finToc" /\ Answered(r, ok, refuse)
        /\ ctx' = FinalizeTocDone(FreeIo(ctx, r, refuse))

\* The process dies; of its outstanding writes the device performs some.
Crash ==
    \E W \in SUBSET ctx.io :
        /\ ctx.up /\ load.boots < MaxBoots
        /\ disk' = Performed(W)
        /\ ctx' = [Teardown(ctx) EXCEPT !.io = {}]
        /\ UNCHANGED load

Boot ==
    \E refuse \in SUBSET {"toc"} :
        /\ ~ctx.up /\ load.boots < MaxBoots
        /\ refuse # {} => load.refusals < MaxRefusals
        /\ ctx' = Started(disk.hdr, refuse)
        /\ load' = [load EXCEPT !.boots = @ + 1,
                      !.refusals = IF refuse = {} THEN @ ELSE @ + 1]
        /\ UNCHANGED disk

Completion ==
    \/ DataWritten \/ ClaimTocWritten \/ ClaimHeaderWritten
    \/ FinalizeHeaderWritten \/ FinalizeTocWritten

Next ==
    \/ Packet \/ RecordingStart \/ RecordingStop \/ Shutdown
    \/ DataWritten \/ ClaimTocWritten \/ ClaimHeaderWritten
    \/ FinalizeHeaderWritten \/ FinalizeTocWritten
    \/ Crash \/ Boot

Spec == Init /\ [][Next]_vars

\* The device answers every request it has accepted, in any order.
FairSpec == Spec /\ WF_vars(Completion)
=============================================================================
