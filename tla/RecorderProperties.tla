------------------------- MODULE RecorderProperties -------------------------
(***************************************************************************)
(* What a recorder owes its user, over the state of module Recorder.       *)
(***************************************************************************)
EXTENDS Recorder, Sequences, FiniteSetsExt

\* The records dump_chunk_read_complete finds in one chunk: header after
\* header until one has no magic.
Walk(chunk) ==
    LET from[k \in 0 .. BufSize] ==
          IF k = BufSize THEN <<>>
          ELSE IF chunk[k].len = 0 \/ k + chunk[k].len > BufSize THEN <<>>
          ELSE <<chunk[k]>> \o from[k + chunk[k].len]
    IN  from[0]

\* What a dump of entry e prints: chunk after chunk from its start, up to a
\* chunk that begins with padding, and no more than record_count records.
Dump(d, e) ==
    LET from[b \in 0 .. NumBlocks] ==
          IF b = NumBlocks THEN <<>>
          ELSE IF d.data[b][0].len = 0 THEN <<>>
          ELSE Walk(d.data[b]) \o from[b + 1]
        recs == from[e.start_block]
    IN  SubSeq(recs, 1, Min({Len(recs), e.record_count}))

Finalized(d) == {g \in Slots : d.toc[g].state = "FINALIZED"}

Extent(e) == e.start_block .. e.start_block + e.block_count - 1

DataRequests == {r \in ctx.io : r.op = "data"}

-----------------------------------------------------------------------------
(* Safety *)

\* A finalized segment reads back as its own records from the first on, each
\* once and in order.  Its record_count is authoritative unless the segment
\* ends where the device ends: there the last flush of a stop is dropped
\* (flush_buffer), with no more than one buffer of records already counted.
FinalizedIsAuthoritative ==
    \A g \in Finalized(disk) :
       LET e    == disk.toc[g]
           recs == Dump(disk, e)
           lost == e.record_count - Len(recs)
       IN  /\ \A k \in DOMAIN recs : recs[k].seg = g /\ recs[k].seq = k - 1
           /\ lost # 0 => /\ e.start_block + e.block_count = NumBlocks
                          /\ lost <= BufSize

\* The data blocks of different finalized segments never overlap, and none
\* reaches into the header or the TOC.
ExtentsDisjoint ==
    \A g, h \in Finalized(disk) :
       /\ \A b \in Extent(disk.toc[g]) : b >= DataStart
       /\ g # h => Extent(disk.toc[g]) \cap Extent(disk.toc[h]) = {}

\* Finalize writes the header before the TOC entry, so that no finalized
\* segment ever lies above the high-water mark on the device.
FinalizedBelowHighWater ==
    \A g \in Finalized(disk) :
       disk.toc[g].start_block + disk.toc[g].block_count
          <= disk.hdr.next_data_block

\* What a running process would hand to the next claim lies past every
\* segment it finalized, even when the header could not be written.
NextClaimIsClear ==
    ctx.up => \A g \in Finalized(disk) :
       disk.toc[g].start_block + disk.toc[g].block_count
          <= ctx.vol.next_data_block

\* The finalize chain runs only when no data write is outstanding or queued.
DrainedBeforeFinalize ==
    (\E r \in ctx.io : r.op \in {"finHdr", "finToc"}) =>
       DataRequests = {} /\ ctx.bdev_io_wait = NoBuf

\* pending_writes counts the data writes the device or the wait queue holds:
\* it reaches zero exactly when the last of them is done.
PendingMatchesWrites ==
    ctx.up => ctx.pending_writes =
       Cardinality(DataRequests)
         + Cardinality({ctx.bdev_io_wait} \ {NoBuf})

\* A buffer in flight is at the device or is the one queued for retry.
InFlightIsHeld ==
    ctx.up => \A i \in Buffers :
       ctx.buffers[i].in_flight =>
          i = ctx.bdev_io_wait \/ \E r \in DataRequests : r.id = i

\* Two writes in progress never share a block, and every one lies in the
\* open segment's own space: from its start to next_write_block, on the device.
WritesStayInSegment ==
    ctx.up =>
       /\ \A q, r \in DataRequests : q.at = r.at => q = r
       /\ \A r \in DataRequests :
             /\ ctx.segment_start_block <= r.at
             /\ r.at < ctx.next_write_block
             /\ r.at < NumBlocks

\* The device never holds two writes of the same buffer.
OneWritePerBuffer ==
    \A q, r \in DataRequests : q.id = r.id => q = r

\* A segment is finalized once: its header and TOC entry are rewritten by one
\* chain, and chains never overlap.
FinalizeChainsDoNotOverlap ==
    \A q, r \in ctx.io :
       {q.op, r.op} \subseteq {"finHdr", "finToc"} => q = r

\* A run of CHRONO_WRITE_FAILURE_THRESHOLD failures always stops recording.
FailuresStopRecording ==
    ctx.up /\ ctx.recording /\ ctx.consecutive_write_failures >= Threshold
       => ctx.stopping

\* Records a CLI capture counted are on the device when it has finished.
CapturedRecordsAreStored ==
    \A g \in Finalized(disk) :
       disk.toc[g].record_count > 0 =>
          \E k \in DOMAIN Dump(disk, disk.toc[g]) :
             Dump(disk, disk.toc[g])[k].seg = g

-----------------------------------------------------------------------------
(* Action properties *)

\* While the device owns a buffer nobody changes what it is reading.
BuffersStableInFlight ==
    [][\A r \in DataRequests :
          r \in ctx'.io => ctx'.buffers[r.id].data = ctx.buffers[r.id].data
      ]_vars

\* The high-water mark on the device never moves back.
HighWaterAdvances ==
    [][disk.hdr.next_data_block <= disk'.hdr.next_data_block]_vars

-----------------------------------------------------------------------------
(* The abstract store *)

Store == INSTANCE SegmentStore WITH
           state   <- [g \in Slots |-> disk.toc[g].state],
           records <- [g \in Slots |-> IF g \in Finalized(disk)
                                       THEN Dump(disk, disk.toc[g]) ELSE <<>>]

\* Through crashes, restarts and stops at any point, the device goes only
\* through states of SegmentStore: slots claimed in order, one at a time, only
\* the newest finalized, with exactly its own records, never changed again.
ImplementsStore == Store!Spec

-----------------------------------------------------------------------------
(* Liveness, under FairSpec *)

\* A recording that has begun to stop is finalized: the daemon is idle again
\* or has left.
StopCompletes == (ctx.up /\ ctx.stopping) ~> (~ctx.up \/ ~ctx.recording)

\* Every admin request the recorder has taken is answered, or the daemon ends.
RequestsAnswered == (ctx.admin_req # "none") ~> (ctx.admin_req = "none" \/ ~ctx.up)

\* After a signal the process leaves.
ShutdownCompletes == ctx.shutting_down ~> ~ctx.up
=============================================================================
