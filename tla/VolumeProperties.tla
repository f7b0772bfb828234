-------------------------- MODULE VolumeProperties --------------------------
(***************************************************************************)
(* What a volume owes its user across formats, recordings, repairs and     *)
(* process deaths, over the state of module Volume.                        *)
(***************************************************************************)
EXTENDS Volume

Finalized == {g \in Slots : Visible(disk.toc[g])
                            /\ disk.toc[g].state = "FINALIZED"}

Extent(e) == e.start_block .. e.start_block + e.block_count - 1

\* Records first .. last of entry e's segment, as a reader should show them.
Window(e, first, last) ==
    [k \in 1 .. last - first + 1 |->
       [era |-> e.era, seg |-> e.segment_id, seq |-> first + k - 1,
        len |-> RecLen]]

\* The reader walks the segment with the chunk size it was packed with.
RightSize(e) == e.laid = IF e.chunk # 0 THEN e.chunk ELSE p.buf_size

-----------------------------------------------------------------------------
(* Safety *)

\* A volume whose header is accepted holds no entry of an earlier format or of
\* another program: a format interrupted anywhere leaves the device refused,
\* or with segments of the volume that was there.
NoForeignSegment ==
    Accepted(disk.hdr) =>
       \A g \in Slots : Visible(disk.toc[g]) =>
          /\ disk.toc[g].era = disk.hdr.era
          /\ load.faults = 0 => g <= disk.hdr.next_segment_id

\* In an accepted volume the high-water mark lies in the data area: what the
\* next claim hands out is never the header or the TOC.
HighWaterInDataArea ==
    Accepted(disk.hdr) => disk.hdr.next_data_block >= DataStart

\* Finalized segments keep apart and below the high-water mark, whatever
\* formats, claims and finalizes were cut short before they were recorded.
\* Where the header write of a finalize failed, its log admits they may not.
SegmentsKeepApart ==
    Accepted(disk.hdr) /\ ~load.header_lost =>
       \A g, h \in Finalized :
          /\ disk.toc[g].start_block + disk.toc[g].block_count
                <= disk.hdr.next_data_block
          /\ g # h => Extent(disk.toc[g]) \cap Extent(disk.toc[h]) = {}

\* The daemon's vol is always the volume on the device: a QUICK_FORMAT under
\* way or failed has not touched it.
LiveVolumeIsOnDevice ==
    p.up /\ p.mode = "serve" /\ p.vol.kind = "V2" => p.vol.era = disk.hdr.era

\* A format that reports success has left an empty volume of its own.
FormatSucceedsFresh ==
    p.rc = "ok" /\ (p.said = "format" \/ (~p.up /\ p.mode \in {"init", "force"}))
    => /\ disk.hdr = FreshHeader(load.formats)
       /\ \A g \in Slots : ~Visible(disk.toc[g])

\* Every record of e's segment is stored, unless it ends where the device has
\* no room for another chunk: the last flush of its stop may be dropped there.
EndsFull(e) == e.start_block + e.block_count + e.laid > NumBlocks

\* A dump of a finalized segment shows all its records, once and in order, and
\* succeeds unless the device fails - whatever chunk size the process that
\* dumps was started with, and also after a repair of the entry.  Where the
\* device was full it may fail, after it has shown all but one buffer of them.
DumpIsComplete ==
    LET e     == p.target
        count == Len(p.cursor.shown)
    IN  ~p.up /\ p.mode = "dump" /\ p.rc # "none" /\ ~p.faulted
          /\ e.state = "FINALIZED" /\ RightSize(e) /\ ~load.header_lost
        => /\ p.cursor.shown = Window(e, 0, count - 1)
           /\ (p.rc = "ok") = (count = e.record_count)
           /\ p.rc # "ok" => /\ EndsFull(e)
                             /\ e.record_count - count <= e.laid \div RecLen

\* A page shows exactly the records its offset and limit ask for, and says
\* whether the segment goes on after them.
PageIsWindow ==
    LET last == Min({p.cursor.req_offset + p.cursor.req_limit,
                     p.target.record_count})
    IN  p.said = "page" /\ p.rc = "ok" /\ RightSize(p.target)
          /\ ~load.header_lost
        => /\ p.cursor.shown = Window(p.target, p.cursor.req_offset, last - 1)
           /\ p.cursor.has_more = (last < p.target.record_count)

-----------------------------------------------------------------------------
(* Action properties *)

\* A finalized entry of the volume in use only ever changes in its chunk
\* size, by a repair, until a format takes it away.
FinalizedEntryKept ==
    [][\A g \in Finalized :
          Accepted(disk.hdr) /\ Visible(disk'.toc[g]) =>
             disk'.toc[g] = [disk.toc[g] EXCEPT !.chunk = disk'.toc[g].chunk]]_vars
=============================================================================
