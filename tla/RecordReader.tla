---------------------------- MODULE RecordReader ----------------------------
(***************************************************************************)
(* How a segment's records are read back: the walk over one write chunk,   *)
(* and what the two readers make of it - the dump of the command line      *)
(* (dump_chunk_read_complete) and the pages of the web interface           *)
(* (admin_records_chunk_read_complete).                                    *)
(*                                                                         *)
(* A reader's cursor is the part of app_context_t and of admin_req both    *)
(* use; an operator takes the cursor and the chunk read and returns the    *)
(* cursor it leaves, its end saying whether it goes on.                    *)
(*                                                                         *)
(* A definition that stands just before another it resembles is a fault    *)
(* the runs must notice.                                                   *)
(***************************************************************************)
EXTENDS Integers, Sequences, FiniteSetsExt

CONSTANT ChunkSizes     \* write chunk sizes, in blocks

\* One block of data: the header of a record that is len blocks long, or
\* (len = 0) the inside of a record, padding, or nothing.  era: see Volume.
Cell  == [era : Nat, seg : Nat, seq : Nat, len : Nat]
Blank == [era |-> 0, seg |-> 0, seq |-> 0, len |-> 0]

Cursor ==
    [cur_block : Nat, chunk : Nat, target_count : Nat, records_seen : Nat,
     req_offset : Nat, req_limit : Nat,
     shown : Seq(Cell), has_more : BOOLEAN, end : {"", "ok", "fail"}]

NoCursor ==
    [cur_block |-> 0, chunk |-> 0, target_count |-> 0, records_seen |-> 0,
     req_offset |-> 0, req_limit |-> 0,
     shown |-> <<>>, has_more |-> FALSE, end |-> ""]

\* One turn of the loop over a chunk: the record at the end of those found is
\* one more, unless it has no header or overruns the chunk.
ParseOne(cells, size, q) ==
    IF q.bad \/ q.end = size \/ cells[q.end].len = 0 THEN q
    ELSE IF q.end + cells[q.end].len > size THEN [q EXCEPT !.bad = TRUE]
    ELSE [recs |-> Append(q.recs, cells[q.end]),
          end |-> q.end + cells[q.end].len, bad |-> FALSE]

\* The loop, which ends at the latest when max records are found.
Parse(cells, size, max) ==
    LET after[n \in 0 .. max] ==
          IF n = 0 THEN [recs |-> <<>>, end |-> 0, bad |-> FALSE]
          ELSE ParseOne(cells, size, after[n - 1])
    IN  after[max]

-----------------------------------------------------------------------------
(* The dump *)

\* dump_segment_entry_read_complete: the segment's own chunk size, or this
\* process's where an old entry holds none.
StartedOwnChunk(e, buf_size) ==
    [NoCursor EXCEPT !.cur_block = e.start_block, !.chunk = buf_size,
                     !.target_count = e.record_count,
                     !.end = IF e.record_count = 0 THEN "ok" ELSE ""]

Started(e, buf_size) ==
    [NoCursor EXCEPT !.cur_block = e.start_block,
                     !.chunk = IF e.chunk # 0 THEN e.chunk ELSE buf_size,
                     !.target_count = e.record_count,
                     !.end = IF e.record_count = 0 THEN "ok" ELSE ""]

DumpChunkRead(c, cells) ==
    LET p == Parse(cells, c.chunk, c.target_count - c.records_seen)
        seen == c.records_seen + Len(p.recs)
    IN  [c EXCEPT !.shown = @ \o p.recs, !.records_seen = seen,
                  !.cur_block = @ + c.chunk,
                  !.end = IF p.bad THEN "fail"
                          ELSE IF seen >= c.target_count THEN "ok"
                          ELSE IF p.end = 0 THEN "fail" ELSE ""]

-----------------------------------------------------------------------------
(* A page *)

\* admin_records_entry_read_complete; an offset past the end asks for nothing.
PageStarted(e, buf_size, offset, limit) ==
    [Started(e, buf_size) EXCEPT
       !.req_offset = offset, !.req_limit = limit,
       !.end = IF e.record_count = 0 \/ offset >= e.record_count
               THEN "ok" ELSE ""]

\* The records of a chunk the loop steps over or takes: it stops at the
\* segment's last record, or when the page is full.
Wanted(c) ==
    Min({c.target_count - c.records_seen,
         Max({c.req_offset - c.records_seen, 0}) + c.req_limit - Len(c.shown)})

\* As admin_records_chunk_read_complete was before padding inside a segment
\* was told apart from its end.
PageChunkReadPaddingEnds(c, cells) ==
    LET p == Parse(cells, c.chunk, Wanted(c))
        skip == Max({c.req_offset - c.records_seen, 0})
        seen == c.records_seen + Len(p.recs)
    IN  [c EXCEPT !.shown = @ \o SubSeq(p.recs, skip + 1, Len(p.recs)),
                  !.records_seen = c.target_count,
                  !.cur_block = @ + c.chunk,
                  !.end = IF p.bad THEN "fail" ELSE "ok"]

PageChunkRead(c, cells) ==
    LET p == Parse(cells, c.chunk, Wanted(c))
        skip == Max({c.req_offset - c.records_seen, 0})
        seen == c.records_seen + Len(p.recs)
        shown == c.shown \o SubSeq(p.recs, skip + 1, Len(p.recs))
        full == seen >= c.target_count \/ Len(shown) >= c.req_limit
    IN  [c EXCEPT !.shown = shown, !.records_seen = seen,
                  !.cur_block = @ + c.chunk,
                  !.has_more = full /\ seen < c.target_count,
                  !.end = IF p.bad \/ (p.end = 0 /\ ~full) THEN "fail"
                          ELSE IF full THEN "ok" ELSE ""]
=============================================================================
