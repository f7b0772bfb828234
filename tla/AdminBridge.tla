----------------------------- MODULE AdminBridge -----------------------------
(***************************************************************************)
(* The bridge between the daemon's web thread and its reactor thread: the  *)
(* one request slot (admin_req), the web thread's calls and time-outs, the *)
(* handlers the reactor dispatches them to, and the asynchronous chains of *)
(* device I/O those start on the one shared io_buf.                        *)
(*                                                                         *)
(* The two threads interleave freely between the points where a thread     *)
(* holds the slot's lock.  The reactor runs one message or one completion  *)
(* at a time to its end.  The recording itself is module Recorder's        *)
(* subject: here a segment is claimed, stopped, drained and finalized, and *)
(* what is kept of a TOC entry is its owner, its state, the chunk size it  *)
(* was recorded with and how many chunks of records it has.                *)
(*                                                                         *)
(* Operators take a context and return the one they leave, as in Recorder; *)
(* by is the number of the call on whose behalf an operator runs, which    *)
(* the code does not know.  As there, a definition that stands just before *)
(* another it resembles is a fault the runs must notice.                   *)
(***************************************************************************)
EXTENDS Integers, Sequences, FiniteSets

CONSTANTS
    SegmentSlots,     \* toc_slot_count
    ChunkSizes,       \* values SET_WRITE_CHUNK accepts
    RecordedChunks,   \* chunks of records every recording makes
    Asked,            \* operations the clients ask for
    Overlap,          \* whether a recording may end unasked (see AutoStop)
    MaxCalls, MaxFaults   \* bounds: requests; refused or failed I/Os

ASSUME BridgeAssumption ==
    /\ SegmentSlots \in Nat \ {0}
    /\ ChunkSizes \subseteq Nat \ {0} /\ ChunkSizes # {}
    /\ {RecordedChunks, MaxCalls, MaxFaults} \subseteq Nat
    /\ Overlap \in BOOLEAN
    /\ Asked \subseteq {"start", "stop", "list", "records", "delete",
                       "format", "chunk"}

VARIABLES
    ctx,     \* the daemon: recording state, io_buf, admin_req, I/O
    toc,     \* the TOC on the device
    msgs,    \* dispatch messages sent to the reactor, by call
    web,     \* the web thread
    deletes, \* the segments an accepted call asked to delete
    faults   \* I/Os refused or failed

vars == <<ctx, toc, msgs, web, deletes, faults>>

-----------------------------------------------------------------------------
Slots   == 0 .. SegmentSlots - 1
Tickets == 0 .. MaxCalls        \* 0: nobody's call

\* Every setter is the handler of SET_WRITE_CHUNK with another field.
AdminOps == {"start", "stop", "list", "records", "delete", "format", "chunk"}

Ports == {0, 1}      \* 0: no port given

Results == {"ok", "EIO", "EBUSY", "EALREADY", "ESHUTDOWN", "ENOSPC", "ENOENT",
            "EAGAIN", "EINVAL", "ETIMEDOUT"}

Entry == [seg : Nat, state : {"FREE", "OPEN", "FINALIZED", "DELETED"},
          chunk : Nat, chunks : Nat]
FreeEntry == [seg |-> 0, state |-> "FREE", chunk |-> 0, chunks |-> 0]

\* Kinds of I/O: what is read into io_buf, what is written from it, and the
\* header writes, which use vol_buf.
Reads   == {"list", "entry", "records", "delRead"}
Writes  == {"delWrite", "zero", "claimToc", "finToc"}
Headers == {"claimHdr", "finHdr", "fmtHdr"}
Io == [kind : Reads \cup Writes \cup Headers, by : Tickets, at : Nat]

\* from: the call whose handler gave rc.  resp: what the answer lists.
Request ==
    [busy : BOOLEAN, done : BOOLEAN, abandoned : BOOLEAN,
     op : AdminOps, seg : Slots, chunk : Nat, port : Ports,
     rc : Results, from : Tickets,
     resp : Seq([by : Tickets, entry : Entry])]

Context ==
    [up : BOOLEAN, shutting_down : BOOLEAN, recording : BOOLEAN,
     stopping : BOOLEAN, draining : BOOLEAN, claim_in_progress : BOOLEAN,
     stopped_by : Tickets,     \* the call that began the stop
     segment_id : Nat, next_segment_id : Nat, buf_size : ChunkSizes,
     udp_port : Ports, io_buf : Entry, dump_target_count : Nat, dump_records_seen : Nat,
     init_cur : Nat, io : SUBSET Io, admin_req : Request]

\* pc: waiting for a client in poll, for its request in recv, about to call,
\* in the call, sending its result or anything else, and the thread returned.
Web == [pc : {"accept", "recv", "call", "wait", "reply", "send", "left"},
        op : AdminOps, call : Tickets, conns : Nat]

TypeOK ==
    /\ ctx \in Context
    /\ toc \in [Slots -> Entry]
    /\ msgs \in Seq(Tickets)
    /\ web \in Web
    /\ deletes \subseteq Slots
    /\ faults \in Nat

-----------------------------------------------------------------------------
(* The reactor's end of the slot *)

\* chrono_admin_fulfill
FulfillAbandonedToo(s, by, rc) ==
    [s EXCEPT !.admin_req.rc = rc, !.admin_req.from = by,
              !.admin_req.done = TRUE]

Fulfill(s, by, rc) ==
    IF s.admin_req.abandoned
    THEN [s EXCEPT !.admin_req.rc = rc, !.admin_req.from = by,
                   !.admin_req.busy = FALSE]
    ELSE [s EXCEPT !.admin_req.rc = rc, !.admin_req.from = by,
                   !.admin_req.done = TRUE]

Submitted(s, kind, by, at) ==
    [s EXCEPT !.io = @ \cup {[kind |-> kind, by |-> by, at |-> at]}]

\* A submission the device refuses fails the request.
Submit(s, kind, by, at, refused) ==
    IF refused THEN Fulfill(s, by, "EIO") ELSE Submitted(s, kind, by, at)

-----------------------------------------------------------------------------
(* SEGMENTS_LIST and SEGMENT_RECORDS: one read at a time, through the same  *)
(* cursor                                                                   *)

ListNext(s, by, refused) ==
    IF s.dump_records_seen >= s.dump_target_count THEN Fulfill(s, by, "ok")
    ELSE Submit(s, "list", by, s.dump_records_seen, refused)

ListFromSecond(s, by, refused) ==
    ListNext([s EXCEPT !.dump_records_seen = 1,
                       !.dump_target_count = s.next_segment_id], by, refused)

List(s, by, refused) ==
    ListNext([s EXCEPT !.dump_records_seen = 0,
                       !.dump_target_count = s.next_segment_id], by, refused)

Listed(e) == e.state \in {"OPEN", "FINALIZED"}

ListRead(s, by, refused) ==
    ListNext([s EXCEPT !.dump_records_seen = @ + 1,
                !.admin_req.resp = IF Listed(s.io_buf)
                   THEN Append(@, [by |-> by, entry |-> s.io_buf]) ELSE @],
             by, refused)

RecordsNext(s, by, refused) ==
    IF s.dump_records_seen >= s.dump_target_count THEN Fulfill(s, by, "ok")
    ELSE Submit(s, "records", by, s.dump_records_seen, refused)

\* A deleted segment's records can still be read.
EntryRead(s, by, refused) ==
    CASE s.io_buf.state = "FREE" -> Fulfill(s, by, "ENOENT")
      [] s.io_buf.state = "OPEN" -> Fulfill(s, by, "EAGAIN")
      [] OTHER -> RecordsNext([s EXCEPT !.dump_records_seen = 0,
                                 !.dump_target_count = s.io_buf.chunks,
                                 !.admin_req.resp = Append(@,
                                    [by |-> by, entry |-> s.io_buf])],
                              by, refused)

RecordsRead(s, by, refused) ==
    RecordsNext([s EXCEPT !.dump_records_seen = @ + 1], by, refused)

-----------------------------------------------------------------------------
(* SEGMENT_DELETE: the slot to write is read from the request again *)

Delete(s, by, refused) ==
    IF s.recording /\ s.admin_req.seg = s.segment_id
    THEN Fulfill(s, by, "EBUSY")
    ELSE Submit(s, "delRead", by, s.admin_req.seg, refused)

DeleteRead(s, by, refused) ==
    CASE s.io_buf.state = "FREE" -> Fulfill(s, by, "ENOENT")
      [] s.io_buf.state = "DELETED" -> Fulfill(s, by, "ok")
      [] OTHER -> Submit([s EXCEPT !.io_buf.state = "DELETED"],
                         "delWrite", by, s.admin_req.seg, refused)

-----------------------------------------------------------------------------
(* RECORDING_START and RECORDING_STOP *)

ClaimFailed(s, by, rc) ==
    Fulfill([s EXCEPT !.claim_in_progress = FALSE], by, rc)

\* daemon_claim_segment_start
ClaimSegment(s, by, refused) ==
    LET t == [s EXCEPT !.claim_in_progress = TRUE,
                       !.segment_id = s.next_segment_id,
                       !.io_buf = [seg |-> s.next_segment_id,
                                   state |-> "OPEN", chunk |-> s.buf_size,
                                   chunks |-> 0]]
    IN  IF s.next_segment_id >= SegmentSlots THEN Fulfill(s, by, "ENOSPC")
        ELSE IF refused THEN ClaimFailed(t, by, "EIO")
        ELSE Submitted(t, "claimToc", by, t.segment_id)

WithPort(s) ==
    IF s.admin_req.port # 0 THEN [s EXCEPT !.udp_port = s.admin_req.port]
    ELSE s

\* The port stays set when the claim, or the start for want of one, fails.
Start(s, by, refused) ==
    IF s.recording THEN Fulfill(s, by, "EALREADY")
    ELSE IF WithPort(s).udp_port = 0 THEN Fulfill(WithPort(s), by, "EINVAL")
    ELSE ClaimSegment(WithPort(s), by, refused)

ClaimTocDone(s, by, ok, refused) ==
    LET t == [s EXCEPT !.next_segment_id = @ + 1]
    IN  IF ~ok THEN ClaimFailed(s, by, "EIO")
        ELSE IF refused THEN ClaimFailed(t, by, "EIO")
        ELSE Submitted(t, "claimHdr", by, 0)

ClaimHeaderDone(s, by, ok) ==
    IF ~ok THEN ClaimFailed(s, by, "EIO")
    ELSE Fulfill([s EXCEPT !.stopping = FALSE, !.recording = TRUE,
                           !.claim_in_progress = FALSE], by, "ok")

\* Teardown: what outlives it is the web thread, which main() joins.
FinalizeTocDone(s, by, ok) ==
    LET t == [s EXCEPT !.recording = FALSE]
    IN  IF s.shutting_down THEN [t EXCEPT !.up = FALSE]
        ELSE Fulfill(t, by, IF ok THEN "ok" ELSE "EIO")

FinalizedEntryUnsized(s) ==
    [seg |-> s.segment_id, state |-> "FINALIZED", chunk |-> 0,
     chunks |-> RecordedChunks]

FinalizedEntry(s) ==
    [seg |-> s.segment_id, state |-> "FINALIZED", chunk |-> s.buf_size,
     chunks |-> RecordedChunks]

FinalizeHeaderDone(s, by, refused) ==
    LET t == [s EXCEPT !.io_buf = FinalizedEntry(s)]
    IN  IF refused THEN FinalizeTocDone(t, by, FALSE)
        ELSE Submitted(t, "finToc", by, s.segment_id)

FinalizeSegment(s, by, refused) ==
    IF refused THEN FinalizeHeaderDone(s, by, refused)
    ELSE Submitted(s, "finHdr", by, 0)

\* daemon_stop_recording: finalize now, or when the last write completes.
StopRecording(s, by, drained, refused) ==
    IF s.stopping THEN s
    ELSE LET t == [s EXCEPT !.stopping = TRUE, !.stopped_by = by]
         IN  IF drained THEN FinalizeSegment(t, by, refused)
             ELSE [t EXCEPT !.draining = TRUE]

Stop(s, by, drained, refused) ==
    IF ~s.recording THEN Fulfill(s, by, "EALREADY")
    ELSE StopRecording(s, by, drained, refused)

-----------------------------------------------------------------------------
(* QUICK_FORMAT: zero the TOC chunk after chunk, then write a new header *)

FormatNext(s, by, refused) ==
    IF s.init_cur >= SegmentSlots THEN Submit(s, "fmtHdr", by, 0, refused)
    ELSE Submit([s EXCEPT !.io_buf = FreeEntry], "zero", by, s.init_cur,
                refused)

Format(s, by, refused) ==
    IF s.recording THEN Fulfill(s, by, "EBUSY")
    ELSE FormatNext([s EXCEPT !.init_cur = 0], by, refused)

FormatZeroed(s, by, refused) ==
    FormatNext([s EXCEPT !.init_cur = @ + 1], by, refused)

FormatHeaderDone(s, by) ==
    Fulfill([s EXCEPT !.next_segment_id = 0], by, "ok")

-----------------------------------------------------------------------------
(* SET_WRITE_CHUNK *)

SetChunkDuringClaim(s, by) ==
    IF s.recording THEN Fulfill(s, by, "EBUSY")
    ELSE IF s.admin_req.chunk \notin ChunkSizes THEN Fulfill(s, by, "EINVAL")
    ELSE Fulfill([s EXCEPT !.buf_size = s.admin_req.chunk], by, "ok")

SetChunkUnchecked(s, by) ==
    IF s.recording \/ s.claim_in_progress THEN Fulfill(s, by, "EBUSY")
    ELSE Fulfill([s EXCEPT !.buf_size = s.admin_req.chunk], by, "ok")

SetChunk(s, by) ==
    IF s.recording \/ s.claim_in_progress THEN Fulfill(s, by, "EBUSY")
    ELSE IF s.admin_req.chunk \notin ChunkSizes THEN Fulfill(s, by, "EINVAL")
    ELSE Fulfill([s EXCEPT !.buf_size = s.admin_req.chunk], by, "ok")

\* chrono_admin_dispatch
Dispatched(s, by, drained, refused) ==
    LET op == s.admin_req.op
    IN  IF s.shutting_down /\ op # "stop" THEN Fulfill(s, by, "ESHUTDOWN")
        ELSE CASE op = "stop"    -> Stop(s, by, drained, refused)
               [] op = "start"   -> Start(s, by, refused)
               [] op = "list"    -> List(s, by, refused)
               [] op = "records" -> Submit(s, "entry", by, s.admin_req.seg,
                                           refused)
               [] op = "delete"  -> Delete(s, by, refused)
               [] op = "format"  -> Format(s, by, refused)
               [] op = "chunk"   -> SetChunk(s, by)

-----------------------------------------------------------------------------
Init ==
    /\ \E size \in ChunkSizes, port \in Ports : ctx =
         [up |-> TRUE, shutting_down |-> FALSE, recording |-> FALSE,
          stopping |-> FALSE, draining |-> FALSE,
          claim_in_progress |-> FALSE, stopped_by |-> 0, segment_id |-> 0,
          next_segment_id |-> 0, buf_size |-> size, udp_port |-> port,
          io_buf |-> FreeEntry,
          dump_target_count |-> 0, dump_records_seen |-> 0, init_cur |-> 0,
          io |-> {},
          admin_req |-> [busy |-> FALSE, done |-> FALSE, abandoned |-> FALSE,
             op |-> "start", seg |-> 0, chunk |-> 0, port |-> 0, rc |-> "ok",
             from |-> 0, resp |-> <<>>]]
    /\ toc = [g \in Slots |-> FreeEntry]
    /\ msgs = <<>>
    /\ web = [pc |-> "accept", op |-> "start", call |-> 0, conns |-> 0]
    /\ deletes = {}
    /\ faults = 0

-----------------------------------------------------------------------------
(* The web thread: one connection at a time, from accept to close *)

\* shutting_down was tested before the poll that found the client, which may
\* be a while ago.
Accept ==
    /\ web.pc = "accept"
    /\ web' = [web EXCEPT !.pc = "recv"]
    /\ UNCHANGED <<ctx, toc, msgs, deletes, faults>>

\* The client has sent its request, which fills in admin_req under no lock.
\* Parameters an operation does not use keep the values of the request before.
Received ==
    \E op \in Asked, seg \in Slots, chunk \in ChunkSizes \cup {0}, port \in Ports :
        /\ web.pc = "recv" /\ web.conns < MaxCalls
        /\ op \notin {"records", "delete"} => seg = ctx.admin_req.seg
        /\ op # "chunk" => chunk = ctx.admin_req.chunk
        /\ op # "start" => port = ctx.admin_req.port
        /\ web' = [web EXCEPT !.pc = "call", !.conns = @ + 1]
        /\ ctx' = [ctx EXCEPT !.admin_req.op = op, !.admin_req.seg = seg,
                              !.admin_req.chunk = chunk,
                              !.admin_req.port = port]
        /\ UNCHANGED <<toc, msgs, deletes, faults>>

\* A page, a status, a request that is refused or one cut short: nothing is
\* asked of the reactor.  A bad address leaves the setter's op behind.
NoCall ==
    /\ web.pc = "recv"
    /\ web' = [web EXCEPT !.pc = "send"]
    /\ \/ UNCHANGED ctx
       \/ "chunk" \in Asked /\ ctx' = [ctx EXCEPT !.admin_req.op = "chunk"]
    /\ UNCHANGED <<toc, msgs, deletes, faults>>

\* The slot is free: take it and send the reactor a message.
Taken(s) ==
    LET n == web.call + 1
    IN  /\ web' = [web EXCEPT !.pc = "wait", !.call = n,
                              !.op = s.admin_req.op]
        /\ msgs' = Append(msgs, n)
        /\ deletes' = IF s.admin_req.op = "delete"
                      THEN deletes \cup {s.admin_req.seg} ELSE deletes
        /\ ctx' = [s EXCEPT !.admin_req.busy = TRUE,
                            !.admin_req.abandoned = FALSE,
                            !.admin_req.resp = <<>>]

Refused == web' = [web EXCEPT !.pc = "send"] /\ UNCHANGED <<deletes, msgs, ctx>>

CallStaleDone ==
    /\ web.pc = "call"
    /\ IF ctx.admin_req.busy THEN Refused ELSE Taken(ctx)
    /\ UNCHANGED <<toc, faults>>

\* chrono_admin_call up to its wait: refused if the slot is taken.
Call ==
    /\ web.pc = "call"
    /\ \/ ctx.admin_req.busy /\ Refused
       \/ ~ctx.admin_req.busy /\ Taken([ctx EXCEPT !.admin_req.done = FALSE])
    /\ UNCHANGED <<toc, faults>>

\* The wait ends because done is set.
Woken ==
    /\ web.pc = "wait" /\ ctx.admin_req.done
    /\ web' = [web EXCEPT !.pc = "reply"]
    /\ ctx' = [ctx EXCEPT !.admin_req.busy = FALSE]
    /\ UNCHANGED <<toc, msgs, deletes, faults>>

\* The wait ends at its deadline: nobody will read the answer.
TimedOutReleases ==
    /\ web.pc = "wait" /\ ~ctx.admin_req.done
    /\ web' = [web EXCEPT !.pc = "send"]
    /\ ctx' = [ctx EXCEPT !.admin_req.busy = FALSE]
    /\ UNCHANGED <<toc, msgs, deletes, faults>>

NeverTimesOut == FALSE /\ UNCHANGED vars

TimedOut ==
    /\ web.pc = "wait" /\ ~ctx.admin_req.done
    /\ web' = [web EXCEPT !.pc = "send"]
    /\ ctx' = [ctx EXCEPT !.admin_req.abandoned = TRUE]
    /\ UNCHANGED <<toc, msgs, deletes, faults>>

\* The response is sent (send_admin_result reads rc and resp_buf, without the
\* lock), the connection closed and shutting_down tested again.
Replied ==
    /\ web.pc \in {"reply", "send"}
    /\ web' = [web EXCEPT !.pc = IF ctx.shutting_down THEN "left" ELSE "accept"]
    /\ UNCHANGED <<ctx, toc, msgs, deletes, faults>>

\* The poll times out and shutting_down is tested; main() joins the thread.
Leave ==
    /\ web.pc = "accept" /\ ctx.shutting_down
    /\ web' = [web EXCEPT !.pc = "left"]
    /\ UNCHANGED <<ctx, toc, msgs, deletes, faults>>

-----------------------------------------------------------------------------
(* The reactor thread *)

\* refused and failed I/Os are bounded together.
Fault(bad) ==
    /\ bad => faults < MaxFaults
    /\ faults' = IF bad THEN faults + 1 ELSE faults

Dispatch ==
    \E drained, refused \in BOOLEAN :
        /\ ctx.up /\ msgs # <<>>
        /\ Fault(refused)
        /\ ctx' = Dispatched(ctx, Head(msgs), drained, refused)
        /\ msgs' = Tail(msgs)
        /\ UNCHANGED <<toc, web, deletes>>

\* What the callback of an I/O does with its success or its failure.
Served(s, t, refused) ==
    CASE t.kind = "list"     -> ListRead(s, t.by, refused)
      [] t.kind = "entry"    -> EntryRead(s, t.by, refused)
      [] t.kind = "records"  -> RecordsRead(s, t.by, refused)
      [] t.kind = "delRead"  -> DeleteRead(s, t.by, refused)
      [] t.kind = "delWrite" -> Fulfill(s, t.by, "ok")
      [] t.kind = "zero"     -> FormatZeroed(s, t.by, refused)
      [] t.kind = "fmtHdr"   -> FormatHeaderDone(s, t.by)

Continued(s, t, ok, refused) ==
    CASE t.kind = "claimToc" -> ClaimTocDone(s, t.by, ok, refused)
      [] t.kind = "claimHdr" -> ClaimHeaderDone(s, t.by, ok)
      [] t.kind = "finHdr"   -> FinalizeHeaderDone(s, t.by, refused)
      [] t.kind = "finToc"   -> FinalizeTocDone(s, t.by, ok)
      [] OTHER -> IF ok THEN Served(s, t, refused) ELSE Fulfill(s, t.by, "EIO")

\* What is recorded, and what lies past the TOC, holds no entry.
BlockRead(t) ==
    IF t.kind # "records" /\ t.at \in Slots THEN toc[t.at] ELSE FreeEntry

\* The device performs an I/O, on io_buf as it is now, and its callback runs.
IoDone ==
    \E t \in ctx.io, ok, refused \in BOOLEAN :
        LET s == [ctx EXCEPT !.io = @ \ {t},
                    !.io_buf = IF ok /\ t.kind \in Reads THEN BlockRead(t)
                               ELSE @]
        IN  /\ ctx.up
            /\ ~(~ok /\ refused) /\ Fault(~ok \/ refused)
            /\ ctx' = Continued(s, t, ok, refused)
            /\ toc' = IF ok /\ t.kind \in Writes
                      THEN [toc EXCEPT ![t.at] = ctx.io_buf] ELSE toc
            /\ UNCHANGED <<msgs, web, deletes>>

\* The last data write of a stopping recording completes.
Drained ==
    \E refused \in BOOLEAN :
        /\ ctx.up /\ ctx.draining /\ Fault(refused)
        /\ ctx' = FinalizeSegment([ctx EXCEPT !.draining = FALSE],
                                  ctx.stopped_by, refused)
        /\ UNCHANGED <<toc, msgs, web, deletes>>

\* The count limit is reached, the device is full, or writes keep failing.
\* A recording that ends so, or by SIGINT, may end while a call is served;
\* without Overlap recordings end by stop calls and by a SIGINT between calls.
AutoStop ==
    \E drained, refused \in BOOLEAN :
        /\ Overlap /\ ctx.up /\ ctx.recording /\ ~ctx.stopping
        /\ Fault(refused)
        /\ ctx' = StopRecording(ctx, 0, drained, refused)
        /\ UNCHANGED <<toc, msgs, web, deletes>>

\* SIGINT
Shutdown ==
    \E drained, refused \in BOOLEAN :
        LET s == [ctx EXCEPT !.shutting_down = TRUE]
        IN  /\ ctx.up /\ ~ctx.shutting_down /\ Fault(refused)
            /\ Overlap \/ ctx.io = {}
            /\ ctx' = IF s.recording THEN StopRecording(s, 0, drained, refused)
                      ELSE [s EXCEPT !.up = FALSE]
            /\ UNCHANGED <<toc, msgs, web, deletes>>

WebThread == Accept \/ Received \/ NoCall \/ Call \/ Woken \/ TimedOut
                \/ Replied \/ Leave
Reactor   == Dispatch \/ IoDone \/ Drained

Next ==
    \/ Accept \/ Received \/ NoCall \/ Call \/ Woken \/ TimedOut
    \/ Replied \/ Leave
    \/ Dispatch \/ IoDone \/ Drained \/ AutoStop \/ Shutdown

Spec == Init /\ [][Next]_vars

\* The web thread runs, and its clocks: a poll and a timed wait end.  The
\* reactor runs, and the device answers.  Nothing makes a client send its
\* request or take its response: recv and send have no time-out.
FairSpec ==
    Spec /\ WF_vars(Call \/ Woken \/ TimedOut \/ Leave)
         /\ WF_vars(Reactor)

-----------------------------------------------------------------------------
(* Safety *)

\* What the reactor still has to do for a call of the web thread.
CallIo == {t \in ctx.io : t.by # 0}

\* The slot stays taken, and so every other call is refused, until the last
\* handler of the call it was taken for has run, whether or not the web
\* thread has given up on it.
SlotHeldWhileWorking ==
    ctx.up /\ (msgs # <<>> \/ CallIo # {}) => ctx.admin_req.busy

\* One chain at a time owns io_buf: "there's no real aliasing window to guard
\* against".
IoBufHasOneUser ==
    Cardinality({t \in ctx.io : t.kind \in Reads \cup Writes}) <= 1

\* The rc and the text the web thread sends are those of its own call.
AnswerIsOwn ==
    web.pc = "reply" =>
       /\ ctx.admin_req.from = web.call
       /\ \A k \in DOMAIN ctx.admin_req.resp :
             ctx.admin_req.resp[k].by = web.call

\* resp lists the segments below n that are claimed and not deleted, each once
\* and in the order of the TOC.
Lists(resp, n) ==
    /\ {resp[k].entry.seg : k \in DOMAIN resp} =
          {g \in 0 .. n - 1 : Listed(toc[g])}
    /\ \A j, k \in DOMAIN resp :
          j < k => resp[j].entry.seg < resp[k].entry.seg

\* A list that succeeds shows every segment there is.  (After teardown, which
\* may finalize one more, the answer is older than the TOC.)
ListIsComplete ==
    ctx.up /\ web.pc = "reply" /\ web.op = "list" /\ ctx.admin_req.rc = "ok"
    => Lists(ctx.admin_req.resp, ctx.next_segment_id)

-----------------------------------------------------------------------------
(* Action properties *)

\* Finalize rebuilds the TOC entry from nothing: it must still be the segment
\* that was claimed, recorded with the chunk size its claim wrote down.
FinalizeKeepsClaim ==
    [][\A g \in Slots :
          toc[g].state # "FINALIZED" /\ toc'[g].state = "FINALIZED" =>
             /\ toc'[g].seg = g
             /\ toc[g].state = "OPEN" => toc'[g].chunk = toc[g].chunk]_vars

\* From the claim to the end of a recording the write chunk size is fixed.
GeometryFixed ==
    [][ctx.claim_in_progress \/ ctx.recording =>
          ctx'.buf_size = ctx.buf_size]_vars

\* Only a segment an accepted call asked to delete is ever deleted: a refused
\* call leaves the request in progress as it was.
DeletesAreAccepted ==
    [][\A g \in Slots :
          toc[g].state # "DELETED" /\ toc'[g].state = "DELETED" =>
             g \in deletes]_vars

-----------------------------------------------------------------------------
(* Liveness, under FairSpec *)

\* The slot is freed in the end, also when the web thread has given up.
SlotFreed == ctx.admin_req.busy ~> (~ctx.admin_req.busy \/ ~ctx.up)

\* What the web thread may wait for without end.
AwaitsClient == web.pc \in {"recv", "reply", "send"}

\* shutting_down ends the reactor, after which nobody fulfils a request and
\* main() joins the web thread: it returns, unless one client for ever keeps
\* it in recv or send.
JoinWaitsForClientOnly ==
    [](ctx.shutting_down =>
          <>~ctx.up /\ (<>(web.pc = "left") \/ <>[]AwaitsClient))

\* "ctx->shutting_down doubles as this server's quit flag": main()'s join
\* returns.  Without the exception for a silent client this is false of the
\* code, and no run checks it.
JoinReturns == ctx.shutting_down ~> (~ctx.up /\ web.pc = "left")
=============================================================================
