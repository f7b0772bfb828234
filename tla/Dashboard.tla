----------------------------- MODULE Dashboard -----------------------------
(***************************************************************************)
(* The dashboard page and the daemon as it sees it.  The page's timers and *)
(* buttons send fetches; several are under way at once, the server handles *)
(* them one by one, and their answers come back in any order, late, or not *)
(* at all.  Each answer overwrites what the page shows.                    *)
(*                                                                         *)
(* Of the settings the write chunk size stands for the three that have an  *)
(* input, a touched mark and a button (local IP, write buffers, write      *)
(* chunk).  The has-seq box, which sends as it is changed and loses its    *)
(* mark with any answer, and the port, whose mark is never taken away, are *)
(* left out.  The daemon's inside is modules AdminBridge's and Recorder's: *)
(* here a call succeeds, is refused, or times out, done or not.            *)
(*                                                                         *)
(* A definition that stands just before another it resembles is a fault    *)
(* the runs must notice.                                                   *)
(***************************************************************************)
EXTENDS Naturals, Sequences, FiniteSets

CONSTANTS
    ChunkSizes,     \* write chunk sizes
    Polls, Lists, Posts,    \* fetches of /status.json and of /segments.json, and
                            \* posts, under way at once
    SegmentSlots,
    FormatTwice,    \* the user formats again while a format is under way
    MaxClicks, MaxFaults    \* bounds of the model

ASSUME DashboardAssumption ==
    /\ {Polls, Lists, Posts, SegmentSlots} \subseteq Nat \ {0}
    /\ FormatTwice \in BOOLEAN
    /\ {MaxClicks, MaxFaults} \subseteq Nat /\ ChunkSizes # {}

VARIABLES
    daemon,     \* recording, segments, write_chunk, the call it is late with
    page,       \* the page's variables and what its elements show
    net,        \* the fetches under way
    load        \* how much of each bound is used

vars == <<daemon, page, net, load>>

-----------------------------------------------------------------------------
Idle == [url |-> "", arg |-> 0]     \* the daemon is late with nothing

Row == [segment_id : 0 .. SegmentSlots - 1, state : {"open", "finalized", "deleted"}]

\* admin_do_segments_list
Listed(include_deleted) ==
    {r \in Row : /\ r.segment_id < Len(daemon.segments)
                 /\ r.state = daemon.segments[r.segment_id + 1]
                 /\ r.state # "deleted" \/ include_deleted}

\* A fetch: what it asks, and what has become of it.  arg is the chunk size
\* or the segment; with_deleted the list's parameter; orig_label what the
\* format's handler has put aside.  result: JSON, an error in JSON, text that
\* is not JSON (a time-out), or no response.
Asks(kind) ==
    CASE kind = "post" -> {"start", "stop", "format", "chunk", "delete"}
      [] OTHER -> {kind}

Kinds == ({"status"} \X (1 .. Polls)) \cup ({"segments"} \X (1 .. Lists))
            \cup ({"post"} \X (1 .. Posts))

UnderWay(url) == \E k \in DOMAIN net : net[k].url = url

Labels == {"Quick format", "Formatting..."}

Page ==
    [hstatus : {"", "live", "connection lost"}, recording : BOOLEAN,
     wt_chunk : ChunkSizes, in_chunk : ChunkSizes, touched : BOOLEAN,
     rows : SUBSET Row, seg_empty : BOOLEAN, show_deleted : BOOLEAN,
     btn_format : Labels, format_disabled : BOOLEAN]

-----------------------------------------------------------------------------
(* What an answer does to the page *)

Update(pg, f) ==
    [pg EXCEPT !.hstatus = "live", !.recording = f.recording,
               !.wt_chunk = f.write_chunk, !.format_disabled = f.recording,
               !.in_chunk = IF pg.touched THEN @ ELSE f.write_chunk]

\* An error has no segments, and is shown as a volume that has none.
ShowSegments(pg, f) ==
    LET rows == IF f.result = "ok" THEN f.rows ELSE {}
    IN  [pg EXCEPT !.rows = rows, !.seg_empty = (rows = {})]

\* postAdmin and what its caller adds.  A time-out is not told from success:
\* the mark goes, and the next status overwrites what was typed.
PostedForgettingFormat(pg, f) ==
    CASE f.url = "chunk" /\ f.result \in {"ok", "text"} ->
           [pg EXCEPT !.touched = FALSE]
      [] f.url = "format" /\ f.result # "none" ->
           [pg EXCEPT !.btn_format = f.orig_label,
                     !.format_disabled = pg.recording]
      [] OTHER -> pg

Posted(pg, f) ==
    CASE f.url = "chunk" /\ f.result \in {"ok", "text"} ->
           [pg EXCEPT !.touched = FALSE]
      [] f.url = "format" ->
           [pg EXCEPT !.btn_format = f.orig_label,
                     !.format_disabled = pg.recording]
      [] OTHER -> pg

\* The handlers of a fetch.  A list that is no JSON or never came changes
\* nothing, nor does the answer to a delete.
Handled(pg, f) ==
    CASE f.url = "status" -> IF f.result = "ok" THEN Update(pg, f)
                             ELSE [pg EXCEPT !.hstatus = "connection lost"]
      [] f.url = "segments" -> IF f.result \in {"ok", "error"}
                               THEN ShowSegments(pg, f) ELSE pg
      [] OTHER -> Posted(pg, f)

-----------------------------------------------------------------------------
(* The page's own steps *)

Asked(url, arg, with_deleted) ==
    [url |-> url, arg |-> arg, with_deleted |-> with_deleted,
     orig_label |-> IF url = "format" THEN page.btn_format ELSE "Quick format",
     answered |-> FALSE, result |-> "",
     recording |-> FALSE, write_chunk |-> 0, rows |-> {}]

Free(kind) == {k \in Kinds : k[1] = kind /\ k \notin DOMAIN net}

\* fetch, where one more of its kind may be under way.
Send(kind, url, arg, with_deleted) ==
    /\ Free(kind) # {} /\ url \in Asks(kind)
    /\ LET k == CHOOSE j \in Free(kind) : \A i \in Free(kind) : j[2] <= i[2]
       IN  net' = [j \in DOMAIN net \cup {k} |->
                     IF j = k THEN Asked(url, arg, with_deleted) ELSE net[j]]

Init ==
    /\ \E n \in 0 .. SegmentSlots : LET chunk == CHOOSE c \in ChunkSizes : TRUE IN
          /\ daemon = [recording |-> FALSE, write_chunk |-> chunk, late |-> Idle,
                       segments |-> [i \in 1 .. n |-> "finalized"]]
          /\ page = [hstatus |-> "", recording |-> FALSE, wt_chunk |-> chunk,
                     in_chunk |-> chunk, touched |-> FALSE, rows |-> {},
                     seg_empty |-> FALSE, show_deleted |-> FALSE,
                     btn_format |-> "Quick format", format_disabled |-> FALSE]
    /\ net = <<>>
    /\ load = [clicks |-> 0, faults |-> 0]

\* setInterval(poll, 1000)
Poll == Send("status", "status", 0, FALSE) /\ UNCHANGED <<daemon, page, load>>

\* setInterval(loadSegments, 2000), and the reloads after a post: all may come
\* at any time.
LoadSegments ==
    /\ Send("segments", "segments", 0, page.show_deleted)
    /\ UNCHANGED <<daemon, page, load>>

Click == /\ load.clicks < MaxClicks
         /\ load' = [load EXCEPT !.clicks = @ + 1]
         /\ UNCHANGED daemon

\* The 'input' listener of a field.
Type ==
    \E chunk \in ChunkSizes \ {page.in_chunk} :
        /\ Click /\ ~page.recording
        /\ page' = [page EXCEPT !.in_chunk = chunk, !.touched = TRUE]
        /\ UNCHANGED net

SetChunk ==
    /\ Click /\ ~page.recording
    /\ Send("post", "chunk", page.in_chunk, FALSE)
    /\ UNCHANGED page

StartClicked ==
    /\ Click /\ ~page.recording
    /\ Send("post", "start", 0, FALSE)
    /\ UNCHANGED page

StopClicked ==
    /\ Click /\ page.recording
    /\ Send("post", "stop", 0, FALSE)
    /\ UNCHANGED page

QuickFormatClicked ==
    /\ Click /\ ~page.format_disabled /\ ~page.recording
    /\ UnderWay("format") => FormatTwice
    /\ Send("post", "format", 0, FALSE)
    /\ page' = [page EXCEPT !.btn_format = "Formatting...", !.format_disabled = TRUE]

DeleteClicked ==
    \E r \in page.rows :
        /\ Click
        /\ Send("post", "delete", r.segment_id, FALSE)
        /\ UNCHANGED page

ShowDeletedChanged ==
    /\ Click
    /\ Send("segments", "segments", 0, ~page.show_deleted)
    /\ page' = [page EXCEPT !.show_deleted = ~@]

-----------------------------------------------------------------------------
(* The daemon and the network *)

\* A call that timed out holds the slot until the daemon is done with it.
Refuses(f) ==
    \/ f.url # "status" /\ daemon.late # Idle
    \/ f.url \in {"start", "format", "chunk"} /\ daemon.recording
    \/ f.url = "start" /\ Len(daemon.segments) >= SegmentSlots
    \/ f.url = "stop" /\ ~daemon.recording
    \/ f.url = "delete" /\ (\/ f.arg >= Len(daemon.segments)
                            \/ daemon.recording /\ f.arg = Len(daemon.segments) - 1)

Done(f) ==
    CASE f.url = "start"  -> [daemon EXCEPT !.recording = TRUE,
                                            !.segments = Append(@, "open")]
      [] f.url = "stop"   -> [daemon EXCEPT !.recording = FALSE,
                                !.segments[Len(daemon.segments)] = "finalized"]
      [] f.url = "format" -> [daemon EXCEPT !.segments = <<>>]
      [] f.url = "chunk"  -> [daemon EXCEPT !.write_chunk = f.arg]
      [] f.url = "delete" -> [daemon EXCEPT !.segments[f.arg + 1] = "deleted"]
      [] OTHER -> daemon

\* send_admin_result, render_status_json
Answered(k, result) ==
    net' = LET f == net[k] IN
      [net EXCEPT ![k] =
         [f EXCEPT !.answered = TRUE, !.result = result,
            !.recording = f.url = "status" /\ result = "ok" /\ daemon.recording,
            !.write_chunk = IF f.url = "status" /\ result = "ok"
                            THEN daemon.write_chunk ELSE 0,
            !.rows = IF f.url = "segments" /\ result = "ok"
                     THEN Listed(f.with_deleted) ELSE {}]]

Waiting(k) == k \in DOMAIN net /\ ~net[k].answered

\* handle_connection, and the daemon that answers in time.
Answer(k) ==
    /\ Waiting(k)
    /\ IF Refuses(net[k]) THEN Answered(k, "error") /\ UNCHANGED daemon
       ELSE Answered(k, "ok") /\ daemon' = Done(net[k])
    /\ UNCHANGED <<page, load>>

Fault == /\ load.faults < MaxFaults
         /\ load' = [load EXCEPT !.faults = @ + 1]
         /\ UNCHANGED page

\* The device fails, or the connection breaks before the daemon has acted.
Fails(k) ==
    \E result \in {"error", "none"} :
        /\ Fault /\ Waiting(k) /\ (net[k].url = "status" => result = "none")
        /\ Answered(k, result)
        /\ UNCHANGED daemon

\* The connection breaks after the daemon has acted.
AnswerLost(k) ==
    /\ Fault /\ Waiting(k) /\ ~Refuses(net[k])
    /\ Answered(k, "none")
    /\ daemon' = Done(net[k])

\* The web thread gives up; the daemon acts later.
TimesOut(k) ==
    /\ Fault /\ Waiting(k) /\ net[k].url # "status" /\ ~Refuses(net[k])
    /\ Answered(k, "text")
    /\ daemon' = [daemon EXCEPT !.late = [url |-> net[k].url, arg |-> net[k].arg]]

ActsLate ==
    /\ daemon.late # Idle
    /\ daemon' = [(IF daemon.late.url # "stop" \/ daemon.recording
                   THEN Done(daemon.late) ELSE daemon) EXCEPT !.late = Idle]
    /\ UNCHANGED <<page, net, load>>

\* The answer reaches the page: its handlers run.
Arrives(k) ==
    /\ k \in DOMAIN net /\ net[k].answered
    /\ page' = Handled(page, net[k])
    /\ net' = [j \in DOMAIN net \ {k} |-> net[j]]
    /\ UNCHANGED <<daemon, load>>

\* The recording ends by itself.
StopsItself ==
    /\ daemon.recording
    /\ daemon' = [daemon EXCEPT !.recording = FALSE,
                    !.segments[Len(daemon.segments)] = "finalized"]
    /\ UNCHANGED <<page, net, load>>

Next ==
    \/ Poll \/ LoadSegments
    \/ Type \/ SetChunk \/ StartClicked \/ StopClicked \/ QuickFormatClicked
    \/ DeleteClicked \/ ShowDeletedChanged
    \/ \E k \in Kinds : \/ Answer(k) \/ Fails(k) \/ AnswerLost(k) \/ TimesOut(k)
                         \/ Arrives(k)
    \/ ActsLate \/ StopsItself

Spec == Init /\ [][Next]_vars

\* The timers go off, a request is answered, an answer arrives, and the daemon
\* comes to an end with a call it is late with (AdminBridge's SlotFreed).  That
\* every request is answered presumes that no other client keeps the server's
\* one thread to itself, as AdminBridge shows that one can.
FairSpec ==
    /\ Spec
    /\ WF_vars(Poll) /\ WF_vars(LoadSegments) /\ WF_vars(ActsLate)
    /\ \A k \in Kinds : WF_vars(Answer(k)) /\ WF_vars(Arrives(k))

-----------------------------------------------------------------------------
(* Properties *)

\* The format button says so exactly while a format is under way: whatever is
\* refused, times out or gets lost, and whatever status or list is answered
\* meanwhile, the button comes back with the answer and not before.
ButtonTellsFormat == page.btn_format = "Formatting..." <=> UnderWay("format")

Current ==
    /\ page.hstatus = "live" /\ page.recording = daemon.recording
    /\ page.wt_chunk = daemon.write_chunk
    /\ ~page.touched => page.in_chunk = daemon.write_chunk
    /\ page.rows = Listed(page.show_deleted) /\ page.seg_empty = (page.rows = {})
    /\ page.btn_format = "Quick format" /\ page.format_disabled = daemon.recording

\* Once nobody clicks and nothing fails any more, the page comes to show the
\* daemon as it is and stays so: no late answer, lost response or error of
\* before leaves a wrong table, a wrong setting or a dead button behind.
PageCatchesUp == <>[]Current
=============================================================================
