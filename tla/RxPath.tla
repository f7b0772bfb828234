------------------------------- MODULE RxPath -------------------------------
(***************************************************************************)
(* The way of a frame through the recorder: the NIC fills an mbuf of the   *)
(* pool, capture_poll takes bursts of them from the RX ring, the responder *)
(* answers what is asked of this host, and what is left is parsed and      *)
(* recorded, or freed.  Every mbuf must come back to the pool.             *)
(*                                                                         *)
(* Buffers and the device are module Recorder's: here a record fits, meets *)
(* a busy buffer, or finds the device full, whichever the environment      *)
(* likes.  One call of capture_poll is one step, as the reactor runs it.   *)
(*                                                                         *)
(* A definition that stands just before another it resembles is a fault    *)
(* the runs must notice.                                                   *)
(***************************************************************************)
EXTENDS PacketFormat, Sequences, FiniteSetsExt

CONSTANTS
    Frames,         \* what may arrive
    Ports,          \* UDP ports a recording may be started for
    CountLimits,    \* record counts it may be limited to; 0: none
    ChunkBytes,     \* buf_size
    NumMbufs,       \* NUM_MBUFS
    RxRing, TxRing, BurstSize,
    MaxFrames, MaxSessions, MaxSettings     \* bounds of the model

ASSUME RxPathAssumption ==
    /\ {NumMbufs, RxRing, TxRing, BurstSize} \subseteq Nat \ {0}
    /\ {ChunkBytes, MaxFrames, MaxSessions, MaxSettings} \subseteq Nat
    /\ CountLimits \subseteq Nat /\ Ports \subseteq Nat /\ Frames \subseteq Frame

VARIABLES
    rx,     \* the part of app_context_t capture_poll works with, and the mbufs
    load    \* how much of each bound is used

vars == <<rx, load>>

RecHdrLen == 32     \* sizeof(struct chrono_record_hdr)

\* A frame in an mbuf, numbered as it arrived.
Mbuf == [n : 1 .. MaxFrames, f : Frames]

Record == [n : 1 .. MaxFrames, f : Frames, seq : Nat, at : Nat, len : Nat,
           with_seq : BOOLEAN]

\* Replies keep the request they answer, a history field.
Sent == [n : 1 .. MaxFrames, asked : Frames, f : Frame]

TypeOK ==
    /\ rx \in [serve : BOOLEAN, recording : BOOLEAN, stopping : BOOLEAN,
               wire_has_seq : BOOLEAN, have_local_ip : BOOLEAN,
               udp_port : Ports, count_limit : CountLimits,
               record_count : 0 .. MaxFrames, dropped_count : 0 .. MaxFrames,
               records : Seq(Record),
               pool : 0 .. NumMbufs, ring : Seq(Mbuf), tx : Seq(Sent),
               lost : 0 .. NumMbufs, rest : BOOLEAN]
    /\ Len(rx.ring) <= RxRing /\ Len(rx.tx) <= TxRing
    /\ load \in [frames : 0 .. MaxFrames, sessions : 0 .. MaxSessions,
                 settings : 0 .. MaxSettings, stops : Nat]

-----------------------------------------------------------------------------
(* capture_poll *)

\* rte_pktmbuf_free
Freed(s) == [s EXCEPT !.pool = @ + 1]

Drop(s) == Freed([s EXCEPT !.dropped_count = @ + 1])

\* tx_or_free
AnswerAndFree(s, m) ==
    IF Len(s.tx) < TxRing
    THEN Freed([s EXCEPT !.tx = Append(@, [n |-> m.n, asked |-> m.f, f |-> Reply(m.f)])])
    ELSE Freed(s)

AnswerUnchecked(s, m) ==
    [s EXCEPT !.tx = Append(@, [n |-> m.n, asked |-> m.f, f |-> Reply(m.f)])]

Answer(s, m) ==
    IF Len(s.tx) < TxRing
    THEN [s EXCEPT !.tx = Append(@, [n |-> m.n, asked |-> m.f, f |-> Reply(m.f)])]
    ELSE Freed(s)

\* daemon_stop_recording or begin_shutdown, then the break: rest says that the
\* loop was left, and what follows in the burst is neither looked at nor freed.
StopAndLeave(s) == [s EXCEPT !.stopping = TRUE, !.rest = TRUE]

\* The limit stops the recording, but the loop goes on.
RecordOn(s, m, p) ==
    LET t == Freed([s EXCEPT !.record_count = @ + 1,
                !.records = Append(@, [n |-> m.n, f |-> m.f, seq |-> s.record_count,
                                       at |-> p.at, len |-> p.payload_len,
                                       with_seq |-> s.wire_has_seq])])
    IN  IF t.count_limit # 0 /\ t.record_count >= t.count_limit
        THEN [t EXCEPT !.stopping = TRUE] ELSE t

\* seq counts from 0; the record that reaches the limit ends the recording.
RecordFrame(s, m, p) ==
    LET t == Freed([s EXCEPT !.record_count = @ + 1,
                !.records = Append(@, [n |-> m.n, f |-> m.f, seq |-> s.record_count,
                                       at |-> p.at, len |-> p.payload_len,
                                       with_seq |-> s.wire_has_seq])])
    IN  IF t.count_limit # 0 /\ t.record_count >= t.count_limit
        THEN StopAndLeave(t) ELSE t

\* room: what the buffers and the device have for the record.
Room == {"fits", "busy", "full"}

\* One turn of the loop.
Handle(s, m, room) ==
    LET p == Parse(m.f, s.wire_has_seq)
    IN  CASE s.rest -> [s EXCEPT !.lost = @ + 1]
          [] ~s.rest /\ s.have_local_ip /\ IsRequest(m.f) -> Answer(s, m)
          [] OTHER ->
             IF \/ s.serve /\ (s.stopping \/ ~s.recording)
                \/ ~p.ok \/ p.dst_port # s.udp_port
             THEN Freed(s)
             ELSE CASE room = "full" -> StopAndLeave(Drop(s))
                    [] room = "busy" -> Drop(s)
                    [] room = "fits" -> IF RecHdrLen + p.payload_len > ChunkBytes
                                        THEN Drop(s) ELSE RecordFrame(s, m, p)

-----------------------------------------------------------------------------
(* Actions *)

Init ==
    /\ \E serve \in BOOLEAN, with_seq \in BOOLEAN, have_ip \in BOOLEAN,
          port \in Ports, limit \in CountLimits :
          rx = [serve |-> serve, recording |-> ~serve, stopping |-> FALSE,
                wire_has_seq |-> with_seq, have_local_ip |-> have_ip,
                udp_port |-> port, count_limit |-> limit,
                record_count |-> 0, dropped_count |-> 0, records |-> <<>>,
                pool |-> NumMbufs, ring |-> <<>>, tx |-> <<>>,
                lost |-> 0, rest |-> FALSE]
    /\ load = [frames |-> 0, sessions |-> 0, settings |-> 0, stops |-> 0]

\* The NIC; without an mbuf or a descriptor it misses the frame.
Arrive ==
    \E f \in Frames :
        /\ load.frames < MaxFrames
        /\ rx.pool > 0 /\ Len(rx.ring) < RxRing
        /\ rx' = [rx EXCEPT !.pool = @ - 1,
                            !.ring = Append(@, [n |-> load.frames + 1, f |-> f])]
        /\ load' = [load EXCEPT !.frames = @ + 1]

\* A CLI capture unregisters its poller when it stops, a daemon keeps it.
CapturePoll ==
    LET nb_rx == Min({BurstSize, Len(rx.ring)})
        taken == [rx EXCEPT !.ring = SubSeq(@, nb_rx + 1, Len(@)), !.rest = FALSE]
    IN  \E room \in [1 .. nb_rx -> Room] :
          LET after[i \in 0 .. nb_rx] ==
                IF i = 0 THEN taken ELSE Handle(after[i - 1], rx.ring[i], room[i])
          IN  /\ nb_rx > 0 /\ (rx.serve \/ ~rx.stopping)
              /\ rx' = after[nb_rx]
              /\ load' = [load EXCEPT !.stops =
                            @ + IF after[nb_rx].rest THEN 1 ELSE 0]

\* The NIC has sent a reply and its mbuf is freed.
Transmitted ==
    /\ rx.tx # <<>>
    /\ rx' = Freed([rx EXCEPT !.tx = Tail(@)])
    /\ UNCHANGED load

\* admin_do_recording_start, and the claim it leads to.
RecordingStart ==
    \E port \in Ports, limit \in CountLimits :
        /\ rx.serve /\ ~rx.recording /\ load.sessions < MaxSessions
        /\ rx' = [rx EXCEPT !.udp_port = port, !.count_limit = limit,
                            !.recording = TRUE, !.stopping = FALSE,
                            !.record_count = 0, !.dropped_count = 0,
                            !.records = <<>>]
        /\ load' = [load EXCEPT !.sessions = @ + 1]

\* admin_do_recording_stop or SIGINT; a second stop changes nothing.
RecordingStop ==
    /\ rx.recording /\ ~rx.stopping
    /\ rx' = [rx EXCEPT !.stopping = TRUE]
    /\ UNCHANGED load

\* The segment is finalized.
Finalized ==
    /\ rx.recording /\ rx.stopping
    /\ rx' = [rx EXCEPT !.recording = FALSE]
    /\ UNCHANGED load

\* admin_do_wire_has_seq: refused while recording.
SetWireHasSeqAnyTime ==
    /\ rx.serve /\ load.settings < MaxSettings
    /\ rx' = [rx EXCEPT !.wire_has_seq = ~@]
    /\ load' = [load EXCEPT !.settings = @ + 1]

SetWireHasSeq ==
    /\ rx.serve /\ ~rx.recording /\ load.settings < MaxSettings
    /\ rx' = [rx EXCEPT !.wire_has_seq = ~@]
    /\ load' = [load EXCEPT !.settings = @ + 1]

\* admin_do_set_local_ip: at any time; the next packet meets it.
SetLocalIp ==
    /\ rx.serve /\ load.settings < MaxSettings
    /\ rx' = [rx EXCEPT !.have_local_ip = ~@]
    /\ load' = [load EXCEPT !.settings = @ + 1]

Next ==
    \/ Arrive \/ CapturePoll \/ Transmitted
    \/ RecordingStart \/ RecordingStop \/ Finalized
    \/ SetWireHasSeq \/ SetLocalIp

Spec == Init /\ [][Next]_vars

-----------------------------------------------------------------------------
(* Safety *)

\* Every mbuf is in one place - the pool, the RX ring, the TX ring - or was
\* lost by the break of a capture_poll that stopped a recording, which loses
\* at most the rest of one burst.
MbufsAccounted ==
    /\ rx.pool + Len(rx.ring) + Len(rx.tx) + rx.lost = NumMbufs
    /\ rx.lost <= load.stops * (BurstSize - 1)

\* The records of a session are frames for its port, in the order in which
\* they arrived, none twice, numbered from 0 without a gap, and no more than
\* its limit.  Each holds bytes of its own frame only - and of a frame a
\* sender built in the form the recorder expects, exactly the payload with
\* its padding.
RecordsAreSent ==
    /\ rx.record_count = Len(rx.records)
    /\ rx.count_limit # 0 => rx.record_count <= rx.count_limit
    /\ \A k \in DOMAIN rx.records :
          LET r == rx.records[k]
          IN  /\ r.seq = k - 1 /\ (k > 1 => r.n > rx.records[k - 1].n)
              /\ r.f.dst_port = rx.udp_port
              /\ r.at + r.len <= r.f.len
              /\ r.with_seq = rx.wire_has_seq \/ ~rx.recording
              /\ r.f.sent # NotSent /\ r.f.sent.with_seq = r.with_seq =>
                    r.len = r.f.sent.payload_len /\ r.at = HdrLen(r.with_seq)

\* A frame that leaves is the answer to a request for this host, and goes to
\* whoever asked: from the asker's point of view every address is turned round.
RepliesReachAsker ==
    \A k \in DOMAIN rx.tx :
       LET q == rx.tx[k].asked
           f == rx.tx[k].f
       IN  /\ q.dst_ip = LocalIp /\ q.op \in {"arpRequest", "echoRequest"}
           /\ f.eth_dst = q.eth_src /\ f.eth_src = LocalMac
           /\ f.dst_ip = q.src_ip /\ f.src_ip = LocalIp /\ f.len = q.len
           /\ f.op = IF q.op = "arpRequest" THEN "arpReply" ELSE "echoReply"
           /\ f.type = "arp" => f.sha = LocalMac /\ f.tha = q.sha
=============================================================================
