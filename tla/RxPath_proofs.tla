---------------------------- MODULE RxPath_proofs ----------------------------
(***************************************************************************)
(* The way of a frame through the recorder, for every value of the         *)
(* constants: whatever arrives, in bursts of whatever size, every mbuf is  *)
(* accounted for, every record is of a frame that was sent to the recorded *)
(* port and every reply goes to its asker.                                 *)
(*                                                                         *)
(* One capture_poll is as many turns of its loop as the burst has frames,  *)
(* so its part of the proof is an induction over those turns: Burst is     *)
(* what holds after each.  Induction is had from the fact that < is well   *)
(* founded on the naturals (Least, Climb).                                 *)
(***************************************************************************)
EXTENDS RxPath, SequenceTheorems, WellFoundedInduction, TLAPS

-----------------------------------------------------------------------------
(* What parser and responder guarantee for every frame, of any length and  *)
(* with any lengths in its headers                                         *)

HeaderLengths == EthHdrLen = 14 /\ Ipv4HdrLen = 20 /\ UdpHdrLen = 8 /\ SeqLen = 8

LEMMA Lengths == HeaderLengths
  BY DEF HeaderLengths, EthHdrLen, Ipv4HdrLen, UdpHdrLen, SeqLen

\* capture_poll copies payload_len bytes from where app_parse_packet says the
\* payload starts: whatever a frame's headers declare, these bytes are the
\* frame's own, after all its headers.
THEOREM PayloadInFrame ==
  ASSUME NEW f, f.len \in Nat, f.ihl \in Nat, f.udp_len \in Nat,
         NEW with_seq \in BOOLEAN, Parse(f, with_seq).ok
  PROVE  LET p == Parse(f, with_seq)
         IN  /\ p.at \in Nat /\ p.payload_len \in Nat
             /\ p.at >= HdrLen(with_seq)
             /\ p.at + p.payload_len <= f.len
<1> DEFINE seq_len == IF with_seq THEN SeqLen ELSE 0
           udp == EthHdrLen + f.ihl * 4
           ours == /\ f.len >= EthHdrLen + Ipv4HdrLen
                   /\ f.type = "ipv4" /\ f.version = 4 /\ f.proto = "udp"
                   /\ f.ihl * 4 >= Ipv4HdrLen /\ f.len >= udp + UdpHdrLen
                   /\ f.udp_len >= UdpHdrLen + seq_len
                   /\ udp + f.udp_len <= f.len
<1>2. seq_len \in {0, 8}
  BY Lengths DEF HeaderLengths
<1>3. ours
  BY DEF Parse, NotOurs
<1>4. /\ Parse(f, with_seq).at = udp + UdpHdrLen + seq_len
      /\ Parse(f, with_seq).payload_len = f.udp_len - UdpHdrLen - seq_len
  BY <1>3 DEF Parse
<1>5. HdrLen(with_seq) = 42 + seq_len
  BY Lengths DEF HdrLen, HeaderLengths
<1> HIDE DEF seq_len
<1>6. QED
  BY <1>2, <1>3, <1>4, <1>5, Lengths DEF HeaderLengths

\* A frame that app_build_packet made, padding included, parses to the payload
\* it carries, when both sides agree on the sequence number and the lengths
\* fit their 16 bits: a parser that dropped the padding, or a builder that did
\* not declare it, would contradict this.
THEOREM BuiltParses ==
  ASSUME NEW total \in Nat, NEW payload_len \in Nat, NEW payload,
         NEW dst_port, NEW with_seq \in BOOLEAN,
         Fits(total, payload_len, with_seq), total - EthHdrLen < 65536
  PROVE  LET p == Parse(Built(total, dst_port, with_seq, payload, payload_len),
                        with_seq)
         IN  /\ p.ok /\ p.dst_port = dst_port /\ p.at = HdrLen(with_seq)
             /\ p.payload_len = total - HdrLen(with_seq)
<1> DEFINE seq_len == IF with_seq THEN SeqLen ELSE 0
           f == Built(total, dst_port, with_seq, payload, payload_len)
<1>1. seq_len \in {0, 8}
  BY Lengths DEF HeaderLengths
<1>2. HdrLen(with_seq) = 42 + seq_len
  BY Lengths DEF HdrLen, HeaderLengths
<1>3. total >= 42 + seq_len
  BY <1>1, <1>2 DEF Fits
<1>4. /\ f.len = total /\ f.type = "ipv4" /\ f.version = 4 /\ f.ihl = 5
      /\ f.proto = "udp" /\ f.dst_port = dst_port
      /\ f.udp_len = Be16(total - EthHdrLen - Ipv4HdrLen)
  BY DEF Built, NoFrame
<1> HIDE DEF f, seq_len
<1>5. f.udp_len = total - 34
  <2>1. total - 34 \in Nat /\ total - 34 < 65536
    BY <1>1, <1>3, Lengths DEF HeaderLengths
  <2>2. (total - 34) % 65536 = total - 34
    BY <2>1
  <2>3. QED
    BY <1>4, <2>2, Lengths DEF Be16, HeaderLengths
<1>6. /\ f.len >= EthHdrLen + Ipv4HdrLen /\ f.ihl * 4 >= Ipv4HdrLen
      /\ f.len >= EthHdrLen + f.ihl * 4 + UdpHdrLen
      /\ f.udp_len >= UdpHdrLen + seq_len
      /\ EthHdrLen + f.ihl * 4 + f.udp_len <= f.len
  BY <1>1, <1>3, <1>4, <1>5, Lengths DEF HeaderLengths
<1>7. /\ EthHdrLen + f.ihl * 4 + UdpHdrLen + seq_len = HdrLen(with_seq)
      /\ f.udp_len - UdpHdrLen - seq_len = total - HdrLen(with_seq)
  BY <1>1, <1>2, <1>4, <1>5, Lengths DEF HeaderLengths
<1>8. /\ Parse(f, with_seq).ok /\ Parse(f, with_seq).dst_port = f.dst_port
      /\ Parse(f, with_seq).at = EthHdrLen + f.ihl * 4 + UdpHdrLen + seq_len
      /\ Parse(f, with_seq).payload_len = f.udp_len - UdpHdrLen - seq_len
  BY <1>4, <1>6 DEF Parse, seq_len
<1>9. Parse(f, with_seq).dst_port = dst_port
  BY <1>4, <1>8
<1>10. Parse(f, with_seq).at = HdrLen(with_seq)
  BY <1>7, <1>8
<1>11. Parse(f, with_seq).payload_len = total - HdrLen(with_seq)
  BY <1>7, <1>8
<1>12. QED
  BY <1>8, <1>9, <1>10, <1>11 DEF f

\* The reply the responder leaves in the request's own mbuf goes to whoever
\* asked and comes from this host, though it is written over the addresses it
\* is made from; and it never is a request that a second responder, or this
\* one, would answer again.
THEOREM ReplyTurnsRound ==
  ASSUME NEW q, IsRequest(q),
         {"type", "eth_src", "eth_dst", "src_ip", "dst_ip", "sha", "tha", "op"}
            \subseteq DOMAIN q
  PROVE  LET f == Reply(q)
         IN  /\ f.eth_dst = q.eth_src /\ f.eth_src = LocalMac
             /\ f.dst_ip = q.src_ip /\ f.src_ip = LocalIp
             /\ f.type = "arp" => f.sha = LocalMac /\ f.tha = q.sha
             /\ ~IsRequest(f)
<1>1. CASE IsArpRequest(q)
  <2> DEFINE f == ArpReply(q)
  <2>1. /\ f.eth_dst = q.eth_src /\ f.eth_src = LocalMac
        /\ f.dst_ip = q.src_ip /\ f.src_ip = LocalIp
        /\ f.sha = LocalMac /\ f.tha = q.sha
        /\ f.type = "arp" /\ f.op = "arpReply"
    BY <1>1, Zenon DEF ArpReply, Returned, IsArpRequest
  <2>2. ~IsRequest(f)
    BY <2>1 DEF IsRequest, IsArpRequest, IsEchoRequest
  <2>3. QED
    BY <1>1, <2>1, <2>2 DEF Reply
<1>2. CASE ~IsArpRequest(q) /\ IsEchoRequest(q)
  <2> DEFINE f == EchoReply(q)
  <2>1. /\ f.eth_dst = q.eth_src /\ f.eth_src = LocalMac
        /\ f.dst_ip = q.src_ip /\ f.src_ip = q.dst_ip
        /\ f.type = "ipv4" /\ f.op = "echoReply" /\ q.dst_ip = LocalIp
    BY <1>2, Zenon DEF EchoReply, Returned, IsEchoRequest
  <2>2. ~IsRequest(f)
    BY <2>1 DEF IsRequest, IsArpRequest, IsEchoRequest
  <2>3. QED
    BY <1>2, <2>1, <2>2 DEF Reply
<1>3. QED
  BY <1>1, <1>2 DEF IsRequest

-----------------------------------------------------------------------------
(* Induction *)

LEMMA Least ==
    ASSUME NEW T \in SUBSET Nat, T # {}
    PROVE  \E m \in T : \A k \in T : m <= k
<1> DEFINE R == {ss \in Nat \X Nat : ss[1] < ss[2]}
<1>1. IsWellFoundedOn(R, Nat) BY NatLessThanWellFounded DEF OpToRel
<1>2. \A x, y \in Nat : <<y, x>> \in R <=> y < x OBVIOUS
<1> HIDE DEF R
<1>3. PICK m \in T : \A k \in T : ~(<<k, m>> \in R) BY <1>1, WFMin
<1>4. ASSUME NEW k \in T PROVE m <= k
  <2>1. m \in Nat /\ k \in Nat OBVIOUS
  <2>2. ~(k < m) BY <1>2, <1>3, <2>1
  <2>3. QED BY <2>1, <2>2
<1>5. QED BY <1>4

\* Induction up to n, over a set.
LEMMA Climb ==
    ASSUME NEW n \in Nat, NEW S, 0 \in S,
           \A i \in 0 .. n - 1 : i \in S => i + 1 \in S
    PROVE  \A i \in 0 .. n : i \in S
<1> DEFINE T == {i \in 0 .. n : i \notin S}
<1>1. SUFFICES ASSUME T # {} PROVE FALSE OBVIOUS
<1>2. T \in SUBSET Nat OBVIOUS
<1>3. PICK m \in T : \A k \in T : m <= k BY <1>1, <1>2, Least
<1>4. m \in 0 .. n /\ m # 0 /\ m \notin S BY <1>3
<1>5. m - 1 \in 0 .. n - 1 /\ ~(m <= m - 1) BY <1>4
<1>6. m - 1 \in 0 .. n /\ m - 1 + 1 = m BY <1>4
<1>7. m - 1 \in S BY <1>3, <1>5, <1>6
<1>8. QED BY <1>4, <1>5, <1>6, <1>7

\* f holds the states after each of n turns of capture_poll's loop.
Turns(f, n, s, ring, room) ==
    f = [i \in 0 .. n |->
           IF i = 0 THEN s ELSE Handle(f[i - 1], ring[i], room[i])]

LEMMA TurnsExist ==
    ASSUME NEW n \in Nat, NEW s, NEW ring, NEW room
    PROVE  \E f : Turns(f, n, s, ring, room)
<1> DEFINE Is(f, m) == f = [i \in 0 .. m |->
              IF i = 0 THEN s ELSE Handle(f[i - 1], ring[i], room[i])]
           S == {m \in 0 .. n : \E f : Is(f, m)}
<1>1. 0 \in S
  <2> DEFINE f == [i \in 0 .. 0 |-> s]
  <2>1. f = [i \in 0 .. 0 |->
              IF i = 0 THEN s ELSE Handle(f[i - 1], ring[i], room[i])]
    OBVIOUS
  <2>2. Is(f, 0) BY <2>1
  <2> HIDE DEF f, Is
  <2>3. QED BY <2>2
<1>2. ASSUME NEW m \in 0 .. n - 1, m \in S PROVE m + 1 \in S
  <2>1. PICK f : Is(f, m) BY <1>2
  <2> DEFINE g == [i \in 0 .. m + 1 |->
                     IF i = m + 1 THEN Handle(f[m], ring[i], room[i])
                     ELSE f[i]]
             h == [i \in 0 .. m + 1 |->
                     IF i = 0 THEN s ELSE Handle(g[i - 1], ring[i], room[i])]
  <2>2. ASSUME NEW i \in 0 .. m + 1 PROVE g[i] = h[i]
    <3>1. CASE i = 0
      <4>1. g[0] = f[0] /\ h[0] = s OBVIOUS
      <4>2. f[0] = s BY <2>1
      <4>3. QED BY <3>1, <4>1, <4>2
    <3>2. CASE i \in 1 .. m
      <4>1. i - 1 \in 0 .. m /\ i \in 0 .. m /\ i # m + 1 /\ i - 1 # m + 1
            /\ i # 0 /\ i - 1 \in 0 .. m + 1
        BY <3>2
      <4>2. g[i] = f[i] /\ g[i - 1] = f[i - 1] BY <4>1
      <4>3. f[i] = Handle(f[i - 1], ring[i], room[i]) BY <2>1, <4>1
      <4>4. h[i] = Handle(g[i - 1], ring[i], room[i]) BY <4>1
      <4>5. QED BY <4>2, <4>3, <4>4
    <3>3. CASE i = m + 1
      <4>1. m \in 0 .. m + 1 /\ m # m + 1 /\ i # 0 /\ i - 1 = m BY <3>3
      <4>2. g[m] = f[m] BY <4>1
      <4>3. g[i] = Handle(f[m], ring[i], room[i]) BY <3>3
      <4>4. h[i] = Handle(g[m], ring[i], room[i]) BY <4>1
      <4>5. QED BY <4>2, <4>3, <4>4
    <3>4. i = 0 \/ i \in 1 .. m \/ i = m + 1 OBVIOUS
    <3>5. QED BY <3>1, <3>2, <3>3, <3>4
  <2>3. g = h BY <2>2
  <2> HIDE DEF g
  <2>4. Is(g, m + 1) BY <2>3
  <2>5. m + 1 \in 0 .. n OBVIOUS
  <2>6. QED BY <2>4, <2>5
<1> HIDE DEF Is, S
<1>3. \A m \in 0 .. n : m \in S BY <1>1, <1>2, Climb
<1>4. n \in S BY <1>3
<1>5. QED BY <1>4 DEF S, Is, Turns

-----------------------------------------------------------------------------
(* The state, without its bounds, and what is to be shown of it *)

Rings == Seq(Mbuf)
Replies == Seq(Sent)
Recordings == Seq(Record)

\* TypeOK with the bounds that follow from counting left out.
Rx ==
    [serve : BOOLEAN, recording : BOOLEAN, stopping : BOOLEAN,
     wire_has_seq : BOOLEAN, have_local_ip : BOOLEAN,
     udp_port : Ports, count_limit : CountLimits,
     record_count : Nat, dropped_count : Nat, records : Recordings,
     pool : Nat, ring : Rings, tx : Replies, lost : Nat, rest : BOOLEAN]

\* The frames that say they were sent are as a sender builds them.
Honest == \A f \in Frames : f.sent # NotSent =>
    \E total \in Nat, payload_len \in Nat, payload \in Nat,
       dst_port \in Nat, with_seq \in BOOLEAN :
       /\ f = Built(total, dst_port, with_seq, payload, payload_len)
       /\ Fits(total, payload_len, with_seq) /\ total - EthHdrLen < 65536

\* What RecordsAreSent says of one record.
Fine(r, s) ==
    /\ r.f.dst_port = s.udp_port /\ r.at + r.len <= r.f.len
    /\ r.with_seq = s.wire_has_seq \/ ~s.recording
    /\ Honest /\ r.f.sent # NotSent /\ r.f.sent.with_seq = r.with_seq =>
          r.len = r.f.sent.payload_len /\ r.at = HdrLen(r.with_seq)

Recs(s) ==
    /\ s.record_count = Len(s.records)
    /\ \A k \in 1 .. Len(s.records) :
          /\ s.records[k].seq = k - 1 /\ Fine(s.records[k], s)
          /\ k > 1 => s.records[k].n > s.records[k - 1].n

\* A recording that has not begun to stop is short of its limit.
Limited(s) == s.count_limit # 0 =>
    /\ s.record_count <= s.count_limit
    /\ ~s.stopping => s.record_count < s.count_limit

\* What RepliesReachAsker says of the replies.
Courteous(s) == \A k \in 1 .. Len(s.tx) :
    LET q == s.tx[k].asked
        f == s.tx[k].f
    IN  /\ q.dst_ip = LocalIp /\ q.op \in {"arpRequest", "echoRequest"}
        /\ f.eth_dst = q.eth_src /\ f.eth_src = LocalMac
        /\ f.dst_ip = q.src_ip /\ f.src_ip = LocalIp /\ f.len = q.len
        /\ f.op = IF q.op = "arpRequest" THEN "arpReply" ELSE "echoReply"
        /\ f.type = "arp" => f.sha = LocalMac /\ f.tha = q.sha

\* The part of the context no turn changes.
SameSettings(s, t) ==
    /\ t.serve = s.serve /\ t.recording = s.recording
    /\ t.wire_has_seq = s.wire_has_seq /\ t.udp_port = s.udp_port
    /\ t.count_limit = s.count_limit /\ t.ring = s.ring

LEMMA Typed ==
    ASSUME NEW s \in Rx
    PROVE  /\ s.pool \in Nat /\ s.lost \in Nat
           /\ s.record_count \in Nat /\ s.dropped_count \in Nat
           /\ s.serve \in BOOLEAN /\ s.recording \in BOOLEAN
           /\ s.stopping \in BOOLEAN /\ s.rest \in BOOLEAN
           /\ s.wire_has_seq \in BOOLEAN
           /\ s.udp_port \in Ports /\ s.count_limit \in CountLimits
           /\ s.records \in Seq(Record) /\ Len(s.records) \in Nat
           /\ s.ring \in Seq(Mbuf) /\ Len(s.ring) \in Nat
           /\ s.tx \in Seq(Sent) /\ Len(s.tx) \in Nat
<1>1. /\ s.records \in Recordings /\ s.ring \in Rings /\ s.tx \in Replies
  BY DEF Rx
<1>2. /\ s.records \in Seq(Record) /\ s.ring \in Seq(Mbuf)
      /\ s.tx \in Seq(Sent)
  BY <1>1 DEF Recordings, Rings, Replies
<1>3. /\ Len(s.records) \in Nat /\ Len(s.ring) \in Nat /\ Len(s.tx) \in Nat
  BY <1>2, LenProperties
<1>4. QED BY <1>2, <1>3 DEF Rx

LEMMA Constants ==
    /\ NumMbufs \in Nat /\ RxRing \in Nat /\ TxRing \in Nat
    /\ BurstSize \in Nat /\ BurstSize > 0 /\ MaxFrames \in Nat
    /\ MaxSessions \in Nat /\ MaxSettings \in Nat /\ ChunkBytes \in Nat
    /\ CountLimits \subseteq Nat /\ Ports \subseteq Nat /\ Frames \subseteq Frame
    /\ LocalMac \in Macs /\ LocalIp \in Ips
  BY RxPathAssumption, AddressAssumption

LEMMA FrameLengths ==
    ASSUME NEW f \in Frame
    PROVE  f.len \in Nat /\ f.ihl \in Nat /\ f.udp_len \in Nat
<1>1. f.len \in Nat /\ f.ihl \in Half /\ f.udp_len \in Word BY DEF Frame
<1>2. Half \subseteq Nat BY DEF Half
<1>3. Word \subseteq Nat BY DEF Word
<1>4. QED BY <1>1, <1>2, <1>3

-----------------------------------------------------------------------------
(* One turn *)

\* A reply is a frame, and answers the one who asked.
LEMMA ReplyAnswers ==
    ASSUME NEW q \in Frame, IsRequest(q)
    PROVE  LET f == Reply(q)
           IN  /\ f \in Frame
               /\ q.dst_ip = LocalIp /\ q.op \in {"arpRequest", "echoRequest"}
               /\ f.eth_dst = q.eth_src /\ f.eth_src = LocalMac
               /\ f.dst_ip = q.src_ip /\ f.src_ip = LocalIp /\ f.len = q.len
               /\ f.op = IF q.op = "arpRequest" THEN "arpReply"
                                                ELSE "echoReply"
               /\ f.type = "arp" => f.sha = LocalMac /\ f.tha = q.sha
<1>1. "arpReply" \in Ops /\ "echoReply" \in Ops BY DEF Ops
<1>2. CASE IsArpRequest(q)
  <2> DEFINE f == ArpReply(q)
  <2>1. Reply(q) = f BY <1>2 DEF Reply
  <2>2. q.dst_ip = LocalIp /\ q.op = "arpRequest" BY <1>2 DEF IsArpRequest
  <2>3. f \in Frame BY <1>1, Constants DEF ArpReply, Returned, Frame
  <2>4. /\ f.eth_dst = q.eth_src /\ f.eth_src = LocalMac
        /\ f.dst_ip = q.src_ip /\ f.src_ip = LocalIp /\ f.len = q.len
        /\ f.op = "arpReply" /\ f.sha = LocalMac /\ f.tha = q.sha
    BY DEF ArpReply, Returned, Frame
  <2> HIDE DEF f
  <2>5. QED BY <2>1, <2>2, <2>3, <2>4
<1>3. CASE ~IsArpRequest(q)
  <2> DEFINE f == EchoReply(q)
  <2>1. IsEchoRequest(q) BY <1>3 DEF IsRequest
  <2>2. Reply(q) = f BY <1>3 DEF Reply
  <2>3. q.dst_ip = LocalIp /\ q.op = "echoRequest" /\ q.type = "ipv4"
    BY <2>1 DEF IsEchoRequest
  <2>4. f \in Frame BY <1>1, Constants DEF EchoReply, Returned, Frame
  <2>5. /\ f.eth_dst = q.eth_src /\ f.eth_src = LocalMac
        /\ f.dst_ip = q.src_ip /\ f.src_ip = LocalIp /\ f.len = q.len
        /\ f.op = "echoReply" /\ f.type = "ipv4"
    BY <2>3 DEF EchoReply, Returned, Frame
  <2> HIDE DEF f
  <2>6. QED BY <2>2, <2>3, <2>4, <2>5
<1>4. QED BY <1>2, <1>3

\* The record capture_poll makes of a frame it has parsed.
RecordOf(s, m) ==
    LET p == Parse(m.f, s.wire_has_seq)
    IN  [n |-> m.n, f |-> m.f, seq |-> s.record_count, at |-> p.at,
         len |-> p.payload_len, with_seq |-> s.wire_has_seq]

LEMMA RecordIsFine ==
    ASSUME NEW s \in Rx, NEW m \in Mbuf,
           Parse(m.f, s.wire_has_seq).ok,
           Parse(m.f, s.wire_has_seq).dst_port = s.udp_port
    PROVE  RecordOf(s, m) \in Record /\ Fine(RecordOf(s, m), s)
<1> DEFINE p == Parse(m.f, s.wire_has_seq)
           r == RecordOf(s, m)
<1>1. /\ m.f \in Frames /\ m.f \in Frame /\ m.n \in 1 .. MaxFrames
      /\ s.wire_has_seq \in BOOLEAN /\ s.record_count \in Nat
  BY Constants DEF Mbuf, Rx
<1>2. m.f.len \in Nat /\ m.f.ihl \in Nat /\ m.f.udp_len \in Nat
  BY <1>1, FrameLengths
<1>3. /\ p.at \in Nat /\ p.payload_len \in Nat
      /\ p.at + p.payload_len <= m.f.len
  BY <1>1, <1>2, PayloadInFrame
<1>4. p.dst_port = m.f.dst_port BY DEF Parse, NotOurs
<1>5. ASSUME Honest, m.f.sent # NotSent, m.f.sent.with_seq = s.wire_has_seq
      PROVE  /\ p.payload_len = m.f.sent.payload_len
             /\ p.at = HdrLen(s.wire_has_seq)
  <2>1. PICK total \in Nat, payload_len \in Nat, payload \in Nat,
             dst_port \in Nat, with_seq \in BOOLEAN :
          /\ m.f = Built(total, dst_port, with_seq, payload, payload_len)
          /\ Fits(total, payload_len, with_seq) /\ total - EthHdrLen < 65536
    BY <1>1, <1>5 DEF Honest
  <2>2. m.f.sent = [with_seq |-> with_seq, payload |-> payload,
                    payload_len |-> total - HdrLen(with_seq)]
    BY <2>1 DEF Built, NoFrame
  <2>3. with_seq = s.wire_has_seq BY <1>5, <2>2
  <2>4. p.at = HdrLen(with_seq) /\ p.payload_len = total - HdrLen(with_seq)
    BY <2>1, <2>3, BuiltParses
  <2>5. QED BY <2>2, <2>3, <2>4
<1>6. /\ r.n = m.n /\ r.f = m.f /\ r.at = p.at /\ r.len = p.payload_len
      /\ r.with_seq = s.wire_has_seq
  BY DEF RecordOf
<1>7. r \in Record BY <1>1, <1>3 DEF RecordOf, Record
<1> HIDE DEF r, p
<1>8. Fine(r, s) BY <1>3, <1>4, <1>5, <1>6 DEF Fine, p
<1>9. QED BY <1>7, <1>8 DEF r

LEMMA Numbers ==
    /\ \A r \in Record : r.n \in Nat
    /\ \A m \in Mbuf : m.n \in Nat
<1>1. 1 .. MaxFrames \subseteq Nat OBVIOUS
<1>2. QED BY <1>1 DEF Record, Mbuf

\* What holds of the context before a burst, between its turns, and after it.
Sound(s) == /\ s \in Rx /\ Len(s.tx) <= TxRing
            /\ Courteous(s) /\ Recs(s) /\ Limited(s)

\* A command-line capture looks at no frame once it stops.
Halts(s) == ~s.serve /\ s.stopping => s.rest

\* What one turn with mbuf m makes of s.
Turned(s, t, m) ==
    /\ Sound(t) /\ SameSettings(s, t) /\ Halts(t)
    /\ t.pool + Len(t.tx) + t.lost = s.pool + Len(s.tx) + s.lost + 1
    /\ t.record_count + t.dropped_count <= s.record_count + s.dropped_count + 1
    /\ s.rest => t.rest /\ t.lost = s.lost + 1
    /\ ~s.rest => t.lost = s.lost
    /\ \A k \in 1 .. Len(t.records) : t.records[k].n <= m.n

\* No record, no reply.
LEMMA StaysSound ==
    ASSUME NEW s, Sound(s), NEW t \in Rx, SameSettings(s, t), t.tx = s.tx,
           t.records = s.records, t.record_count = s.record_count,
           s.stopping => t.stopping
    PROVE  Sound(t)
<1>1. Courteous(t) BY DEF Sound, Courteous
<1>2. \A k \in 1 .. Len(s.records) : Fine(s.records[k], s) => Fine(s.records[k], t)
  BY DEF Fine, SameSettings
<1>3. Recs(t) BY <1>2 DEF Sound, Recs
<1>4. Limited(t) BY DEF Sound, Limited, SameSettings
<1>5. QED BY <1>1, <1>3, <1>4 DEF Sound

LEMMA LosesOne ==
    ASSUME NEW s, NEW m \in Mbuf, Sound(s), Halts(s), s.rest,
           \A k \in 1 .. Len(s.records) : s.records[k].n < m.n
    PROVE  Turned(s, [s EXCEPT !.lost = @ + 1], m)
<1> DEFINE t == [s EXCEPT !.lost = @ + 1]
<1>0. s \in Rx BY DEF Sound
<1>1. t \in Rx BY <1>0 DEF Rx
<1>2. /\ SameSettings(s, t) /\ t.tx = s.tx /\ t.records = s.records
      /\ t.record_count = s.record_count /\ t.stopping = s.stopping
      /\ t.rest = s.rest /\ t.dropped_count = s.dropped_count
      /\ t.pool = s.pool /\ t.lost = s.lost + 1
  BY <1>0 DEF Rx, SameSettings
<1>3. /\ s.pool \in Nat /\ s.lost \in Nat /\ Len(s.tx) \in Nat
      /\ s.record_count \in Nat /\ s.dropped_count \in Nat
      /\ s.records \in Seq(Record)
  BY <1>0, Typed
<1> HIDE DEF t
<1>4. Sound(t) BY <1>1, <1>2, StaysSound
<1>5. Halts(t) BY <1>2 DEF Halts, SameSettings
<1>6. \A k \in 1 .. Len(t.records) : t.records[k].n <= m.n
  <2>1. ASSUME NEW k \in 1 .. Len(s.records) PROVE s.records[k].n <= m.n
    <3>1. s.records[k] \in Record BY <1>3, ElementOfSeq
    <3>2. s.records[k].n \in Nat /\ m.n \in Nat BY <3>1, Numbers
    <3>3. QED BY <3>2
  <2>2. QED BY <1>2, <2>1
<1>7. QED BY <1>2, <1>3, <1>4, <1>5, <1>6 DEF Turned, t

\* A turn that only frees the mbuf, whatever else it notes.
LEMMA FreesOne ==
    ASSUME NEW s, NEW m \in Mbuf, Sound(s), ~s.rest,
           \A k \in 1 .. Len(s.records) : s.records[k].n < m.n,
           NEW t \in Rx, SameSettings(s, t), t.tx = s.tx,
           t.records = s.records, t.record_count = s.record_count,
           t.dropped_count <= s.dropped_count + 1,
           t.pool = s.pool + 1, t.lost = s.lost,
           s.stopping => t.stopping, Halts(t)
    PROVE  Turned(s, t, m)
<1>0. s \in Rx BY DEF Sound
<1>1. /\ s.pool \in Nat /\ s.lost \in Nat /\ Len(s.tx) \in Nat
      /\ s.record_count \in Nat /\ s.dropped_count \in Nat
      /\ t.dropped_count \in Nat /\ s.records \in Seq(Record)
  BY <1>0, Typed
<1>2. Sound(t) BY StaysSound
<1>3. \A k \in 1 .. Len(t.records) : t.records[k].n <= m.n
  <2>1. ASSUME NEW k \in 1 .. Len(s.records) PROVE s.records[k].n <= m.n
    <3>1. s.records[k] \in Record BY <1>1, ElementOfSeq
    <3>2. s.records[k].n \in Nat /\ m.n \in Nat BY <3>1, Numbers
    <3>3. QED BY <3>2
  <2>2. QED BY <2>1
<1>4. /\ t.pool + Len(t.tx) + t.lost = s.pool + Len(s.tx) + s.lost + 1
      /\ t.record_count + t.dropped_count <= s.record_count + s.dropped_count + 1
  <2>1. Len(t.tx) = Len(s.tx) OBVIOUS
  <2>2. s.pool + 1 + Len(s.tx) + s.lost = s.pool + Len(s.tx) + s.lost + 1
    BY <1>1
  <2>3. s.record_count + t.dropped_count <= s.record_count + s.dropped_count + 1
    BY <1>1
  <2>4. QED BY <2>1, <2>2, <2>3
<1>5. QED BY <1>2, <1>3, <1>4 DEF Turned

LEMMA FreedTurns ==
    ASSUME NEW s, NEW m \in Mbuf, Sound(s), Halts(s), ~s.rest,
           \A k \in 1 .. Len(s.records) : s.records[k].n < m.n
    PROVE  Turned(s, Freed(s), m)
<1> DEFINE t == Freed(s)
<1>0. s \in Rx BY DEF Sound
<1>1. t \in Rx BY <1>0 DEF Rx, Freed
<1>2. /\ SameSettings(s, t) /\ t.tx = s.tx /\ t.records = s.records
      /\ t.record_count = s.record_count /\ t.stopping = s.stopping
      /\ t.rest = s.rest /\ t.dropped_count = s.dropped_count
      /\ t.pool = s.pool + 1 /\ t.lost = s.lost
  BY <1>0 DEF Rx, SameSettings, Freed
<1> HIDE DEF t
<1>3. Halts(t) BY <1>2 DEF Halts, SameSettings
<1>4. t.dropped_count <= s.dropped_count + 1 BY <1>0, <1>2, Typed
<1>5. Turned(s, t, m) BY <1>1, <1>2, <1>3, <1>4, FreesOne
<1>6. QED BY <1>5 DEF t

LEMMA DropTurns ==
    ASSUME NEW s, NEW m \in Mbuf, Sound(s), Halts(s), ~s.rest,
           \A k \in 1 .. Len(s.records) : s.records[k].n < m.n
    PROVE  Turned(s, Drop(s), m) /\ Turned(s, StopAndLeave(Drop(s)), m)
<1>0. s \in Rx BY DEF Sound
<1>1. ASSUME NEW t, t \in {Drop(s), StopAndLeave(Drop(s))}
      PROVE  Turned(s, t, m)
  <2> DEFINE u == Drop(s)
  <2>1. u \in Rx
    <3> DEFINE v == [s EXCEPT !.dropped_count = @ + 1]
    <3>1. v \in Rx BY <1>0 DEF Rx
    <3> HIDE DEF v
    <3>2. Freed(v) \in Rx BY <3>1 DEF Rx, Freed
    <3>3. QED BY <3>2 DEF Drop, v
  <2>2. /\ SameSettings(s, u) /\ u.tx = s.tx /\ u.records = s.records
        /\ u.record_count = s.record_count /\ u.stopping = s.stopping
        /\ u.rest = s.rest /\ u.dropped_count = s.dropped_count + 1
        /\ u.pool = s.pool + 1 /\ u.lost = s.lost
    BY <1>0 DEF Rx, SameSettings, Drop, Freed
  <2> HIDE DEF u
  <2>3. /\ t \in Rx /\ SameSettings(u, t) /\ t.tx = u.tx
        /\ t.records = u.records /\ t.record_count = u.record_count
        /\ t.dropped_count = u.dropped_count
        /\ t.pool = u.pool /\ t.lost = u.lost
        /\ \/ t.stopping /\ t.rest
           \/ t.stopping = u.stopping /\ t.rest = u.rest
    <3>1. CASE t = u BY <2>1, <3>1 DEF SameSettings
    <3>2. CASE t = StopAndLeave(u)
      <4>1. t \in Rx BY <2>1, <3>2 DEF Rx, StopAndLeave
      <4>2. QED BY <2>1, <3>2, <4>1 DEF Rx, SameSettings, StopAndLeave
    <3>3. QED BY <1>1, <3>1, <3>2 DEF u
  <2>4. SameSettings(s, t) BY <2>2, <2>3 DEF SameSettings
  <2>5. Halts(t) BY <2>2, <2>3, <2>4 DEF Halts, SameSettings
  <2>6. t.dropped_count <= s.dropped_count + 1 BY <1>0, <2>2, <2>3, Typed
  <2>7. s.stopping => t.stopping BY <2>2, <2>3
  <2>8. QED BY <2>2, <2>3, <2>4, <2>5, <2>6, <2>7, FreesOne
<1>2. QED BY <1>1

LEMMA Appended ==
    ASSUME NEW S, NEW q \in Seq(S), NEW e \in S
    PROVE  /\ Append(q, e) \in Seq(S) /\ Len(Append(q, e)) = Len(q) + 1
           /\ Len(q) \in Nat
           /\ \A k \in 1 .. Len(q) : Append(q, e)[k] = q[k]
           /\ Append(q, e)[Len(q) + 1] = e
  BY AppendProperties, LenProperties

LEMMA AnswerTurns ==
    ASSUME NEW s, NEW m \in Mbuf, Sound(s), Halts(s), ~s.rest,
           IsRequest(m.f),
           \A k \in 1 .. Len(s.records) : s.records[k].n < m.n
    PROVE  Turned(s, Answer(s, m), m)
<1>0. s \in Rx BY DEF Sound
<1>1. CASE ~(Len(s.tx) < TxRing)
  <2>1. Answer(s, m) = Freed(s) BY <1>1 DEF Answer
  <2>2. QED BY <2>1, FreedTurns
<1>2. CASE Len(s.tx) < TxRing
  <2> DEFINE e == [n |-> m.n, asked |-> m.f, f |-> Reply(m.f)]
             t == [s EXCEPT !.tx = Append(@, e)]
  <2>1. Answer(s, m) = t BY <1>2 DEF Answer
  <2>2. m.n \in 1 .. MaxFrames /\ m.f \in Frames /\ m.f \in Frame
    BY Constants DEF Mbuf
  <2>3. Reply(m.f) \in Frame BY <2>2, ReplyAnswers
  <2>4. e \in Sent BY <2>2, <2>3 DEF Sent
  <2>5. e.asked = m.f /\ e.f = Reply(m.f) OBVIOUS
  <2> HIDE DEF e
  <2>6. /\ Append(s.tx, e) \in Seq(Sent) /\ Len(Append(s.tx, e)) = Len(s.tx) + 1
        /\ Len(s.tx) \in Nat
        /\ \A k \in 1 .. Len(s.tx) : Append(s.tx, e)[k] = s.tx[k]
        /\ Append(s.tx, e)[Len(s.tx) + 1] = e
    BY <1>0, <2>4, Typed, Appended
  <2>7. t \in Rx
    <3>1. Append(s.tx, e) \in Replies BY <2>6 DEF Replies
    <3>2. QED BY <1>0, <3>1 DEF Rx
  <2>8. /\ SameSettings(s, t) /\ t.tx = Append(s.tx, e)
        /\ t.records = s.records
        /\ t.record_count = s.record_count /\ t.stopping = s.stopping
        /\ t.rest = s.rest /\ t.dropped_count = s.dropped_count
        /\ t.pool = s.pool /\ t.lost = s.lost
    BY <1>0 DEF Rx, SameSettings
  <2> HIDE DEF t
  <2>9. Courteous(t)
    <3> SUFFICES ASSUME NEW k \in 1 .. Len(t.tx)
                 PROVE
          LET q == t.tx[k].asked
              f == t.tx[k].f
          IN  /\ q.dst_ip = LocalIp /\ q.op \in {"arpRequest", "echoRequest"}
              /\ f.eth_dst = q.eth_src /\ f.eth_src = LocalMac
              /\ f.dst_ip = q.src_ip /\ f.src_ip = LocalIp /\ f.len = q.len
              /\ f.op = IF q.op = "arpRequest" THEN "arpReply" ELSE "echoReply"
              /\ f.type = "arp" => f.sha = LocalMac /\ f.tha = q.sha
      BY DEF Courteous
    <3>1. CASE k \in 1 .. Len(s.tx)
      <4>1. t.tx[k] = s.tx[k] BY <2>6, <2>8, <3>1
      <4>2. QED BY <3>1, <4>1 DEF Sound, Courteous
    <3>2. CASE k = Len(s.tx) + 1
      <4>1. t.tx[k].asked = m.f /\ t.tx[k].f = Reply(m.f)
        BY <2>5, <2>6, <2>8, <3>2
      <4>2. QED BY <2>2, <4>1, ReplyAnswers
    <3>3. QED BY <2>6, <2>8, <3>1, <3>2
  <2>10. Recs(t)
    <3>1. \A k \in 1 .. Len(s.records) :
             Fine(s.records[k], s) => Fine(s.records[k], t)
      BY <2>8 DEF Fine, SameSettings
    <3>2. QED BY <2>8, <3>1 DEF Sound, Recs
  <2>11. Limited(t) BY <2>8 DEF Sound, Limited, SameSettings
  <2>12. Len(t.tx) <= TxRing
    <3>1. TxRing \in Nat BY Constants
    <3>2. QED BY <1>2, <2>6, <2>8, <3>1
  <2>13. Sound(t) BY <2>7, <2>9, <2>10, <2>11, <2>12 DEF Sound
  <2>14. Halts(t) BY <2>8 DEF Halts, SameSettings
  <2>15. /\ s.pool \in Nat /\ s.lost \in Nat /\ s.record_count \in Nat
         /\ s.dropped_count \in Nat /\ s.records \in Seq(Record)
    BY <1>0, Typed
  <2>16. /\ t.pool + Len(t.tx) + t.lost = s.pool + Len(s.tx) + s.lost + 1
         /\ t.record_count + t.dropped_count
              <= s.record_count + s.dropped_count + 1
    <3>1. Len(t.tx) = Len(s.tx) + 1 BY <2>6, <2>8
    <3>0. Len(s.tx) \in Nat BY <2>6
    <3>2. s.pool + (Len(s.tx) + 1) + s.lost = s.pool + Len(s.tx) + s.lost + 1
      BY <2>15, <3>0
    <3>3. s.record_count + s.dropped_count
            <= s.record_count + s.dropped_count + 1
      BY <2>15
    <3>4. QED BY <2>8, <3>1, <3>2, <3>3
  <2>17. \A k \in 1 .. Len(t.records) : t.records[k].n <= m.n
    <3>1. ASSUME NEW k \in 1 .. Len(s.records) PROVE s.records[k].n <= m.n
      <4>1. s.records[k] \in Record BY <2>15, ElementOfSeq
      <4>2. s.records[k].n \in Nat /\ m.n \in Nat BY <4>1, Numbers
      <4>3. QED BY <4>2
    <3>2. QED BY <2>8, <3>1
  <2>18. Turned(s, t, m)
    BY <2>8, <2>13, <2>14, <2>16, <2>17 DEF Turned
  <2>19. QED BY <2>1, <2>18 DEF t
<1>3. QED BY <1>1, <1>2

LEMMA RecordTurns ==
    ASSUME NEW s, NEW m \in Mbuf, Sound(s), Halts(s), ~s.rest,
           ~(s.serve /\ (s.stopping \/ ~s.recording)),
           Parse(m.f, s.wire_has_seq).ok,
           Parse(m.f, s.wire_has_seq).dst_port = s.udp_port,
           \A k \in 1 .. Len(s.records) : s.records[k].n < m.n
    PROVE  Turned(s, RecordFrame(s, m, Parse(m.f, s.wire_has_seq)), m)
<1> DEFINE r == RecordOf(s, m)
           p == Parse(m.f, s.wire_has_seq)
           a == [s EXCEPT !.record_count = @ + 1, !.records = Append(@, r)]
           u == Freed(a)
           t == RecordFrame(s, m, p)
<1>0. s \in Rx BY DEF Sound
<1>1. r \in Record /\ Fine(r, s) BY <1>0, RecordIsFine
<1>2. r.n = m.n /\ r.seq = s.record_count BY DEF RecordOf
<1>3. /\ s.pool \in Nat /\ s.lost \in Nat /\ Len(s.tx) \in Nat
      /\ s.record_count \in Nat /\ s.dropped_count \in Nat
      /\ s.records \in Seq(Record) /\ s.count_limit \in Nat
  BY <1>0, Typed, Constants
<1>4. t = IF u.count_limit # 0 /\ u.record_count >= u.count_limit
          THEN StopAndLeave(u) ELSE u
  BY DEF RecordFrame, RecordOf
<1> HIDE DEF r, p
<1>5. /\ Append(s.records, r) \in Seq(Record)
      /\ Len(Append(s.records, r)) = Len(s.records) + 1
      /\ Len(s.records) \in Nat
      /\ \A k \in 1 .. Len(s.records) : Append(s.records, r)[k] = s.records[k]
      /\ Append(s.records, r)[Len(s.records) + 1] = r
  BY <1>1, <1>3, Appended
<1>6. a \in Rx
  <2>1. Append(s.records, r) \in Recordings BY <1>5 DEF Recordings
  <2> DEFINE c == [s EXCEPT !.record_count = @ + 1]
  <2>2. c \in Rx BY <1>0 DEF Rx
  <2>3. c.records = s.records BY <1>0 DEF Rx
  <2> HIDE DEF c
  <2>4. [c EXCEPT !.records = Append(c.records, r)] \in Rx
    BY <2>1, <2>2, <2>3 DEF Rx
  <2>5. QED BY <2>4 DEF c
<1>7. /\ SameSettings(s, a) /\ a.tx = s.tx /\ a.records = Append(s.records, r)
      /\ a.record_count = s.record_count + 1 /\ a.stopping = s.stopping
      /\ a.rest = s.rest /\ a.dropped_count = s.dropped_count
      /\ a.pool = s.pool /\ a.lost = s.lost
  BY <1>0 DEF Rx, SameSettings
<1> HIDE DEF a
<1>8. u \in Rx BY <1>6 DEF Rx, Freed
<1>9. /\ SameSettings(a, u) /\ u.tx = a.tx /\ u.records = a.records
      /\ u.record_count = a.record_count /\ u.stopping = a.stopping
      /\ u.rest = a.rest /\ u.dropped_count = a.dropped_count
      /\ u.pool = a.pool + 1 /\ u.lost = a.lost
  BY <1>6 DEF Rx, SameSettings, Freed
<1> HIDE DEF u
<1> DEFINE full == u.count_limit # 0 /\ u.record_count >= u.count_limit
<1>10. /\ t \in Rx /\ SameSettings(u, t) /\ t.tx = u.tx
       /\ t.records = u.records /\ t.record_count = u.record_count
       /\ t.dropped_count = u.dropped_count
       /\ t.pool = u.pool /\ t.lost = u.lost
       /\ full => t.stopping /\ t.rest
       /\ ~full => t.stopping = u.stopping /\ t.rest = u.rest
  <2>1. CASE ~full
    <3>1. t = u BY <1>4, <2>1
    <3>2. QED BY <1>8, <2>1, <3>1 DEF SameSettings
  <2>2. CASE full
    <3>1. t = StopAndLeave(u) BY <1>4, <2>2
    <3>2. t \in Rx BY <1>8, <3>1 DEF Rx, StopAndLeave
    <3>3. QED BY <1>8, <2>2, <3>1, <3>2 DEF Rx, SameSettings, StopAndLeave
  <2>3. QED BY <2>1, <2>2
<1> HIDE DEF t
<1>11. /\ SameSettings(s, t) /\ t.tx = s.tx
       /\ t.records = Append(s.records, r)
       /\ t.record_count = s.record_count + 1
       /\ t.dropped_count = s.dropped_count
       /\ t.pool = s.pool + 1 /\ t.lost = s.lost
  BY <1>7, <1>9, <1>10 DEF SameSettings
<1>12. Courteous(t) BY <1>11 DEF Sound, Courteous
<1>13. ASSUME NEW x, Fine(x, s) PROVE Fine(x, t)
  BY <1>11, <1>13 DEF Fine, SameSettings
<1>14. Recs(t)
  <2>1. s.record_count = Len(s.records) BY DEF Sound, Recs
  <2>2. t.record_count = Len(t.records) BY <1>5, <1>11, <2>1
  <2>3. ASSUME NEW k \in 1 .. Len(t.records)
        PROVE  /\ t.records[k].seq = k - 1 /\ Fine(t.records[k], t)
               /\ k > 1 => t.records[k].n > t.records[k - 1].n
    <3>1. CASE k \in 1 .. Len(s.records)
      <4>1. t.records[k] = s.records[k] BY <1>5, <1>11, <3>1
      <4>2. k > 1 => t.records[k - 1] = s.records[k - 1]
        <5>1. k > 1 => k - 1 \in 1 .. Len(s.records) BY <1>5, <3>1
        <5>2. QED BY <1>5, <1>11, <5>1
      <4>3. /\ s.records[k].seq = k - 1 /\ Fine(s.records[k], s)
            /\ k > 1 => s.records[k].n > s.records[k - 1].n
        BY <3>1 DEF Sound, Recs
      <4>4. QED BY <1>13, <4>1, <4>2, <4>3
    <3>2. CASE k = Len(s.records) + 1
      <4>1. t.records[k] = r BY <1>5, <1>11, <3>2
      <4>2. k - 1 = Len(s.records) BY <1>5, <3>2
      <4>3. k > 1 => m.n > t.records[k - 1].n
        <5>1. k > 1 => k - 1 \in 1 .. Len(s.records) BY <1>5, <4>2
        <5>2. k > 1 => t.records[k - 1] = s.records[k - 1]
          BY <1>5, <1>11, <5>1
        <5>3. k > 1 => s.records[k - 1] \in Record
          BY <1>3, <5>1, ElementOfSeq
        <5>4. k > 1 => s.records[k - 1].n \in Nat /\ m.n \in Nat
          BY <5>3, Numbers
        <5>5. QED BY <5>1, <5>2, <5>4
      <4>4. QED BY <1>1, <1>2, <1>13, <2>1, <4>1, <4>2, <4>3
    <3>3. QED BY <1>5, <1>11, <3>1, <3>2
  <2>4. QED BY <2>2, <2>3 DEF Recs
<1>15. Limited(t)
  <2>1. SUFFICES ASSUME t.count_limit # 0
                 PROVE  /\ t.record_count <= t.count_limit
                        /\ ~t.stopping => t.record_count < t.count_limit
    BY DEF Limited
  <2>2. s.count_limit = t.count_limit /\ u.count_limit = t.count_limit
    BY <1>7, <1>9, <1>11 DEF SameSettings
  <2>3. ~s.stopping BY DEF Halts
  <2>4. s.record_count < s.count_limit
    BY <2>1, <2>2, <2>3 DEF Sound, Limited
  <2>5. u.record_count = s.record_count + 1 BY <1>7, <1>9
  <2>6. full => t.stopping BY <1>10
  <2>7. QED BY <1>3, <1>11, <2>1, <2>2, <2>4, <2>5, <2>6
<1>16. Len(t.tx) <= TxRing BY <1>11 DEF Sound
<1>17. Sound(t) BY <1>10, <1>12, <1>14, <1>15, <1>16 DEF Sound
<1>18. Halts(t)
  <2>1. ~s.stopping /\ u.stopping = s.stopping BY <1>7, <1>9 DEF Halts
  <2>2. QED BY <1>10, <2>1 DEF Halts
<1>19. /\ t.pool + Len(t.tx) + t.lost = s.pool + Len(s.tx) + s.lost + 1
       /\ t.record_count + t.dropped_count
            <= s.record_count + s.dropped_count + 1
  <2>1. s.pool + 1 + Len(s.tx) + s.lost = s.pool + Len(s.tx) + s.lost + 1
    BY <1>3
  <2>2. s.record_count + 1 + s.dropped_count
          <= s.record_count + s.dropped_count + 1
    BY <1>3
  <2>3. Len(t.tx) = Len(s.tx) BY <1>11
  <2>4. QED BY <1>11, <2>1, <2>2, <2>3
<1>20. ASSUME NEW k \in 1 .. Len(t.records) PROVE t.records[k].n <= m.n
  <2>0. m.n \in Nat BY Numbers
  <2>1. CASE k \in 1 .. Len(s.records)
    <3>1. t.records[k] = s.records[k] BY <1>5, <1>11, <2>1
    <3>2. s.records[k] \in Record BY <1>3, <2>1, ElementOfSeq
    <3>3. s.records[k].n \in Nat BY <3>2, Numbers
    <3>4. s.records[k].n < m.n BY <2>1
    <3>5. QED BY <2>0, <3>1, <3>3, <3>4
  <2>2. CASE k = Len(s.records) + 1
    <3>1. t.records[k] = r BY <1>5, <1>11, <2>2
    <3>2. QED BY <1>2, <2>0, <3>1
  <2>3. QED BY <1>5, <1>11, <2>1, <2>2
<1>21. Turned(s, t, m)
  BY <1>11, <1>17, <1>18, <1>19, <1>20 DEF Turned
<1>22. QED BY <1>21 DEF t, p

LEMMA HandleTurns ==
    ASSUME NEW s, NEW m \in Mbuf, NEW room \in Room, Sound(s), Halts(s),
           \A k \in 1 .. Len(s.records) : s.records[k].n < m.n
    PROVE  Turned(s, Handle(s, m, room), m)
<1> DEFINE p == Parse(m.f, s.wire_has_seq)
           asked == s.have_local_ip /\ IsRequest(m.f)
           ignored == \/ s.serve /\ (s.stopping \/ ~s.recording)
                      \/ ~p.ok \/ p.dst_port # s.udp_port
           large == RecHdrLen + p.payload_len > ChunkBytes
           t == Handle(s, m, room)
<1>1. t = CASE s.rest -> [s EXCEPT !.lost = @ + 1]
            [] ~s.rest /\ s.have_local_ip /\ IsRequest(m.f) -> Answer(s, m)
            [] OTHER ->
               IF ignored THEN Freed(s)
               ELSE CASE room = "full" -> StopAndLeave(Drop(s))
                      [] room = "busy" -> Drop(s)
                      [] room = "fits" -> IF large THEN Drop(s)
                                          ELSE RecordFrame(s, m, p)
  BY DEF Handle
<1> HIDE DEF t
<1>2. CASE s.rest
  <2>1. t = [s EXCEPT !.lost = @ + 1] BY <1>1, <1>2
  <2>2. QED BY <1>2, <2>1, LosesOne DEF t
<1>3. CASE ~s.rest /\ asked
  <2>1. t = Answer(s, m) BY <1>1, <1>3
  <2>2. QED BY <1>3, <2>1, AnswerTurns DEF t
<1>4. CASE ~s.rest /\ ~asked
  <2>1. t = IF ignored THEN Freed(s)
            ELSE CASE room = "full" -> StopAndLeave(Drop(s))
                   [] room = "busy" -> Drop(s)
                   [] room = "fits" -> IF large THEN Drop(s)
                                       ELSE RecordFrame(s, m, p)
    BY <1>1, <1>4
  <2>2. CASE ignored
    <3>1. t = Freed(s) BY <2>1, <2>2
    <3>2. QED BY <1>4, <3>1, FreedTurns DEF t
  <2>3. CASE ~ignored /\ room = "full"
    <3>1. t = StopAndLeave(Drop(s)) BY <2>1, <2>3
    <3>2. QED BY <1>4, <3>1, DropTurns DEF t
  <2>4. CASE ~ignored /\ (room = "busy" \/ (room = "fits" /\ large))
    <3>1. t = Drop(s) BY <2>1, <2>4
    <3>2. QED BY <1>4, <3>1, DropTurns DEF t
  <2>5. CASE ~ignored /\ room = "fits" /\ ~large
    <3>1. t = RecordFrame(s, m, p) BY <2>1, <2>5
    <3>2. /\ ~(s.serve /\ (s.stopping \/ ~s.recording))
          /\ p.ok /\ p.dst_port = s.udp_port
      BY <2>5
    <3>3. Turned(s, RecordFrame(s, m, p), m) BY <1>4, <3>2, RecordTurns
    <3>4. QED BY <3>1, <3>3 DEF t
  <2>6. room = "fits" \/ room = "busy" \/ room = "full" BY DEF Room
  <2> HIDE DEF ignored, large, asked
  <2>7. \/ ignored
        \/ ~ignored /\ room = "full"
        \/ ~ignored /\ (room = "busy" \/ (room = "fits" /\ large))
        \/ ~ignored /\ room = "fits" /\ ~large
    BY <2>6
  <2>8. QED BY <2>2, <2>3, <2>4, <2>5, <2>7
<1>5. QED BY <1>2, <1>3, <1>4

-----------------------------------------------------------------------------
(* A burst *)

\* q holds mbufs in the order of their arrival, the last no later than top.
InOrder(q, top) ==
    /\ \A i \in 1 .. Len(q) : q[i].n <= top
    /\ \A i, j \in 1 .. Len(q) : i < j => q[i].n < q[j].n

\* The records are of frames that came before the i-th and the later ones of q.
Earlier(s, q, i) == \A k \in 1 .. Len(s.records), j \in i .. Len(q) :
                        s.records[k].n < q[j].n

\* What i turns over the mbufs of q make of s.
Burst(s, t, q, top, i) ==
    /\ Sound(t) /\ SameSettings(s, t) /\ Halts(t)
    /\ t.pool + Len(t.tx) + t.lost = s.pool + Len(s.tx) + s.lost + i
    /\ t.record_count + t.dropped_count <= s.record_count + s.dropped_count + i
    /\ t.rest => t.lost + 1 <= s.lost + i
    /\ ~t.rest => t.lost = s.lost
    /\ Earlier(t, q, i + 1)
    /\ \A k \in 1 .. Len(t.records) : t.records[k].n <= top

LEMMA OneMore ==
    ASSUME NEW q \in Seq(Mbuf), NEW top \in Nat, InOrder(q, top), NEW s \in Rx,
           NEW i \in Nat, i < Len(q), NEW t, Burst(s, t, q, top, i),
           NEW room \in Room
    PROVE  Burst(s, Handle(t, q[i + 1], room), q, top, i + 1)
<1> DEFINE m == q[i + 1]
           u == Handle(t, m, room)
<1>0. Len(q) \in Nat BY LenProperties
<1>1. i + 1 \in 1 .. Len(q) BY <1>0
<1>2. m \in Mbuf BY <1>1, ElementOfSeq
<1>3. Sound(t) /\ Halts(t) /\ t \in Rx BY DEF Burst, Sound
<1>4. \A k \in 1 .. Len(t.records) : t.records[k].n < m.n
  <2>1. i + 1 \in i + 1 .. Len(q) BY <1>1
  <2>2. QED BY <2>1 DEF Burst, Earlier
<1>5. m.n \in Nat /\ m.n <= top BY <1>1, <1>2, Numbers DEF InOrder
<1> HIDE DEF m
<1>6. Turned(t, u, m) BY <1>2, <1>3, <1>4, HandleTurns
<1> HIDE DEF u
<1>7. /\ s.pool \in Nat /\ s.lost \in Nat /\ Len(s.tx) \in Nat
      /\ s.record_count \in Nat /\ s.dropped_count \in Nat
  BY Typed
<1>8. /\ t.pool \in Nat /\ t.lost \in Nat /\ Len(t.tx) \in Nat
      /\ t.record_count \in Nat /\ t.dropped_count \in Nat
      /\ t.rest \in BOOLEAN
  BY <1>3, Typed
<1>9. u \in Rx BY <1>6 DEF Turned, Sound
<1>10. /\ u.pool \in Nat /\ u.lost \in Nat /\ Len(u.tx) \in Nat
       /\ u.record_count \in Nat /\ u.dropped_count \in Nat
       /\ u.records \in Seq(Record) /\ u.rest \in BOOLEAN
  BY <1>9, Typed
<1>11. SameSettings(s, u) BY <1>6 DEF Burst, Turned, SameSettings
<1>12. u.pool + Len(u.tx) + u.lost = s.pool + Len(s.tx) + s.lost + (i + 1)
  <2>1. t.pool + Len(t.tx) + t.lost = s.pool + Len(s.tx) + s.lost + i
    BY DEF Burst
  <2>2. u.pool + Len(u.tx) + u.lost = t.pool + Len(t.tx) + t.lost + 1
    BY <1>6 DEF Turned
  <2> DEFINE a == s.pool + Len(s.tx) + s.lost
             b == t.pool + Len(t.tx) + t.lost
             c == u.pool + Len(u.tx) + u.lost
  <2>3. a \in Nat BY <1>7
  <2>4. b = a + i /\ c = b + 1 BY <2>1, <2>2
  <2> HIDE DEF a, b, c
  <2>5. c = a + (i + 1) BY <2>3, <2>4
  <2>6. QED BY <2>5 DEF a, c
<1>13. u.record_count + u.dropped_count
         <= s.record_count + s.dropped_count + (i + 1)
  <2>1. t.record_count + t.dropped_count
          <= s.record_count + s.dropped_count + i
    BY DEF Burst
  <2>2. u.record_count + u.dropped_count
          <= t.record_count + t.dropped_count + 1
    BY <1>6 DEF Turned
  <2> DEFINE a == s.record_count + s.dropped_count
             b == t.record_count + t.dropped_count
             c == u.record_count + u.dropped_count
  <2>3. a \in Nat BY <1>7
  <2>4. b \in Nat BY <1>8
  <2>5. c \in Nat BY <1>10
  <2>6. b <= a + i /\ c <= b + 1 BY <2>1, <2>2
  <2> HIDE DEF a, b, c
  <2>7. c <= a + (i + 1) BY <2>3, <2>4, <2>5, <2>6
  <2>8. QED BY <2>7 DEF a, c
<1>14. /\ u.rest => u.lost + 1 <= s.lost + (i + 1)
       /\ ~u.rest => u.lost = s.lost
  <2>1. CASE t.rest
    <3>1. u.rest /\ u.lost = t.lost + 1 BY <1>6, <2>1 DEF Turned
    <3>2. t.lost + 1 <= s.lost + i BY <2>1 DEF Burst
    <3>3. u.lost + 1 <= s.lost + (i + 1)
      <4>1. t.lost + 1 + 1 <= s.lost + (i + 1) BY <1>7, <1>8, <3>2
      <4>2. QED BY <3>1, <4>1
    <3>4. QED BY <3>1, <3>3
  <2>2. CASE ~t.rest
    <3>1. u.lost = t.lost /\ t.lost = s.lost BY <1>6, <2>2 DEF Turned, Burst
    <3>2. s.lost + 1 <= s.lost + (i + 1) BY <1>7
    <3>3. QED BY <3>1, <3>2
  <2>3. QED BY <2>1, <2>2
<1>15. \A k \in 1 .. Len(u.records) : u.records[k].n <= m.n /\ u.records[k].n \in Nat
  <2>1. ASSUME NEW k \in 1 .. Len(u.records) PROVE u.records[k].n \in Nat
    <3>1. u.records[k] \in Record BY <1>10, ElementOfSeq
    <3>2. QED BY <3>1, Numbers
  <2>2. \A k \in 1 .. Len(u.records) : u.records[k].n <= m.n
    BY <1>6 DEF Turned
  <2>3. QED BY <2>1, <2>2
<1>16. Earlier(u, q, i + 1 + 1)
  <2>1. ASSUME NEW k \in 1 .. Len(u.records), NEW j \in i + 1 + 1 .. Len(q)
        PROVE  u.records[k].n < q[j].n
    <3>1. j \in 1 .. Len(q) /\ i + 1 < j BY <1>0
    <3>2. q[i + 1].n < q[j].n BY <1>1, <3>1 DEF InOrder
    <3>3. q[j] \in Mbuf BY <3>1, ElementOfSeq
    <3>4. q[j].n \in Nat BY <3>3, Numbers
    <3>5. m.n < q[j].n BY <3>2 DEF m
    <3>6. u.records[k].n <= m.n /\ u.records[k].n \in Nat BY <1>15
    <3>7. QED BY <1>5, <3>4, <3>5, <3>6
  <2>2. QED BY <2>1 DEF Earlier
<1>17. \A k \in 1 .. Len(u.records) : u.records[k].n <= top
  <2>1. ASSUME NEW k \in 1 .. Len(u.records) PROVE u.records[k].n <= top
    <3>1. u.records[k].n <= m.n /\ u.records[k].n \in Nat BY <1>15
    <3>2. QED BY <1>5, <3>1
  <2>2. QED BY <2>1
<1>18. Sound(u) /\ Halts(u) BY <1>6 DEF Turned
<1>19. Burst(s, u, q, top, i + 1)
  BY <1>11, <1>12, <1>13, <1>14, <1>16, <1>17, <1>18 DEF Burst
<1>20. QED BY <1>19 DEF u, m

LEMMA Bursts ==
    ASSUME NEW q \in Seq(Mbuf), NEW top \in Nat, InOrder(q, top), NEW s,
           Sound(s), Halts(s), ~s.rest, Earlier(s, q, 1),
           \A k \in 1 .. Len(s.records) : s.records[k].n <= top,
           NEW n \in Nat, n <= Len(q), NEW room \in [1 .. n -> Room], NEW f,
           f = [i \in 0 .. n |-> IF i = 0 THEN s
                                 ELSE Handle(f[i - 1], q[i], room[i])]
    PROVE  Burst(s, f[n], q, top, n)
<1> DEFINE S == {i \in 0 .. n : Burst(s, f[i], q, top, i)}
<1>0. Len(q) \in Nat BY LenProperties
<1>1. s \in Rx BY DEF Sound
<1>2. 0 \in S
  <2>1. f[0] = s OBVIOUS
  <2>2. Burst(s, s, q, top, 0)
    <3>1. SameSettings(s, s) BY DEF SameSettings
    <3>2. /\ s.pool \in Nat /\ s.lost \in Nat /\ Len(s.tx) \in Nat
          /\ s.record_count \in Nat /\ s.dropped_count \in Nat
      BY <1>1, Typed
    <3>3. /\ s.pool + Len(s.tx) + s.lost = s.pool + Len(s.tx) + s.lost + 0
          /\ s.record_count + s.dropped_count
               <= s.record_count + s.dropped_count + 0
      BY <3>2
    <3>4. Earlier(s, q, 0 + 1) OBVIOUS
    <3>5. QED BY <3>1, <3>3, <3>4 DEF Burst
  <2>3. QED BY <2>1, <2>2
<1>3. ASSUME NEW i \in 0 .. n - 1, i \in S PROVE i + 1 \in S
  <2>1. /\ i \in Nat /\ i < Len(q) /\ i + 1 \in 0 .. n /\ i + 1 # 0
        /\ i + 1 - 1 = i /\ i + 1 \in 1 .. n
    BY <1>0
  <2>2. Burst(s, f[i], q, top, i) BY <1>3
  <2>3. f[i + 1] = Handle(f[i], q[i + 1], room[i + 1]) BY <2>1
  <2>4. room[i + 1] \in Room BY <2>1
  <2>5. Burst(s, f[i + 1], q, top, i + 1)
    BY <1>1, <2>1, <2>2, <2>3, <2>4, OneMore
  <2>6. QED BY <2>1, <2>5
<1> HIDE DEF S
<1>4. \A i \in 0 .. n : i \in S BY <1>2, <1>3, Climb
<1>5. n \in S BY <1>4
<1>6. QED BY <1>5 DEF S

-----------------------------------------------------------------------------
(* The invariant *)

Loads == [frames : 0 .. MaxFrames, sessions : 0 .. MaxSessions,
          settings : 0 .. MaxSettings, stops : Nat]

\* Every mbuf is somewhere, every frame that arrived is at most one of: in the
\* ring, recorded, dropped.
Counted ==
    /\ rx.pool + Len(rx.ring) + Len(rx.tx) + rx.lost = NumMbufs
    /\ rx.lost <= load.stops * (BurstSize - 1)
    /\ rx.record_count + rx.dropped_count + Len(rx.ring) <= load.frames

\* What waits in the ring came in order, and after all that is recorded.
Queued ==
    /\ InOrder(rx.ring, load.frames)
    /\ \A k \in 1 .. Len(rx.records) : rx.records[k].n <= load.frames
    /\ Earlier(rx, rx.ring, 1)

Flow ==
    /\ Sound(rx) /\ Len(rx.ring) <= RxRing /\ load \in Loads
    /\ Counted /\ Queued

LEMMA LoadTyped ==
    ASSUME load \in Loads
    PROVE  /\ load.frames \in Nat /\ load.frames <= MaxFrames
           /\ load.sessions \in Nat /\ load.settings \in Nat /\ load.stops \in Nat
<1>1. /\ 0 .. MaxFrames \subseteq Nat /\ 0 .. MaxSessions \subseteq Nat
      /\ 0 .. MaxSettings \subseteq Nat
  OBVIOUS
<1>2. load.frames \in 0 .. MaxFrames BY DEF Loads
<1>3. QED BY <1>1, <1>2, Constants DEF Loads

LEMMA InitFlow == Init => Flow
<1> SUFFICES ASSUME Init PROVE Flow OBVIOUS
<1>1. PICK serve \in BOOLEAN, with_seq \in BOOLEAN, have_ip \in BOOLEAN,
           port \in Ports, limit \in CountLimits :
          rx = [serve |-> serve, recording |-> ~serve, stopping |-> FALSE,
                wire_has_seq |-> with_seq, have_local_ip |-> have_ip,
                udp_port |-> port, count_limit |-> limit,
                record_count |-> 0, dropped_count |-> 0, records |-> <<>>,
                pool |-> NumMbufs, ring |-> <<>>, tx |-> <<>>,
                lost |-> 0, rest |-> FALSE]
  BY DEF Init
<1>2. load = [frames |-> 0, sessions |-> 0, settings |-> 0, stops |-> 0]
  BY DEF Init
<1>3. <<>> \in Recordings /\ <<>> \in Rings /\ <<>> \in Replies
  BY EmptySeq DEF Recordings, Rings, Replies
<1>4. rx \in Rx BY <1>1, <1>3, Constants DEF Rx
<1>5. Len(rx.tx) = 0 /\ Len(rx.ring) = 0 /\ Len(rx.records) = 0 BY <1>1, EmptySeq
<1>6. Courteous(rx) BY <1>5 DEF Courteous
<1>7. Recs(rx) BY <1>1, <1>5 DEF Recs
<1>8. Limited(rx)
  <2>1. limit \in Nat BY Constants
  <2>2. rx.count_limit = limit /\ rx.record_count = 0 BY <1>1
  <2>3. QED BY <2>1, <2>2 DEF Limited
<1>9. Sound(rx) BY <1>4, <1>5, <1>6, <1>7, <1>8, Constants DEF Sound
<1>10. load \in Loads
  <2>1. 0 \in 0 .. MaxFrames /\ 0 \in 0 .. MaxSessions /\ 0 \in 0 .. MaxSettings
    BY Constants
  <2>2. QED BY <1>2, <2>1 DEF Loads
<1>11. Counted
  <2>1. /\ rx.pool = NumMbufs /\ rx.lost = 0 /\ rx.record_count = 0
        /\ rx.dropped_count = 0 /\ load.stops = 0 /\ load.frames = 0
    BY <1>1, <1>2
  <2>2. 0 <= 0 * (BurstSize - 1) BY Constants
  <2>3. QED BY <1>5, <2>1, <2>2, Constants DEF Counted
<1>12. Queued BY <1>5 DEF Queued, InOrder, Earlier
<1>13. QED BY <1>5, <1>9, <1>10, <1>11, <1>12, Constants DEF Flow

\* A step that moves no mbuf and makes no record.
LEMMA StepAside ==
    ASSUME Flow, rx' \in Rx, load' \in Loads,
           rx'.ring = rx.ring, rx'.tx = rx.tx, rx'.pool = rx.pool,
           rx'.lost = rx.lost, rx'.records = rx.records,
           rx'.record_count = rx.record_count,
           rx'.dropped_count = rx.dropped_count,
           rx'.udp_port = rx.udp_port, rx'.count_limit = rx.count_limit,
           rx.stopping => rx'.stopping, rx'.recording => rx.recording,
           rx'.wire_has_seq = rx.wire_has_seq \/ ~rx'.recording,
           load'.frames = load.frames, load'.stops = load.stops
    PROVE  Flow'
<1>1. Sound(rx) BY DEF Flow
<1>2. Courteous(rx') BY <1>1 DEF Sound, Courteous
<1>3. \A r : Fine(r, rx) => Fine(r, rx') BY DEF Fine
<1>4. Recs(rx') BY <1>1, <1>3 DEF Sound, Recs
<1>5. Limited(rx') BY <1>1 DEF Sound, Limited
<1>6. Sound(rx') BY <1>1, <1>2, <1>4, <1>5 DEF Sound
<1>7. Counted' BY DEF Flow, Counted
<1>8. Queued' BY DEF Flow, Queued, InOrder, Earlier
<1>9. QED BY <1>6, <1>7, <1>8 DEF Flow

LEMMA SettingsFlow ==
    ASSUME Flow, \/ RecordingStop \/ Finalized \/ SetWireHasSeq \/ SetLocalIp
    PROVE  Flow'
<1>1. rx \in Rx /\ load \in Loads BY DEF Flow, Sound
<1>2. CASE RecordingStop
  <2>1. rx' = [rx EXCEPT !.stopping = TRUE] /\ load' = load
    BY <1>2 DEF RecordingStop
  <2>2. rx' \in Rx BY <1>1, <2>1 DEF Rx
  <2>3. QED BY <1>1, <2>1, <2>2, StepAside DEF Rx
<1>3. CASE Finalized
  <2>1. rx' = [rx EXCEPT !.recording = FALSE] /\ load' = load
    BY <1>3 DEF Finalized
  <2>2. rx' \in Rx BY <1>1, <2>1 DEF Rx
  <2>3. QED BY <1>1, <2>1, <2>2, StepAside DEF Rx
<1>4. ASSUME load.settings < MaxSettings,
             load' = [load EXCEPT !.settings = @ + 1]
      PROVE  /\ load' \in Loads /\ load'.frames = load.frames
             /\ load'.stops = load.stops
  <2>1. load.settings + 1 \in 0 .. MaxSettings
    BY <1>1, <1>4, LoadTyped, Constants
  <2>2. QED BY <1>1, <1>4, <2>1 DEF Loads
<1>5. CASE SetWireHasSeq
  <2>1. /\ ~rx.recording /\ rx' = [rx EXCEPT !.wire_has_seq = ~@]
        /\ load' \in Loads /\ load'.frames = load.frames
        /\ load'.stops = load.stops
    BY <1>4, <1>5 DEF SetWireHasSeq
  <2>2. rx' \in Rx BY <1>1, <2>1 DEF Rx
  <2>3. QED BY <1>1, <2>1, <2>2, StepAside DEF Rx
<1>6. CASE SetLocalIp
  <2>1. /\ rx' = [rx EXCEPT !.have_local_ip = ~@]
        /\ load' \in Loads /\ load'.frames = load.frames
        /\ load'.stops = load.stops
    BY <1>4, <1>6 DEF SetLocalIp
  <2>2. rx' \in Rx BY <1>1, <2>1 DEF Rx
  <2>3. QED BY <1>1, <2>1, <2>2, StepAside DEF Rx
<1>7. QED BY <1>2, <1>3, <1>5, <1>6

LEMMA StartFlow == Flow /\ RecordingStart => Flow'
<1> SUFFICES ASSUME Flow, RecordingStart PROVE Flow' OBVIOUS
<1>1. rx \in Rx /\ load \in Loads BY DEF Flow, Sound
<1>2. PICK port \in Ports, limit \in CountLimits :
         rx' = [rx EXCEPT !.udp_port = port, !.count_limit = limit,
                          !.recording = TRUE, !.stopping = FALSE,
                          !.record_count = 0, !.dropped_count = 0,
                          !.records = <<>>]
  BY DEF RecordingStart
<1>3. <<>> \in Recordings BY EmptySeq DEF Recordings
<1>4. rx' \in Rx
  <2> DEFINE a == [rx EXCEPT !.udp_port = port, !.count_limit = limit]
             b == [a EXCEPT !.recording = TRUE, !.stopping = FALSE]
             c == [b EXCEPT !.record_count = 0, !.dropped_count = 0]
  <2>1. a \in Rx BY <1>1 DEF Rx
  <2>2. rx' = [c EXCEPT !.records = <<>>] BY <1>2
  <2> HIDE DEF a
  <2>3. b \in Rx BY <2>1 DEF Rx
  <2> HIDE DEF b
  <2>4. c \in Rx BY <2>3 DEF Rx
  <2> HIDE DEF c
  <2>5. QED BY <1>3, <2>2, <2>4 DEF Rx
<1>5. /\ rx'.ring = rx.ring /\ rx'.tx = rx.tx /\ rx'.pool = rx.pool
      /\ rx'.lost = rx.lost /\ rx'.records = <<>> /\ rx'.record_count = 0
      /\ rx'.dropped_count = 0 /\ rx'.count_limit = limit
  BY <1>1, <1>2 DEF Rx
<1>6. /\ load' \in Loads /\ load'.frames = load.frames
      /\ load'.stops = load.stops
  <2>1. /\ load.sessions < MaxSessions
        /\ load' = [load EXCEPT !.sessions = @ + 1]
    BY DEF RecordingStart
  <2>2. load.sessions + 1 \in 0 .. MaxSessions
    BY <1>1, <2>1, LoadTyped, Constants
  <2>3. QED BY <1>1, <2>1, <2>2 DEF Loads
<1>7. Len(rx'.records) = 0 BY <1>5, EmptySeq
<1>8. Courteous(rx') BY <1>5 DEF Flow, Sound, Courteous
<1>9. Recs(rx') BY <1>5, <1>7 DEF Recs
<1>10. Limited(rx')
  <2>1. limit \in Nat BY Constants
  <2>2. QED BY <1>5, <2>1 DEF Limited
<1>11. Sound(rx') BY <1>4, <1>5, <1>8, <1>9, <1>10 DEF Flow, Sound
<1>12. Counted'
  <2>1. /\ rx.record_count \in Nat /\ rx.dropped_count \in Nat
        /\ Len(rx.ring) \in Nat /\ load.frames \in Nat
    BY <1>1, Typed, LoadTyped
  <2>2. rx.record_count + rx.dropped_count + Len(rx.ring) <= load.frames
    BY DEF Flow, Counted
  <2>3. 0 + 0 + Len(rx.ring) <= load.frames BY <2>1, <2>2
  <2>4. QED BY <1>5, <1>6, <2>3 DEF Flow, Counted
<1>13. Queued' BY <1>5, <1>6, <1>7 DEF Flow, Queued, InOrder, Earlier
<1>14. QED BY <1>5, <1>6, <1>11, <1>12, <1>13 DEF Flow

LEMMA TransmittedFlow == Flow /\ Transmitted => Flow'
<1> SUFFICES ASSUME Flow, Transmitted PROVE Flow' OBVIOUS
<1>1. rx \in Rx /\ load \in Loads BY DEF Flow, Sound
<1>2. /\ rx.tx # <<>> /\ rx' = Freed([rx EXCEPT !.tx = Tail(@)])
      /\ load' = load
  BY DEF Transmitted
<1>3. rx.tx \in Seq(Sent) /\ Len(rx.tx) \in Nat BY <1>1, Typed
<1>4. /\ Tail(rx.tx) \in Seq(Sent) /\ Len(Tail(rx.tx)) = Len(rx.tx) - 1
      /\ \A i \in 1 .. Len(Tail(rx.tx)) : Tail(rx.tx)[i] = rx.tx[i + 1]
  BY <1>2, <1>3, HeadTailProperties
<1> DEFINE a == [rx EXCEPT !.tx = Tail(@)]
<1>5. a \in Rx
  <2>1. Tail(rx.tx) \in Replies BY <1>4 DEF Replies
  <2>2. QED BY <1>1, <2>1 DEF Rx
<1>6. /\ a.tx = Tail(rx.tx) /\ SameSettings(rx, a) /\ a.records = rx.records
      /\ a.record_count = rx.record_count /\ a.stopping = rx.stopping
      /\ a.dropped_count = rx.dropped_count
      /\ a.pool = rx.pool /\ a.lost = rx.lost
  BY <1>1 DEF Rx, SameSettings
<1>7. rx' = Freed(a) BY <1>2
<1> HIDE DEF a
<1>8. rx' \in Rx BY <1>5, <1>7 DEF Rx, Freed
<1>9. /\ rx'.tx = a.tx /\ SameSettings(a, rx') /\ rx'.records = a.records
      /\ rx'.record_count = a.record_count /\ rx'.stopping = a.stopping
      /\ rx'.dropped_count = a.dropped_count
      /\ rx'.pool = a.pool + 1 /\ rx'.lost = a.lost
  BY <1>5, <1>7 DEF Rx, SameSettings, Freed
<1>10. SameSettings(rx, rx') BY <1>6, <1>9 DEF SameSettings
<1>11. Courteous(rx')
  <2>0. rx'.tx = Tail(rx.tx) BY <1>6, <1>9
  <2>1. ASSUME NEW k \in 1 .. Len(rx'.tx)
        PROVE  rx'.tx[k] = rx.tx[k + 1] /\ k + 1 \in 1 .. Len(rx.tx)
    <3>1. k \in 1 .. Len(Tail(rx.tx)) BY <2>0
    <3>2. k + 1 \in 1 .. Len(rx.tx) BY <1>3, <1>4, <3>1
    <3>3. QED BY <1>4, <2>0, <3>1, <3>2
  <2>2. Courteous(rx) BY DEF Flow, Sound
  <2>3. QED BY <2>1, <2>2 DEF Courteous
<1>12. Recs(rx')
  <2>1. \A r : Fine(r, rx) => Fine(r, rx') BY <1>10 DEF Fine, SameSettings
  <2>2. QED BY <1>6, <1>9, <2>1 DEF Flow, Sound, Recs
<1>13. Limited(rx') BY <1>6, <1>9, <1>10 DEF Flow, Sound, Limited, SameSettings
<1>14. Len(rx'.tx) = Len(rx.tx) - 1 BY <1>4, <1>6, <1>9
<1>15. Len(rx'.tx) <= TxRing
  <2>1. Len(rx.tx) <= TxRing BY DEF Flow, Sound
  <2>2. QED BY <1>3, <1>14, <2>1, Constants
<1>16. Sound(rx') BY <1>8, <1>11, <1>12, <1>13, <1>15 DEF Sound
<1>17. rx'.ring = rx.ring BY <1>10 DEF SameSettings
<1>18. Counted'
  <2>1. rx.pool \in Nat /\ Len(rx.ring) \in Nat /\ rx.lost \in Nat
    BY <1>1, Typed
  <2>2. rx.pool + Len(rx.ring) + Len(rx.tx) + rx.lost = NumMbufs
    BY DEF Flow, Counted
  <2>3. (rx.pool + 1) + Len(rx.ring) + (Len(rx.tx) - 1) + rx.lost = NumMbufs
    <3> DEFINE p == rx.pool
               q == Len(rx.ring)
               x == Len(rx.tx)
               l == rx.lost
    <3>1. p \in Nat /\ q \in Nat /\ x \in Nat /\ l \in Nat BY <1>3, <2>1
    <3>2. p + q + x + l = NumMbufs BY <2>2
    <3> HIDE DEF p, q, x, l
    <3>3. (p + 1) + q + (x - 1) + l = NumMbufs BY <3>1, <3>2
    <3>4. QED BY <3>3 DEF p, q, x, l
  <2>4. rx'.pool = rx.pool + 1 /\ rx'.lost = rx.lost BY <1>6, <1>9
  <2>5. QED BY <1>2, <1>6, <1>9, <1>14, <1>17, <2>3, <2>4 DEF Flow, Counted
<1>19. Queued'
  BY <1>2, <1>6, <1>9, <1>17 DEF Flow, Queued, InOrder, Earlier
<1>20. QED BY <1>2, <1>16, <1>17, <1>18, <1>19 DEF Flow

LEMMA ArriveFlow == Flow /\ Arrive => Flow'
<1> SUFFICES ASSUME Flow, Arrive PROVE Flow' OBVIOUS
<1>1. rx \in Rx /\ load \in Loads BY DEF Flow, Sound
<1>2. PICK f \in Frames :
        /\ load.frames < MaxFrames /\ rx.pool > 0 /\ Len(rx.ring) < RxRing
        /\ rx' = [rx EXCEPT !.pool = @ - 1,
                            !.ring = Append(@, [n |-> load.frames + 1, f |-> f])]
        /\ load' = [load EXCEPT !.frames = @ + 1]
  BY DEF Arrive
<1>3. /\ rx.pool \in Nat /\ Len(rx.ring) \in Nat /\ Len(rx.tx) \in Nat
      /\ rx.lost \in Nat /\ rx.record_count \in Nat /\ rx.dropped_count \in Nat
      /\ rx.ring \in Seq(Mbuf) /\ rx.records \in Seq(Record)
      /\ load.frames \in Nat
  BY <1>1, Typed, LoadTyped
<1> DEFINE next == load.frames + 1
<1>30. next \in 1 .. MaxFrames /\ next \in 0 .. MaxFrames
  <2> DEFINE h == load.frames
  <2>1. h < MaxFrames /\ h \in Nat BY <1>2, <1>3
  <2>2. MaxFrames \in Nat BY Constants
  <2> HIDE DEF h
  <2>3. h + 1 \in 1 .. MaxFrames /\ h + 1 \in 0 .. MaxFrames BY <2>1, <2>2
  <2>4. QED BY <2>3 DEF h
<1> DEFINE m == [n |-> load.frames + 1, f |-> f]
           q == Append(rx.ring, m)
           a == [rx EXCEPT !.pool = @ - 1]
<1>4. m \in Mbuf
  BY <1>30 DEF Mbuf
<1>5. m.n = load.frames + 1 OBVIOUS
<1> HIDE DEF m
<1>6. /\ q \in Seq(Mbuf) /\ Len(q) = Len(rx.ring) + 1
      /\ \A k \in 1 .. Len(rx.ring) : q[k] = rx.ring[k]
      /\ q[Len(rx.ring) + 1] = m
  BY <1>3, <1>4, Appended
<1>7. rx' = [a EXCEPT !.ring = q]
  <2>1. rx' = [a EXCEPT !.ring = Append(a.ring, m)] BY <1>2 DEF m
  <2>2. a.ring = rx.ring BY <1>1 DEF Rx
  <2>3. QED BY <2>1, <2>2
<1>8. a \in Rx
  <2>1. rx.pool - 1 \in Nat BY <1>2, <1>3
  <2>2. QED BY <1>1, <2>1 DEF Rx
<1>9. a.pool = rx.pool - 1 BY <1>1 DEF Rx
<1>10. /\ SameSettings(rx, a) /\ a.tx = rx.tx /\ a.records = rx.records
       /\ a.record_count = rx.record_count /\ a.stopping = rx.stopping
       /\ a.dropped_count = rx.dropped_count /\ a.lost = rx.lost
  BY <1>1 DEF Rx, SameSettings
<1> HIDE DEF a, q
<1>11. rx' \in Rx
  <2>1. q \in Rings BY <1>6 DEF Rings
  <2>2. QED BY <1>7, <1>8, <2>1 DEF Rx
<1>12. /\ rx'.ring = q /\ rx'.tx = a.tx /\ rx'.records = a.records
       /\ rx'.record_count = a.record_count /\ rx'.stopping = a.stopping
       /\ rx'.dropped_count = a.dropped_count /\ rx'.lost = a.lost
       /\ rx'.pool = a.pool /\ rx'.recording = a.recording
       /\ rx'.wire_has_seq = a.wire_has_seq /\ rx'.udp_port = a.udp_port
       /\ rx'.count_limit = a.count_limit
  BY <1>7, <1>8 DEF Rx
<1>13. /\ rx'.tx = rx.tx /\ rx'.records = rx.records
       /\ rx'.record_count = rx.record_count /\ rx'.stopping = rx.stopping
       /\ rx'.dropped_count = rx.dropped_count /\ rx'.lost = rx.lost
       /\ rx'.pool = rx.pool - 1 /\ rx'.recording = rx.recording
       /\ rx'.wire_has_seq = rx.wire_has_seq /\ rx'.udp_port = rx.udp_port
       /\ rx'.count_limit = rx.count_limit
  BY <1>9, <1>10, <1>12 DEF SameSettings
<1>14. Sound(rx')
  <2>1. \A r : Fine(r, rx) => Fine(r, rx') BY <1>13 DEF Fine
  <2>2. Courteous(rx') BY <1>13 DEF Flow, Sound, Courteous
  <2>3. Recs(rx') BY <1>13, <2>1 DEF Flow, Sound, Recs
  <2>4. Limited(rx') BY <1>13 DEF Flow, Sound, Limited
  <2>5. QED BY <1>11, <1>13, <2>2, <2>3, <2>4 DEF Flow, Sound
<1>15. Len(rx'.ring) = Len(rx.ring) + 1 BY <1>6, <1>12
<1>16. Len(rx'.ring) <= RxRing BY <1>2, <1>3, <1>15, Constants
<1>17. /\ load'.frames = load.frames + 1 /\ load'.stops = load.stops
       /\ load' \in Loads
  BY <1>1, <1>2, <1>30 DEF Loads
<1>18. Counted'
  <2> DEFINE x == rx.pool
             b == Len(rx.ring)
             c == Len(rx.tx)
             d == rx.lost
             e == rx.record_count
             g == rx.dropped_count
             h == load.frames
  <2>1. /\ x \in Nat /\ b \in Nat /\ c \in Nat /\ d \in Nat /\ e \in Nat
        /\ g \in Nat /\ h \in Nat
    BY <1>3
  <2>2. /\ x + b + c + d = NumMbufs /\ d <= load.stops * (BurstSize - 1)
        /\ e + g + b <= h
    BY DEF Flow, Counted
  <2>3. /\ rx'.pool = x - 1 /\ Len(rx'.ring) = b + 1 /\ Len(rx'.tx) = c
        /\ rx'.lost = d /\ rx'.record_count = e /\ rx'.dropped_count = g
        /\ load'.frames = h + 1
    BY <1>13, <1>15, <1>17
  <2> HIDE DEF x, b, c, d, e, g, h
  <2>4. (x - 1) + (b + 1) + c + d = NumMbufs BY <2>1, <2>2
  <2>5. e + g + (b + 1) <= h + 1 BY <2>1, <2>2
  <2>6. QED BY <1>17, <2>2, <2>3, <2>4, <2>5 DEF Counted
<1>19. Queued'
  <2>1. /\ \A i \in 1 .. Len(rx.ring) : rx.ring[i].n <= load.frames
        /\ \A i, j \in 1 .. Len(rx.ring) :
              i < j => rx.ring[i].n < rx.ring[j].n
        /\ \A k \in 1 .. Len(rx.records) : rx.records[k].n <= load.frames
        /\ \A k \in 1 .. Len(rx.records), j \in 1 .. Len(rx.ring) :
              rx.records[k].n < rx.ring[j].n
    BY DEF Flow, Queued, InOrder, Earlier
  <2>2. ASSUME NEW i \in 1 .. Len(q)
        PROVE  \/ i \in 1 .. Len(rx.ring) /\ q[i] = rx.ring[i]
                  /\ q[i].n \in Nat
               \/ i = Len(rx.ring) + 1 /\ q[i].n = load.frames + 1
    <3>1. i \in 1 .. Len(rx.ring) \/ i = Len(rx.ring) + 1 BY <1>3, <1>6
    <3>2. q[i] \in Mbuf BY <1>6, ElementOfSeq
    <3>3. q[i].n \in Nat BY <3>2, Numbers
    <3>4. QED BY <1>5, <1>6, <3>1, <3>3
  <2>3. ASSUME NEW i \in 1 .. Len(q) PROVE q[i].n <= load.frames + 1
    <3>1. CASE i \in 1 .. Len(rx.ring) /\ q[i] = rx.ring[i] /\ q[i].n \in Nat
      <4>1. q[i].n <= load.frames BY <2>1, <3>1
      <4>2. QED BY <1>3, <3>1, <4>1
    <3>2. CASE i = Len(rx.ring) + 1 /\ q[i].n = load.frames + 1
      BY <1>3, <3>2
    <3>3. QED BY <2>2, <3>1, <3>2
  <2>4. ASSUME NEW i \in 1 .. Len(q), NEW j \in 1 .. Len(q), i < j
        PROVE  q[i].n < q[j].n
    <3>0. i \in 1 .. Len(rx.ring) /\ i # Len(rx.ring) + 1
      BY <1>3, <1>6, <2>4
    <3>1. i \in 1 .. Len(rx.ring) /\ q[i] = rx.ring[i] /\ q[i].n \in Nat
      BY <2>2, <3>0
    <3>2. CASE j \in 1 .. Len(rx.ring) /\ q[j] = rx.ring[j]
      BY <2>1, <2>4, <3>1, <3>2
    <3>3. CASE q[j].n = load.frames + 1
      <4>1. rx.ring[i].n <= load.frames BY <2>1, <3>1
      <4>2. QED BY <1>3, <3>1, <3>3, <4>1
    <3>4. QED BY <2>2, <3>2, <3>3
  <2>5. ASSUME NEW k \in 1 .. Len(rx.records)
        PROVE  rx.records[k].n <= load.frames /\ rx.records[k].n \in Nat
    <3>1. rx.records[k] \in Record BY <1>3, ElementOfSeq
    <3>2. QED BY <2>1, <3>1, Numbers
  <2>6. ASSUME NEW k \in 1 .. Len(rx.records), NEW j \in 1 .. Len(q)
        PROVE  rx.records[k].n < q[j].n
    <3>1. CASE j \in 1 .. Len(rx.ring) /\ q[j] = rx.ring[j] BY <2>1, <3>1
    <3>2. CASE q[j].n = load.frames + 1 BY <1>3, <2>5, <3>2
    <3>3. QED BY <2>2, <3>1, <3>2
  <2>7. ASSUME NEW k \in 1 .. Len(rx.records)
        PROVE  rx.records[k].n <= load.frames + 1
    BY <1>3, <2>5
  <2>8. InOrder(q, load.frames + 1) BY <2>3, <2>4 DEF InOrder
  <2>9. QED BY <1>12, <1>13, <1>17, <2>6, <2>7, <2>8 DEF Queued, Earlier
<1>20. QED BY <1>14, <1>16, <1>17, <1>18, <1>19 DEF Flow

LEMMA BurstTaken ==
    LET nb_rx == Min({BurstSize, Len(rx.ring)})
    IN  Len(rx.ring) \in Nat =>
            nb_rx \in Nat /\ nb_rx <= BurstSize /\ nb_rx <= Len(rx.ring)
<1> SUFFICES ASSUME Len(rx.ring) \in Nat
             PROVE  \E m \in {BurstSize, Len(rx.ring)} :
                       \A k \in {BurstSize, Len(rx.ring)} : m <= k
  BY Constants DEF Min
<1>1. CASE BurstSize <= Len(rx.ring) BY <1>1, Constants
<1>2. CASE ~(BurstSize <= Len(rx.ring)) BY <1>2, Constants
<1>3. QED BY <1>1, <1>2

LEMMA PollFlow == Flow /\ CapturePoll => Flow'
<1> SUFFICES ASSUME Flow, CapturePoll PROVE Flow' OBVIOUS
<1> DEFINE n == Min({BurstSize, Len(rx.ring)})
           q == rx.ring
           left == SubSeq(rx.ring, n + 1, Len(rx.ring))
           s == [rx EXCEPT !.ring = SubSeq(@, n + 1, Len(@)), !.rest = FALSE]
<1>1. rx \in Rx /\ load \in Loads BY DEF Flow, Sound
<1>2. PICK room \in [1 .. n -> Room] :
         LET after[i \in 0 .. n] ==
               IF i = 0 THEN s ELSE Handle(after[i - 1], rx.ring[i], room[i])
         IN  /\ n > 0 /\ (rx.serve \/ ~rx.stopping)
             /\ rx' = after[n]
             /\ load' = [load EXCEPT !.stops =
                           @ + IF after[n].rest THEN 1 ELSE 0]
  BY DEF CapturePoll
<1> DEFINE f == CHOOSE f : f = [i \in 0 .. n |->
                   IF i = 0 THEN s ELSE Handle(f[i - 1], q[i], room[i])]
<1>3. /\ n > 0 /\ (rx.serve \/ ~rx.stopping) /\ rx' = f[n]
      /\ load' = [load EXCEPT !.stops = @ + IF f[n].rest THEN 1 ELSE 0]
  BY <1>2
<1>4. /\ rx.ring \in Seq(Mbuf) /\ Len(rx.ring) \in Nat
      /\ load.frames \in Nat /\ load.stops \in Nat
      /\ rx.records \in Seq(Record)
  BY <1>1, Typed, LoadTyped
<1>5. n \in Nat /\ n <= BurstSize /\ n <= Len(rx.ring) BY <1>4, BurstTaken
<1> HIDE DEF n
<1>6. f = [i \in 0 .. n |->
             IF i = 0 THEN s ELSE Handle(f[i - 1], q[i], room[i])]
  <2> HIDE DEF s
  <2>1. \E g : Turns(g, n, s, q, room) BY <1>5, TurnsExist
  <2>2. f = CHOOSE g : Turns(g, n, s, q, room) BY DEF Turns
  <2> HIDE DEF f, q
  <2>3. Turns(f, n, s, q, room) BY <2>1, <2>2
  <2>4. QED BY <2>3 DEF Turns
<1> HIDE DEF f
<1>7. /\ left \in Seq(Mbuf) /\ Len(left) = Len(rx.ring) - n
      /\ \A i \in 1 .. Len(rx.ring) - n : left[i] = rx.ring[n + i]
  <2>1. \A i \in n + 1 .. Len(rx.ring) : rx.ring[i] \in Mbuf
    BY <1>4, <1>5, ElementOfSeq
  <2>2. /\ left \in Seq(Mbuf)
        /\ Len(left) = IF n + 1 <= Len(rx.ring)
                       THEN Len(rx.ring) - (n + 1) + 1 ELSE 0
        /\ \A i \in 1 .. Len(rx.ring) - (n + 1) + 1 :
              left[i] = rx.ring[n + 1 + i - 1]
    <3>1. n + 1 \in Int /\ Len(rx.ring) \in Int BY <1>4, <1>5
    <3>2. QED BY <2>1, <3>1, SubSeqProperties
  <2>3. /\ Len(rx.ring) - (n + 1) + 1 = Len(rx.ring) - n
        /\ \A i \in Nat : n + 1 + i - 1 = n + i
        /\ n + 1 <= Len(rx.ring) \/ Len(rx.ring) - n = 0
    BY <1>4, <1>5
  <2>4. Len(left) = Len(rx.ring) - n BY <2>2, <2>3
  <2>5. ASSUME NEW i \in 1 .. Len(rx.ring) - n PROVE left[i] = rx.ring[n + i]
    <3>1. i \in 1 .. Len(rx.ring) - (n + 1) + 1 BY <2>3
    <3>2. left[i] = rx.ring[n + 1 + i - 1] BY <2>2, <3>1
    <3>3. i \in Nat BY <1>4, <1>5
    <3>4. QED BY <2>3, <3>2, <3>3
  <2>6. QED BY <2>2, <2>4, <2>5
<1> DEFINE a == [rx EXCEPT !.ring = left]
<1>8. a \in Rx /\ a.ring = left
  <2>1. left \in Rings BY <1>7 DEF Rings
  <2> HIDE DEF left
  <2>2. QED BY <1>1, <2>1 DEF Rx
<1>9. /\ a.tx = rx.tx /\ a.records = rx.records /\ a.serve = rx.serve
      /\ a.record_count = rx.record_count /\ a.stopping = rx.stopping
      /\ a.dropped_count = rx.dropped_count /\ a.lost = rx.lost
      /\ a.pool = rx.pool /\ a.recording = rx.recording
      /\ a.wire_has_seq = rx.wire_has_seq /\ a.udp_port = rx.udp_port
      /\ a.count_limit = rx.count_limit
  BY <1>1 DEF Rx
<1>10. s = [a EXCEPT !.rest = FALSE] OBVIOUS
<1> HIDE DEF a, s, left
<1>11. s \in Rx BY <1>8, <1>10 DEF Rx
<1>12. /\ s.tx = a.tx /\ s.records = a.records /\ s.serve = a.serve
       /\ s.record_count = a.record_count /\ s.stopping = a.stopping
       /\ s.dropped_count = a.dropped_count /\ s.lost = a.lost
       /\ s.pool = a.pool /\ s.recording = a.recording
       /\ s.wire_has_seq = a.wire_has_seq /\ s.udp_port = a.udp_port
       /\ s.count_limit = a.count_limit /\ s.ring = a.ring /\ ~s.rest
  BY <1>8, <1>10 DEF Rx
<1>13. /\ s.tx = rx.tx /\ s.records = rx.records /\ s.serve = rx.serve
       /\ s.record_count = rx.record_count /\ s.stopping = rx.stopping
       /\ s.dropped_count = rx.dropped_count /\ s.lost = rx.lost
       /\ s.pool = rx.pool /\ s.recording = rx.recording
       /\ s.wire_has_seq = rx.wire_has_seq /\ s.udp_port = rx.udp_port
       /\ s.count_limit = rx.count_limit /\ s.ring = left /\ ~s.rest
  BY <1>8, <1>9, <1>12
<1>14. Sound(s)
  <2>1. \A r : Fine(r, rx) => Fine(r, s) BY <1>13 DEF Fine
  <2>2. Courteous(s) BY <1>13 DEF Flow, Sound, Courteous
  <2>3. Recs(s) BY <1>13, <2>1 DEF Flow, Sound, Recs
  <2>4. Limited(s) BY <1>13 DEF Flow, Sound, Limited
  <2>5. QED BY <1>11, <1>13, <2>2, <2>3, <2>4 DEF Flow, Sound
<1>15. Halts(s) BY <1>3, <1>13 DEF Halts
<1>16. /\ InOrder(q, load.frames) /\ Earlier(s, q, 1)
       /\ \A k \in 1 .. Len(s.records) : s.records[k].n <= load.frames
  BY <1>13 DEF Flow, Queued, Earlier
<1> HIDE DEF q
<1>17. Burst(s, f[n], q, load.frames, n)
  <2>1. q \in Seq(Mbuf) /\ n <= Len(q) BY <1>4, <1>5 DEF q
  <2>2. QED BY <1>4, <1>5, <1>6, <1>13, <1>14, <1>15, <1>16, <2>1, Bursts
<1> DEFINE t == f[n]
<1>18. rx' = t BY <1>3
<1>19. load' = [load EXCEPT !.stops = @ + IF t.rest THEN 1 ELSE 0] BY <1>3
<1>20. Burst(s, t, q, load.frames, n) BY <1>17
<1> HIDE DEF t
<1>21. Sound(t) /\ SameSettings(s, t) /\ t \in Rx BY <1>20 DEF Burst, Sound
<1>22. t.ring = left BY <1>13, <1>21 DEF SameSettings
<1>23. Len(t.ring) = Len(rx.ring) - n BY <1>7, <1>22
<1>24. /\ load' \in Loads /\ load'.frames = load.frames
       /\ load'.stops = load.stops + IF t.rest THEN 1 ELSE 0
  <2>1. t.rest \in BOOLEAN BY <1>21, Typed
  <2>2. load.stops + (IF t.rest THEN 1 ELSE 0) \in Nat BY <1>4, <2>1
  <2>3. QED BY <1>1, <1>19, <2>2 DEF Loads
<1>25. Counted'
  <2> DEFINE x == rx.pool
             b == Len(rx.ring)
             c == Len(rx.tx)
             d == rx.lost
             e == rx.record_count
             g == rx.dropped_count
             h == load.frames
             v == load.stops
             x1 == t.pool
             c1 == Len(t.tx)
             d1 == t.lost
             e1 == t.record_count
             g1 == t.dropped_count
  <2>1. /\ x \in Nat /\ b \in Nat /\ c \in Nat /\ d \in Nat /\ e \in Nat
        /\ g \in Nat /\ h \in Nat /\ v \in Nat
    BY <1>1, <1>4, Typed
  <2>2. /\ x1 \in Nat /\ c1 \in Nat /\ d1 \in Nat /\ e1 \in Nat /\ g1 \in Nat
        /\ t.rest \in BOOLEAN
    BY <1>21, Typed
  <2>3. /\ x + b + c + d = NumMbufs /\ d <= v * (BurstSize - 1)
        /\ e + g + b <= h
    BY DEF Flow, Counted
  <2>4. /\ x1 + c1 + d1 = x + c + d + n
        /\ e1 + g1 <= e + g + n
        /\ t.rest => d1 + 1 <= d + n
        /\ ~t.rest => d1 = d
    BY <1>13, <1>20 DEF Burst
  <2> HIDE DEF x, b, c, d, e, g, h, v, x1, c1, d1, e1, g1
  <2>5. x1 + (b - n) + c1 + d1 = NumMbufs BY <1>5, <2>1, <2>2, <2>3, <2>4
  <2>6. e1 + g1 + (b - n) <= h BY <1>5, <2>1, <2>2, <2>3, <2>4
  <2>7. t.rest => d1 <= (v + 1) * (BurstSize - 1)
    <3> DEFINE w == v * (BurstSize - 1)
    <3>1. (v + 1) * (BurstSize - 1) = w + (BurstSize - 1)
      BY <2>1, Constants
    <3>2. w \in Nat BY <2>1, Constants
    <3>3. d <= w BY <2>3
    <3> HIDE DEF w
    <3>4. t.rest => d1 <= w + (BurstSize - 1)
      BY <1>5, <2>1, <2>2, <2>4, <3>2, <3>3, Constants
    <3>5. QED BY <3>1, <3>4
  <2>8. d1 <= load'.stops * (BurstSize - 1)
    <3>1. CASE t.rest
      <4>1. load'.stops = v + 1 BY <1>24, <3>1 DEF v
      <4>2. QED BY <2>7, <3>1, <4>1
    <3>2. CASE ~t.rest
      <4>1. load'.stops = v BY <1>24, <2>1, <3>2 DEF v
      <4>2. d1 = d BY <2>4, <3>2
      <4>3. QED BY <2>3, <4>1, <4>2
    <3>3. QED BY <3>1, <3>2
  <2>9. Len(t.ring) = b - n BY <1>23 DEF b
  <2>10. QED BY <1>18, <1>24, <2>5, <2>6, <2>8, <2>9
             DEF Counted, x1, c1, d1, e1, g1, h
<1>26. Queued'
  <2>1. ASSUME NEW i \in 1 .. Len(t.ring)
        PROVE  /\ n + i \in 1 .. Len(q) /\ t.ring[i] = q[n + i]
               /\ n + i \in n + 1 .. Len(q) /\ i \in Nat
    <3>1. i \in 1 .. Len(rx.ring) - n BY <1>23
    <3>2. /\ n + i \in 1 .. Len(rx.ring) /\ n + i \in n + 1 .. Len(rx.ring)
          /\ i \in Nat
      BY <1>4, <1>5, <3>1
    <3>3. t.ring[i] = rx.ring[n + i] BY <1>7, <1>22, <3>1
    <3>4. QED BY <3>2, <3>3 DEF q
  <2>2. InOrder(t.ring, load.frames)
    <3>1. \A i \in 1 .. Len(t.ring) : t.ring[i].n <= load.frames
      BY <1>16, <2>1 DEF InOrder
    <3>2. ASSUME NEW i \in 1 .. Len(t.ring), NEW j \in 1 .. Len(t.ring), i < j
          PROVE  t.ring[i].n < t.ring[j].n
      <4>1. n + i < n + j BY <1>5, <2>1, <3>2
      <4>2. n + i \in 1 .. Len(q) /\ n + j \in 1 .. Len(q) BY <2>1
      <4>3. q[n + i].n < q[n + j].n BY <1>16, <4>1, <4>2 DEF InOrder
      <4>4. QED BY <2>1, <4>3
    <3>3. QED BY <3>1, <3>2 DEF InOrder
  <2>3. Earlier(t, t.ring, 1)
    <3>1. Earlier(t, q, n + 1) BY <1>20 DEF Burst
    <3>2. QED BY <2>1, <3>1 DEF Earlier
  <2>4. \A k \in 1 .. Len(t.records) : t.records[k].n <= load.frames
    BY <1>20 DEF Burst
  <2>5. QED BY <1>18, <1>24, <2>2, <2>3, <2>4 DEF Queued
<1>27. Len(t.ring) <= RxRing
  <2>1. Len(rx.ring) <= RxRing /\ RxRing \in Nat BY Constants DEF Flow
  <2>2. QED BY <1>4, <1>5, <1>23, <2>1
<1>28. QED BY <1>18, <1>21, <1>24, <1>25, <1>26, <1>27 DEF Flow

LEMMA NextFlow == Flow /\ [Next]_vars => Flow'
<1> SUFFICES ASSUME Flow, [Next]_vars PROVE Flow' OBVIOUS
<1>1. CASE Next BY <1>1, ArriveFlow, PollFlow, TransmittedFlow, StartFlow,
                   SettingsFlow DEF Next
<1>2. CASE UNCHANGED vars
  BY <1>2 DEF vars, Flow, Sound, Counted, Queued, Earlier, InOrder
<1>3. QED BY <1>1, <1>2

\* The invariant holds in every reachable state.
THEOREM Flows == Spec => []Flow
<1>1. Init => Flow BY InitFlow
<1>2. Flow /\ [Next]_vars => Flow' BY NextFlow
<1>3. QED BY <1>1, <1>2, PTL DEF Spec

-----------------------------------------------------------------------------
(* The theorems *)

\* The context capture_poll works with stays within its types and bounds: no
\* ring overflows, and no counter exceeds the frames that have arrived.
THEOREM RxTyped == Spec => []TypeOK
<1>1. Flow => TypeOK
  <2> SUFFICES ASSUME Flow PROVE TypeOK OBVIOUS
  <2>1. rx \in Rx /\ load \in Loads BY DEF Flow, Sound
  <2> DEFINE x == rx.pool
             b == Len(rx.ring)
             c == Len(rx.tx)
             d == rx.lost
             e == rx.record_count
             g == rx.dropped_count
             h == load.frames
  <2>2. /\ x \in Nat /\ b \in Nat /\ c \in Nat /\ d \in Nat /\ e \in Nat
        /\ g \in Nat /\ h \in Nat /\ h <= MaxFrames
    BY <2>1, Typed, LoadTyped
  <2>3. x + b + c + d = NumMbufs /\ e + g + b <= h BY DEF Flow, Counted
  <2> HIDE DEF x, b, c, d, e, g, h
  <2>4. NumMbufs \in Nat /\ MaxFrames \in Nat BY Constants
  <2>5. /\ x \in 0 .. NumMbufs /\ d \in 0 .. NumMbufs
        /\ e \in 0 .. MaxFrames /\ g \in 0 .. MaxFrames
    BY <2>2, <2>3, <2>4
  <2> DEFINE Q == [serve : BOOLEAN, recording : BOOLEAN, stopping : BOOLEAN,
               wire_has_seq : BOOLEAN, have_local_ip : BOOLEAN,
               udp_port : Ports, count_limit : CountLimits,
               record_count : 0 .. MaxFrames, dropped_count : 0 .. MaxFrames,
               records : Seq(Record),
               pool : 0 .. NumMbufs, ring : Seq(Mbuf), tx : Seq(Sent),
               lost : 0 .. NumMbufs, rest : BOOLEAN]
             M == 0 .. MaxFrames
             N == 0 .. NumMbufs
  <2>6. /\ rx.pool \in N /\ rx.lost \in N
        /\ rx.record_count \in M /\ rx.dropped_count \in M
    BY <2>5 DEF x, d, e, g
  <2>7. Q = [serve : BOOLEAN, recording : BOOLEAN, stopping : BOOLEAN,
               wire_has_seq : BOOLEAN, have_local_ip : BOOLEAN,
               udp_port : Ports, count_limit : CountLimits,
               record_count : M, dropped_count : M, records : Recordings,
               pool : N, ring : Rings, tx : Replies, lost : N, rest : BOOLEAN]
    BY DEF Recordings, Rings, Replies
  <2> HIDE DEF Q, M, N
  <2>8. rx \in Q BY <2>1, <2>6, <2>7 DEF Rx
  <2>9. Len(rx.ring) <= RxRing /\ Len(rx.tx) <= TxRing BY DEF Flow, Sound
  <2>10. QED BY <2>1, <2>8, <2>9 DEF TypeOK, Loads, Q
<1>2. QED BY <1>1, Flows, PTL

\* Whatever arrives and whenever a recording stops, every mbuf of the pool is
\* in the pool, in a ring, or lost by one of the breaks of capture_poll's loop,
\* and a break loses less than a burst.
THEOREM NoMbufUnaccounted == Spec => []MbufsAccounted
<1>1. Flow => MbufsAccounted BY DEF Flow, Counted, MbufsAccounted
<1>2. QED BY <1>1, Flows, PTL

\* try_arp and try_icmp_echo answer nobody but the asker of a request for this
\* host, whatever requests arrive and however many wait to be sent.
THEOREM AskersAreAnswered == Spec => []RepliesReachAsker
<1>1. Flow => RepliesReachAsker
  <2> SUFFICES ASSUME Flow PROVE RepliesReachAsker OBVIOUS
  <2>1. rx \in Rx /\ Courteous(rx) BY DEF Flow, Sound
  <2>2. rx.tx \in Seq(Sent) BY <2>1, Typed
  <2>3. DOMAIN rx.tx = 1 .. Len(rx.tx) BY <2>2, LenProperties
  <2>4. QED BY <2>1, <2>3 DEF Courteous, RepliesReachAsker
<1>2. QED BY <1>1, Flows, PTL

\* capture_poll records the frames for the recording's port, in the order of
\* arrival, each once and none beyond the limit, with bytes of their own only -
\* of a sender's frames the payload whole - whatever else arrives between them,
\* if the frames that claim to be sent are as app_build_packet builds them.
THEOREM RecordsAreTheFrames ==
    ASSUME Honest
    PROVE  Spec => []RecordsAreSent
<1>1. Flow => RecordsAreSent
  <2> SUFFICES ASSUME Flow PROVE RecordsAreSent OBVIOUS
  <2>1. rx \in Rx /\ Recs(rx) /\ Limited(rx) BY DEF Flow, Sound
  <2>2. rx.records \in Seq(Record) BY <2>1, Typed
  <2>3. DOMAIN rx.records = 1 .. Len(rx.records) BY <2>2, LenProperties
  <2>4. QED BY <2>1, <2>3 DEF Recs, Limited, Fine, RecordsAreSent
<1>2. QED BY <1>1, Flows, PTL
==============================================================================
