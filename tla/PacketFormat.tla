---------------------------- MODULE PacketFormat ----------------------------
(***************************************************************************)
(* The frames a recorder sees, field by field: how a sender builds one     *)
(* (app_build_packet), how the recorder parses it (app_parse_packet), and  *)
(* how the responder turns a request into its reply in place (try_arp,     *)
(* try_icmp_echo).  Lengths are the real ones, in bytes; of addresses,     *)
(* ports and payloads only the identity counts; checksums are left out.    *)
(*                                                                         *)
(* A definition that stands just before another it resembles is a fault    *)
(* the runs must notice.                                                   *)
(***************************************************************************)
EXTENDS Naturals

CONSTANTS
    Macs, Ips,          \* addresses on the segment
    LocalMac, LocalIp   \* this port's own

ASSUME AddressAssumption == LocalMac \in Macs /\ LocalIp \in Ips

EthHdrLen  == 14
Ipv4HdrLen == 20
UdpHdrLen  == 8
SeqLen     == 8
ArpHdrLen  == 28        \* sizeof(struct rte_arp_hdr)
IcmpHdrLen == 8         \* sizeof(struct rte_icmp_hdr)
HdrLen(with_seq) == EthHdrLen + Ipv4HdrLen + UdpHdrLen
                      + IF with_seq THEN SeqLen ELSE 0

\* A length field of 16 bits.
Be16(n) == n % 65536

Ops == {"arpRequest", "arpReply", "echoRequest", "echoReply", "other"}
EtherTypes == {"ipv4", "arp", "other"}
Protos == {"udp", "icmp", "other"}
Half == 0 .. 15         \* a field of four bits
Word == 0 .. 65535      \* a field of 16

\* What a built frame was built from; a history field.
Origin == [with_seq : BOOLEAN, payload : Nat, payload_len : Nat]

\* sha, tha: an ARP message's own addresses.  op: its opcode, or an ICMP type.
Frame ==
    [len : Nat, type : EtherTypes, eth_src : Macs, eth_dst : Macs,
     version : Half, ihl : Half, proto : Protos, total_length : Word,
     src_ip : Ips, dst_ip : Ips, sha : Macs, tha : Macs, op : Ops,
     dst_port : Word, udp_len : Word, payload : Nat, sent : Origin]

NotSent == [with_seq |-> FALSE, payload |-> 0, payload_len |-> 0]
NoFrame ==
    [len |-> 0, type |-> "other", eth_src |-> LocalMac, eth_dst |-> LocalMac,
     version |-> 0, ihl |-> 0, proto |-> "other", total_length |-> 0,
     src_ip |-> LocalIp, dst_ip |-> LocalIp, sha |-> LocalMac, tha |-> LocalMac,
     op |-> "other", dst_port |-> 0, udp_len |-> 0, payload |-> 0,
     sent |-> NotSent]

-----------------------------------------------------------------------------
(* The sender *)

Fits(total, payload_len, with_seq) == total >= HdrLen(with_seq) + payload_len

\* The lengths a header declares, from those of payload alone: as it was once.
BuiltDeclaringPayload(total, dst_port, with_seq, payload, payload_len) ==
    [NoFrame EXCEPT !.len = total, !.type = "ipv4", !.version = 4, !.ihl = 5,
       !.proto = "udp", !.dst_port = dst_port, !.payload = payload,
       !.total_length = Be16(HdrLen(with_seq) + payload_len - EthHdrLen),
       !.udp_len = Be16(HdrLen(with_seq) + payload_len - EthHdrLen - Ipv4HdrLen),
       !.sent = [with_seq |-> with_seq, payload |-> payload,
                 payload_len |-> total - HdrLen(with_seq)]]

\* sent.payload_len counts the zero padding, which is part of the payload.
Built(total, dst_port, with_seq, payload, payload_len) ==
    [NoFrame EXCEPT !.len = total, !.type = "ipv4", !.version = 4, !.ihl = 5,
       !.proto = "udp", !.dst_port = dst_port, !.payload = payload,
       !.total_length = Be16(total - EthHdrLen),
       !.udp_len = Be16(total - EthHdrLen - Ipv4HdrLen),
       !.sent = [with_seq |-> with_seq, payload |-> payload,
                 payload_len |-> total - HdrLen(with_seq)]]

-----------------------------------------------------------------------------
(* The parser *)

NotOurs == [ok |-> FALSE, dst_port |-> 0, at |-> 0, payload_len |-> 0]

\* Without the last length check.
ParseDeclared(f, with_seq) ==
    LET seq_len == IF with_seq THEN SeqLen ELSE 0
        udp == EthHdrLen + f.ihl * 4
    IN  IF /\ f.len >= EthHdrLen + Ipv4HdrLen
           /\ f.type = "ipv4" /\ f.version = 4 /\ f.proto = "udp"
           /\ f.ihl * 4 >= Ipv4HdrLen /\ f.len >= udp + UdpHdrLen
           /\ f.udp_len >= UdpHdrLen + seq_len
        THEN [ok |-> TRUE, dst_port |-> f.dst_port,
              at |-> udp + UdpHdrLen + seq_len,
              payload_len |-> f.udp_len - UdpHdrLen - seq_len]
        ELSE NotOurs

\* Where the payload starts and how long it is.
Parse(f, with_seq) ==
    LET seq_len == IF with_seq THEN SeqLen ELSE 0
        udp == EthHdrLen + f.ihl * 4
    IN  IF /\ f.len >= EthHdrLen + Ipv4HdrLen
           /\ f.type = "ipv4" /\ f.version = 4 /\ f.proto = "udp"
           /\ f.ihl * 4 >= Ipv4HdrLen /\ f.len >= udp + UdpHdrLen
           /\ f.udp_len >= UdpHdrLen + seq_len
           /\ udp + f.udp_len <= f.len
        THEN [ok |-> TRUE, dst_port |-> f.dst_port,
              at |-> udp + UdpHdrLen + seq_len,
              payload_len |-> f.udp_len - UdpHdrLen - seq_len]
        ELSE NotOurs

-----------------------------------------------------------------------------
(* The responder *)

IsArpRequest(f) ==
    /\ f.type = "arp" /\ f.len >= EthHdrLen + ArpHdrLen
    /\ f.op = "arpRequest" /\ f.dst_ip = LocalIp

\* The replies are written over the request, a field at a time: each right side
\* is read from the frame as the copies before it have left it.
Returned(f) ==
    LET copied == [f EXCEPT !.eth_dst = f.eth_src]
    IN  [copied EXCEPT !.eth_src = LocalMac]

ArpReply(f) ==
    LET back == [Returned(f) EXCEPT !.op = "arpReply"]
        to_sender == [back EXCEPT !.tha = back.sha]
        to_ip == [to_sender EXCEPT !.dst_ip = to_sender.src_ip]
    IN  [to_ip EXCEPT !.sha = LocalMac, !.src_ip = LocalIp]

IsEchoRequest(f) ==
    /\ f.type = "ipv4" /\ f.len >= EthHdrLen + Ipv4HdrLen
    /\ f.version = 4 /\ f.ihl = 5 /\ f.proto = "icmp"
    /\ f.total_length >= Ipv4HdrLen + IcmpHdrLen
    /\ f.len >= EthHdrLen + f.total_length
    /\ f.dst_ip = LocalIp /\ f.op = "echoRequest"

\* Without requester_ip: the source is overwritten before it is read.
EchoReplyToSelf(f) ==
    LET back == Returned(f)
        from_us == [back EXCEPT !.src_ip = back.dst_ip]
        to_asker == [from_us EXCEPT !.dst_ip = from_us.src_ip]
    IN  [to_asker EXCEPT !.op = "echoReply"]

EchoReply(f) ==
    LET back == Returned(f)
        requester_ip == back.src_ip
        from_us == [back EXCEPT !.src_ip = back.dst_ip]
        to_asker == [from_us EXCEPT !.dst_ip = requester_ip]
    IN  [to_asker EXCEPT !.op = "echoReply"]

IsRequest(f) == IsArpRequest(f) \/ IsEchoRequest(f)
Reply(f) == IF IsArpRequest(f) THEN ArpReply(f) ELSE EchoReply(f)
=============================================================================
