------------------------------ MODULE MCRxPath ------------------------------
(***************************************************************************)
(* RxPath with the frames that tell its branches apart: built ones with    *)
(* and without sequence numbers, padding and payloads too large; UDP with  *)
(* wrong lengths, with IP options; requests for this host and for others.  *)
(***************************************************************************)
EXTENDS RxPath

Udp == [Built(60, 1, FALSE, 0, 10) EXCEPT !.sent = NotSent]
Arp == [NoFrame EXCEPT !.len = 60, !.type = "arp", !.eth_src = "macA",
                       !.sha = "macA", !.src_ip = "ipA", !.op = "arpRequest"]
Echo == [NoFrame EXCEPT !.len = 60, !.type = "ipv4", !.version = 4, !.ihl = 5,
           !.proto = "icmp", !.total_length = 40, !.eth_src = "macA",
           !.src_ip = "ipA", !.op = "echoRequest"]

MCFrames ==
    {Built(b.total, b.port, b.with_seq, 1, b.payload_len) :
       b \in {c \in [total : {60, 80}, port : {1, 2}, with_seq : BOOLEAN,
                     payload_len : {10, 38}] :
                Fits(c.total, c.payload_len, c.with_seq)}}
    \cup {[Udp EXCEPT !.udp_len = 4], [Udp EXCEPT !.udp_len = 27],
          [Udp EXCEPT !.ihl = 6, !.udp_len = 22], [Udp EXCEPT !.ihl = 4],
          [Udp EXCEPT !.len = 33]}
    \cup {Arp, [Arp EXCEPT !.dst_ip = "ipB"], [Arp EXCEPT !.len = 41],
          [Arp EXCEPT !.op = "arpReply"]}
    \cup {Echo, [Echo EXCEPT !.dst_ip = "ipB"], [Echo EXCEPT !.total_length = 47],
          [Echo EXCEPT !.op = "echoReply"]}
=============================================================================
