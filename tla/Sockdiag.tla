------------------------------ MODULE Sockdiag ------------------------------
(***************************************************************************)
(* The socket diagnostics collector,                                       *)
(* crates/nlx-netlink/src/collectors/sockdiag.rs.                          *)
(***************************************************************************)
EXTENDS Collecting

\* collect_sockdiag: both families, and both protocols of each.
SockDumps ==
    <<[op |-> "tcp4", protocol |-> "tcp"], [op |-> "udp4", protocol |-> "udp"],
      [op |-> "tcp6", protocol |-> "tcp"], [op |-> "udp6", protocol |-> "udp"]>>

\* dump_one_family, on one socket.
SockPlan(got) ==
    [i \in DOMAIN SockDumps |->
        IF i = 1 THEN OnFresh(Dump(SockDumps[i].op, MaxDumpRestarts))
        ELSE Dump(SockDumps[i].op, MaxDumpRestarts)]

SockReaction(op, e) == "fail"

\* probe_available only opens a socket.
SockProbe == OnFresh(Single("open"))

\* SocketState::from_kernel: a UDP socket that is not connected is not closed.
SockState(protocol, state) == IF protocol = "udp" /\ state = "close" THEN "unconnected" ELSE state

\* SocketState::as_str
SockStates ==
    {"established", "syn_sent", "syn_recv", "fin_wait1", "fin_wait2", "time_wait", "close",
     "close_wait", "last_ack", "listen", "closing", "new_syn_recv", "unconnected"}

\* parse_frame; a short frame is skipped.
SockSockets(got) ==
    Each(SockDumps, LAMBDA d :
         MapSeq(Where(Frames(got, d.op), LAMBDA f : f # <<>>),
                LAMBDA f : [protocol |-> d.protocol, state |-> SockState(d.protocol, f.state),
                            rqueue |-> f.rqueue, wqueue |-> f.wqueue, attrs |-> f]))

SockBucketSamples(key, sockets) ==
    LET labels == [protocol |-> key.protocol, state |-> Known(SockStates, key.state)]
    IN  <<Gauge("nft_socket_count", labels, Len(sockets)),
          Gauge("nft_socket_receive_queue_bytes", labels, TotalOf(sockets, LAMBDA s : s.rqueue)),
          Gauge("nft_socket_send_queue_bytes", labels, TotalOf(sockets, LAMBDA s : s.wqueue))>>

\* The drops that INET_DIAG_SKMEMINFO gave, by protocol.
SockWithDrops(sockets) == Where(sockets, LAMBDA s : "drops" \in DOMAIN s.attrs)

\* The retransmits that INET_DIAG_INFO gave: TCP alone has them.
SockRetransmits(sockets) ==
    TotalOf(Where(sockets, LAMBDA s : s.protocol = "tcp"),
          LAMBDA s : Attr(s.attrs, "retransmits", 0))

SockEmit(got) ==
    LET sockets == SockSockets(got)
        dropped == SockWithDrops(sockets)
    IN  Grouped(sockets, LAMBDA s : [protocol |-> s.protocol, state |-> s.state],
                SockBucketSamples)
        \o Grouped(dropped, LAMBDA s : s.protocol,
                   LAMBDA p, same : <<Counter("nft_socket_drops_total", [protocol |-> p],
                                              TotalOf(same, LAMBDA s : s.attrs.drops))>>)
        \o IF SockRetransmits(sockets) > 0 \/ \E i \in DOMAIN dropped : dropped[i].protocol = "tcp"
           THEN <<Counter("nft_socket_retransmits_total", [protocol |-> "tcp"],
                          SockRetransmits(sockets))>>
           ELSE <<>>
=============================================================================
