--------------------------------- MODULE Tc ---------------------------------
(***************************************************************************)
(* The traffic control collector,                                          *)
(* crates/nlx-netlink/src/collectors/tc.rs.                                *)
(***************************************************************************)
EXTENDS Collecting

TcPlan(got) ==
    <<OnFresh(Dump("links", MaxDumpRestarts)), Dump("qdiscs", MaxDumpRestarts)>>

TcReaction(op, e) == "fail"

\* build_ifindex_map, and its use: the qdiscs are dumped after the links, so
\* that an interface may be missing.
TcDevice(got, ifindex) ==
    LET links == Where(Frames(got, "links"),
                           LAMBDA f : "name" \in DOMAIN f /\ f.ifindex = ifindex)
    IN  IF links = <<>> THEN "unknown" ELSE links[Len(links)].name

\* parse_qdisc_frame and parse_tca_stats2: without basic statistics a qdisc
\* does not count.
TcQdiscs(got) ==
    MapSeq(Where(Frames(got, "qdiscs"), LAMBDA f : "basic" \in DOMAIN f),
           LAMBDA f : [device |-> TcDevice(got, f.ifindex), kind |-> Attr(f, "kind", "unknown"),
                       bytes |-> f.basic.bytes, packets |-> f.basic.packets,
                       queue |-> Attr(f, "queue", [drops |-> 0, overlimits |-> 0, backlog |-> 0])])

\* AggStats::add and emit_qdisc_metrics
TcSamples(labels, qdiscs) ==
    <<Counter("nft_tc_qdisc_bytes_total", labels, Saturating(qdiscs, LAMBDA q : q.bytes)),
      Counter("nft_tc_qdisc_packets_total", labels, Saturating(qdiscs, LAMBDA q : q.packets)),
      Counter("nft_tc_qdisc_drops_total", labels, Saturating(qdiscs, LAMBDA q : q.queue.drops)),
      Counter("nft_tc_qdisc_overlimits_total", labels, Saturating(qdiscs, LAMBDA q : q.queue.overlimits)),
      Gauge("nft_tc_qdisc_backlog_bytes", labels, Saturating(qdiscs, LAMBDA q : q.queue.backlog))>>

\* Mutant: one series for each qdisc, although several have the same labels.
TcEmitEach(got) ==
    Each(TcQdiscs(got), LAMBDA q : TcSamples([device |-> q.device, kind |-> q.kind], <<q>>))

TcEmit(got) ==
    Grouped(TcQdiscs(got), LAMBDA q : [device |-> q.device, kind |-> q.kind], TcSamples)
=============================================================================
