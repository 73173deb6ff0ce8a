----------------------------- MODULE RtExtended -----------------------------
(***************************************************************************)
(* The extended rtnetlink collector,                                       *)
(* crates/nlx-netlink/src/collectors/rt_extended.rs: four groups, of which *)
(* only the first can fail the collector.                                  *)
(***************************************************************************)
EXTENDS Collecting

FibFamilies == <<"inet", "inet6", "mpls">>
FibOp == [inet |-> "fib_inet", inet6 |-> "fib_inet6", mpls |-> "fib_mpls"]
FibOps == {FibOp[f] : f \in DOMAIN FibOp}

\* collect_fib_rules gives up the group at an error other than these two,
\* which count as no rules.  None of its dumps is retried.
FibZero == {"EINVAL", "intr"}
FibLost(got) ==
    \E i \in DOMAIN got : got[i].op \in FibOps /\ got[i].error \notin FibZero \cup Delivered
FibAsked(got) ==
    Where(MapSeq(FibFamilies, LAMBDA f : FibOp[f]),
              LAMBDA op : FibLost(got) => \E i \in DOMAIN got : got[i].op = op)

\* collect(): all on one socket.
RtxPlan(got) ==
    <<OnFresh(Dump("xstats", MaxDumpRestarts)), Dump("fdb", MaxDumpRestarts)>>
    \o MapSeq(FibAsked(got), LAMBDA op : Dump(op, 1))
    \o <<Dump("nexthops", 1)>>

\* RTM_GETSTATS is refused by old kernels with EINVAL and by others with
\* EOPNOTSUPP; whatever else it answers fails the collector.
RtxReaction(op, e) ==
    IF op = "xstats" /\ e \notin {"EINVAL", "EOPNOTSUPP"} THEN "fail"
    ELSE IF e = "open" THEN "fail" ELSE "skip"

\* probe_available asks for rules: an interrupted dump shows that they are there.
RtxProbe == OnFresh(Dump("fib_inet", 1))

\* parse_bridge_xstats and parse_offload_xstats; the two kinds of offload
\* statistics have the same names.
RtxStat(f, a) ==
    LET labels == [interface |-> f.ifindex]
    IN  IF a.kind = "mcast"
        THEN <<Counter("nft_link_xstats_bridge_rx_multicast_bytes_total", labels, a.rx),
               Counter("nft_link_xstats_bridge_tx_multicast_bytes_total", labels, a.tx)>>
        ELSE IF a.kind \in {"cpu_hit", "l3"}
        THEN <<Counter("nft_link_xstats_offload_rx_bytes_total", labels, a.rx),
               Counter("nft_link_xstats_offload_tx_bytes_total", labels, a.tx)>>
        ELSE <<>>

\* collect_bridge_fdb
RtxFdb(got) ==
    MapSeq(Where(Frames(got, "fdb"), LAMBDA f : Attr(f, "family", "") = "bridge"),
           LAMBDA f : [interface |-> f.ifindex])

RtxFibSamples(got) ==
    IF FibLost(got) THEN <<>>
    ELSE MapSeq(FibFamilies, LAMBDA family :
             Gauge("nft_fib_rules", [family |-> family], Len(Frames(got, FibOp[family]))))

\* collect_nexthop_count: EINVAL is a kernel without nexthop objects.
RtxNexthops(got) ==
    IF \E i \in DOMAIN got : got[i].op = "nexthops" /\ got[i].error \in Delivered \cup {"EINVAL"}
    THEN <<Gauge("nft_nexthop_objects", NoLabels, Len(Frames(got, "nexthops")))>>
    ELSE <<>>

RtxEmit(got) ==
    Each(Frames(got, "xstats"), LAMBDA f : Each(Attr(f, "stats", <<>>), LAMBDA a : RtxStat(f, a)))
    \o Tally(RtxFdb(got), LAMBDA k, n : Gauge("nft_bridge_fdb_entries", k, n))
    \o RtxFibSamples(got)
    \o RtxNexthops(got)
=============================================================================
