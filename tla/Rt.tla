--------------------------------- MODULE Rt ---------------------------------
(***************************************************************************)
(* The rtnetlink collector, crates/nlx-netlink/src/collectors/rt.rs.       *)
(***************************************************************************)
EXTENDS Collecting

RtFamily(family) == Known({"inet", "inet6"}, family)

\* nud_state_label: the first of these that the state has.
NudStates ==
    <<"permanent", "reachable", "stale", "delay", "probe", "failed", "noarp", "incomplete">>
RtNeighState(state) ==
    LET named == Where(NudStates, LAMBDA s : s \in state)
    IN  IF named = <<>> THEN "unknown" ELSE named[1]

\* table_label of RTA_TABLE, or else of the eight bits in the header.
RtRouteKey(f) ==
    [family |-> RtFamily(f.family),
     table |-> Known({"unspec", "default", "main", "local"}, Attr(f, "rta_table", f.table))]

RtNeighKey(f) == [family |-> RtFamily(f.family), state |-> RtNeighState(f.state)]

\* parse_link_frame: STATS64_*, the places of the counters in the statistics.
LinkCounters ==
    <<[name |-> "nft_link_receive_bytes_total", at |-> 3],
      [name |-> "nft_link_transmit_bytes_total", at |-> 4],
      [name |-> "nft_link_receive_packets_total", at |-> 1],
      [name |-> "nft_link_transmit_packets_total", at |-> 2],
      [name |-> "nft_link_receive_errors_total", at |-> 5],
      [name |-> "nft_link_transmit_errors_total", at |-> 6],
      [name |-> "nft_link_receive_drops_total", at |-> 7],
      [name |-> "nft_link_transmit_drops_total", at |-> 8]>>

\* A link is up when its flags say so and its operational state, when the
\* driver keeps one, does too.
LinkUp(f) == /\ {"up", "running"} \subseteq f.flags
             /\ Attr(f, "operstate", "up") = "up"

\* emit_link_metrics: statistics that are absent or short read 0.
LinkStats(f) == Attr(f, "stats64", [i \in 1..8 |-> 0])
LinkSamples(f) ==
    LET labels == [device |-> f.name]
    IN  MapSeq(LinkCounters, LAMBDA c : Counter(c.name, labels, LinkStats(f)[c.at]))
        \o <<Gauge("nft_link_up", labels, Bit(LinkUp(f)))>>

\* collect(): four dumps on one socket.
RtPlan(got) ==
    <<OnFresh(Dump("links", MaxDumpRestarts)), Dump("addresses", MaxDumpRestarts),
      Dump("routes", MaxDumpRestarts), Dump("neighbours", MaxDumpRestarts)>>

RtReaction(op, e) == "fail"

\* probe_available only opens a socket, as does the plan's first request.
RtProbe == OnFresh(Single("open"))

\* count_addresses, count_routes, count_neighbours: a frame too short for its
\* header does not count, nor does an entry of a bridge.
RtWhole(got, op) == Where(Frames(got, op), LAMBDA f : f # <<>>)

RtEmit(got) ==
    Each(Where(Frames(got, "links"), LAMBDA f : "name" \in DOMAIN f), LinkSamples)
    \o Tally(MapSeq(RtWhole(got, "addresses"), LAMBDA f : [family |-> RtFamily(f.family)]),
             LAMBDA k, n : Gauge("nft_address_count", k, n))
    \o Tally(MapSeq(RtWhole(got, "routes"), RtRouteKey),
             LAMBDA k, n : Gauge("nft_route_count", k, n))
    \o Tally(MapSeq(Where(RtWhole(got, "neighbours"), LAMBDA f : f.family # "bridge"),
                    RtNeighKey),
             LAMBDA k, n : Gauge("nft_neighbor_count", k, n))
=============================================================================
