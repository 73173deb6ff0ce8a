-------------------------------- MODULE Ipvs --------------------------------
(***************************************************************************)
(* The IPVS collector, crates/nlx-netlink/src/collectors/ipvs.rs.          *)
(*                                                                         *)
(* An address attribute is a record of the text it has when read as an     *)
(* address of either family.  A firewall mark is "" when zero or absent,   *)
(* and its text 0x... otherwise.                                           *)
(***************************************************************************)
EXTENDS Collecting

CONSTANTS
    IpvsMaxServices,    \* IPVS_MAX_SERVICES
    IpvsMaxDests        \* IPVS_MAX_DESTS

ASSUME IpvsCapAssumption == IpvsMaxServices \in Nat /\ IpvsMaxDests \in Nat

NoAddress == [inet |-> "", inet6 |-> ""]

\* addr_to_str: an unknown family has no text.
IpvsAddress(af, address) == IF af \in {"inet", "inet6"} THEN address[af] ELSE ""

\* The statistics, from STATS64 or else from the 32-bit STATS of old kernels.
IpvsStats(f) == Attr(f, "stats64", Attr(f, "stats", [conns |-> 0]))

\* parse_service.  `af' is kept to say what vip.contains(':') is later.
IpvsService(f) ==
    LET mark == Attr(f, "fwmark", "")
        af == Attr(f, "af", "inet")
        proto == Attr(f, "proto", "unknown")
    IN  [proto |-> IF proto \in {"tcp", "udp", "sctp"} THEN proto ELSE "unknown",
         vip |-> IF mark # "" THEN "" ELSE IpvsAddress(af, Attr(f, "addr", NoAddress)),
         colon |-> mark = "" /\ af = "inet6" /\ Attr(f, "addr", NoAddress).inet6 # "",
         port |-> IF mark # "" THEN mark ELSE Attr(f, "port", "0"),
         marked |-> mark # "",
         stats |-> IpvsStats(f)]

IpvsServices(got) ==
    Take(MapSeq(Frames(got, "services"), IpvsService), IpvsMaxServices)

\* The address family of a service, guessed from its VIP.
IpvsFamily(svc) == IF svc.colon THEN "inet6" ELSE "inet"

\* build_dest_request: the key by which the kernel looks the service up.
IpvsKey(svc) ==
    IF svc.marked THEN [af |-> IpvsFamily(svc), fwmark |-> svc.port]
    ELSE [af |-> IpvsFamily(svc), proto |-> svc.proto, vip |-> svc.vip, port |-> svc.port]

\* collect(): the destinations of each service in turn, without a retry.
IpvsPlan(got) ==
    <<Resolve, Dump("services", MaxDumpRestarts)>>
    \o MapSeq(IpvsServices(got), LAMBDA svc : DumpFor("dests", IpvsKey(svc), 1))

IpvsReaction(op, e) == GenlReaction(op, e)

\* parse_destination
IpvsDest(f, svc) ==
    [rip |-> IpvsAddress(Attr(f, "af", IpvsFamily(svc)), Attr(f, "addr", NoAddress)),
     rport |-> Attr(f, "port", "0"), weight |-> Attr(f, "weight", 0),
     active |-> Attr(f, "active", 0), inactive |-> Attr(f, "inactive", 0),
     stats |-> IpvsStats(f)]

IpvsServiceLabels(svc) == [proto |-> svc.proto, vip |-> svc.vip, port |-> svc.port]

\* push_svc_metrics: five counters and five rates, one of each here as all
\* are read and emitted alike.
IpvsServiceSamples(svc) ==
    LET labels == IpvsServiceLabels(svc)
    IN  <<Counter("nft_ipvs_connections_total", labels, Attr(svc.stats, "conns", 0)),
          Gauge("nft_ipvs_connections_rate", labels, Attr(svc.stats, "cps", 0))>>

\* push_dest_metrics: likewise one of three counters and one of three gauges.
IpvsDestSamples(svc, dest) ==
    LET labels == [proto |-> svc.proto, vip |-> svc.vip, port |-> svc.port,
                   rip |-> dest.rip, rport |-> dest.rport]
    IN  <<Gauge("nft_ipvs_dest_weight", labels, dest.weight),
          Counter("nft_ipvs_dest_connections_total", labels, Attr(dest.stats, "conns", 0))>>

IpvsEmit(got) ==
    LET services == IpvsServices(got)
        answers == Where(got, LAMBDA a : a.op = "dests")
        Dests(i) == Each(Take(answers[i].frames, IpvsMaxDests),
                         LAMBDA f : IpvsDestSamples(services[i], IpvsDest(f, services[i])))
    IN  FlattenSeq([i \in DOMAIN services |-> IpvsServiceSamples(services[i]) \o Dests(i)])
=============================================================================
