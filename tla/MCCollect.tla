------------------------------ MODULE MCCollect ------------------------------
(***************************************************************************)
(* Instances of Collect for TLC: for each collector two or three states of *)
(* the kernel, chosen so that objects come and go beside one that stays,   *)
(* several objects fall into one bucket, every cap is passed, and each of  *)
(* the series that labels do not tell apart is there twice.                *)
(***************************************************************************)
EXTENDS Collect, TLC

MCPeerId == [a |-> "ha", b |-> "hb", c |-> "hc"]

\* The answer to a request without argument.
One(frames) == NoArg :> frames

d0 == [bus |-> "pci", dev |-> "d0"]
d1 == [bus |-> "pci", dev |-> "d1"]
Reporter(name, errors) == [nest |-> [name |-> name, state |-> 0, errors |-> errors]]
DevlinkKernel ==
    LET first == <<Reporter("fw", 1), Reporter("tx", 4) @@ [port |-> "1"],
                   Reporter("tx", 2)>>
        flat == [name |-> "fw", state |-> 1, errors |-> 3, recoveries |-> 2]
    IN  << [devices |-> One(<<d0>>), ports |-> One(<<d0, d0>>), reporters |-> d0 :> first],
           [devices |-> One(<<d1, d0>>), ports |-> One(<<d1, d0>>),
            reporters |-> (d0 :> <<flat>> @@ d1 :> <<>>)],
           [devices |-> One(<<d1>>), ports |-> One(<<d1>>), reporters |-> d1 :> <<Reporter("fw", 5)>>] >>

Group(id, values) == [id |-> id, stats |-> values]
Stat(index, value) == [index |-> index, value |-> value]
EthtoolKernel ==
    << [stats |-> One(<<[interface |-> "e0", groups |-> <<Group(1, <<Stat(0, 3), Stat(30, 1)>>)>>],
                        [interface |-> "e1", groups |-> <<[stats |-> <<>>]>>]>>)],
       [stats |-> One(<<[interface |-> "e0", groups |-> <<Group(0, <<Stat(0, 9)>>), Group(7, <<Stat(0, 9)>>),
                                                          Group(1, <<Stat(0, 5), Stat(1, 99)>>)>>],
                        [groups |-> <<>>]>>)] >>

Vip(af, port, conns) == [af |-> af, proto |-> "tcp", addr |-> [inet |-> "v", inet6 |-> "::v"],
                         port |-> port, stats64 |-> [conns |-> conns, cps |-> 1]]
MarkedFor(af, mark, conns) == [af |-> af, fwmark |-> mark, stats |-> [conns |-> conns]]
Marked(mark, conns) == MarkedFor("inet", mark, conns)
Real(port, conns) == [af |-> "inet", addr |-> [inet |-> "r", inet6 |-> "::r"], port |-> port,
                      weight |-> 1, active |-> conns, inactive |-> 0, stats64 |-> [conns |-> conns]]
IpvsKernel ==
    << [services |-> One(<<Vip("inet", "80", 2)>>),
        dests |-> KeyOf(Vip("inet", "80", 0)) :> <<Real("1", 2), Real("2", 0)>>],
       [services |-> One(<<Marked("0x1", 0), Vip("inet", "80", 3)>>),
        dests |-> (KeyOf(Vip("inet", "80", 0)) :> <<Real("1", 3), Real("2", 1), Real("3", 0)>>
                   @@ KeyOf(Marked("0x1", 0)) :> <<Real("1", 1)>>)],
       [services |-> One(<<Vip("inet6", "80", 0), Vip("inet", "80", 4), Marked("0x1", 0)>>),
        dests |-> (KeyOf(Marked("0x1", 0)) :> <<Real("1", 1)>>
                   @@ KeyOf(Vip("inet6", "80", 0)) :> <<Real("1", 0), Real("2", 1)>>
                   @@ KeyOf(Vip("inet", "80", 0)) :> <<Real("1", 4)>>)],
       [services |-> One(<<Marked("0x1", 0), MarkedFor("inet6", "0x1", 7)>>),
        dests |-> KeyOf(Marked("0x1", 0)) :> <<Real("1", 1)>>] >>

Sa(proto) == [proto |-> proto, mode |-> "tunnel"]
XfrmKernel ==
    << [sa |-> One(<<Sa("esp"), Sa("esp"), <<>>, Sa("ipip")>>), policy |-> One(<<[dir |-> "in", action |-> "allow"]>>),
        sadinfo |-> One(<<[count |-> 1, max |-> 8]>>), spdinfo |-> One(<<<<>>>>)],
       [sa |-> One(<<Sa("esp")>>), policy |-> One(<<[dir |-> "in", action |-> "allow"], [dir |-> "in", action |-> "icmp"]>>),
        sadinfo |-> One(<<[count |-> 2, max |-> 8]>>), spdinfo |-> One(<<>>)] >>

WgPeer(key, rx) == [key |-> key, rx |-> rx, handshake |-> 5]
WgLink(name) == [name |-> name, kinds |-> {"wireguard"}]
\* The second device of the second state does not fit in one frame, nor does
\* the first peer of the third.
WireguardKernel ==
    << [links |-> One(<<WgLink("w0"), [name |-> "e0", kinds |-> {"veth"}]>>),
        device |-> "w0" :> <<[name |-> "w0", port |-> 7, peers |-> <<WgPeer("a", 1), [rx |-> 0]>>]>>],
       [links |-> One(<<WgLink("w1"), WgLink("w0")>>),
        device |-> ("w0" :> <<[name |-> "w0", port |-> 7, peers |-> <<WgPeer("a", 2)>>]>>
                    @@ "w1" :> <<[name |-> "w1", port |-> 8, peers |-> <<WgPeer("b", 1), WgPeer("c", 0)>>],
                                 [name |-> "w1", peers |-> <<WgPeer("a", 4)>>]>>)],
       [links |-> One(<<WgLink("w1")>>),
        device |-> "w1" :> <<[name |-> "w1", port |-> 8, peers |-> <<WgPeer("a", 5)>>],
                             [name |-> "w1", peers |-> <<[key |-> "a"], [key |-> "c"]>>]>>] >>

Comment(text) == <<[type |-> 1, text |-> "x"], [type |-> 0, text |-> text]>>
CounterOf(bytes) == <<[name |-> "payload"], [name |-> "counter", bytes |-> bytes, packets |-> 1]>>
Rule(text, bytes) ==
    [table |-> "t", chain |-> "in", userdata |-> Comment(text), exprs |-> CounterOf(bytes)]
Object(type, name) == [table |-> "t", type |-> type, name |-> name]
NftState(rules, bytes, generation) ==
    LET InU(n) == [table |-> "u", type |-> "counter", name |-> "c", bytes |-> n]
        objects == <<Object("counter", "c") @@ [bytes |-> bytes], Object("quota", "q") @@ [consumed |-> bytes],
                     Object("limit", "l") @@ [rate |-> 5, unit |-> "bytes"], InU(8 - bytes), InU(bytes)>>
    IN  [tables |-> One(<<[name |-> "t", family |-> "inet"], [name |-> "u", family |-> "ip"],
                          [name |-> "u", family |-> "ip6"]>>),
         chains |-> One(<<[table |-> "t", name |-> "in", type |-> "filter", hook |-> "input", policy |-> "drop"],
                          [table |-> "t", name |-> "aux"], [table |-> "u", name |-> "aux"],
                          [table |-> "u", name |-> "aux"]>>),
         rules |-> One(rules),
         counters |-> One(objects), quotas |-> One(objects), limits |-> One(objects),
         sets |-> One(<<[table |-> "t", name |-> "s", key |-> "mark",
                         sizes |-> <<[from |-> "desc", n |-> 4], [from |-> "set", n |-> 2]>>],
                        [table |-> "t", name |-> "__set0", anonymous |-> TRUE]>>),
         generation |-> One(<<[id |-> generation]>>),
         flowtables |-> One(<<[table |-> "t", name |-> "f", hook |-> "ingress"]>>)]
NftKernel ==
    << NftState(<<Rule("a", 1), Rule("", 5), Rule("b", 1), Rule("c", 1), Rule("d", 1)>>, 3, 1),
       NftState(<<Rule("new", 0), Rule("new", 3), Rule("a", 4), Rule("b", 2)>>, 5, 2) >>

Link(name, bytes) ==
    [name |-> name, flags |-> {"up", "running"}, operstate |-> "up",
     stats64 |-> [i \in 1..8 |-> bytes]]
Route(table) == [family |-> "inet", table |-> table]
Neighbour(family, state) == [family |-> family, state |-> state]
RtKernel ==
    << [links |-> One(<<Link("e0", 1), [flags |-> {}]>>), addresses |-> One(<<[family |-> "inet"], <<>>>>),
        routes |-> One(<<Route("main"), Route("main"), Route("main") @@ [rta_table |-> "300"]>>),
        neighbours |-> One(<<Neighbour("inet", {"stale"}), Neighbour("bridge", {"stale"})>>)],
       [links |-> One(<<[name |-> "e1", flags |-> {"up"}], Link("e0", 2)>>), addresses |-> One(<<[family |-> "inet6"]>>),
        routes |-> One(<<Route("main")>>),
        neighbours |-> One(<<Neighbour("inet", {"stale"}), Neighbour("inet6", {}), Neighbour("inet", {"reachable"})>>)],
       [links |-> One(<<Link("e0", 2), Link("e1", 0)>>), addresses |-> One(<<>>), routes |-> One(<<Route("local")>>),
        neighbours |-> One(<<>>)] >>

Xstat(ifindex, kind, rx) == [ifindex |-> ifindex, stats |-> <<[kind |-> kind, rx |-> rx, tx |-> 0]>>]
Fdb(family) == [family |-> family, ifindex |-> 3]
RtxState(xstats, fdb, inet, nexthops) ==
    [xstats |-> One(xstats), fdb |-> One(fdb), fib_inet |-> One(inet), fib_inet6 |-> One(<<1>>),
     fib_mpls |-> One(<<>>), nexthops |-> One(nexthops)]
RtxKernel ==
    << RtxState(<<Xstat(3, "mcast", 1)>>, <<Fdb("bridge"), Fdb("inet")>>, <<1, 2, 3>>, <<1>>),
       RtxState(<<Xstat(4, "l3", 5), Xstat(3, "mcast", 2),
                  [ifindex |-> 5, stats |-> <<[kind |-> "l3", rx |-> 1, tx |-> 2],
                                              [kind |-> "cpu_hit", rx |-> 3, tx |-> 0]>>]>>, <<Fdb("bridge"), Fdb("bridge")>>, <<1, 2>>, <<>>) >>

Cpu(found) == [found |-> found, insert |-> 1, drop |-> found]
CtKernel ==
    << [cpus |-> One(<<Cpu(1), Cpu(2)>>), entries |-> One(<<[entries |-> 2]>>)],
       [cpus |-> One(<<Cpu(3), Cpu(4) @@ [chaintoolong |-> 1]>>), entries |-> One(<<<<>>>>)] >>
ExpectKernel == 
    LET e == [proto |-> "tcp"]
    IN  << [expect |-> One(<<e, e>>)], [expect |-> One(<<e, e, e, <<>>>>)], [expect |-> One(<<>>)] >>

Sock(state, drops) == [state |-> state, rqueue |-> 1, wqueue |-> 2, drops |-> drops]
SockHas(tcp4, udp4, tcp6) ==
    [tcp4 |-> One(tcp4), udp4 |-> One(udp4), tcp6 |-> One(tcp6), udp6 |-> One(<<Sock("close", 1)>>)]
SockKernel ==
    << SockHas(<<Sock("listen", 0), <<>>>>, <<Sock("close", 2)>>, <<Sock("listen", 1)>>),
       SockHas(<<Sock("listen", 0), Sock("established", 0) @@ [retransmits |-> 3]>>, <<>>, <<Sock("close", 0)>>) >>

Qdisc(ifindex, kind, bytes) ==
    [ifindex |-> ifindex, kind |-> kind, basic |-> [bytes |-> bytes, packets |-> 1]]
TcLink(ifindex, name) == [ifindex |-> ifindex, name |-> name]
TcKernel ==
    << [links |-> One(<<TcLink(1, "e0")>>), qdiscs |-> One(<<Qdisc(1, "mq", 3), Qdisc(1, "fq", 1), Qdisc(1, "fq", 2)>>)],
       [links |-> One(<<TcLink(2, "e1"), TcLink(1, "e0")>>),
        qdiscs |-> One(<<Qdisc(2, "fq", 0), Qdisc(1, "fq", 4), Qdisc(1, "fq", 2), [ifindex |-> 1]>>)],
       [links |-> One(<<TcLink(2, "e1")>>), qdiscs |-> One(<<Qdisc(2, "fq", 8), Qdisc(3, "fq", 5)>>)] >>

DropKernel ==
    << [totals |-> One(<<[sw |-> 1, hw |-> 0]>>), stats |-> One(<<[sw |-> 0, hw |-> 1]>>)],
       [totals |-> One(<<[sw |-> 3, hw |-> 1]>>), stats |-> One(<<[hw |-> 2]>>)],
       [totals |-> One(<<[sw |-> 3, hw |-> 2]>>), stats |-> One(<<>>)] >>

Irq(id, counts) == [id |-> id, numbered |-> TRUE, counts |-> counts, columns |-> <<"IO-APIC", "eth">>]
IrqKernel ==
    << [interrupts |-> One(<<Irq("1", <<1, 2>>), [numbered |-> FALSE, counts |-> <<9>>]>>)],
       [interrupts |-> One(<<Irq("9", <<0, 0, 0>>), Irq("1", <<3, 2, 1>>)>>)],
       [interrupts |-> One(<<Irq("9", <<0, 0>>), Irq("1", <<2, 1>>)>>)] >>
\* A CPU goes offline, in the last state here too: the columns of the others move.
SoftirqKernel ==
    << [softirqs |-> One(<<[cpus |-> <<0, 1, 2>>], [row |-> "NET_RX", counts |-> <<5, 7, 1>>], [row |-> "HI", counts |-> <<0, 0, 0>>]>>)],
       [softirqs |-> One(<<[cpus |-> <<0, 2>>], [row |-> "NET_RX", counts |-> <<6, 2>>], [row |-> "NET_TX", counts |-> <<1>>]>>)] >>
SoftnetLine(cpu, n) == [i \in 1..13 |-> IF i = 13 THEN cpu ELSE n]
SoftnetKernel ==
    << [softnet_stat |-> One(<<SoftnetLine(0, 5), SoftnetLine(1, 1)>>)],
       [softnet_stat |-> One(<<SoftnetLine(1, 3), <<1, 2>>>>)] >>
Pair(key, value) == [key |-> key, value |-> value]
SockstatKernel ==
    << [sockstat |-> One(<<[tagged |-> TRUE, proto |-> "TCP", pairs |-> <<Pair("inuse", 2), [key |-> "mem"]>>], [tagged |-> FALSE]>>)],
       [sockstat |-> One(<<[tagged |-> TRUE, proto |-> "TCP", pairs |-> <<Pair("inuse", 0)>>]>>)] >>
Heading(proto, names) == [tagged |-> TRUE, proto |-> proto, columns |-> [i \in DOMAIN names |-> [text |-> names[i]]]]
Data(proto, values) == [tagged |-> TRUE, proto |-> proto, columns |-> [i \in DOMAIN values |-> [value |-> values[i]]]]
NetstatKernel ==
    << [snmp |-> One(<<Heading("Ip", <<"F">>), Data("Ip", <<1>>), Heading("Tcp", <<"A", "B">>), Data("Tcp", <<2, 3>>)>>),
        netstat |-> One(<<Heading("TcpExt", <<"S">>), Data("TcpExt", <<4>>)>>)],
       [snmp |-> One(<<Heading("Icmp", <<"X">>), Heading("Ip", <<"F">>), Data("Ip", <<2>>), Heading("Tcp", <<"A">>), Data("Tcp", <<2, 3>>)>>),
        netstat |-> One(<<Heading("TcpExt", <<"S">>), Data("TcpExt", <<5>>)>>)] >>

Queue(name) == [tx |-> TRUE, name |-> name]
BqlState(devs, queues, n) ==
    [net |-> One(devs), queues |-> [d \in ToSet(devs) |-> IF d = "lo" THEN <<>> ELSE queues],
     limit |-> [q \in {"e0"} \X {queues[i].name : i \in DOMAIN queues} |-> <<n>>],
     inflight |-> [q \in {"e0"} \X {queues[i].name : i \in DOMAIN queues} |-> <<n + 1>>]]
BqlKernel ==
    << BqlState(<<"e0">>, <<Queue("tx-0"), [tx |-> FALSE, name |-> "rx-0"]>>, 1),
       BqlState(<<"lo", "e0">>, <<Queue("tx-0"), Queue("tx-1")>>, 3) >>
Aer(n) == <<[total |-> FALSE, value |-> n], [total |-> TRUE, value |-> n]>>
PcieState(devs, n) ==
    LET Of(frames) == [d \in ToSet(devs) |-> frames]
    IN  [net |-> One(devs), has_speed |-> Of(<<>>), physfn |-> [d \in ToSet(devs) \ {"e0"} |-> <<>>],
         speed |-> Of(<<[value |-> n]>>), width |-> Of(<<<<>>>>), aer_correctable |-> Of(Aer(n)), aer_fatal |-> Of(Aer(0))]
PcieKernel == << PcieState(<<"e0">>, 1), PcieState(<<"v0", "e0">>, 2) >>
TempState(dev, chips, n) ==
    [net |-> One(<<dev>>), hwmon |-> dev :> chips,
     name |-> [c \in {dev} \X ToSet(chips) |-> <<dev>>],
     has_temp |-> [c \in {dev} \X ToSet(chips) \X {1} |-> <<1>>],
     temp |-> [c \in {dev} \X ToSet(chips) \X {1} |-> <<[value |-> n]>>]]
TempKernel == << TempState("e0", <<"hwmon1">>, 40), TempState("e0", <<"hwmon1", "hwmon2">>, 50), TempState("e1", <<"hwmon2">>, 20) >>

MCKernel ==
    [devlink |-> DevlinkKernel, ethtool |-> EthtoolKernel, ipvs |-> IpvsKernel, xfrm |-> XfrmKernel,
     wireguard |-> WireguardKernel, nftables |-> NftKernel, rtnetlink |-> RtKernel,
     rtnetlink_extended |-> RtxKernel, conntrack |-> CtKernel, conntrack_expect |-> ExpectKernel,
     sock_diag |-> SockKernel, traffic_control |-> TcKernel, drop_monitor |-> DropKernel, softnet |-> SoftnetKernel,
     netstat |-> NetstatKernel, softirq |-> SoftirqKernel, irq |-> IrqKernel,
     sockstat |-> SockstatKernel, nic_bql |-> BqlKernel, nic_pcie |-> PcieKernel, nic_temp |-> TempKernel]
MCCollectors == DOMAIN MCKernel

\* What a parser makes of the frames of another dump, where the collector goes
\* on with the same socket: of links as addresses, of the states as policies.
MCMisread ==
    [rtnetlink |-> [addresses |-> {<<[family |-> "unspec"]>>}, routes |-> {<<>>, <<Route("unspec")>>}],
     xfrm |-> [policy |-> {<<[dir |-> "out", action |-> "block"]>>}, sadinfo |-> {<<[count |-> 9, max |-> 9]>>}],
     devlink |-> [ports |-> {<<d1>>}, reporters |-> {<<Reporter("fw", 1)>>}],
     rtnetlink_extended |-> [fdb |-> {<<Fdb("bridge")>>}, fib_inet |-> {<<1>>}],
     sock_diag |-> [udp4 |-> {<<Sock("listen", 0)>>}],
     traffic_control |-> [qdiscs |-> {<<[ifindex |-> 1]>>}]]
=============================================================================
