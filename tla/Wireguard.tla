----------------------------- MODULE Wireguard ------------------------------
(***************************************************************************)
(* The WireGuard collector, crates/nlx-netlink/src/collectors/wireguard.rs.*)
(* The kernel splits the reply for one interface over several frames when  *)
(* its peers do not fit in one; the frames that follow repeat the header.  *)
(***************************************************************************)
EXTENDS Collecting

CONSTANTS
    WgMaxPeers,     \* WireguardCollector::max_peers
    WgPeerId,       \* pubkey_hash, as a function on the keys of the instance
    WgNow,          \* the wall clock, read once all dumps are done
    Infinity        \* f64::INFINITY, the age of a handshake that never was

ASSUME WgCapAssumption == WgMaxPeers \in Nat

\* list_wireguard_interfaces and wireguard_ifname
WgListed(links) ==
    MapSeq(Where(links, LAMBDA f : "wireguard" \in Attr(f, "kinds", {}) /\ "name" \in DOMAIN f),
           LAMBDA f : f.name)
WgInterfaces(got) == WgListed(Frames(got, "links"))

\* parse_peer: a peer is known by its key.
WgPeers(f) ==
    MapSeq(Where(Attr(f, "peers", <<>>), LAMBDA p : "key" \in DOMAIN p),
           LAMBDA p : [id |-> WgPeerId[p.key], rx |-> Attr(p, "rx", 0), tx |-> Attr(p, "tx", 0),
                       handshake |-> Attr(p, "handshake", 0),
                       keepalive |-> Attr(p, "keepalive", 0)])

\* parse_device
WgDevice(f) ==
    [name |-> f.name, port |-> Attr(f, "port", 0), fwmark |-> Attr(f, "fwmark", 0),
     peers |-> WgPeers(f)]

\* Mutant: the last frame of a device replaces the ones before it.
WgLastPeers(parsed) == parsed[Len(parsed)].peers

\* merge_device_frames: the first frame names the device, each adds its peers,
\* and of the ports and marks the first one that is set counts.
WgAllPeers(parsed) == Each(parsed, LAMBDA dev : dev.peers)
WgFirstSet(numbers) ==
    LET set == Where(numbers, LAMBDA n : n # 0) IN IF set = <<>> THEN 0 ELSE set[1]

WgMerged(frames) ==
    LET parsed == MapSeq(Where(frames, LAMBDA f : Attr(f, "name", "") # ""), WgDevice)
    IN  IF parsed = <<>> THEN <<>>
        ELSE <<[name |-> parsed[1].name,
                port |-> WgFirstSet(MapSeq(parsed, LAMBDA dev : dev.port)),
                fwmark |-> WgFirstSet(MapSeq(parsed, LAMBDA dev : dev.fwmark)),
                peers |-> WgAllPeers(parsed)]>>

\* collect_devices: the links on a socket of their own, then one dump for each
\* interface that was listed.
WgPlan(got) ==
    <<Resolve, OnFresh(Dump("links", MaxDumpRestarts))>>
    \o MapSeq(WgInterfaces(got), LAMBDA name : DumpFor("device", name, MaxDumpRestarts))

WgReaction(op, e) == GenlReaction(op, e)

\* Seconds since the last handshake; a clock set back does not make it negative.
WgAge(handshake) ==
    IF handshake = 0 THEN Infinity ELSE IF WgNow < handshake THEN 0 ELSE WgNow - handshake

\* push_device_metrics
WgPeerSamples(name, p) ==
    LET labels == [interface |-> name, peer |-> p.id]
    IN  <<Counter("nft_wireguard_peer_receive_bytes_total", labels, p.rx),
          Counter("nft_wireguard_peer_transmit_bytes_total", labels, p.tx),
          Gauge("nft_wireguard_peer_last_handshake_seconds", labels, WgAge(p.handshake)),
          Gauge("nft_wireguard_peer_persistent_keepalive_seconds", labels, p.keepalive)>>

WgDeviceSamples(dev) ==
    LET labels == [interface |-> dev.name]
    IN  <<Gauge("nft_wireguard_device_info", labels, 1),
          Gauge("nft_wireguard_device_listen_port", labels, dev.port),
          Gauge("nft_wireguard_device_fwmark", labels, dev.fwmark),
          Gauge("nft_wireguard_device_peer_count", labels, Len(dev.peers))>>
        \o Each(Take(dev.peers, WgMaxPeers), LAMBDA p : WgPeerSamples(dev.name, p))

WgEmit(got) ==
    Each(Where(got, LAMBDA a : a.op = "device"),
         LAMBDA a : Each(WgMerged(a.frames), WgDeviceSamples))
=============================================================================
