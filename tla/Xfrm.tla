-------------------------------- MODULE Xfrm --------------------------------
(***************************************************************************)
(* The IPsec collector, crates/nlx-netlink/src/collectors/xfrm.rs.         *)
(***************************************************************************)
EXTENDS Collecting

\* proto_label and mode_label.
XfrmStateKey(f) ==
    [proto |-> Known({"esp", "ah", "comp"}, f.proto),
     mode |-> Known({"transport", "tunnel", "beet"}, f.mode)]

\* dir_label; action_label: everything that does not allow blocks.
XfrmPolicyKey(f) ==
    [dir |-> Known({"in", "out", "fwd"}, f.dir),
     action |-> IF f.action = "allow" THEN "allow" ELSE "block"]

\* collect_xfrm: two dumps and two plain requests on one socket.
XfrmPlan(got) ==
    <<OnFresh(Dump("sa", MaxDumpRestarts)), Dump("policy", MaxDumpRestarts),
      Single("sadinfo"), Single("spdinfo")>>

\* The hash sizes are left out when the kernel does not give them.
XfrmReaction(op, e) ==
    IF op \in {"sadinfo", "spdinfo"} /\ e \in {"EPERM", "ENOENT"} THEN "skip" ELSE "fail"

\* probe_xfrm_available asks for SADINFO alone.
XfrmProbe == OnFresh(Single("sadinfo"))

\* The entry and bucket counts of an answer, zero without XFRMA_SAD_HINFO
\* (XFRMA_SPD_HINFO).
XfrmHash(frames, count, max) ==
    Each(frames, LAMBDA f : <<Gauge(count, NoLabels, Attr(f, "count", 0)),
                              Gauge(max, NoLabels, Attr(f, "max", 0))>>)

\* A truncated frame is skipped and does not end the collect().
XfrmWhole(f) == DOMAIN f # {}

XfrmEmit(got) ==
    Tally(MapSeq(Where(Frames(got, "sa"), XfrmWhole), XfrmStateKey),
          LAMBDA k, n : Gauge("nft_xfrm_sa_count", k, n))
    \o Tally(MapSeq(Where(Frames(got, "policy"), XfrmWhole), XfrmPolicyKey),
             LAMBDA k, n : Gauge("nft_xfrm_sp_count", k, n))
    \o XfrmHash(Frames(got, "sadinfo"), "nft_xfrm_sad_hash_count", "nft_xfrm_sad_hash_max")
    \o XfrmHash(Frames(got, "spdinfo"), "nft_xfrm_spd_hash_count", "nft_xfrm_spd_hash_max")
=============================================================================
