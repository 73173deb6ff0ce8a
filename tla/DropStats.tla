------------------------------ MODULE DropStats ------------------------------
(***************************************************************************)
(* The drop monitor's collect(),                                           *)
(* crates/nlx-netlink/src/collectors/drop_monitor.rs: the totals that its  *)
(* listener has accumulated (module DropMonitor) and, when the kernel      *)
(* answers, what the monitor itself could not report.                      *)
(***************************************************************************)
EXTENDS Collecting

\* fetch_overflow_stats: without the family there is nothing to ask.
DropResolved(got) == ~\E i \in DOMAIN got : got[i].op = "resolve" /\ got[i].error # "none"
DropPlan(got) ==
    <<Load("totals"), Resolve>> \o IF DropResolved(got) THEN <<Single("stats")>> ELSE <<>>

\* The totals are reported whatever becomes of the query.
DropReaction(op, e) == "skip"

\* probe_available
DropProbe == Resolve

Origins == <<"sw", "hw">>

\* fetch_stats: one counter for each origin, 0 when its nest is absent.
DropUnreported(f) ==
    MapSeq(Origins, LAMBDA o :
        Counter("nft_drop_monitor_unreported_total", [origin |-> o], Attr(f, o, 0)))

DropEmit(got) ==
    LET totals == Frames(got, "totals")[1]
    IN  MapSeq(Origins, LAMBDA o :
            Counter("nft_drop_packets_total", [origin |-> o, reason |-> "total"], totals[o]))
        \o Each(Frames(got, "stats"), DropUnreported)
=============================================================================
