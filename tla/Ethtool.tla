------------------------------ MODULE Ethtool -------------------------------
(***************************************************************************)
(* The ethtool collector, crates/nlx-netlink/src/collectors/ethtool.rs.    *)
(* A frame holds the interface of its header and its groups; a group holds *)
(* its id and its statistics, each a pair of index and value.              *)
(***************************************************************************)
EXTENDS Collecting

CONSTANT
    StatUnset   \* u64::MAX, which a driver leaves in a statistic it lacks

EthtoolPlan(got) ==
    <<Resolve, Dump("stats", MaxDumpRestarts)>>

EthtoolReaction(op, e) == GenlReaction(op, e)

\* group_label and stat_name: the statistics of a group with a name, by index
\* from 0; names are abstracted to group and index.
EthtoolGroups == <<"eth_phy", "eth_mac", "eth_ctrl", "rmon">>
EthtoolGroupSize == [eth_phy |-> 1, eth_mac |-> 22, eth_ctrl |-> 3, rmon |-> 4]

\* parse_group: the statistics of a known group that the driver filled in and
\* that have a name.  The group id may stand anywhere in the nest.
EthtoolGroupStats(g) ==
    IF "id" \notin DOMAIN g \/ Attr(g, "id", 0) + 1 \notin DOMAIN EthtoolGroups THEN <<>>
    ELSE LET group == EthtoolGroups[g.id + 1]
         IN  MapSeq(Where(g.stats, LAMBDA s : /\ s.value # StatUnset
                                                  /\ s.index < EthtoolGroupSize[group]),
                    LAMBDA s : [group |-> group, index |-> s.index, value |-> s.value])

\* parse_stats_frame and the emission: a frame without an interface is skipped.
EthtoolFrameSamples(f) ==
    IF Attr(f, "interface", "") = "" THEN <<>>
    ELSE MapSeq(Each(f.groups, EthtoolGroupStats),
                LAMBDA s : Gauge("nft_ethtool_stat",
                                 [interface |-> f.interface, group |-> s.group, stat |-> s.index],
                                 s.value))

EthtoolEmit(got) == Each(Frames(got, "stats"), EthtoolFrameSamples)
=============================================================================
