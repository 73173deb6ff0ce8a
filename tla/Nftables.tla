------------------------------ MODULE Nftables ------------------------------
(***************************************************************************)
(* The nftables collector, crates/nlx-netlink/src/collectors/nftables.rs:  *)
(* nine requests, each on a socket of its own, and a cap on the series of  *)
(* rule counters.                                                          *)
(***************************************************************************)
EXTENDS Collecting

CONSTANT
    RuleCounterMaxSeries    \* RULE_COUNTER_MAX_SERIES

ASSUME RuleCapAssumption == RuleCounterMaxSeries \in Nat

Families == {"unspec", "inet", "ip", "arp", "netdev", "bridge", "ip6"}
Hooks == {"prerouting", "input", "forward", "output", "postrouting", "ingress", "egress"}

\* parse_*_frame: an object without a name is left out.
NftNamed(got, op) == Where(Frames(got, op), LAMBDA f : Attr(f, "name", "") # "")

\* parse_obj_type, parse_counter, parse_quota, parse_limit: one dump returns
\* the objects of every type.
NftObjects(got, op, type) ==
    Where(NftNamed(got, op), LAMBDA f : Attr(f, "type", "unspec") = type)

\* extract_rule_comment: the first record of type 0 that is not empty.
NftComments(f) == Where(Attr(f, "userdata", <<>>), LAMBDA r : r.type = 0 /\ r.text # "")

\* parse_rule_frame: the first counter expression of a rule with a comment.
NftRule(f) ==
    LET counters == Where(Attr(f, "exprs", <<>>), LAMBDA e : Attr(e, "name", "") = "counter")
    IN  IF \/ NftComments(f) = <<>>
           \/ counters = <<>>
           \/ ~({"bytes", "packets"} \subseteq DOMAIN counters[1])
        THEN <<>>
        ELSE <<[labels |-> [table |-> Attr(f, "table", ""), chain |-> Attr(f, "chain", ""),
                            comment |-> NftComments(f)[1].text],
                bytes |-> counters[1].bytes, packets |-> counters[1].packets]>>

NftRules(got) == Each(Frames(got, "rules"), NftRule)

\* parse_set_frame: the size in the description counts as long as no other is
\* known.  `sizes' keeps the order of the attributes.
NftSetSize(f) ==
    FoldLeft(LAMBDA n, a : IF a.from = "desc" /\ n # 0 THEN n ELSE a.n, 0, Attr(f, "sizes", <<>>))

\* collect(): nft_dump gives up one attempt later than the other collectors.
NftFresh(op) == OnFresh(Dump(op, MaxDumpRestarts + 1))
NftPlan(got) ==
    MapSeq(<<"tables", "chains", "rules", "counters", "sets", "quotas", "limits">>, NftFresh)
    \o <<OnFresh(Single("generation")), NftFresh("flowtables")>>

NftReaction(op, e) == "fail"

\* build_metrics, section by section.
NftTableInfo(f) ==
    <<Gauge("nft_table_info",
            [table |-> f.name, family |-> Known(Families, f.family)], 1)>>

NftChainInfo(f) ==
    <<Gauge("nft_chain_info",
            [table |-> Attr(f, "table", ""), chain |-> f.name, type |-> Attr(f, "type", ""),
             hook |-> Labelled(f, "hook", Hooks), priority |-> Attr(f, "priority", "0"),
             policy |-> Labelled(f, "policy", {"drop", "accept"})], 1)>>

NftRuleSamples(r) ==
    <<Counter("nft_rule_counter_bytes_total", r.labels, r.bytes),
      Counter("nft_rule_counter_packets_total", r.labels, r.packets)>>

\* Rules beyond the cap are dropped and their number is reported.
NftOverflow(rules) ==
    LET dropped == IF Len(rules) > RuleCounterMaxSeries
                   THEN Len(rules) - RuleCounterMaxSeries ELSE 0
    IN  IF dropped = 0 THEN <<>>
        ELSE <<Counter("nft_scrape_collector_error_total",
                       [collector |-> "nftables", reason |-> "cardinality_overflow"], dropped)>>

NftObjectLabels(f) == [table |-> Attr(f, "table", ""), name |-> f.name]

NftCounterSamples(f) ==
    <<Counter("nft_named_counter_bytes_total", NftObjectLabels(f), Attr(f, "bytes", 0)),
      Counter("nft_named_counter_packets_total", NftObjectLabels(f), Attr(f, "packets", 0))>>

NftSetSamples(f) ==
    IF Attr(f, "anonymous", FALSE) THEN <<>>
    ELSE <<Gauge("nft_set_elements",
                 [table |-> Attr(f, "table", ""), name |-> f.name,
                  type |-> Known({"ipv4_addr", "ipv6_addr", "inet_service", "ether_addr", "mark"},
                                 Attr(f, "key", "other"))],
                 NftSetSize(f))>>

NftQuotaSamples(f) ==
    <<Gauge("nft_named_quota_bytes_total", NftObjectLabels(f), Attr(f, "bytes", 0)),
      Gauge("nft_named_quota_consumed_bytes_total", NftObjectLabels(f), Attr(f, "consumed", 0)),
      Gauge("nft_named_quota_depleted", NftObjectLabels(f), Bit(Attr(f, "depleted", FALSE)))>>

NftLimitSamples(f) ==
    LET labels == [table |-> Attr(f, "table", ""), name |-> f.name,
                   type |-> Known({"pkts", "bytes"}, Attr(f, "unit", "pkts"))]
    IN  <<Gauge("nft_named_limit_rate", labels, Attr(f, "rate", 0)),
          Gauge("nft_named_limit_burst", labels, Attr(f, "burst", 0))>>

NftFlowtableInfo(f) ==
    <<Gauge("nft_flowtable_info",
            [table |-> Attr(f, "table", ""), name |-> f.name,
             hook |-> Labelled(f, "hook", Hooks), priority |-> Attr(f, "priority", "0"),
             hw_offload |-> IF Attr(f, "hw_offload", FALSE) THEN "1" ELSE "0"], 1)>>

\* parse_gen_frame: no reply, or one without an id, counts as generation 0.
NftGeneration(got) == TotalOf(Frames(got, "generation"), LAMBDA f : Attr(f, "id", 0))

NftEmit(got) ==
    Each(NftNamed(got, "tables"), NftTableInfo)
    \o Each(NftNamed(got, "chains"), NftChainInfo)
    \o Each(Take(NftRules(got), RuleCounterMaxSeries), NftRuleSamples)
    \o NftOverflow(NftRules(got))
    \o Each(NftObjects(got, "counters", "counter"), NftCounterSamples)
    \o Each(NftNamed(got, "sets"), NftSetSamples)
    \o Each(NftObjects(got, "quotas", "quota"), NftQuotaSamples)
    \o Each(NftObjects(got, "limits", "limit"), NftLimitSamples)
    \o <<Gauge("nft_ruleset_generation", NoLabels, NftGeneration(got))>>
    \o Each(NftNamed(got, "flowtables"), NftFlowtableInfo)
=============================================================================
