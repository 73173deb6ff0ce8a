----------------------------- MODULE Conntrack ------------------------------
(***************************************************************************)
(* The conntrack and the conntrack expectation collectors,                 *)
(* crates/nlx-netlink/src/collectors/conntrack.rs and conntrack_expect.rs. *)
(***************************************************************************)
EXTENDS Collecting

CONSTANT
    ExpectCap   \* CARDINALITY_CAP of conntrack_expect.rs

ASSUME ExpectCapAssumption == ExpectCap \in Nat

\* stat_to_samples: the counters every kernel has, and those newer ones have.
CtCounters ==
    <<[attr |-> "found", name |-> "nft_conntrack_found_total", new |-> FALSE],
      [attr |-> "insert", name |-> "nft_conntrack_insert_total", new |-> FALSE],
      [attr |-> "drop", name |-> "nft_conntrack_drop_total", new |-> FALSE],
      [attr |-> "early_drop", name |-> "nft_conntrack_early_drop_total", new |-> FALSE],
      [attr |-> "invalid", name |-> "nft_conntrack_invalid_total", new |-> FALSE],
      [attr |-> "clash_resolve", name |-> "nft_conntrack_clash_resolve_total", new |-> TRUE],
      [attr |-> "chaintoolong", name |-> "nft_conntrack_chaintoolong_total", new |-> TRUE]>>

\* accumulate_cpu_stat and fetch_cpu_stats: one frame for each CPU.
CtSum(cpus, a) == TotalOf(cpus, LAMBDA f : Attr(f, a, 0))

\* collect(): neither request is retried.  The count of entries is not worth
\* failing for, and reads 0 without an answer.
CtPlan(got) == <<OnFresh(Dump("cpus", 1)), Single("entries")>>
CtReaction(op, e) == IF op = "cpus" THEN "fail" ELSE "skip"

\* fetch_global_entries
CtEntries(got) == TotalOf(Frames(got, "entries"), LAMBDA f : Attr(f, "entries", 0))

CtEmit(got) ==
    LET cpus == Frames(got, "cpus")
        Given(c) == c.new => \E i \in DOMAIN cpus : c.attr \in DOMAIN cpus[i]
    IN  MapSeq(Where(CtCounters, Given),
               LAMBDA c : Counter(c.name, NoLabels, CtSum(cpus, c.attr)))
        \o <<Gauge("nft_conntrack_entries", NoLabels, CtEntries(got))>>

-----------------------------------------------------------------------------
(* Expectations.                                                           *)

\* dump_expectations_raw, which retries once more than the other collectors.
ExpectPlan(got) == <<OnFresh(Dump("expect", MaxDumpRestarts + 1))>>

\* probe_available does not retry.
ExpectProbe == OnFresh(Dump("expect", 1))

\* Without a socket, the subsystem or the privilege there is nothing to report.
ExpectReaction(op, e) == IF e \in {"open", "ENOENT", "EPERM"} THEN "empty" ELSE "fail"

\* An entry is counted whatever parse_expect_frame finds in it, up to the cap.
ExpectEmit(got) ==
    <<Gauge("nft_conntrack_expectations", NoLabels,
            Smaller(Len(Where(Frames(got, "expect"), LAMBDA f : f # <<>>)), ExpectCap))>>
=============================================================================
