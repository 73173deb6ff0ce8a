------------------------------ MODULE MCScrape ------------------------------
(* Instances of Scrape for TLC. *)
EXTENDS Scrape, TLC

CONSTANTS r1, r2, r3, r4, r5, rt, tc, conntrack, xfrm, softnet, t1, t2, t3, t4

\* Two overlapping requests over a two-dump collector, an unavailable one, a
\* one-dump one and a procfs one.
MCOrder == <<rt, xfrm, conntrack, softnet>>
MCAvailable == {rt, conntrack, softnet}
MCJobs == (rt :> 2) @@ (softnet :> 0) @@ (conntrack :> 1) @@ (xfrm :> 1)

\* The four-thread pool of main.rs and one collector whose dump may hang.
PoolOrder == <<rt, tc>>
PoolJobs == (rt :> 1) @@ (tc :> 1)
\* The kernel of this run answers or hangs; it never refuses.
NoKernelErrors ==
    \A r \in Requests : \A i \in DOMAIN results[r] : results[r][i] # "error"
PoolSymmetry == Permutations(Requests) \cup Permutations(Threads)
=============================================================================
