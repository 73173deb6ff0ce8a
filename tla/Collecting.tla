----------------------------- MODULE Collecting -----------------------------
(***************************************************************************)
(* What the collectors of crates/nlx-netlink and crates/nlx-procfs share.  *)
(*                                                                         *)
(* A collect() is a plan: a sequence of requests, each of which may depend *)
(* on the answers to the ones before it.  The answers given so far are a   *)
(* sequence of [op, arg, frames, error]; from them a collector computes the *)
(* requests it makes (...Plan) and, when all are answered, its samples     *)
(* (...Emit).  ...Reaction says what it does when a request fails: "fail"  *)
(* with an error, return the "empty" list, or "skip" and go on, with no    *)
(* frames and the error noted.  An answer that is what an earlier request  *)
(* left on the socket looks like any other; it is noted as "stale".        *)
(*                                                                         *)
(* A frame is a function from the attributes it carries to their values.   *)
(* An attribute too short to be read counts as absent, since the parsers   *)
(* replace it by the value an absent one has; a frame too short for its    *)
(* header carries no attribute.                                            *)
(***************************************************************************)
EXTENDS Naturals, Sequences, FiniteSets, SequencesExt, Summing

CONSTANT
    SumMax      \* u64::MAX, where saturating_add stops

ASSUME SumMaxAssumption == SumMax \in Nat

\* transport.rs MAX_DUMP_RESTARTS.
MaxDumpRestarts == 8

\* The value of attribute a of frame f, or the parser's initial value.
Attr(f, a, initial) == IF a \in DOMAIN f THEN f[a] ELSE initial

\* The label tables: a value outside of `known' reads "other"; Labelled is
\* for an attribute that may be absent.
Known(known, value) == IF value \in known THEN value ELSE "other"
Labelled(f, a, known) == IF a \in DOMAIN f THEN Known(known, f[a]) ELSE ""

-----------------------------------------------------------------------------
(* Requests: a dump, which may be interrupted and is then tried again, up  *)
(* to `tries' times; a request with one answer; the read of a file; or the *)
(* load of a counter in memory.  `fresh' opens a socket for the request.   *)

\* What is noted of a request whose call returned Ok.
Delivered == {"none", "stale"}

NoArg == <<>>
Request(kind, op, arg, tries) ==
    [kind |-> kind, op |-> op, arg |-> arg, fresh |-> FALSE, tries |-> tries]
DumpFor(op, arg, tries) == Request("dump", op, arg, tries)
Dump(op, tries) == DumpFor(op, NoArg, tries)
Single(op) == Request("single", op, NoArg, 1)
Load(op) == Request("load", op, NoArg, 1)
ReadFor(op, arg) == Request("read", op, arg, 1)
OnFresh(request) == [request EXCEPT !.fresh = TRUE]

\* iter().filter(): SelectSeq, as sequences joined, which the proofs can expand.
Where(s, Test(_)) ==
    FlattenSeq([i \in DOMAIN s |-> IF Test(s[i]) THEN <<s[i]>> ELSE <<>>])

\* The frames that answered the requests named op, in order.
Frames(got, op) ==
    FlattenSeq([i \in DOMAIN got |-> IF got[i].op = op THEN got[i].frames ELSE <<>>])

\* The frames that answered the request for arg among them.
FramesFor(got, op, arg) ==
    FlattenSeq([i \in DOMAIN got |->
        IF got[i].op = op /\ got[i].arg = arg THEN got[i].frames ELSE <<>>])

\* resolve_genl_family: the collectors of a generic netlink family report
\* nothing when the kernel does not know it (ENOENT).
Resolve == OnFresh(Single("resolve"))
GenlReaction(op, e) == IF op = "resolve" /\ e = "ENOENT" THEN "empty" ELSE "fail"

-----------------------------------------------------------------------------
(* Samples, nlx-domain/src/metric.rs.                                      *)

Gauge(name, labels, value) ==
    [name |-> name, type |-> "gauge", labels |-> labels, value |-> value]
Counter(name, labels, value) ==
    [name |-> name, type |-> "counter", labels |-> labels, value |-> value]

NoLabels == <<>>
Series(sample) == <<sample.name, sample.labels>>

Bit(b) == IF b THEN 1 ELSE 0
Smaller(a, b) == IF a < b THEN a ELSE b

MapSeq(s, Op(_)) == [i \in DOMAIN s |-> Op(s[i])]
Each(s, Op(_)) == FlattenSeq(MapSeq(s, Op))
TotalOf(s, Op(_)) == Total(MapSeq(s, Op))

\* saturating_add, one number after the other: as none takes anything away, it
\* is the sum cut off at the end.
Saturating(s, Op(_)) == Smaller(TotalOf(s, Op), SumMax)

\* iter().take(n)
Take(s, n) == SubSeq(s, 1, Smaller(n, Len(s)))

\* A BTreeMap filled from items: what Out makes of each key and its items.
Grouped(items, Key(_), Out(_, _)) ==
    LET keys == SetToSeq({Key(items[i]) : i \in DOMAIN items})
    IN  Each(keys, LAMBDA k : Out(k, Where(items, LAMBDA x : Key(x) = k)))

\* The same for a map that only counts.
Tally(keys, Out(_, _)) ==
    Grouped(keys, LAMBDA k : k, LAMBDA k, same : <<Out(k, Len(same))>>)
=============================================================================
