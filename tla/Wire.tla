-------------------------------- MODULE Wire --------------------------------
(***************************************************************************)
(* The attribute iterator of crates/nlx-netlink/src/wire.rs, on any bytes: *)
(* the loops of a parser over parse_attrs and, inside of them, over        *)
(* nested_attrs of the attribute just read.                                *)
(*                                                                         *)
(* A buffer is what stands at the offsets where a header can be read, all  *)
(* multiples of four since every stride is.  A payload is the pair of      *)
(* offsets of its first byte and of the byte after its last.               *)
(***************************************************************************)
EXTENDS Integers, FiniteSets

CONSTANTS
    Sizes,      \* lengths of the buffers
    Lens,       \* values of nla_len
    RawTypes,   \* values of nla_type, flags included
    MaxDepth    \* how deep the loops of a parser are nested

ASSUME WireAssumption ==
    /\ Sizes \subseteq Nat
    /\ Lens \subseteq Nat
    /\ RawTypes \subseteq Nat
    /\ MaxDepth \in Nat \ {0}

VARIABLES
    size, buf,  \* the bytes handed to parse_attrs
    depth,      \* loops open, 0 when the outermost one has ended
    at, end,    \* for each loop, the slice its NlaIter has left
    attr,       \* for each loop, the attribute it read last
    starts      \* where the outermost loop has read attributes

vars == <<size, buf, depth, at, end, attr, starts>>

NLA_HDRLEN == 4
Levels == 1..MaxDepth

\* NLA_TYPE_MASK keeps thirteen bits.
EffectiveType(raw) == raw % 8192

HeaderOffsets(n) == {p \in 0..n : p % 4 = 0 /\ p + NLA_HDRLEN <= n}
Buffers(n) == [HeaderOffsets(n) -> [len : Lens, type : RawTypes]]

Attribute == [ty : Nat, from : Nat, to : Nat]
NoAttr(p) == [ty |-> 0, from |-> p, to |-> p]

Init ==
    /\ size \in Sizes
    /\ buf \in Buffers(size)
    /\ depth = 1
    /\ at = [l \in Levels |-> 0]
    /\ end = [l \in Levels |-> IF l = 1 THEN size ELSE 0]
    /\ attr = [l \in Levels |-> NoAttr(0)]
    /\ starts = {}

\* Mutant: the length is rounded down.
align4_down(n) == (n \div 4) * 4
\* Mutant: the stride does not count the header.
align4_payload(n) == ((n - 1) \div 4) * 4
align4(n) == ((n + 3) \div 4) * 4

Remaining(l) == end[l] - at[l]
nla_len(l) == buf[at[l]].len

\* Mutant: a length beyond the slice is not noticed.
WellFormedUnchecked(l) == Remaining(l) >= NLA_HDRLEN /\ nla_len(l) >= NLA_HDRLEN

\* next() yields: there is a header, and its length lies in the slice.
WellFormed(l) ==
    /\ Remaining(l) >= NLA_HDRLEN
    /\ nla_len(l) >= NLA_HDRLEN
    /\ nla_len(l) <= Remaining(l)

\* The attribute that next() yields, and where the iterator goes on.
Yielded(l) ==
    [ty |-> EffectiveType(buf[at[l]].type), from |-> at[l] + NLA_HDRLEN, to |-> at[l] + nla_len(l)]
Onward(l) ==
    IF align4(nla_len(l)) >= Remaining(l) THEN end[l] ELSE at[l] + align4(nla_len(l))

Started == IF depth = 1 THEN starts \cup {at[1]} ELSE starts

\* The innermost loop reads an attribute that its body takes as a whole.
Read ==
    /\ depth > 0
    /\ WellFormed(depth)
    /\ attr' = [attr EXCEPT ![depth] = Yielded(depth)]
    /\ at' = [at EXCEPT ![depth] = Onward(depth)]
    /\ starts' = Started
    /\ UNCHANGED <<size, buf, depth, end>>

\* It reads an attribute into which its body opens a loop of its own.
ReadNested ==
    /\ depth \in 1..(MaxDepth - 1)
    /\ WellFormed(depth)
    /\ LET a == Yielded(depth)
       IN  /\ attr' = [attr EXCEPT ![depth] = a, ![depth + 1] = NoAttr(a.from)]
           /\ at' = [at EXCEPT ![depth] = Onward(depth), ![depth + 1] = a.from]
           /\ end' = [end EXCEPT ![depth + 1] = a.to]
    /\ depth' = depth + 1
    /\ starts' = Started
    /\ UNCHANGED <<size, buf>>

\* next() returns None and the loop ends.
Finish ==
    /\ depth > 0
    /\ ~WellFormed(depth)
    /\ depth' = depth - 1
    /\ UNCHANGED <<size, buf, at, end, attr, starts>>

Next == Read \/ ReadNested \/ Finish
Spec == Init /\ [][Next]_vars
FairSpec == Spec /\ WF_vars(Next)

-----------------------------------------------------------------------------
\* The slice of every open loop lies in the payload that the loop around it
\* has just read, and that of the outermost one in the buffer; so does every
\* payload handed out, which is never read a second time: whatever bytes the
\* kernel sends, no index of a parser can be out of bounds (NlaIter::next).
Inside ==
    \A l \in 1..depth :
        /\ at[l] <= end[l]
        /\ attr[l].from <= attr[l].to
        /\ attr[l].to <= at[l]
        /\ IF l = 1 THEN end[l] = size
           ELSE attr[l - 1].from <= attr[l].from /\ end[l] = attr[l - 1].to

\* The offsets s are the attributes of a message if each follows the one
\* before it and its padding, and the last one ends the buffer but for its
\* own padding, which may be cut off.
Padding(len) == (4 - (len % 4)) % 4
Encodes(s) ==
    /\ 0 \in s
    /\ \A p \in s :
        LET len == buf[p].len
            later == {q \in s : q > p}
        IN  /\ len >= NLA_HDRLEN
            /\ IF later = {} THEN size - (p + len) \in 0..Padding(len)
               ELSE p + len + Padding(len) \in later /\ \A q \in later : q >= p + len

\* A message is read as the attributes it was made of, none left out and none
\* made up, with or without the padding of the last (parse_attrs).
MessageRead ==
    depth = 0 => \A s \in SUBSET HeaderOffsets(size) : Encodes(s) => starts = s

\* Every loop ends, on any bytes: an iterator never stands still.
Ends == <>(depth = 0)
=============================================================================
