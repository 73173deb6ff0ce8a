----------------------------- MODULE WireProofs ------------------------------
(***************************************************************************)
(* Proofs about Wire, for buffers of any length and content and loops of   *)
(* any depth: no slice leaves its payload, and a message is read as the    *)
(* attributes it was made of.                                              *)
(***************************************************************************)
EXTENDS Wire, TLAPS

TypeOK ==
    /\ size \in Nat
    /\ buf \in Buffers(size)
    /\ depth \in 0..MaxDepth
    /\ at \in [Levels -> Nat]
    /\ end \in [Levels -> Nat]
    /\ attr \in [Levels -> Attribute]

\* What makes `Inside' inductive: an iterator stands at a multiple of four or
\* has nothing left, and no slice ends after the buffer.
Aligned ==
    \A l \in 1..depth : (at[l] % 4 = 0 \/ at[l] = end[l]) /\ end[l] <= size

Inv == TypeOK /\ Aligned /\ Inside

LEMMA MaxDepthNat == MaxDepth \in Nat /\ MaxDepth >= 1 /\ 1 \in Levels
<1>1. MaxDepth \in Nat \ {0}
  BY WireAssumption
<1> QED BY <1>1 DEF Levels

\* The loops that are open have levels.
LEMMA OpenLevels ==
  ASSUME NEW d \in 0..MaxDepth
  PROVE  /\ d \in Nat /\ 1..d \subseteq Levels
         /\ d > 0 => d \in Levels /\ d \in 1..d /\ d - 1 \in 0..MaxDepth
         /\ d > 0 => 1..(d - 1) \subseteq 1..d
         /\ d # MaxDepth => d + 1 \in Levels /\ 1..(d + 1) \subseteq Levels
BY MaxDepthNat DEF Levels

\* The stride covers the attribute and keeps the alignment.
LEMMA Align ==
  ASSUME NEW n \in Nat, NEW p \in Nat, p % 4 = 0
  PROVE  /\ align4(n) \in Nat /\ align4(n) >= n
         /\ (p + align4(n)) % 4 = 0 /\ (p + NLA_HDRLEN) % 4 = 0
BY SMT DEF align4, NLA_HDRLEN

\* An attribute that next() yields lies in what the iterator has left, and so
\* does the rest of it.
LEMMA YieldedInside ==
  ASSUME Inv, NEW l \in Levels, l <= depth, WellFormed(l)
  PROVE  /\ Yielded(l) \in Attribute
         /\ Yielded(l).from \in Nat /\ Yielded(l).to \in Nat
         /\ Yielded(l).from % 4 = 0
         /\ at[l] <= Yielded(l).from /\ Yielded(l).from <= Yielded(l).to
         /\ Yielded(l).to <= Onward(l)
         /\ Onward(l) \in Nat /\ Onward(l) <= end[l]
         /\ Onward(l) % 4 = 0 \/ Onward(l) = end[l]
<1>0. l \in 1..depth /\ at[l] \in Nat /\ end[l] \in Nat /\ size \in Nat
  <2>1. /\ size \in Nat /\ depth \in 0..MaxDepth
        /\ at \in [Levels -> Nat] /\ end \in [Levels -> Nat]
    BY DEF Inv, TypeOK
  <2>2. at[l] \in Nat /\ end[l] \in Nat
    BY <2>1
  <2>3. l \in Nat \ {0} /\ MaxDepth \in Nat
    BY WireAssumption DEF Levels
  <2> QED BY <2>1, <2>2, <2>3
<1>1. at[l] + 4 <= end[l] /\ end[l] <= size /\ at[l] % 4 = 0
  BY <1>0 DEF Inv, Aligned, WellFormed, Remaining, NLA_HDRLEN
<1>2. at[l] \in HeaderOffsets(size)
  BY <1>0, <1>1 DEF HeaderOffsets, NLA_HDRLEN
<1>3. buf[at[l]] \in [len : Lens, type : RawTypes]
  BY <1>2 DEF Inv, TypeOK, Buffers
<1>4. nla_len(l) \in Nat /\ buf[at[l]].type \in Nat
  <2>1. buf[at[l]].len \in Lens /\ buf[at[l]].type \in RawTypes
    BY <1>3
  <2> QED BY <2>1, WireAssumption DEF nla_len
<1>5. nla_len(l) >= 4 /\ nla_len(l) <= end[l] - at[l]
  BY DEF WellFormed, Remaining, NLA_HDRLEN
<1>6. EffectiveType(buf[at[l]].type) \in Nat
  <2>1. \A n \in Nat : n % 8192 \in Nat
    OBVIOUS
  <2> QED BY <2>1, <1>4 DEF EffectiveType
<1>7. /\ Yielded(l).from = at[l] + 4 /\ Yielded(l).to = at[l] + nla_len(l)
      /\ Yielded(l) \in Attribute
  <2> DEFINE ty == EffectiveType(buf[at[l]].type)
             from == at[l] + 4
             to == at[l] + nla_len(l)
  <2>1. Yielded(l) = [ty |-> ty, from |-> from, to |-> to]
    BY DEF Yielded, NLA_HDRLEN
  <2>2. ty \in Nat /\ from \in Nat /\ to \in Nat
    BY <1>0, <1>4, <1>6
  <2> HIDE DEF ty, from, to
  <2>3. [ty |-> ty, from |-> from, to |-> to] \in Attribute
    BY <2>2 DEF Attribute
  <2>4. Yielded(l).from = from /\ Yielded(l).to = to /\ Yielded(l) \in Attribute
    BY <2>1, <2>3
  <2> QED BY <2>4 DEF from, to
<1>8. /\ align4(nla_len(l)) \in Nat /\ align4(nla_len(l)) >= nla_len(l)
      /\ (at[l] + align4(nla_len(l))) % 4 = 0 /\ (at[l] + 4) % 4 = 0
  BY <1>0, <1>1, <1>4, Align DEF NLA_HDRLEN
<1>9. /\ Onward(l) \in Nat /\ Onward(l) <= end[l] /\ at[l] + nla_len(l) <= Onward(l)
      /\ Onward(l) % 4 = 0 \/ Onward(l) = end[l]
  <2>1. CASE align4(nla_len(l)) >= end[l] - at[l]
    BY <2>1, <1>0, <1>4, <1>5 DEF Onward, Remaining
  <2>2. CASE ~(align4(nla_len(l)) >= end[l] - at[l])
    BY <2>2, <1>0, <1>4, <1>5, <1>8 DEF Onward, Remaining
  <2> QED BY <2>1, <2>2
<1> QED BY <1>0, <1>4, <1>5, <1>7, <1>8, <1>9

LEMMA InitInv == Init => Inv
<1> SUFFICES ASSUME Init PROVE Inv
  OBVIOUS
<1>1. 1 \in Levels /\ depth \in 0..MaxDepth /\ size \in Nat /\ 1..depth = {1}
  <2>1. size \in Sizes /\ depth = 1
    BY DEF Init
  <2>2. size \in Nat
    BY <2>1, WireAssumption
  <2> QED BY <2>1, <2>2, MaxDepthNat
<1>2. \A l \in Levels : attr[l] = NoAttr(0) /\ NoAttr(0) \in Attribute
  BY DEF Init, NoAttr, Attribute
<1>3. TypeOK
  BY <1>1, <1>2 DEF Init, TypeOK
<1>4. at[1] = 0 /\ end[1] = size /\ attr[1].from = 0 /\ attr[1].to = 0
  BY <1>1, <1>2 DEF Init, NoAttr
<1> QED BY <1>1, <1>3, <1>4 DEF Inv, Aligned, Inside

\* Reading on in the innermost loop.
LEMMA ReadInv == Inv /\ Read => Inv'
<1> SUFFICES ASSUME Inv, Read PROVE Inv'
  OBVIOUS
<1>0. depth \in Levels /\ depth \in 1..depth /\ 1..depth \subseteq Levels /\ depth \in Nat
  <2>1. depth > 0 /\ depth \in 0..MaxDepth
    BY DEF Read, Inv, TypeOK
  <2> QED BY <2>1, OpenLevels
<1> DEFINE y == Yielded(depth)
           o == Onward(depth)
<1>1. /\ y \in Attribute /\ y.from \in Nat /\ y.to \in Nat /\ y.from % 4 = 0
      /\ at[depth] <= y.from /\ y.from <= y.to /\ y.to <= o
      /\ o \in Nat /\ o <= end[depth] /\ (o % 4 = 0 \/ o = end[depth])
  BY <1>0, YieldedInside DEF Read
<1>2. /\ attr' = [attr EXCEPT ![depth] = y] /\ at' = [at EXCEPT ![depth] = o]
      /\ UNCHANGED <<size, buf, depth, end>>
  BY DEF Read
<1> HIDE DEF y, o
<1>3. TypeOK'
  BY <1>1, <1>2 DEF Inv, TypeOK
<1>4. \A l \in Levels : /\ l # depth => attr'[l] = attr[l] /\ at'[l] = at[l]
                        /\ l = depth => attr'[l] = y /\ at'[l] = o
  BY <1>2 DEF Inv, TypeOK
<1>5. 1..depth \subseteq Levels /\ depth \in Nat
  BY <1>0
<1>6. Aligned'
  BY <1>1, <1>2, <1>4, <1>5 DEF Inv, Aligned
<1>7. Inside'
  <2> SUFFICES ASSUME NEW l \in 1..depth
               PROVE  /\ at'[l] <= end[l]
                      /\ attr'[l].from <= attr'[l].to
                      /\ attr'[l].to <= at'[l]
                      /\ IF l = 1 THEN end[l] = size
                         ELSE attr'[l - 1].from <= attr'[l].from /\ end[l] = attr'[l - 1].to
    BY <1>2 DEF Inside
  <2>1. l \in Levels /\ (l # 1 => l - 1 \in Levels /\ l - 1 # depth)
    BY <1>0, <1>5 DEF Levels
  <2>2. /\ at[l] <= end[l] /\ attr[l].from <= attr[l].to /\ attr[l].to <= at[l]
        /\ IF l = 1 THEN end[l] = size
           ELSE attr[l - 1].from <= attr[l].from /\ end[l] = attr[l - 1].to
    BY DEF Inv, Inside
  <2>3. CASE l # depth
    BY <2>1, <2>2, <2>3, <1>4
  <2>4. CASE l = depth
    <3>1. attr'[l] = y /\ at'[l] = o /\ (l # 1 => attr'[l - 1] = attr[l - 1])
      BY <2>1, <2>4, <1>4
    <3>2. attr[l] \in Attribute /\ at[l] \in Nat /\ (l # 1 => attr[l - 1] \in Attribute)
      BY <2>1 DEF Inv, TypeOK
    <3>3. l # 1 => attr[l - 1].from <= y.from
      <4>1. l # 1 => attr[l - 1].from <= attr[l].from
        BY <2>2
      <4>2. attr[l].from <= attr[l].to /\ attr[l].to <= at[l] /\ at[l] <= y.from
        BY <2>2, <2>4, <1>1
      <4>3. attr[l].from \in Nat /\ attr[l].to \in Nat /\ (l # 1 => attr[l - 1].from \in Nat)
        BY <3>2 DEF Attribute
      <4> QED BY <4>1, <4>2, <4>3, <3>2, <1>1
    <3> QED BY <3>1, <3>3, <2>2, <2>4, <1>1
  <2> QED BY <2>3, <2>4
<1> QED BY <1>3, <1>6, <1>7 DEF Inv

\* Opening a loop in the attribute just read.
LEMMA ReadNestedInv == Inv /\ ReadNested => Inv'
<1> SUFFICES ASSUME Inv, ReadNested PROVE Inv'
  OBVIOUS
<1>0. /\ depth \in Levels /\ depth \in 1..depth /\ depth + 1 \in Levels /\ depth \in Nat
      /\ 1..(depth + 1) \subseteq Levels
  <2>1. depth \in 1..(MaxDepth - 1)
    BY DEF ReadNested
  <2>2. depth \in 0..MaxDepth /\ depth > 0 /\ depth # MaxDepth
    BY <2>1, MaxDepthNat
  <2> QED BY <2>2, OpenLevels
<1> DEFINE y == Yielded(depth)
           o == Onward(depth)
<1>1. /\ y \in Attribute /\ y.from \in Nat /\ y.to \in Nat /\ y.from % 4 = 0
      /\ at[depth] <= y.from /\ y.from <= y.to /\ y.to <= o
      /\ o \in Nat /\ o <= end[depth] /\ (o % 4 = 0 \/ o = end[depth])
  BY <1>0, YieldedInside DEF ReadNested
<1>2. /\ attr' = [attr EXCEPT ![depth] = y, ![depth + 1] = NoAttr(y.from)]
      /\ at' = [at EXCEPT ![depth] = o, ![depth + 1] = y.from]
      /\ end' = [end EXCEPT ![depth + 1] = y.to]
      /\ depth' = depth + 1
      /\ UNCHANGED <<size, buf>>
  BY DEF ReadNested
<1> HIDE DEF y, o
<1>a. /\ NoAttr(y.from) \in Attribute
      /\ NoAttr(y.from).from = y.from /\ NoAttr(y.from).to = y.from
  BY <1>1 DEF NoAttr, Attribute
<1> HIDE DEF NoAttr
<1>3. TypeOK'
  BY <1>0, <1>1, <1>2, <1>a DEF Inv, TypeOK, Levels
<1>4. \A l \in Levels :
        /\ l \notin {depth, depth + 1} => attr'[l] = attr[l] /\ at'[l] = at[l] /\ end'[l] = end[l]
        /\ l = depth => attr'[l] = y /\ at'[l] = o /\ end'[l] = end[l]
        /\ l = depth + 1 => attr'[l] = NoAttr(y.from) /\ at'[l] = y.from /\ end'[l] = y.to
  BY <1>0, <1>2 DEF Inv, TypeOK
<1>5. end[depth] <= size /\ end[depth] \in Nat /\ size \in Nat
  BY <1>0 DEF Inv, Aligned, TypeOK
<1>6. Aligned'
  <2> SUFFICES ASSUME NEW l \in 1..(depth + 1)
               PROVE  (at'[l] % 4 = 0 \/ at'[l] = end'[l]) /\ end'[l] <= size
    BY <1>2 DEF Aligned
  <2>1. CASE l \in 1..depth
    BY <2>1, <1>0, <1>1, <1>4 DEF Inv, Aligned
  <2>2. CASE l = depth + 1
    BY <2>2, <1>0, <1>1, <1>4, <1>5
  <2> QED BY <2>1, <2>2, <1>0
<1>7. Inside'
  <2> SUFFICES ASSUME NEW l \in 1..(depth + 1)
               PROVE  /\ at'[l] <= end'[l]
                      /\ attr'[l].from <= attr'[l].to
                      /\ attr'[l].to <= at'[l]
                      /\ IF l = 1 THEN end'[l] = size
                         ELSE attr'[l - 1].from <= attr'[l].from /\ end'[l] = attr'[l - 1].to
    BY <1>2 DEF Inside
  <2>1. l \in Levels /\ (l # 1 => l - 1 \in Levels)
    BY <1>0 DEF Levels
  <2>2. l \in 1..depth =>
          /\ at[l] <= end[l] /\ attr[l].from <= attr[l].to /\ attr[l].to <= at[l]
          /\ IF l = 1 THEN end[l] = size
             ELSE attr[l - 1].from <= attr[l].from /\ end[l] = attr[l - 1].to
    BY DEF Inv, Inside
  <2>3. CASE l \in 1..(depth - 1)
    BY <2>1, <2>2, <2>3, <1>0, <1>4
  <2>4. CASE l = depth
    <3>1. /\ attr'[l] = y /\ at'[l] = o /\ end'[l] = end[l]
          /\ l # 1 => attr'[l - 1] = attr[l - 1]
      BY <2>1, <2>4, <1>0, <1>4
    <3>2. attr[l] \in Attribute /\ at[l] \in Nat /\ (l # 1 => attr[l - 1] \in Attribute)
      BY <2>1 DEF Inv, TypeOK
    <3>3. l # 1 => attr[l - 1].from <= y.from
      <4>0. l \in 1..depth
        BY <2>4, <1>0
      <4>1. l # 1 => attr[l - 1].from <= attr[l].from
        BY <4>0, <2>2
      <4>2. attr[l].from <= attr[l].to /\ attr[l].to <= at[l] /\ at[l] <= y.from
        BY <4>0, <2>2, <2>4, <1>1
      <4>3. attr[l].from \in Nat /\ attr[l].to \in Nat /\ (l # 1 => attr[l - 1].from \in Nat)
        BY <3>2 DEF Attribute
      <4> QED BY <4>1, <4>2, <4>3, <3>2, <1>1
    <3> QED BY <3>1, <3>3, <2>2, <2>4, <1>0, <1>1
  <2>5. CASE l = depth + 1
    <3>1. /\ attr'[l] = NoAttr(y.from) /\ at'[l] = y.from /\ end'[l] = y.to
          /\ l # 1 /\ attr'[l - 1] = y
      BY <2>1, <2>5, <1>0, <1>4
    <3> QED BY <3>1, <1>1, <1>a
  <2> QED BY <2>3, <2>4, <2>5, <1>0
<1> QED BY <1>3, <1>6, <1>7 DEF Inv

LEMMA StepInv == Inv /\ [Next]_vars => Inv'
<1> SUFFICES ASSUME Inv, [Next]_vars PROVE Inv'
  OBVIOUS
<1>1. CASE Read
  BY <1>1, ReadInv
<1>2. CASE ReadNested
  BY <1>2, ReadNestedInv
<1>3. CASE Finish
  <2>1. /\ UNCHANGED <<size, buf, at, end, attr>> /\ depth' = depth - 1
        /\ depth' \in 0..MaxDepth /\ 1..depth' \subseteq 1..depth
    <3>1. depth > 0 /\ depth \in 0..MaxDepth
      BY <1>3 DEF Finish, Inv, TypeOK
    <3> QED BY <3>1, <1>3, OpenLevels DEF Finish
  <2> QED BY <2>1 DEF Inv, TypeOK, Aligned, Inside
<1>4. CASE UNCHANGED vars
  BY <1>4 DEF vars, Inv, TypeOK, Aligned, Inside
<1> QED BY <1>1, <1>2, <1>3, <1>4 DEF Next

\* Whatever bytes the kernel sends, and however deep a parser nests its loops,
\* no slice that NlaIter::next takes leaves the payload it was given.
THEOREM InsideHolds == Spec => []Inside
<1>1. Inv => Inside
  BY DEF Inv
<1> QED BY <1>1, InitInv, StepInv, PTL DEF Spec

-----------------------------------------------------------------------------
(* What the outermost loop has read of a message.                          *)

\* If the offsets s are the attributes of a message, the outermost loop has
\* read those before the place where it stands, which is one of s or the end.
Followed(s) == starts = {p \in s : p < at[1]} /\ (at[1] \in s \/ at[1] = size)

\* It has the whole buffer to go through and has ended only where next() yields
\* nothing.
Outermost ==
    /\ end[1] = size
    /\ depth = 0 => ~WellFormed(1)
    /\ \A s \in SUBSET HeaderOffsets(size) : Encodes(s) => Followed(s)

\* The stride is the length and its padding.
LEMMA Padded ==
  ASSUME NEW n \in Nat
  PROVE  /\ Padding(n) \in 0..3 /\ align4(n) = n + Padding(n)
<1>1. n % 4 \in 0..3 /\ n = 4 * (n \div 4) + (n % 4)
  BY SMT
<1>2. Padding(n) = IF n % 4 = 0 THEN 0 ELSE 4 - (n % 4)
  BY <1>1, SMT DEF Padding
<1>3. (n + 3) \div 4 = IF n % 4 = 0 THEN n \div 4 ELSE n \div 4 + 1
  BY <1>1, SMT
<1> QED BY <1>1, <1>2, <1>3, SMT DEF align4

\* Between two offsets that are multiples of four lies a whole stride.
LEMMA WholeStride ==
  ASSUME NEW p \in Nat, NEW q \in Nat, NEW n \in Nat, p % 4 = 0, q % 4 = 0, q >= p + n
  PROVE  q >= p + align4(n)
<1>1. (p + align4(n)) % 4 = 0 /\ align4(n) \in Nat
  BY Align
<1>2. align4(n) = n + Padding(n) /\ Padding(n) \in 0..3
  BY Padded
<1> DEFINE stride == p + align4(n)
           a == q \div 4
           b == stride \div 4
<1>3. stride \in Nat /\ stride <= p + n + 3
  <2>1. align4(n) \in Nat /\ align4(n) <= n + 3
    BY <1>1, <1>2
  <2> QED BY <2>1
<1>4. \A m \in Nat : m % 4 = 0 => m \div 4 \in Nat /\ m = 4 * (m \div 4)
  BY SMT
<1>5. q = 4 * a /\ stride = 4 * b /\ a \in Nat /\ b \in Nat
  BY <1>1, <1>3, <1>4
<1> HIDE DEF stride, a, b
<1>6. q >= stride
  BY <1>3, <1>5
<1> QED BY <1>6 DEF stride

\* Where an attribute of a message starts next() yields it, and goes on to the
\* following one or to the end.
LEMMA NextAttribute ==
  ASSUME TypeOK, end[1] = size, NEW s \in SUBSET HeaderOffsets(size), Encodes(s), at[1] \in s
  PROVE  /\ WellFormed(1)
         /\ Onward(1) \in s \/ Onward(1) = size
         /\ {q \in s : q < Onward(1)} = {q \in s : q < at[1]} \cup {at[1]}
<1> DEFINE p == at[1]
           len == buf[p].len
           later == {q \in s : q > p}
<1>1. /\ size \in Nat
      /\ \A q \in s : q \in Nat /\ q % 4 = 0 /\ q + 4 <= size
  BY DEF TypeOK, HeaderOffsets, NLA_HDRLEN
<1>2. len \in Nat
  <2>1. buf[p] \in [len : Lens, type : RawTypes]
    BY DEF TypeOK, Buffers
  <2>2. len \in Lens
    BY <2>1
  <2> QED BY <2>2, WireAssumption
<1>3. /\ len >= 4
      /\ IF later = {} THEN size - (p + len) \in 0..Padding(len)
         ELSE p + len + Padding(len) \in later /\ \A q \in later : q >= p + len
  BY DEF Encodes, NLA_HDRLEN
<1>4. /\ align4(len) = len + Padding(len) /\ Padding(len) \in 0..3
      /\ Remaining(1) = size - p /\ nla_len(1) = len
      /\ Onward(1) = IF align4(len) >= size - p THEN size ELSE p + align4(len)
  BY <1>2, Padded DEF Remaining, nla_len, Onward
<1>5. p \in s
  OBVIOUS
<1> HIDE DEF p, len
<1>6. CASE later = {}
  <2>1. p + len <= size /\ align4(len) >= size - p
    BY <1>1, <1>2, <1>3, <1>4, <1>5, <1>6
  <2>2. WellFormed(1)
    BY <1>1, <1>2, <1>3, <1>4, <1>5, <2>1 DEF WellFormed, NLA_HDRLEN
  <2>3. Onward(1) = size /\ p < size
    BY <1>1, <1>4, <1>5, <2>1
  <2>4. \A q \in s : q < size /\ (q < p \/ q = p)
    BY <1>1, <1>5, <1>6
  <2> QED BY <2>2, <2>3, <2>4 DEF p
<1>7. CASE later # {}
  <2>1. p + align4(len) \in s /\ \A q \in later : q >= p + len
    BY <1>1, <1>2, <1>3, <1>4, <1>5, <1>7
  <2>2. p \in Nat /\ size \in Nat /\ p + align4(len) + 4 <= size
    BY <1>1, <1>5, <2>1
  <2>3. align4(len) \in Nat /\ align4(len) >= len /\ len >= 4
    <3>1. len >= 4
      BY <1>3
    <3> QED BY <1>2, <1>4, <3>1
  <2>4. align4(len) < size - p /\ p < p + align4(len) /\ len <= size - p /\ size - p >= 4
    BY <1>2, <2>2, <2>3
  <2>5. Onward(1) = p + align4(len)
    BY <1>4, <2>2, <2>3, <2>4
  <2>6. WellFormed(1)
    BY <1>4, <2>3, <2>4 DEF WellFormed, NLA_HDRLEN
  <2>7. \A q \in s : q < Onward(1) <=> (q < p \/ q = p)
    <3> SUFFICES ASSUME NEW q \in s PROVE q < Onward(1) <=> (q < p \/ q = p)
      OBVIOUS
    <3>1. q > p => q >= p + align4(len)
      BY <1>1, <1>2, <1>5, <2>1, WholeStride
    <3>2. q \in Nat
      BY <1>1
    <3> QED BY <2>2, <2>3, <2>5, <2>4, <3>1, <3>2
  <2> QED BY <1>5, <2>1, <2>5, <2>6, <2>7 DEF p
<1> QED BY <1>6, <1>7

\* Reading on in the outermost loop takes the next attribute of the message.
LEMMA FollowedOn ==
  ASSUME TypeOK, Outermost, WellFormed(1), at'[1] = Onward(1),
         starts' = starts \cup {at[1]}, UNCHANGED <<size, buf>>,
         NEW s \in SUBSET HeaderOffsets(size), Encodes(s)
  PROVE  Followed(s)'
<1>1. Followed(s) /\ end[1] = size /\ size \in Nat
  BY DEF Outermost, TypeOK
<1>2. at[1] # size
  BY <1>1 DEF WellFormed, Remaining, NLA_HDRLEN
<1>3. at[1] \in s
  BY <1>1, <1>2 DEF Followed
<1>4. /\ Onward(1) \in s \/ Onward(1) = size
      /\ {q \in s : q < Onward(1)} = {q \in s : q < at[1]} \cup {at[1]}
  BY <1>1, <1>3, NextAttribute
<1> QED BY <1>1, <1>4 DEF Followed

\* Every step of the loops preserves what is known of the outermost one.
LEMMA OutermostStep == Inv /\ Outermost /\ [Next]_vars => Outermost'
<1> SUFFICES ASSUME Inv, Outermost, [Next]_vars PROVE Outermost'
  OBVIOUS
<1>0. TypeOK /\ 1 \in Levels /\ end \in [Levels -> Nat] /\ at \in [Levels -> Nat] /\ depth \in Nat
  BY MaxDepthNat DEF Inv, TypeOK
<1>1. ASSUME WellFormed(depth), depth > 0, depth' >= depth, at'[1] = IF depth = 1 THEN Onward(1) ELSE at[1],
             end'[1] = end[1], starts' = Started, UNCHANGED <<size, buf>>
      PROVE  Outermost'
  <2>1. end'[1] = size' /\ depth' # 0
    BY <1>0, <1>1 DEF Outermost
  <2>2. ASSUME NEW s \in SUBSET HeaderOffsets(size), Encodes(s) PROVE Followed(s)'
    <3>1. CASE depth = 1
      BY <1>0, <1>1, <2>2, <3>1, FollowedOn DEF Started
    <3>2. CASE depth # 1
      BY <1>1, <2>2, <3>2 DEF Outermost, Started, Followed
    <3> QED BY <3>1, <3>2
  <2>3. \A s \in SUBSET HeaderOffsets(size') : Encodes(s)' => Followed(s)'
    <3>1. \A s : Encodes(s)' <=> Encodes(s)
      BY <1>1 DEF Encodes
    <3> QED BY <1>1, <2>2, <3>1
  <2> QED BY <2>1, <2>3 DEF Outermost
<1>2. CASE Read
  <2>1. at'[1] = IF depth = 1 THEN Onward(1) ELSE at[1]
    BY <1>0, <1>2 DEF Read
  <2> QED BY <1>0, <1>1, <1>2, <2>1 DEF Read
<1>3. CASE ReadNested
  <2>1. /\ depth \in 1..(MaxDepth - 1) /\ depth' = depth + 1 /\ starts' = Started
        /\ WellFormed(depth) /\ UNCHANGED <<size, buf>>
        /\ at' = [at EXCEPT ![depth] = Onward(depth), ![depth + 1] = Yielded(depth).from]
        /\ end' = [end EXCEPT ![depth + 1] = Yielded(depth).to]
    BY <1>3 DEF ReadNested
  <2>2. depth > 0 /\ depth' >= depth /\ depth + 1 # 1
    BY <2>1, MaxDepthNat
  <2>3. end'[1] = end[1] /\ at'[1] = IF depth = 1 THEN Onward(1) ELSE at[1]
    BY <1>0, <2>1, <2>2
  <2> QED BY <1>1, <2>1, <2>2, <2>3
<1>4. ASSUME UNCHANGED <<size, buf, at, end, starts>>, depth' = 0 => ~WellFormed(1)
      PROVE  Outermost'
  <2>1. (\A s : Encodes(s)' <=> Encodes(s)) /\ (\A s : Followed(s)' <=> Followed(s))
    BY <1>4 DEF Encodes, Followed
  <2>2. WellFormed(1)' <=> WellFormed(1)
    BY <1>4 DEF WellFormed, Remaining, nla_len
  <2> QED BY <1>4, <2>1, <2>2 DEF Outermost
<1>5. CASE Finish
  <2>1. depth' = 0 => depth = 1
    BY <1>0, <1>5 DEF Finish
  <2> QED BY <1>4, <1>5, <2>1 DEF Finish
<1>6. CASE UNCHANGED vars
  BY <1>4, <1>6 DEF vars, Outermost
<1> QED BY <1>2, <1>3, <1>5, <1>6 DEF Next

\* The loop starts at the first attribute of whatever message this is.
LEMMA OutermostInit == Init => Outermost
<1> SUFFICES ASSUME Init PROVE Outermost
  OBVIOUS
<1>1. at[1] = 0 /\ end[1] = size /\ depth = 1 /\ starts = {}
  BY MaxDepthNat DEF Init
<1>2. ASSUME NEW s \in SUBSET HeaderOffsets(size), Encodes(s) PROVE Followed(s)
  <2>1. size \in Nat
    BY WireAssumption DEF Init
  <2>2. 0 \in s /\ \A p \in s : p \in Nat
    BY <1>2, <2>1 DEF Encodes, HeaderOffsets
  <2> QED BY <1>1, <2>2 DEF Followed
<1> QED BY <1>1, <1>2 DEF Outermost

\* A buffer made up of attributes is read as these, whatever their lengths and
\* padding and whatever the loops inside of them do (parse_attrs, NlaIter).
THEOREM MessageReadHolds == Spec => []MessageRead
<1>1. Inv /\ Outermost => MessageRead
  <2> SUFFICES ASSUME Inv, Outermost, depth = 0,
                      NEW s \in SUBSET HeaderOffsets(size), Encodes(s)
               PROVE  starts = s
    BY DEF MessageRead
  <2>1. TypeOK /\ Followed(s) /\ end[1] = size /\ ~WellFormed(1) /\ size \in Nat
    BY DEF Inv, TypeOK, Outermost
  <2>2. at[1] = size
    BY <2>1, NextAttribute DEF Followed
  <2>3. \A p \in s : p < size
    BY <2>1 DEF HeaderOffsets, NLA_HDRLEN
  <2> QED BY <2>1, <2>2, <2>3 DEF Followed
<1> QED BY <1>1, InitInv, StepInv, OutermostInit, OutermostStep, PTL DEF Spec
=============================================================================
