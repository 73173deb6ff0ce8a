-------------------------- MODULE InductionProofs --------------------------
(***************************************************************************)
(* Induction as a fact about sets of naturals, from the library's theorem  *)
(* on well-founded relations, and what it shows of FlattenSeq, which the   *)
(* models use where the code writes one piece of text after the other, and *)
(* of sums.                                                                *)
(***************************************************************************)
EXTENDS Summing, SequencesExt, SequenceTheorems, WellFoundedInduction, TLAPS

\* A set with zero and all successors of its members has every natural.
LEMMA SetInduction ==
  ASSUME NEW S, 0 \in S, \A n \in Nat : n \in S => n + 1 \in S
  PROVE  \A n \in Nat : n \in S
<1> DEFINE T == {n \in Nat : n \notin S}
<1>1. ASSUME T # {} PROVE FALSE
  <2>1. PICK x \in T : \A y \in T : <<y, x>> \notin OpToRel(<, Nat)
    BY <1>1, WFMin, NatLessThanWellFounded
  <2>2. x # 0 /\ x - 1 \in Nat
    OBVIOUS
  <2>3. x - 1 \in T
    BY <2>2
  <2>4. <<x - 1, x>> \in OpToRel(<, Nat)
    BY <2>2 DEF OpToRel
  <2> QED BY <2>1, <2>3, <2>4
<1> QED BY <1>1

\* What is joined first does not matter.
Associates(s, t, u) == (s \o t) \o u = s \o (t \o u)

\* The library's theorem, for a prover that takes its equation as it is.
LEMMA JoinAssociative ==
  ASSUME NEW T, NEW s \in Seq(T), NEW t \in Seq(T), NEW u \in Seq(T)
  PROVE  Associates(s, t, u)
BY ConcatAssociative DEF Associates

\* Where the elements of two joined sequences are.
Joins(u, s, t, T) ==
    /\ u \in Seq(T) /\ Len(u) = Len(s) + Len(t)
    /\ \A i \in 1..Len(s) : u[i] = s[i]
    /\ \A i \in 1..Len(t) : u[Len(s) + i] = t[i]

\* The library's theorem, in this form.
LEMMA JoinParts ==
  ASSUME NEW T, NEW s \in Seq(T), NEW t \in Seq(T)
  PROVE  Joins(s \o t, s, t, T)
<1>1. Len(s) \in Nat /\ Len(t) \in Nat
  OBVIOUS
<1> QED BY <1>1, ConcatProperties DEF Joins

\* A set of naturals that is not empty has a least one.
LEMMA LeastNumber ==
  ASSUME NEW I \in SUBSET Nat, I # {}
  PROVE  \E i \in I : \A j \in I : i <= j
<1>1. PICK x \in I : \A y \in I : <<y, x>> \notin OpToRel(<, Nat)
  BY WFMin, NatLessThanWellFounded
<1>2. \A y \in I : ~(y < x)
  BY <1>1 DEF OpToRel
<1> QED BY <1>2

-----------------------------------------------------------------------------
(* The recursion inside of FlattenSeq.                                     *)

\* What FlattenSeq joins up to each element, for the first n of seqs.
Joined(f, seqs, n) ==
    f = [i \in 1..n |-> IF i = 1 THEN seqs[i] ELSE f[i - 1] \o seqs[i]]

\* Its first value is the first of seqs.
LEMMA JoinedFirst ==
  ASSUME NEW f, NEW seqs, NEW n, Joined(f, seqs, n), 1 \in 1..n
  PROVE  f[1] = seqs[1]
BY Zenon DEF Joined

\* Value i is the one before it with the next of seqs behind.
Extends(f, seqs, i) == f[i] = f[i - 1] \o seqs[i]

\* So is every value after the first.
LEMMA JoinedNext ==
  ASSUME NEW f, NEW seqs, NEW n, Joined(f, seqs, n), NEW i \in 1..n, i # 1
  PROVE  Extends(f, seqs, i)
BY Zenon DEF Joined, Extends

\* There is such a function: the recursion goes down to the first element.
LEMMA JoinedExists ==
  ASSUME NEW seqs, NEW m \in Nat
  PROVE  \E f : Joined(f, seqs, m)
<1> DEFINE S == {n \in Nat : \E f : Joined(f, seqs, n)}
<1>1. 0 \in S
  <2>1. Joined([i \in 1..0 |-> <<>>], seqs, 0)
    BY DEF Joined
  <2> QED BY <2>1
<1>2. ASSUME NEW n \in Nat, n \in S PROVE n + 1 \in S
  <2>1. PICK f : Joined(f, seqs, n)
    BY <1>2
  <2> DEFINE g == [i \in 1..(n + 1) |->
                     IF i = 1 THEN seqs[i] ELSE IF i = n + 1 THEN f[n] \o seqs[i] ELSE f[i]]
  <2>2. ASSUME NEW i \in 1..(n + 1)
        PROVE  g[i] = IF i = 1 THEN seqs[i] ELSE g[i - 1] \o seqs[i]
    <3>1. CASE i = 1
      BY <3>1
    <3>2. CASE i # 1
      <4>1. i - 1 \in 1..n /\ i - 1 \in 1..(n + 1) /\ i - 1 # n + 1
        BY <3>2
      <4>2. g[i - 1] = f[i - 1]
        <5>1. CASE i - 1 = 1
          <6>1. f[1] = seqs[1]
            BY <2>1, <4>1, <5>1, JoinedFirst
          <6> QED BY <4>1, <5>1, <6>1
        <5>2. CASE i - 1 # 1
          BY <4>1, <5>2
        <5> QED BY <5>1, <5>2
      <4>3. i # n + 1 => f[i] = f[i - 1] \o seqs[i]
        <5>1. i # n + 1 => i \in 1..n
          OBVIOUS
        <5>2. i # n + 1 => Extends(f, seqs, i)
          BY <2>1, <3>2, <5>1, JoinedNext, Zenon
        <5> QED BY <5>2 DEF Extends
      <4>4. g[i] = IF i = n + 1 THEN f[n] \o seqs[i] ELSE f[i]
        BY <3>2
      <4>5. i = n + 1 => f[n] = f[i - 1]
        OBVIOUS
      <4> HIDE DEF g
      <4> QED BY <3>2, <4>2, <4>3, <4>4, <4>5
    <3> QED BY <3>1, <3>2
  <2>3. g = [i \in 1..(n + 1) |-> g[i]]
    OBVIOUS
  <2> HIDE DEF g
  <2>4. Joined(g, seqs, n + 1)
    BY <2>2, <2>3, Zenon DEF Joined
  <2> QED BY <2>4
<1> HIDE DEF S
<1>3. m \in S
  BY <1>1, <1>2, SetInduction
<1> QED BY <1>3 DEF S

\* FlattenSeq is such a function at its last element.
LEMMA FlattenJoined ==
  ASSUME NEW seqs, Len(seqs) \in Nat, Len(seqs) # 0
  PROVE  \E f : Joined(f, seqs, Len(seqs)) /\ FlattenSeq(seqs) = f[Len(seqs)]
<1> DEFINE f == CHOOSE f : f = [i \in 1..Len(seqs) |->
                                  IF i = 1 THEN seqs[i] ELSE f[i - 1] \o seqs[i]]
<1>1. \E g : g = [i \in 1..Len(seqs) |-> IF i = 1 THEN seqs[i] ELSE g[i - 1] \o seqs[i]]
  BY JoinedExists DEF Joined
<1>2. f = [i \in 1..Len(seqs) |-> IF i = 1 THEN seqs[i] ELSE f[i - 1] \o seqs[i]]
  BY <1>1, Zenon
<1>3. FlattenSeq(seqs) = f[Len(seqs)]
  BY Zenon DEF FlattenSeq
<1> QED BY <1>2, <1>3, Zenon DEF Joined

\* Nothing joined is nothing.
LEMMA FlattenEmpty == FlattenSeq(<<>>) = <<>>
BY DEF FlattenSeq

\* All that is joined are sequences of the same things.
LEMMA JoinedType ==
  ASSUME NEW T, NEW seqs \in Seq(Seq(T)), NEW f, Joined(f, seqs, Len(seqs))
  PROVE  \A i \in 1..Len(seqs) : f[i] \in Seq(T)
<1> DEFINE S == {n \in Nat : n + 1 \in 1..Len(seqs) => f[n + 1] \in Seq(T)}
<1>1. 0 \in S
  <2>1. 1 \in 1..Len(seqs) => f[1] = seqs[1] /\ seqs[1] \in Seq(T)
    BY JoinedFirst
  <2> QED BY <2>1
<1>2. ASSUME NEW n \in Nat, n \in S PROVE n + 1 \in S
  <2> SUFFICES ASSUME n + 2 \in 1..Len(seqs) PROVE f[n + 2] \in Seq(T)
    <3>1. n + 1 \in Nat /\ (n + 1) + 1 = n + 2
      OBVIOUS
    <3> QED BY <3>1
  <2>1. n + 1 \in 1..Len(seqs) /\ n + 2 # 1 /\ n + 1 = (n + 2) - 1
    OBVIOUS
  <2>2. f[n + 2] = f[n + 1] \o seqs[n + 2]
    <3>1. Extends(f, seqs, n + 2)
      BY <2>1, JoinedNext, Zenon
    <3> QED BY <2>1, <3>1 DEF Extends
  <2>3. f[n + 1] \in Seq(T) /\ seqs[n + 2] \in Seq(T)
    BY <1>2, <2>1
  <2> QED BY <2>2, <2>3, ConcatProperties
<1>3. \A n \in Nat : n \in S
  <2> HIDE DEF S
  <2> QED BY <1>1, <1>2, SetInduction
<1> SUFFICES ASSUME NEW i \in 1..Len(seqs) PROVE f[i] \in Seq(T)
  OBVIOUS
<1>4. i - 1 \in Nat /\ (i - 1) + 1 = i
  OBVIOUS
<1>5. i - 1 \in S
  <2> HIDE DEF S
  <2> QED BY <1>3, <1>4
<1> QED BY <1>4, <1>5

\* FlattenSeq of sequences of T is a sequence of T.
LEMMA FlattenType ==
  ASSUME NEW T, NEW seqs \in Seq(Seq(T))
  PROVE  FlattenSeq(seqs) \in Seq(T)
<1>1. CASE seqs = <<>>
  <2>1. <<>> \in Seq(T)
    OBVIOUS
  <2>2. FlattenSeq(seqs) = <<>>
    BY <1>1, FlattenEmpty, Zenon
  <2> QED BY <2>1, <2>2, Zenon
<1>2. CASE seqs # <<>>
  <2>1. Len(seqs) \in Nat /\ Len(seqs) # 0 /\ Len(seqs) \in 1..Len(seqs)
    BY <1>2, EmptySeq
  <2>2. PICK f : Joined(f, seqs, Len(seqs)) /\ FlattenSeq(seqs) = f[Len(seqs)]
    BY <2>1, FlattenJoined
  <2>3. f[Len(seqs)] \in Seq(T)
    BY <2>1, <2>2, JoinedType, Zenon
  <2> QED BY <2>2, <2>3
<1> QED BY <1>1, <1>2

\* The first sequence comes first, and the others joined after it.
LEMMA FlattenFirst ==
  ASSUME NEW T, NEW seqs \in Seq(Seq(T)), seqs # <<>>
  PROVE  FlattenSeq(seqs) = seqs[1] \o FlattenSeq(Tail(seqs))
<1> DEFINE rest == Tail(seqs)
           len == Len(seqs)
<1>1. /\ len \in Nat /\ len >= 1 /\ len # 0 /\ 1 \in 1..len /\ seqs[1] \in Seq(T)
      /\ rest \in Seq(Seq(T)) /\ Len(rest) = len - 1
      /\ \A i \in 1..(len - 1) : rest[i] = seqs[i + 1]
  BY EmptySeq, HeadTailProperties
<1> HIDE DEF rest
<1>2. PICK f : Joined(f, seqs, len) /\ FlattenSeq(seqs) = f[len]
  BY <1>1, FlattenJoined
<1>3. f[1] = seqs[1]
  BY <1>1, <1>2, JoinedFirst
<1>4. CASE len = 1
  <2>1. rest = <<>>
    BY <1>1, <1>4, EmptySeq
  <2>2. seqs[1] \o <<>> = seqs[1]
    BY <1>1, ConcatEmptySeq
  <2> QED BY <1>2, <1>3, <1>4, <2>1, <2>2, FlattenEmpty DEF rest
<1>5. CASE len # 1
  <2>1. Len(rest) \in Nat /\ Len(rest) # 0
    BY <1>1, <1>5
  <2>2. PICK g : Joined(g, rest, Len(rest)) /\ FlattenSeq(rest) = g[Len(rest)]
    BY <2>1, FlattenJoined
  <2>3. \A i \in 1..Len(rest) : g[i] \in Seq(T) /\ rest[i] \in Seq(T)
    <3>1. \A i \in 1..Len(rest) : g[i] \in Seq(T)
      BY <1>1, <2>2, JoinedType, Zenon
    <3>2. \A i \in 1..Len(rest) : rest[i] \in Seq(T)
      BY <1>1, <2>1
    <3> QED BY <3>1, <3>2
  <2> DEFINE S == {n \in Nat : n + 1 \in 1..(len - 1) => f[n + 2] = seqs[1] \o g[n + 1]}
  <2>4. 0 \in S
    <3>1. 2 \in 1..len /\ 1 \in 1..(len - 1) /\ 1 = 2 - 1 /\ 2 # 1 /\ 0 + 1 = 1 /\ 0 + 2 = 2
      BY <1>1, <1>5
    <3>2. f[2] = f[1] \o seqs[2]
      <4>1. Extends(f, seqs, 2)
        BY <1>2, <3>1, JoinedNext, Zenon
      <4> QED BY <3>1, <4>1 DEF Extends
    <3>3. g[1] = rest[1]
      BY <1>1, <2>2, <3>1, JoinedFirst
    <3>4. rest[1] = seqs[2]
      BY <1>1, <3>1
    <3> QED BY <1>3, <3>1, <3>2, <3>3, <3>4
  <2>5. ASSUME NEW n \in Nat, n \in S PROVE n + 1 \in S
    <3>1. ASSUME n + 2 \in 1..(len - 1) PROVE f[n + 3] = seqs[1] \o g[n + 2]
      <4>1. /\ n + 1 \in 1..(len - 1) /\ n + 2 \in 1..Len(rest) /\ n + 3 \in 1..len
            /\ n + 2 # 1 /\ n + 3 # 1 /\ n + 2 = (n + 3) - 1 /\ n + 1 = (n + 2) - 1
            /\ (n + 2) + 1 = n + 3
        BY <1>1, <3>1
      <4>2. f[n + 3] = f[n + 2] \o seqs[n + 3]
        <5>1. Extends(f, seqs, n + 3)
          BY <1>2, <4>1, JoinedNext, Zenon
        <5> QED BY <4>1, <5>1 DEF Extends
      <4>3. g[n + 2] = g[n + 1] \o rest[n + 2]
        <5>1. Extends(g, rest, n + 2)
          BY <2>2, <4>1, JoinedNext, Zenon
        <5> QED BY <4>1, <5>1 DEF Extends
      <4>4. rest[n + 2] = seqs[n + 3]
        BY <1>1, <3>1, <4>1
      <4>5. f[n + 2] = seqs[1] \o g[n + 1]
        BY <2>5, <4>1
      <4>6. g[n + 1] \in Seq(T) /\ rest[n + 2] \in Seq(T)
        BY <1>1, <2>3, <4>1
      <4> DEFINE x == g[n + 1]
                 y == rest[n + 2]
      <4> HIDE DEF x, y
      <4>7. x \in Seq(T) /\ y \in Seq(T)
        BY <4>6, Zenon DEF x, y
      <4>8. (seqs[1] \o x) \o y = seqs[1] \o (x \o y)
        <5>1. Associates(seqs[1], x, y)
          BY <1>1, <4>7, JoinAssociative, Zenon
        <5> QED BY <5>1 DEF Associates
      <4> QED BY <4>2, <4>3, <4>4, <4>5, <4>8, Zenon DEF x, y
    <3>2. /\ n + 1 \in Nat /\ (n + 1) + 1 = n + 2 /\ (n + 1) + 2 = n + 3
      OBVIOUS
    <3> QED BY <3>1, <3>2
  <2>6. len - 2 \in S
    <3>1. len - 2 \in Nat
      BY <1>1, <1>5
    <3> HIDE DEF S
    <3> QED BY <2>4, <2>5, <3>1, SetInduction
  <2>7. f[len] = seqs[1] \o g[len - 1]
    <3>1. (len - 2) + 1 = len - 1 /\ (len - 2) + 2 = len /\ len - 1 \in 1..(len - 1)
      BY <1>1, <1>5
    <3> QED BY <2>6, <3>1
  <2> QED BY <1>1, <1>2, <2>2, <2>7 DEF rest
<1> QED BY <1>4, <1>5

-----------------------------------------------------------------------------
(* Where the elements of each sequence are in what they are joined to.     *)

\* Sequence i is found behind start[i], whole, and the next ones after it.
Placed(seqs, start) ==
    LET flat == FlattenSeq(seqs)
    IN  /\ start \in [1..Len(seqs) -> Nat]
        /\ \A i \in 1..Len(seqs) : \A j \in 1..Len(seqs[i]) :
            start[i] + j \in 1..Len(flat) /\ flat[start[i] + j] = seqs[i][j]
        /\ \A i, j \in 1..Len(seqs) : i < j => start[i] + Len(seqs[i]) <= start[j]
        /\ \A k \in 1..Len(flat) :
            \E i \in 1..Len(seqs) : \E j \in 1..Len(seqs[i]) : k = start[i] + j

\* One more sequence in front moves the others by its length.
LEMMA PlacedInFront ==
  ASSUME NEW T, NEW seqs \in Seq(Seq(T)), seqs # <<>>, NEW start, Placed(Tail(seqs), start)
  PROVE  \E moved : Placed(seqs, moved)
<1> DEFINE rest == Tail(seqs)
           w == seqs[1]
           t == FlattenSeq(rest)
           flat == FlattenSeq(seqs)
           h == Len(w)
           moved == [i \in 1..Len(seqs) |-> IF i = 1 THEN 0 ELSE h + start[i - 1]]
<1>1. /\ Len(seqs) \in Nat /\ Len(seqs) >= 1 /\ w \in Seq(T) /\ rest \in Seq(Seq(T))
      /\ Len(rest) = Len(seqs) - 1 /\ \A i \in 1..(Len(seqs) - 1) : rest[i] = seqs[i + 1]
      /\ \A i \in 1..Len(seqs) : seqs[i] \in Seq(T)
  BY EmptySeq, HeadTailProperties
<1>2. t \in Seq(T)
  BY <1>1, FlattenType
<1>3. flat = w \o t
  BY FlattenFirst
<1> HIDE DEF rest, t, flat, w
<1>4. /\ Len(flat) = h + Len(t) /\ h \in Nat /\ Len(t) \in Nat
      /\ \A k \in 1..h : flat[k] = w[k]
      /\ \A k \in 1..Len(t) : flat[h + k] = t[k]
  BY <1>1, <1>2, <1>3, ConcatProperties
<1> HIDE DEF h
<1>5. h \in Nat
  BY <1>4
<1>6. /\ start \in [1..Len(rest) -> Nat]
      /\ \A i \in 1..Len(rest) : \A j \in 1..Len(rest[i]) :
            start[i] + j \in 1..Len(t) /\ t[start[i] + j] = rest[i][j]
      /\ \A i, j \in 1..Len(rest) : i < j => start[i] + Len(rest[i]) <= start[j]
      /\ \A k \in 1..Len(t) :
            \E i \in 1..Len(rest) : \E j \in 1..Len(rest[i]) : k = start[i] + j
  BY Zenon DEF Placed, rest, t
<1>7. ASSUME NEW i \in 1..Len(seqs)
      PROVE  /\ moved[i] \in Nat
             /\ i = 1 => moved[i] = 0 /\ Len(seqs[i]) = h
             /\ i # 1 => /\ i - 1 \in 1..Len(rest) /\ moved[i] = h + start[i - 1]
                         /\ start[i - 1] \in Nat /\ rest[i - 1] = seqs[i]
  <2>1. CASE i = 1
    BY <2>1 DEF w, h
  <2>2. CASE i # 1
    <3>1. i - 1 \in 1..Len(rest) /\ i - 1 \in 1..(Len(seqs) - 1) /\ (i - 1) + 1 = i
      BY <1>1, <2>2
    <3>2. start[i - 1] \in Nat /\ rest[i - 1] = seqs[i]
      BY <1>1, <1>6, <3>1
    <3>3. moved[i] = h + start[i - 1]
      BY <2>2
    <3>4. moved[i] \in Nat
      BY <1>4, <3>2, <3>3
    <3> QED BY <2>2, <3>1, <3>2, <3>3, <3>4
  <2> QED BY <2>1, <2>2
<1>8. moved \in [1..Len(seqs) -> Nat]
  BY <1>7
<1> HIDE DEF moved
<1>9. ASSUME NEW i \in 1..Len(seqs), NEW j \in 1..Len(seqs[i])
      PROVE  moved[i] + j \in 1..Len(flat) /\ flat[moved[i] + j] = seqs[i][j]
  <2>1. CASE i = 1
    <3>1. moved[i] + j = j /\ j \in 1..h /\ j \in 1..Len(flat)
      BY <1>4, <1>7, <2>1
    <3> QED BY <1>4, <2>1, <3>1 DEF w
  <2>2. CASE i # 1
    <3>1. i - 1 \in 1..Len(rest) /\ start[i - 1] \in Nat /\ j \in 1..Len(rest[i - 1])
      BY <1>7, <2>2
    <3>2. start[i - 1] + j \in 1..Len(t) /\ t[start[i - 1] + j] = rest[i - 1][j]
      BY <1>6, <3>1
    <3>3. moved[i] + j = h + (start[i - 1] + j)
      <4>1. moved[i] = h + start[i - 1] /\ j \in Int
        BY <1>7, <2>2
      <4> QED BY <1>4, <3>1, <4>1
    <3>4. h + (start[i - 1] + j) \in 1..Len(flat)
      BY <1>4, <3>2, SMTT(20)
    <3>5. flat[h + (start[i - 1] + j)] = t[start[i - 1] + j]
      BY <1>4, <3>2
    <3> QED BY <1>7, <2>2, <3>2, <3>3, <3>4, <3>5
  <2> QED BY <2>1, <2>2
<1>10. ASSUME NEW i \in 1..Len(seqs), NEW j \in 1..Len(seqs), i < j
      PROVE  moved[i] + Len(seqs[i]) <= moved[j]
  <2>1. j # 1 /\ moved[j] = h + start[j - 1] /\ j - 1 \in 1..Len(rest) /\ start[j - 1] \in Nat
    BY <1>7, <1>10
  <2>2. CASE i = 1
    BY <1>4, <1>7, <2>1, <2>2, SMTT(20)
  <2>3. CASE i # 1
    <3>1. /\ i - 1 \in 1..Len(rest) /\ moved[i] = h + start[i - 1] /\ start[i - 1] \in Nat
          /\ rest[i - 1] = seqs[i] /\ Len(seqs[i]) \in Nat
      BY <1>1, <1>7, <2>3
    <3>2. i - 1 < j - 1
      BY <1>10
    <3>3. start[i - 1] + Len(seqs[i]) <= start[j - 1]
      BY <1>6, <2>1, <3>1, <3>2
    <3>4. (h + start[i - 1]) + Len(seqs[i]) <= h + start[j - 1]
      <4>1. start[i - 1] \in Nat /\ start[j - 1] \in Nat /\ Len(seqs[i]) \in Nat
        BY <2>1, <3>1
      <4> QED BY ONLY <1>5, <3>3, <4>1, SMTT(20)
    <3> QED BY <2>1, <3>1, <3>4
  <2> QED BY <2>2, <2>3
<1>11. ASSUME NEW k \in 1..Len(flat)
       PROVE  \E i \in 1..Len(seqs) : \E j \in 1..Len(seqs[i]) : k = moved[i] + j
  <2>1. CASE k <= h
    <3>1. 1 \in 1..Len(seqs) /\ k \in 1..Len(seqs[1]) /\ k = moved[1] + k
      BY <1>1, <1>4, <1>7, <2>1
    <3> QED BY <3>1
  <2>2. CASE k > h
    <3>1. k - h \in 1..Len(t)
      BY <1>4, <2>2
    <3>2. PICK i \in 1..Len(rest) : \E j \in 1..Len(rest[i]) : k - h = start[i] + j
      BY <1>6, <3>1
    <3>3. PICK j \in 1..Len(rest[i]) : k - h = start[i] + j
      BY <3>2
    <3>4. i + 1 \in 1..Len(seqs) /\ i + 1 # 1 /\ (i + 1) - 1 = i
      BY <1>1
    <3>5. moved[i + 1] = h + start[i] /\ rest[i] = seqs[i + 1] /\ start[i] \in Nat
      BY <1>7, <3>4
    <3>6. k = (h + start[i]) + j
      <4> DEFINE x == start[i]
      <4>1. x \in Nat /\ k - h = x + j
        BY <3>3, <3>5
      <4> HIDE DEF x
      <4>2. k \in Int /\ j \in Int
        OBVIOUS
      <4>3. k = (h + x) + j
        BY ONLY <1>5, <4>1, <4>2
      <4> QED BY <4>3 DEF x
    <3>7. k = moved[i + 1] + j /\ j \in 1..Len(seqs[i + 1])
      BY <3>5, <3>6
    <3> QED BY <3>4, <3>7
  <2> QED BY <1>4, <2>1, <2>2
<1> QED BY <1>8, <1>9, <1>10, <1>11, Zenon DEF Placed, flat

\* Everything joined has its place.
LEMMA FlattenPlaces ==
  ASSUME NEW T, NEW seqs \in Seq(Seq(T))
  PROVE  \E start : Placed(seqs, start)
<1> DEFINE S == {n \in Nat : \A s \in Seq(Seq(T)) : Len(s) = n => \E start : Placed(s, start)}
<1>1. 0 \in S
  <2> SUFFICES ASSUME NEW s \in Seq(Seq(T)), s = <<>> PROVE \E start : Placed(s, start)
    BY EmptySeq
  <2>1. Len(s) = 0 /\ Len(FlattenSeq(s)) = 0
    BY FlattenEmpty
  <2>2. Placed(s, [i \in 1..Len(s) |-> 0])
    BY <2>1 DEF Placed
  <2> QED BY <2>2
<1>2. ASSUME NEW n \in Nat, n \in S PROVE n + 1 \in S
  <2> SUFFICES ASSUME NEW s \in Seq(Seq(T)), Len(s) = n + 1 PROVE \E start : Placed(s, start)
    OBVIOUS
  <2>1. s # <<>> /\ Tail(s) \in Seq(Seq(T)) /\ Len(Tail(s)) = n
    BY EmptySeq
  <2>2. PICK start : Placed(Tail(s), start)
    BY <1>2, <2>1
  <2> QED BY <2>1, <2>2, PlacedInFront
<1>3. \A n \in Nat : n \in S
  <2> HIDE DEF S
  <2> QED BY <1>1, <1>2, SetInduction
<1>4. Len(seqs) \in S
  <2> HIDE DEF S
  <2> QED BY <1>3
<1> QED BY <1>4

-----------------------------------------------------------------------------
(* Reading words back from the text they were joined to.                   *)

\* The text of some words, and what is written after them.
After(words, rest) == FlattenSeq(words) \o rest

\* No word begins another, whatever follows them.
PrefixFree(W, T) == \A u, v \in W : \A x, y \in Seq(T) : u \o x = v \o y => u = v

\* None of the texts in R begins with a word.
Ends(R, W, T) == \A r \in R : \A u \in W : \A x \in Seq(T) : u \o x # r

\* It is a text of the same symbols.
LEMMA AfterType ==
  ASSUME NEW T, NEW W \in SUBSET Seq(T), NEW words \in Seq(W), NEW r \in Seq(T)
  PROVE  After(words, r) \in Seq(T)
<1>1. words \in Seq(Seq(T))
  OBVIOUS
<1>2. FlattenSeq(words) \in Seq(T)
  BY <1>1, FlattenType
<1> QED BY <1>2, ConcatProperties DEF After

\* Without words there is only what follows.
LEMMA AfterNone ==
  ASSUME NEW T, NEW r \in Seq(T)
  PROVE  After(<<>>, r) = r
<1>1. <<>> \o r = r
  BY ConcatEmptySeq
<1> QED BY <1>1, FlattenEmpty, Zenon DEF After

\* The first word, and the text of the others.
Begins(words, r) == After(words, r) = words[1] \o After(Tail(words), r)

\* The first word comes first.
LEMMA AfterFirst ==
  ASSUME NEW T, NEW W \in SUBSET Seq(T), NEW words \in Seq(W), words # <<>>, NEW r \in Seq(T)
  PROVE  Begins(words, r)
<1>1. words \in Seq(Seq(T))
  OBVIOUS
<1>2. words[1] \in Seq(T) /\ Tail(words) \in Seq(Seq(T))
  BY <1>1, EmptySeq
<1> DEFINE u == words[1]
           t == FlattenSeq(Tail(words))
<1>3. t \in Seq(T)
  BY <1>2, FlattenType
<1>4. FlattenSeq(words) = u \o t
  BY <1>1, FlattenFirst
<1>5. u \in Seq(T)
  BY <1>2
<1> HIDE DEF u, t
<1>6. Associates(u, t, r)
  BY <1>3, <1>5, JoinAssociative, Zenon
<1>7. FlattenSeq(words) \o r = u \o (t \o r)
  BY <1>4, <1>6 DEF Associates
<1> QED BY <1>7, Zenon DEF Begins, After, u, t

\* Words and an end that no other words and end are written as.
ReadBack(A, W, R) ==
  \A B \in Seq(W) : \A r, q \in R : After(A, r) = After(B, q) => A = B /\ r = q

\* Texts of words that no word begins are equal only for the same words: they
\* are read back one at a time.
LEMMA FlattenInjective ==
  ASSUME NEW T, NEW W \in SUBSET Seq(T), NEW R \in SUBSET Seq(T),
         PrefixFree(W, T), Ends(R, W, T), NEW A \in Seq(W)
  PROVE  ReadBack(A, W, R)
<1> DEFINE Read(a) == \A b \in Seq(W) : \A x, y \in R :
                        After(a, x) = After(b, y) => a = b /\ x = y
           S == {n \in Nat : \A a \in Seq(W) : Len(a) = n => Read(a)}
<1>1. \A x \in R : x \in Seq(T)
  OBVIOUS
<1>2. 0 \in S
  <2> SUFFICES ASSUME NEW a \in Seq(W), a = <<>>, NEW b \in Seq(W), NEW x \in R, NEW y \in R,
                      After(a, x) = After(b, y)
               PROVE  a = b /\ x = y
    BY EmptySeq
  <2>1. After(b, y) = x
    BY <1>1, AfterNone
  <2>2. b = <<>>
    <3> SUFFICES ASSUME b # <<>> PROVE FALSE
      OBVIOUS
    <3>1. b[1] \in W /\ Tail(b) \in Seq(W)
      BY EmptySeq
    <3>2. After(Tail(b), y) \in Seq(T) /\ After(b, y) = b[1] \o After(Tail(b), y)
      BY <1>1, <3>1, AfterType, AfterFirst, Zenon DEF Begins
    <3> QED BY <2>1, <3>1, <3>2 DEF Ends
  <2>3. After(b, y) = y
    BY <1>1, <2>2, AfterNone
  <2> QED BY <2>1, <2>2, <2>3
<1>3. ASSUME NEW n \in Nat, n \in S PROVE n + 1 \in S
  <2> SUFFICES ASSUME NEW a \in Seq(W), Len(a) = n + 1, NEW b \in Seq(W),
                      NEW x \in R, NEW y \in R, After(a, x) = After(b, y)
               PROVE  a = b /\ x = y
    OBVIOUS
  <2>1. a # <<>> /\ a[1] \in W /\ Tail(a) \in Seq(W) /\ Len(Tail(a)) = n
    BY EmptySeq
  <2>2. After(Tail(a), x) \in Seq(T) /\ After(a, x) = a[1] \o After(Tail(a), x)
    BY <1>1, <2>1, AfterType, AfterFirst, Zenon DEF Begins
  <2>3. b # <<>>
    <3> SUFFICES ASSUME b = <<>> PROVE FALSE
      OBVIOUS
    <3>1. After(b, y) = y
      BY <1>1, AfterNone
    <3> QED BY <2>1, <2>2, <3>1 DEF Ends
  <2>4. b[1] \in W /\ Tail(b) \in Seq(W)
    BY <2>3, EmptySeq
  <2>5. After(Tail(b), y) \in Seq(T) /\ After(b, y) = b[1] \o After(Tail(b), y)
    BY <1>1, <2>3, <2>4, AfterType, AfterFirst, Zenon DEF Begins
  <2>6. a[1] = b[1]
    BY <2>1, <2>2, <2>4, <2>5 DEF PrefixFree
  <2>7. After(Tail(a), x) = After(Tail(b), y)
    <3> DEFINE u == After(Tail(a), x)
               v == After(Tail(b), y)
               w == a[1]
    <3>1. w \in Seq(T) /\ u \in Seq(T) /\ v \in Seq(T) /\ w \o u = w \o v
      BY <2>1, <2>2, <2>5, <2>6
    <3> HIDE DEF u, v, w
    <3>2. u = v
      BY <3>1, ConcatSimplifications
    <3> QED BY <3>2 DEF u, v
  <2>8. Tail(a) = Tail(b) /\ x = y
    <3>1. Read(Tail(a))
      <4> HIDE DEF Read
      <4> QED BY <1>3, <2>1
    <3>2. Tail(b) \in Seq(W) /\ x \in R /\ y \in R
      BY <2>4
    <3>3. \A u, v \in R : After(Tail(a), u) = After(Tail(b), v) => Tail(a) = Tail(b) /\ u = v
      BY <3>1, <3>2, Zenon
    <3>4. After(Tail(a), x) = After(Tail(b), y) => Tail(a) = Tail(b) /\ x = y
      BY <3>2, <3>3
    <3> QED BY <2>7, <3>4
  <2>9. a = <<a[1]>> \o Tail(a) /\ b = <<b[1]>> \o Tail(b)
    BY <2>1, <2>3, EmptySeq
  <2> QED BY <2>6, <2>8, <2>9, Zenon
<1>4. \A n \in Nat : n \in S
  <2> HIDE DEF S
  <2> QED BY <1>2, <1>3, SetInduction
<1>5. Len(A) \in S
  <2> HIDE DEF S
  <2> QED BY <1>4
<1>6. Read(A)
  BY <1>5
<1> HIDE DEF S
<1> QED BY <1>6, Zenon DEF ReadBack, Read

-----------------------------------------------------------------------------
(* A filter, written as joined sequences of one element or none.           *)

Sifted(s, P) == FlattenSeq([i \in DOMAIN s |-> IF s[i] \in P THEN <<s[i]>> ELSE <<>>])

\* The elements of s that are in P, all of them, in their order.
Filters(kept, s, P) ==
    /\ \A i \in 1..Len(s) : s[i] \in P => \E k \in 1..Len(kept) : kept[k] = s[i]
    /\ \A k \in 1..Len(kept) : \E i \in 1..Len(s) : s[i] \in P /\ kept[k] = s[i]
    /\ \A k, l \in 1..Len(kept) : k < l =>
          \E i, j \in 1..Len(s) : i < j /\ kept[k] = s[i] /\ kept[l] = s[j]

\* What is kept of s has its places: start[i] elements are before that of s[i].
Spots(kept, s, P, start) ==
    /\ start \in [1..Len(s) -> Nat]
    /\ \A i \in 1..Len(s) : s[i] \in P =>
          start[i] + 1 \in 1..Len(kept) /\ kept[start[i] + 1] = s[i]
    /\ \A i, j \in 1..Len(s) : i < j /\ s[i] \in P => start[i] + 1 <= start[j]
    /\ \A k \in 1..Len(kept) : \E i \in 1..Len(s) : k = start[i] + 1 /\ s[i] \in P

\* Sifted keeps them in these places.
LEMMA SiftedPlaces ==
  ASSUME NEW T, NEW s \in Seq(T), NEW P
  PROVE  Sifted(s, P) \in Seq(T) /\ \E start : Spots(Sifted(s, P), s, P, start)
<1> DEFINE seqs == [i \in DOMAIN s |-> IF s[i] \in P THEN <<s[i]>> ELSE <<>>]
           flat == FlattenSeq(seqs)
<1>1. Len(s) \in Nat /\ DOMAIN s = 1..Len(s) /\ \A i \in 1..Len(s) : s[i] \in T
  OBVIOUS
<1>2. seqs \in Seq(Seq(T)) /\ Len(seqs) = Len(s)
  <2>1. \A i \in 1..Len(s) : <<s[i]>> \in Seq(T) /\ <<>> \in Seq(T)
    BY <1>1
  <2>2. seqs \in [1..Len(s) -> Seq(T)]
    BY <1>1, <2>1
  <2> HIDE DEF seqs
  <2> QED BY <1>1, <2>2
<1>3. \A i \in 1..Len(s) : seqs[i] = IF s[i] \in P THEN <<s[i]>> ELSE <<>>
  BY <1>1
<1>4. \A i \in 1..Len(s) : \A j \in 1..Len(seqs[i]) : s[i] \in P /\ j = 1 /\ seqs[i][j] = s[i]
  <2> SUFFICES ASSUME NEW i \in 1..Len(s), NEW j \in 1..Len(seqs[i])
               PROVE  s[i] \in P /\ j = 1 /\ seqs[i][j] = s[i]
    OBVIOUS
  <2>1. CASE s[i] \in P
    <3>1. seqs[i] = <<s[i]>>
      BY <1>3, <2>1
    <3> HIDE DEF seqs
    <3> QED BY <2>1, <3>1
  <2>2. CASE s[i] \notin P
    <3>1. seqs[i] = <<>>
      BY <1>3, <2>2
    <3> HIDE DEF seqs
    <3> QED BY <3>1
  <2> QED BY <2>1, <2>2
<1>5. \A i \in 1..Len(s) : s[i] \in P => 1 \in 1..Len(seqs[i]) /\ seqs[i][1] = s[i]
  <2> SUFFICES ASSUME NEW i \in 1..Len(s), s[i] \in P
               PROVE  1 \in 1..Len(seqs[i]) /\ seqs[i][1] = s[i]
    OBVIOUS
  <2>1. seqs[i] = <<s[i]>>
    BY <1>3
  <2> HIDE DEF seqs
  <2> QED BY <2>1
<1> HIDE DEF seqs
<1>6. flat \in Seq(T) /\ \E start : Placed(seqs, start)
  BY <1>2, FlattenType, FlattenPlaces
<1>7. PICK start : Placed(seqs, start)
  BY <1>6
<1>8. /\ start \in [1..Len(s) -> Nat]
      /\ \A i \in 1..Len(s) : \A j \in 1..Len(seqs[i]) :
            start[i] + j \in 1..Len(flat) /\ flat[start[i] + j] = seqs[i][j]
      /\ \A i, j \in 1..Len(s) : i < j => start[i] + Len(seqs[i]) <= start[j]
      /\ \A k \in 1..Len(flat) :
            \E i \in 1..Len(s) : \E j \in 1..Len(seqs[i]) : k = start[i] + j
  BY <1>2, <1>7, ZenonT(40) DEF Placed
<1> HIDE DEF flat
<1>9. \A k \in 1..Len(flat) : \E i \in 1..Len(s) : k = start[i] + 1 /\ s[i] \in P
  BY <1>4, <1>8
<1>10. \A i \in 1..Len(s) : s[i] \in P =>
          start[i] + 1 \in 1..Len(flat) /\ flat[start[i] + 1] = s[i]
  BY <1>5, <1>8
<1>11. \A i, j \in 1..Len(s) : i < j /\ s[i] \in P => start[i] + 1 <= start[j]
  <2> SUFFICES ASSUME NEW i \in 1..Len(s), NEW j \in 1..Len(s), i < j, s[i] \in P
               PROVE  start[i] + 1 <= start[j]
    OBVIOUS
  <2>1. Len(seqs[i]) = 1
    <3>1. seqs[i] = <<s[i]>>
      BY <1>3
    <3> QED BY <3>1
  <2>2. start[i] + Len(seqs[i]) <= start[j]
    BY <1>8
  <2> QED BY <2>1, <2>2
<1>12. Spots(flat, s, P, start)
  BY <1>8, <1>9, <1>10, <1>11 DEF Spots
<1> QED BY <1>6, <1>12 DEF Sifted, flat, seqs

\* It is such a sequence.
LEMMA SiftedFilters ==
  ASSUME NEW T, NEW s \in Seq(T), NEW P
  PROVE  Sifted(s, P) \in Seq(T) /\ Filters(Sifted(s, P), s, P)
<1> DEFINE flat == Sifted(s, P)
<1>1. flat \in Seq(T) /\ \E start : Spots(flat, s, P, start)
  BY SiftedPlaces
<1> HIDE DEF flat
<1>2. PICK start : Spots(flat, s, P, start)
  BY <1>1
<1>3. start \in [1..Len(s) -> Nat] /\ Len(s) \in Nat
  BY <1>2 DEF Spots
<1>4. ASSUME NEW k \in 1..Len(flat)
      PROVE  \E i \in 1..Len(s) : k = start[i] + 1 /\ s[i] \in P /\ flat[k] = s[i]
  BY <1>2 DEF Spots
<1>5. ASSUME NEW k \in 1..Len(flat), NEW l \in 1..Len(flat), k < l
      PROVE  \E i, j \in 1..Len(s) : i < j /\ flat[k] = s[i] /\ flat[l] = s[j]
  <2>1. PICK i \in 1..Len(s) : k = start[i] + 1 /\ s[i] \in P /\ flat[k] = s[i]
    BY <1>4
  <2>2. PICK j \in 1..Len(s) : l = start[j] + 1 /\ s[j] \in P /\ flat[l] = s[j]
    BY <1>4
  <2> DEFINE x == start[i]
             y == start[j]
  <2>3. x \in Nat /\ y \in Nat /\ x + 1 < y + 1
    BY <1>3, <1>5, <2>1, <2>2
  <2>4. i # j /\ (j < i => y + 1 <= x)
    BY <1>2, <1>5, <2>1, <2>2 DEF Spots
  <2> HIDE DEF x, y
  <2>5. ~(j < i)
    BY <2>3, <2>4
  <2> QED BY <1>3, <2>1, <2>2, <2>4, <2>5
<1>6. \A i \in 1..Len(s) : s[i] \in P => \E k \in 1..Len(flat) : flat[k] = s[i]
  BY <1>2 DEF Spots
<1>7. Filters(flat, s, P)
  BY <1>4, <1>5, <1>6, Zenon DEF Filters
<1> QED BY <1>1, <1>7 DEF flat

\* The first element in P is the first that is kept.
LEMMA SiftedFirst ==
  ASSUME NEW T, NEW s \in Seq(T), NEW P, NEW m \in 1..Len(s), s[m] \in P,
         \A j \in 1..Len(s) : s[j] \in P => m <= j
  PROVE  Sifted(s, P) # <<>> /\ Sifted(s, P)[1] = s[m]
<1> DEFINE flat == Sifted(s, P)
<1>1. flat \in Seq(T) /\ \E start : Spots(flat, s, P, start)
  BY SiftedPlaces
<1> HIDE DEF flat
<1>2. PICK start : Spots(flat, s, P, start)
  BY <1>1
<1>3. start \in [1..Len(s) -> Nat] /\ Len(s) \in Nat /\ Len(flat) \in Nat
  <2>1. Len(s) \in Nat /\ Len(flat) \in Nat
    BY <1>1
  <2> QED BY <1>2, <2>1 DEF Spots
<1>4. start[m] + 1 \in 1..Len(flat)
  BY <1>2 DEF Spots
<1>5. 1 \in 1..Len(flat)
  BY <1>3, <1>4
<1>6. PICK i \in 1..Len(s) : 1 = start[i] + 1 /\ s[i] \in P
  BY <1>2, <1>5 DEF Spots
<1>7. flat[1] = s[i]
  <2>1. flat[start[i] + 1] = s[i]
    BY <1>2, <1>6 DEF Spots
  <2> QED BY <1>6, <2>1
<1>8. i = m
  <2>1. m <= i
    BY <1>6
  <2>2. m < i => start[m] + 1 <= start[i]
    BY <1>2 DEF Spots
  <2> DEFINE x == start[m]
             y == start[i]
  <2>3. x \in Nat /\ y \in Nat /\ 1 = y + 1
    BY <1>3, <1>6
  <2> HIDE DEF x, y
  <2>4. ~(x + 1 <= y)
    BY <2>3
  <2> QED BY <1>3, <2>1, <2>2, <2>4 DEF x, y
<1>9. flat # <<>>
  BY <1>5
<1> QED BY <1>7, <1>8, <1>9 DEF flat

-----------------------------------------------------------------------------
(* Sequences of one element each.                                          *)

\* Joined they are the sequence of those elements.
LEMMA FlattenSingles ==
  ASSUME NEW T, NEW n \in Nat, NEW e \in [1..n -> T]
  PROVE  FlattenSeq([i \in 1..n |-> <<e[i]>>]) = e
<1> DEFINE seqs == [i \in 1..n |-> <<e[i]>>]
<1>1. seqs \in Seq(Seq(T)) /\ Len(seqs) = n
  <2>1. \A i \in 1..n : <<e[i]>> \in Seq(T)
    OBVIOUS
  <2>2. seqs \in [1..n -> Seq(T)]
    BY <2>1
  <2> HIDE DEF seqs
  <2> QED BY <2>2
<1>2. CASE n = 0
  <2>1. seqs = <<>>
    BY <1>1, <1>2
  <2>2. e = <<>>
    BY <1>2
  <2> QED BY <2>1, <2>2, FlattenEmpty
<1>3. CASE n # 0
  <2>1. \A i \in 1..n : seqs[i] = <<e[i]>>
    OBVIOUS
  <2> HIDE DEF seqs
  <2>2. PICK f : Joined(f, seqs, n) /\ FlattenSeq(seqs) = f[n]
    BY <1>1, <1>3, FlattenJoined
  <2> DEFINE Upto(m) == f[m] \in [1..m -> T] /\ \A i \in 1..m : f[m][i] = e[i]
             S == {m \in Nat : m + 1 \in 1..n => Upto(m + 1)}
  <2>3. 0 \in S
    <3>1. f[1] = <<e[1]>>
      BY <1>3, <2>1, <2>2, JoinedFirst
    <3>2. Upto(1)
      BY <1>3, <3>1
    <3> HIDE DEF Upto
    <3> QED BY <3>2
  <2>4. ASSUME NEW m \in Nat, m \in S PROVE m + 1 \in S
    <3> SUFFICES ASSUME m + 2 \in 1..n PROVE Upto(m + 2)
      OBVIOUS
    <3>1. Upto(m + 1)
      BY <2>4
    <3>2. f[m + 2] = f[m + 1] \o <<e[m + 2]>>
      <4>1. Extends(f, seqs, m + 2)
        BY <2>2, JoinedNext
      <4>2. (m + 2) - 1 = m + 1
        OBVIOUS
      <4>3. f[m + 2] = f[m + 1] \o seqs[m + 2]
        BY <4>1, <4>2 DEF Extends
      <4> QED BY <2>1, <4>3
    <3>3. e[m + 2] \in T
      OBVIOUS
    <3> DEFINE g == f[m + 1]
               x == e[m + 2]
    <3>4. g \in [1..(m + 1) -> T] /\ \A i \in 1..(m + 1) : g[i] = e[i]
      BY <3>1
    <3>5. f[m + 2] = g \o <<x>>
      BY <3>2
    <3>6. x = e[m + 2]
      OBVIOUS
    <3>7. x \in T
      BY <3>3
    <3> HIDE DEF g, x
    <3>8. g \in Seq(T) /\ <<x>> \in Seq(T) /\ Len(g) = m + 1 /\ Len(<<x>>) = 1 /\ <<x>>[1] = x
      BY <3>4, <3>7
    <3>9. Joins(g \o <<x>>, g, <<x>>, T)
      BY <3>8, JoinParts
    <3> DEFINE h == g \o <<x>>
    <3>10. /\ h \in Seq(T) /\ Len(h) = m + 2
           /\ \A i \in 1..(m + 1) : h[i] = g[i]
           /\ h[m + 2] = x
      BY <3>8, <3>9 DEF Joins
    <3> HIDE DEF h
    <3>11. h \in [1..(m + 2) -> T]
      BY <3>10
    <3>12. \A i \in 1..(m + 2) : h[i] = e[i]
      BY <3>4, <3>6, <3>10
    <3> QED BY <3>5, <3>11, <3>12 DEF h
  <2> HIDE DEF S
  <2>5. n - 1 \in Nat /\ n - 1 \in S
    BY <1>3, <2>3, <2>4, SetInduction
  <2>6. Upto(n)
    BY <1>3, <2>5 DEF S
  <2>7. f[n] = e
    BY <2>6
  <2> QED BY <2>2, <2>7 DEF seqs
<1> QED BY <1>2, <1>3

-----------------------------------------------------------------------------
(* Where an element of a joined sequence comes from.                       *)

\* Each is one of the sequences', and no two are the same one's.
ComesFrom(flat, seqs, n) ==
    \E start \in [1..n -> Nat] : \A k \in 1..Len(flat) :
        \E i \in 1..n : \E j \in 1..Len(seqs[i]) : k = start[i] + j /\ flat[k] = seqs[i][j]

\* That is so of what FlattenSeq joins.
LEMMA FlattenFrom ==
  ASSUME NEW T, NEW n \in Nat, NEW seqs \in [1..n -> Seq(T)]
  PROVE  FlattenSeq(seqs) \in Seq(T) /\ ComesFrom(FlattenSeq(seqs), seqs, n)
<1> DEFINE flat == FlattenSeq(seqs)
<1>1. seqs \in Seq(Seq(T)) /\ Len(seqs) = n
  OBVIOUS
<1>2. flat \in Seq(T) /\ \E start : Placed(seqs, start)
  BY <1>1, FlattenType, FlattenPlaces
<1>3. PICK start : Placed(seqs, start)
  BY <1>2
<1>4. /\ start \in [1..n -> Nat]
      /\ \A i \in 1..n : \A j \in 1..Len(seqs[i]) : flat[start[i] + j] = seqs[i][j]
      /\ \A k \in 1..Len(flat) : \E i \in 1..n : \E j \in 1..Len(seqs[i]) : k = start[i] + j
  BY <1>1, <1>3 DEF Placed
<1> HIDE DEF flat
<1>5. ASSUME NEW k \in 1..Len(flat)
      PROVE  \E i \in 1..n : \E j \in 1..Len(seqs[i]) : k = start[i] + j /\ flat[k] = seqs[i][j]
  <2>1. PICK i \in 1..n : \E j \in 1..Len(seqs[i]) : k = start[i] + j
    BY <1>4
  <2>2. PICK j \in 1..Len(seqs[i]) : k = start[i] + j
    BY <2>1
  <2>3. flat[k] = seqs[i][j]
    BY <1>4, <2>2
  <2> QED BY <2>2, <2>3
<1>6. ComesFrom(flat, seqs, n)
  BY <1>4, <1>5, Zenon DEF ComesFrom
<1> QED BY <1>2, <1>6 DEF flat

\* Joined with empty ones a sequence is what it is.
LEMMA FlattenOnly ==
  ASSUME NEW T, NEW n \in Nat, NEW k \in 1..n, NEW seqs \in [1..n -> Seq(T)],
         \A i \in 1..n : i # k => seqs[i] = <<>>
  PROVE  FlattenSeq(seqs) = seqs[k]
<1> DEFINE flat == FlattenSeq(seqs)
           only == seqs[k]
<1>1. seqs \in Seq(Seq(T)) /\ Len(seqs) = n
  OBVIOUS
<1>2. flat \in Seq(T) /\ \E start : Placed(seqs, start)
  BY <1>1, FlattenType, FlattenPlaces
<1>3. PICK start : Placed(seqs, start)
  BY <1>2
<1> DEFINE x == start[k]
<1>4. /\ x \in Nat
      /\ \A j \in 1..Len(only) : x + j \in 1..Len(flat) /\ flat[x + j] = only[j]
      /\ \A m \in 1..Len(flat) : \E i \in 1..n : \E j \in 1..Len(seqs[i]) : m = start[i] + j
  BY <1>1, <1>3 DEF Placed
<1> HIDE DEF flat
<1>5. ASSUME NEW m \in 1..Len(flat) PROVE \E j \in 1..Len(only) : m = x + j
  <2>1. PICK i \in 1..n : \E j \in 1..Len(seqs[i]) : m = start[i] + j
    BY <1>4
  <2>2. i = k
    <3> SUFFICES ASSUME i # k PROVE FALSE
      OBVIOUS
    <3>1. seqs[i] = <<>>
      OBVIOUS
    <3> QED BY <2>1, <3>1
  <2> QED BY <2>1, <2>2
<1>6. only \in Seq(T) /\ Len(only) \in Nat /\ Len(flat) \in Nat
  BY <1>2
<1> HIDE DEF only, x
<1>7. Len(flat) = Len(only) /\ \A j \in 1..Len(only) : flat[j] = only[j]
  <2>1. CASE Len(only) = 0
    <3>1. \A m \in 1..Len(flat) : FALSE
      BY <1>5, <2>1
    <3>2. Len(flat) = 0
      BY <1>6, <3>1
    <3> QED BY <2>1, <3>2
  <2>2. CASE Len(only) # 0
    <3>1. 1 \in 1..Len(only) /\ x + 1 \in 1..Len(flat)
      BY <1>4, <1>6, <2>2
    <3>2. 1 \in 1..Len(flat)
      BY <1>6, <3>1
    <3>3. x = 0
      BY <1>4, <1>5, <3>2
    <3>4. \A j \in 1..Len(only) : j \in 1..Len(flat) /\ flat[j] = only[j]
      BY <1>4, <3>3
    <3>5. \A m \in 1..Len(flat) : m \in 1..Len(only)
      BY <1>5, <3>3
    <3>6. Len(only) <= Len(flat)
      BY <1>6, <2>2, <3>4
    <3>7. Len(flat) <= Len(only)
      BY <1>6, <3>2, <3>5
    <3> QED BY <1>6, <3>4, <3>6, <3>7
  <2> QED BY <2>1, <2>2
<1>8. flat = only
  BY <1>2, <1>6, <1>7
<1> QED BY <1>8 DEF flat, only

-----------------------------------------------------------------------------
(* Sums.                                                                   *)

\* The sums of the first numbers of s, up to n of them.
Sums(f, s, n) == f = [k \in 0..n |-> IF k = 0 THEN 0 ELSE f[k - 1] + s[k]]

\* Sum k is the one before it and number k.
Adds(f, s, k) == f[k] = f[k - 1] + s[k]

\* There are such sums: each follows from the one before it.
LEMMA SumsExist == ASSUME NEW s, NEW m \in Nat PROVE \E f : Sums(f, s, m)
<1> DEFINE S == {n \in Nat : \E f : Sums(f, s, n)}
<1>1. 0 \in S
  <2>1. Sums([k \in 0..0 |-> 0], s, 0)
    BY DEF Sums
  <2> QED BY <2>1
<1>2. ASSUME NEW n \in Nat, n \in S PROVE n + 1 \in S
  <2>1. PICK f : Sums(f, s, n)
    BY <1>2
  <2> DEFINE g == [k \in 0..(n + 1) |->
                     IF k = 0 THEN 0 ELSE IF k = n + 1 THEN f[n] + s[k] ELSE f[k]]
  <2>2. ASSUME NEW k \in 0..(n + 1)
        PROVE  g[k] = IF k = 0 THEN 0 ELSE g[k - 1] + s[k]
    <3>1. CASE k = 0
      BY <3>1
    <3>2. CASE k # 0
      <4>1. k - 1 \in 0..n /\ k - 1 \in 0..(n + 1) /\ k - 1 # n + 1
        BY <3>2
      <4>2. \A i \in 0..n : f[i] = IF i = 0 THEN 0 ELSE f[i - 1] + s[i]
        BY <2>1, Zenon DEF Sums
      <4>3. g[k - 1] = f[k - 1]
        <5>1. k - 1 = 0 => f[k - 1] = 0
          BY <4>1, <4>2
        <5> QED BY <4>1, <5>1
      <4>4. k = n + 1 => g[k] = f[n] + s[k] /\ n = k - 1
        BY <4>1
      <4>5. k # n + 1 => k \in 0..n /\ g[k] = f[k]
        BY <3>2, <4>1
      <4> HIDE DEF g
      <4> QED BY <3>2, <4>2, <4>3, <4>4, <4>5, Zenon
    <3> QED BY <3>1, <3>2
  <2>3. g = [k \in 0..(n + 1) |-> g[k]]
    OBVIOUS
  <2> HIDE DEF g
  <2>4. Sums(g, s, n + 1)
    BY <2>2, <2>3, Zenon DEF Sums
  <2> QED BY <2>4
<1> HIDE DEF S
<1>3. m \in S
  BY <1>1, <1>2, SetInduction
<1> QED BY <1>3 DEF S

\* What the definition of the sums says of one of them.
LEMMA SumsValue ==
  ASSUME NEW f, NEW s, NEW n, Sums(f, s, n)
  PROVE  /\ 0 \in 0..n => f[0] = 0
         /\ \A k \in 0..n : k # 0 => Adds(f, s, k)
BY Zenon DEF Sums, Adds

\* Total is the last of them.
LEMMA TotalValue ==
  ASSUME NEW s, Len(s) \in Nat
  PROVE  \E f : Sums(f, s, Len(s)) /\ Total(s) = f[Len(s)]
<1> DEFINE f == CHOOSE f : f = [k \in 0..Len(s) |-> IF k = 0 THEN 0 ELSE f[k - 1] + s[k]]
<1>1. \E g : g = [k \in 0..Len(s) |-> IF k = 0 THEN 0 ELSE g[k - 1] + s[k]]
  BY SumsExist DEF Sums
<1>2. f = [k \in 0..Len(s) |-> IF k = 0 THEN 0 ELSE f[k - 1] + s[k]]
  BY <1>1, Zenon
<1>3. Total(s) = f[Len(s)]
  BY Zenon DEF Total
<1> QED BY <1>2, <1>3, Zenon DEF Sums

\* Sums of numbers are numbers.
LEMMA SumsType ==
  ASSUME NEW s \in Seq(Nat), NEW f, Sums(f, s, Len(s))
  PROVE  \A k \in 0..Len(s) : f[k] \in Nat
<1> DEFINE S == {n \in Nat : n \in 0..Len(s) => f[n] \in Nat}
<1>1. 0 \in S
  BY SumsValue
<1>2. ASSUME NEW n \in Nat, n \in S PROVE n + 1 \in S
  <2> SUFFICES ASSUME n + 1 \in 0..Len(s) PROVE f[n + 1] \in Nat
    OBVIOUS
  <2>1. n \in 0..Len(s) /\ n + 1 # 0 /\ (n + 1) - 1 = n /\ s[n + 1] \in Nat
    OBVIOUS
  <2>2. Adds(f, s, n + 1)
    BY <2>1, SumsValue, Zenon
  <2>3. f[n + 1] = f[n] + s[n + 1]
    BY <2>1, <2>2 DEF Adds
  <2> QED BY <1>2, <2>1, <2>3
<1>3. \A n \in Nat : n \in S
  <2> HIDE DEF S
  <2> QED BY <1>1, <1>2, SetInduction
<1> QED BY <1>3

\* A number more is added to the total.
LEMMA TotalAppend ==
  ASSUME NEW s \in Seq(Nat), NEW x \in Nat
  PROVE  Total(s) \in Nat /\ Total(Append(s, x)) = Total(s) + x
<1> DEFINE t == Append(s, x)
           len == Len(s)
<1>1. /\ t \in Seq(Nat) /\ Len(t) = len + 1 /\ len \in Nat /\ t[len + 1] = x
      /\ \A i \in 1..len : t[i] = s[i]
  OBVIOUS
<1> HIDE DEF t
<1>2. PICK f : Sums(f, s, len) /\ Total(s) = f[len]
  BY <1>1, TotalValue
<1>3. PICK g : Sums(g, t, Len(t)) /\ Total(t) = g[Len(t)]
  BY <1>1, TotalValue
<1> DEFINE S == {n \in Nat : n \in 0..len => f[n] = g[n]}
<1>4. 0 \in S
  BY <1>1, <1>2, <1>3, SumsValue
<1>5. ASSUME NEW n \in Nat, n \in S PROVE n + 1 \in S
  <2> SUFFICES ASSUME n + 1 \in 0..len PROVE f[n + 1] = g[n + 1]
    OBVIOUS
  <2>1. /\ n \in 0..len /\ n + 1 # 0 /\ (n + 1) - 1 = n /\ n + 1 \in 0..Len(t)
        /\ t[n + 1] = s[n + 1]
    BY <1>1
  <2>2. Adds(f, s, n + 1) /\ Adds(g, t, n + 1)
    BY <1>2, <1>3, <2>1, SumsValue, Zenon
  <2> QED BY <1>5, <2>1, <2>2 DEF Adds
<1>6. f[len] = g[len]
  <2>1. len \in S
    <3> HIDE DEF S
    <3> QED BY <1>1, <1>4, <1>5, SetInduction
  <2> QED BY <1>1, <2>1
<1>7. g[len + 1] = g[len] + x
  <2>1. len + 1 \in 0..Len(t) /\ len + 1 # 0 /\ (len + 1) - 1 = len
    BY <1>1
  <2>2. Adds(g, t, len + 1)
    BY <1>3, <2>1, SumsValue, Zenon
  <2> QED BY <1>1, <2>1, <2>2 DEF Adds
<1>8. f[len] \in Nat
  BY <1>1, <1>2, SumsType
<1> QED BY <1>1, <1>2, <1>3, <1>6, <1>7, <1>8 DEF t

\* The first number is added to the total of the others.
LEMMA TotalFirst ==
  ASSUME NEW s \in Seq(Nat), s # <<>>
  PROVE  Total(Tail(s)) \in Nat /\ Total(s) = s[1] + Total(Tail(s))
<1> DEFINE t == Tail(s)
           len == Len(t)
<1>1. /\ t \in Seq(Nat) /\ Len(s) = len + 1 /\ len \in Nat /\ s[1] \in Nat /\ Len(s) \in Nat
      /\ \A i \in 1..len : t[i] = s[i + 1] /\ t[i] \in Nat
  BY HeadTailProperties
<1> HIDE DEF t
<1>2. PICK f : Sums(f, s, Len(s)) /\ Total(s) = f[Len(s)]
  BY <1>1, TotalValue
<1>3. PICK g : Sums(g, t, len) /\ Total(t) = g[len]
  BY <1>1, TotalValue
<1>4. \A k \in 0..len : g[k] \in Nat
  BY <1>1, <1>3, SumsType
<1> DEFINE S == {n \in Nat : n \in 0..len => f[n + 1] = s[1] + g[n]}
<1>5. 0 \in S
  <2>1. 0 \in 0..Len(s) /\ 1 \in 0..Len(s) /\ 1 # 0 /\ 1 - 1 = 0 /\ 0 \in 0..len /\ 0 + 1 = 1
    BY <1>1
  <2>2. f[0] = 0 /\ g[0] = 0 /\ Adds(f, s, 1)
    BY <1>2, <1>3, <2>1, SumsValue, Zenon
  <2>3. f[1] = 0 + s[1]
    BY <2>1, <2>2 DEF Adds
  <2> QED BY <1>1, <2>1, <2>2, <2>3
<1>6. ASSUME NEW n \in Nat, n \in S PROVE n + 1 \in S
  <2>1. ASSUME n + 1 \in 0..len PROVE f[n + 2] = s[1] + g[n + 1]
    <3>1. /\ n \in 0..len /\ n + 1 # 0 /\ (n + 1) - 1 = n /\ n + 2 # 0 /\ (n + 2) - 1 = n + 1
          /\ n + 2 \in 0..Len(s) /\ n + 1 \in 1..len /\ (n + 1) + 1 = n + 2
      BY <1>1, <2>1
    <3>2. Adds(f, s, n + 2) /\ Adds(g, t, n + 1)
      BY <1>2, <1>3, <2>1, <3>1, SumsValue, Zenon
    <3>3. f[n + 2] = f[n + 1] + s[n + 2] /\ g[n + 1] = g[n] + t[n + 1]
      BY <3>1, <3>2 DEF Adds
    <3>4. f[n + 1] = s[1] + g[n] /\ t[n + 1] = s[n + 2] /\ t[n + 1] \in Nat /\ g[n] \in Nat
      BY <1>1, <1>4, <1>6, <3>1
    <3> DEFINE a == s[1]
               b == g[n]
               c == t[n + 1]
    <3>5. f[n + 2] = (a + b) + c /\ g[n + 1] = b + c /\ a \in Nat /\ b \in Nat /\ c \in Nat
      BY <1>1, <3>3, <3>4
    <3> HIDE DEF a, b, c
    <3>6. f[n + 2] = a + g[n + 1]
      BY <3>5
    <3> QED BY <3>6 DEF a
  <2>2. n + 1 \in Nat /\ (n + 1) + 1 = n + 2
    OBVIOUS
  <2> QED BY <2>1, <2>2
<1>7. f[len + 1] = s[1] + g[len]
  <2>1. len \in S
    <3> HIDE DEF S
    <3> QED BY <1>1, <1>5, <1>6, SetInduction
  <2> QED BY <1>1, <2>1
<1> QED BY <1>1, <1>2, <1>3, <1>4, <1>7 DEF t

\* Nothing adds up to nothing.
LEMMA TotalEmpty == Total(<<>>) = 0
<1>1. Len(<<>>) = 0
  OBVIOUS
<1>2. PICK f : Sums(f, <<>>, 0) /\ Total(<<>>) = f[0]
  BY <1>1, TotalValue
<1> QED BY <1>2, SumsValue

\* The sum of the first n numbers of v.
FirstTotal(v, n) == Total([i \in 1..n |-> v[i]])

\* The sum of the first n + 1 is that of n and the next.
AddsNext(v, n) == FirstTotal(v, n + 1) = FirstTotal(v, n) + v[n + 1]

\* The sum of none is zero.
LEMMA FirstTotalNone == \A v : FirstTotal(v, 0) = 0
<1> TAKE v
<1>1. [i \in 1..0 |-> v[i]] = <<>>
  OBVIOUS
<1> QED BY <1>1, TotalEmpty DEF FirstTotal

\* Each sum follows from the one before it.
LEMMA FirstTotalNext ==
  ASSUME NEW v, NEW n \in Nat, \A i \in 1..(n + 1) : v[i] \in Nat
  PROVE  FirstTotal(v, n) \in Nat /\ AddsNext(v, n)
<1> DEFINE s == [i \in 1..n |-> v[i]]
           t == [i \in 1..(n + 1) |-> v[i]]
           x == v[n + 1]
<1>1. s \in [1..n -> Nat] /\ t \in [1..(n + 1) -> Nat] /\ x \in Nat /\ t[n + 1] = x
  OBVIOUS
<1>2. \A i \in 1..n : s[i] = t[i]
  OBVIOUS
<1> HIDE DEF s, t, x
<1>3. s \in Seq(Nat) /\ Len(s) = n /\ t \in Seq(Nat) /\ Len(t) = n + 1
  BY <1>1
<1>4. t = Append(s, x)
  BY <1>1, <1>2, <1>3
<1>5. Total(s) \in Nat /\ Total(Append(s, x)) = Total(s) + x
  BY <1>1, <1>3, TotalAppend
<1> QED BY <1>4, <1>5 DEF AddsNext, FirstTotal, s, t, x

\* They are numbers.
LEMMA FirstTotalType ==
  ASSUME NEW v, NEW n \in Nat, \A i \in 1..n : v[i] \in Nat
  PROVE  FirstTotal(v, n) \in Nat
<1>1. CASE n = 0
  BY <1>1, FirstTotalNone
<1>2. CASE n # 0
  <2>1. n - 1 \in Nat /\ (n - 1) + 1 = n
    BY <1>2
  <2> DEFINE m == n - 1
  <2>2. m \in Nat /\ m + 1 = n /\ v[n] \in Nat
    BY <1>2
  <2> HIDE DEF m
  <2>3. FirstTotal(v, m) \in Nat /\ AddsNext(v, m)
    BY <2>2, FirstTotalNext
  <2> QED BY <2>2, <2>3 DEF AddsNext
<1> QED BY <1>1, <1>2

\* The sum of the numbers of a sequence.
LEMMA TotalFirsts ==
  ASSUME NEW s \in Seq(Nat)
  PROVE  Total(s) = FirstTotal(s, Len(s)) /\ Total(s) \in Nat
<1>1. s = [i \in 1..Len(s) |-> s[i]] /\ Len(s) \in Nat /\ \A i \in 1..Len(s) : s[i] \in Nat
  OBVIOUS
<1>2. Total(s) = FirstTotal(s, Len(s))
  BY <1>1, Zenon DEF FirstTotal
<1> QED BY <1>1, <1>2, FirstTotalType

\* Numbers that agree have the same sum.
LEMMA TotalAlike ==
  ASSUME NEW v, NEW w, NEW n, \A i \in 1..n : v[i] = w[i]
  PROVE  FirstTotal(v, n) = FirstTotal(w, n)
<1>1. [i \in 1..n |-> v[i]] = [i \in 1..n |-> w[i]]
  OBVIOUS
<1> QED BY <1>1, Zenon DEF FirstTotal

\* Zeros add up to zero.
LEMMA TotalZero ==
  ASSUME NEW v, NEW n \in Nat, \A i \in 1..n : v[i] = 0
  PROVE  FirstTotal(v, n) = 0
<1> DEFINE S == {m \in Nat : m <= n => FirstTotal(v, m) = 0}
<1>1. 0 \in S
  BY FirstTotalNone
<1>2. ASSUME NEW m \in Nat, m \in S PROVE m + 1 \in S
  <2> SUFFICES ASSUME m + 1 <= n PROVE FirstTotal(v, m + 1) = 0
    OBVIOUS
  <2>1. m <= n /\ \A i \in 1..(m + 1) : v[i] = 0
    OBVIOUS
  <2>2. \A i \in 1..(m + 1) : v[i] \in Nat
    BY <2>1
  <2>3. AddsNext(v, m) /\ m + 1 \in 1..(m + 1)
    BY <2>2, FirstTotalNext
  <2>4. v[m + 1] = 0
    BY <2>1, <2>3
  <2>5. FirstTotal(v, m) = 0
    BY <1>2, <2>1
  <2> QED BY <2>3, <2>4, <2>5 DEF AddsNext
<1> HIDE DEF S
<1>3. n \in S
  BY <1>1, <1>2, SetInduction
<1> QED BY <1>3 DEF S

\* A sum is no greater than one of numbers that are no smaller.
LEMMA TotalMonotone ==
  ASSUME NEW v, NEW w, NEW n \in Nat,
         \A i \in 1..n : v[i] \in Nat /\ w[i] \in Nat /\ v[i] <= w[i]
  PROVE  FirstTotal(v, n) <= FirstTotal(w, n)
<1> DEFINE S == {m \in Nat : m <= n => FirstTotal(v, m) <= FirstTotal(w, m)}
<1>1. 0 \in S
  BY FirstTotalNone
<1>2. ASSUME NEW m \in Nat, m \in S PROVE m + 1 \in S
  <2> SUFFICES ASSUME m + 1 <= n PROVE FirstTotal(v, m + 1) <= FirstTotal(w, m + 1)
    OBVIOUS
  <2>1. m <= n /\ \A i \in 1..(m + 1) : v[i] \in Nat /\ w[i] \in Nat /\ v[i] <= w[i]
    OBVIOUS
  <2>2. /\ FirstTotal(v, m) \in Nat /\ AddsNext(v, m)
        /\ FirstTotal(w, m) \in Nat /\ AddsNext(w, m) /\ m + 1 \in 1..(m + 1)
    BY <2>1, FirstTotalNext
  <2> DEFINE a == v[m + 1]
             b == w[m + 1]
             c == FirstTotal(v, m)
             d == FirstTotal(w, m)
  <2>3. a \in Nat /\ b \in Nat /\ a <= b /\ c \in Nat /\ d \in Nat /\ c <= d
    BY <1>2, <2>1, <2>2
  <2>4. FirstTotal(v, m + 1) = c + a /\ FirstTotal(w, m + 1) = d + b
    BY <2>2 DEF AddsNext
  <2> HIDE DEF a, b, c, d
  <2> QED BY <2>3, <2>4
<1> HIDE DEF S
<1>3. n \in S
  BY <1>1, <1>2, SetInduction
<1> QED BY <1>3 DEF S

\* One number that is greater by d makes the sum greater by d.
LEMMA TotalMore ==
  ASSUME NEW v, NEW w, NEW n \in Nat, NEW k \in 1..n, NEW d \in Nat,
         \A i \in 1..n : v[i] \in Nat,
         \A i \in 1..n : i # k => w[i] = v[i],
         w[k] = v[k] + d
  PROVE  FirstTotal(w, n) = FirstTotal(v, n) + d
<1> DEFINE S == {m \in Nat : m <= n => FirstTotal(w, m) = FirstTotal(v, m)
                                                          + (IF k <= m THEN d ELSE 0)}
<1>1. 0 \in S
  BY FirstTotalNone
<1>2. ASSUME NEW m \in Nat, m \in S PROVE m + 1 \in S
  <2> SUFFICES ASSUME m + 1 <= n
               PROVE  FirstTotal(w, m + 1) = FirstTotal(v, m + 1)
                                             + (IF k <= m + 1 THEN d ELSE 0)
    OBVIOUS
  <2>1. m <= n /\ m + 1 \in 1..n /\ \A i \in 1..(m + 1) : i \in 1..n
    OBVIOUS
  <2>2. \A i \in 1..(m + 1) : v[i] \in Nat /\ w[i] \in Nat
    <3>1. v[k] \in Nat
      OBVIOUS
    <3>2. w[k] \in Nat
      BY <3>1
    <3> QED BY <2>1, <3>2
  <2>3. /\ FirstTotal(v, m) \in Nat /\ AddsNext(v, m)
        /\ FirstTotal(w, m) \in Nat /\ AddsNext(w, m)
    BY <2>2, FirstTotalNext
  <2> DEFINE a == v[m + 1]
             b == w[m + 1]
             c == FirstTotal(v, m)
  <2>4. a \in Nat /\ b \in Nat /\ c \in Nat
    BY <2>1, <2>2, <2>3
  <2>5. b = IF m + 1 = k THEN a + d ELSE a
    BY <2>1
  <2>6. FirstTotal(v, m + 1) = c + a /\ FirstTotal(w, m + 1) = FirstTotal(w, m) + b
    BY <2>3 DEF AddsNext
  <2>7. FirstTotal(w, m) = c + (IF k <= m THEN d ELSE 0)
    BY <1>2, <2>1
  <2> HIDE DEF a, b, c
  <2> QED BY <2>4, <2>5, <2>6, <2>7
<1> HIDE DEF S
<1>3. n \in S
  BY <1>1, <1>2, SetInduction
<1> QED BY <1>3 DEF S

\* The sum of two sequences after each other.
LEMMA TotalJoin ==
  ASSUME NEW s \in Seq(Nat), NEW t \in Seq(Nat)
  PROVE  s \o t \in Seq(Nat) /\ Total(s \o t) = Total(s) + Total(t)
<1> DEFINE u == s \o t
           k == Len(s)
           n == Len(t)
<1>1. Joins(u, s, t, Nat) /\ k \in Nat /\ n \in Nat
  BY JoinParts
<1> HIDE DEF u
<1>2. /\ u \in Seq(Nat) /\ Len(u) = k + n
      /\ \A i \in 1..k : u[i] = s[i]
      /\ \A i \in 1..n : u[k + i] = t[i]
  BY <1>1 DEF Joins
<1>3. \A i \in 1..(k + n) : u[i] \in Nat
  BY <1>2
<1>4. \A i \in 1..n : t[i] \in Nat
  OBVIOUS
<1> HIDE DEF k, n
<1> DEFINE S == {m \in Nat : m <= n => FirstTotal(u, k + m) = FirstTotal(u, k) + FirstTotal(t, m)}
<1>5. FirstTotal(u, k) \in Nat
  BY <1>1, <1>3, FirstTotalType
<1>6. 0 \in S
  BY <1>1, <1>5, FirstTotalNone
<1>7. ASSUME NEW m \in Nat, m \in S PROVE m + 1 \in S
  <2> SUFFICES ASSUME m + 1 <= n
               PROVE  FirstTotal(u, k + (m + 1)) = FirstTotal(u, k) + FirstTotal(t, m + 1)
    OBVIOUS
  <2> DEFINE l == k + m
             a == FirstTotal(u, k)
             b == FirstTotal(t, m)
             x == t[m + 1]
  <2>1. /\ m <= n /\ l \in Nat /\ l + 1 = k + (m + 1) /\ m + 1 \in 1..n
        /\ \A i \in 1..(l + 1) : i \in 1..(k + n)
        /\ \A i \in 1..(m + 1) : i \in 1..n
    BY <1>1
  <2>2. x \in Nat /\ u[l + 1] = x
    BY <1>2, <1>4, <2>1
  <2>3. FirstTotal(u, l) = a + b
    BY <1>7, <2>1
  <2> HIDE DEF l, x
  <2>4. AddsNext(u, l)
    BY <1>3, <2>1, FirstTotalNext
  <2>5. AddsNext(t, m) /\ b \in Nat
    BY <1>4, <2>1, FirstTotalNext
  <2>6. FirstTotal(u, l + 1) = (a + b) + x /\ FirstTotal(t, m + 1) = b + x
    BY <2>2, <2>3, <2>4, <2>5 DEF AddsNext, x
  <2>7. a \in Nat
    BY <1>5
  <2> HIDE DEF a, b
  <2>8. FirstTotal(u, l + 1) = a + FirstTotal(t, m + 1)
    BY <2>2, <2>5, <2>6, <2>7
  <2> QED BY <2>1, <2>8 DEF a
<1>8. n \in S
  <2> HIDE DEF S
  <2> QED BY <1>1, <1>6, <1>7, SetInduction
<1>9. FirstTotal(u, k + n) = FirstTotal(u, k) + FirstTotal(t, n)
  BY <1>1, <1>8
<1>10. FirstTotal(u, k) = FirstTotal(s, k)
  BY <1>2, TotalAlike
<1>11. Total(u) = FirstTotal(u, k + n) /\ Total(s) = FirstTotal(s, k) /\ Total(t) = FirstTotal(t, n)
  BY <1>2, TotalFirsts DEF k, n
<1> QED BY <1>2, <1>9, <1>10, <1>11 DEF u


\* Numbers put into buckets: number i of v into the one bucket j with
\* listed[j] = k[i].
Bucket(v, k, listed, n) == [j \in DOMAIN listed |->
    FirstTotal([i \in 1..n |-> IF k[i] = listed[j] THEN v[i] ELSE 0], n)]

\* The buckets together have all the numbers.
LEMMA TotalBuckets ==
  ASSUME NEW v, NEW k, NEW n \in Nat, NEW m \in Nat, NEW listed,
         DOMAIN listed = 1..m,
         \A i \in 1..n : v[i] \in Nat,
         \A i \in 1..n : \E j \in 1..m : listed[j] = k[i],
         \A i, j \in 1..m : listed[i] = listed[j] => i = j
  PROVE  FirstTotal(Bucket(v, k, listed, n), m) = FirstTotal(v, n)
<1> DEFINE Of(j, l) == [i \in 1..l |-> IF k[i] = listed[j] THEN v[i] ELSE 0]
           S == {l \in Nat : l <= n => FirstTotal(Bucket(v, k, listed, l), m) = FirstTotal(v, l)}
<1>0. ASSUME NEW l \in Nat, NEW j \in 1..m
      PROVE  Bucket(v, k, listed, l)[j] = FirstTotal(Of(j, l), l)
  BY DEF Bucket
<1>1. 0 \in S
  <2>1. \A j \in 1..m : Bucket(v, k, listed, 0)[j] = 0
    BY <1>0, FirstTotalNone
  <2>2. FirstTotal(Bucket(v, k, listed, 0), m) = 0
    BY <2>1, TotalZero
  <2> QED BY <2>2, FirstTotalNone
<1>2. ASSUME NEW l \in Nat, l \in S PROVE l + 1 \in S
  <2> SUFFICES ASSUME l + 1 <= n
               PROVE  FirstTotal(Bucket(v, k, listed, l + 1), m) = FirstTotal(v, l + 1)
    OBVIOUS
  <2>1. l <= n /\ l + 1 \in 1..n /\ (\A i \in 1..(l + 1) : i \in 1..n) /\ l + 1 \in Nat
    OBVIOUS
  <2>2. PICK b \in 1..m : listed[b] = k[l + 1]
    BY <2>1
  <2> DEFINE d == v[l + 1]
             old == Bucket(v, k, listed, l)
             new == Bucket(v, k, listed, l + 1)
  <2>3. d \in Nat
    BY <2>1
  <2>4. ASSUME NEW j \in 1..m
        PROVE  old[j] \in Nat /\ new[j] = old[j] + (IF j = b THEN d ELSE 0)
    <3> DEFINE x == Of(j, l)
               y == Of(j, l + 1)
    <3>1. /\ \A i \in 1..(l + 1) : y[i] \in Nat
          /\ \A i \in 1..l : x[i] = y[i]
          /\ l + 1 \in 1..(l + 1)
      BY <2>1
    <3>2. y[l + 1] = IF j = b THEN d ELSE 0
      BY <2>2, <3>1
    <3> HIDE DEF x, y
    <3>3. FirstTotal(y, l) \in Nat /\ AddsNext(y, l)
      BY <3>1, FirstTotalNext
    <3>4. FirstTotal(x, l) = FirstTotal(y, l)
      BY <3>1, TotalAlike
    <3>5. old[j] = FirstTotal(x, l) /\ new[j] = FirstTotal(y, l + 1)
      BY <1>0, <2>1 DEF x, y
    <3> QED BY <3>2, <3>3, <3>4, <3>5 DEF AddsNext
  <2>5. \A j \in 1..m : old[j] \in Nat
    BY <2>4
  <2>6. \A j \in 1..m : j # b => new[j] = old[j]
    BY <2>4
  <2>7. new[b] = old[b] + d
    BY <2>4
  <2> HIDE DEF old, new, d
  <2>8. FirstTotal(new, m) = FirstTotal(old, m) + d
    BY <2>3, <2>5, <2>6, <2>7, TotalMore
  <2>9. FirstTotal(old, m) = FirstTotal(v, l)
    BY <1>2, <2>1 DEF old
  <2>10. AddsNext(v, l)
    BY <2>1, FirstTotalNext
  <2>11. FirstTotal(v, l + 1) = FirstTotal(v, l) + d
    BY <2>10 DEF AddsNext, d
  <2> QED BY <2>8, <2>9, <2>11 DEF new
<1> HIDE DEF S
<1>3. n \in S
  BY <1>1, <1>2, SetInduction
<1> QED BY <1>3 DEF S

-----------------------------------------------------------------------------
(* Sums over the elements of a sequence, each with its weight.             *)

Weighed(s, w) == Total([i \in 1..Len(s) |-> w[s[i]]])

\* The weights of the elements in their order.
Weights(s, w) == [i \in 1..Len(s) |-> w[s[i]]]

\* They are numbers, and their sum is what the sequence weighs.
LEMMA WeightsType ==
  ASSUME NEW T, NEW s \in Seq(T), NEW w \in [T -> Nat]
  PROVE  /\ Weights(s, w) \in Seq(Nat) /\ Len(Weights(s, w)) = Len(s)
         /\ \A i \in 1..Len(s) : Weights(s, w)[i] = w[s[i]] /\ w[s[i]] \in Nat
         /\ Weighed(s, w) = Total(Weights(s, w)) /\ Weighed(s, w) \in Nat
         /\ Weighed(s, w) = FirstTotal(Weights(s, w), Len(s))
<1> DEFINE v == Weights(s, w)
<1>1. Len(s) \in Nat /\ \A i \in 1..Len(s) : w[s[i]] \in Nat
  OBVIOUS
<1>2. v \in [1..Len(s) -> Nat] /\ \A i \in 1..Len(s) : v[i] = w[s[i]]
  BY <1>1 DEF Weights
<1> HIDE DEF v
<1>3. v \in Seq(Nat) /\ Len(v) = Len(s)
  BY <1>1, <1>2
<1>4. Total(v) = FirstTotal(v, Len(v)) /\ Total(v) \in Nat
  BY <1>3, TotalFirsts
<1>5. Weighed(s, w) = Total(v)
  BY DEF Weighed, Weights, v
<1> QED BY <1>1, <1>2, <1>3, <1>4, <1>5 DEF v

\* Sequences whose elements weigh the same weigh the same.
LEMMA WeighedAlike ==
  ASSUME NEW T, NEW s \in Seq(T), NEW w, NEW t, NEW u,
         Len(t) = Len(s), \A i \in 1..Len(s) : w[s[i]] = u[t[i]]
  PROVE  Weighed(s, w) = Weighed(t, u)
<1>1. [i \in 1..Len(s) |-> w[s[i]]] = [i \in 1..Len(t) |-> u[t[i]]]
  OBVIOUS
<1> QED BY <1>1, Zenon DEF Weighed

\* Nothing weighs nothing.
LEMMA WeighedNone == \A w : Weighed(<<>>, w) = 0
<1> TAKE w
<1>1. [i \in 1..Len(<<>>) |-> w[<<>>[i]]] = <<>>
  OBVIOUS
<1> QED BY <1>1, TotalEmpty DEF Weighed

\* A sequence of one weighs what this one does.
LEMMA WeighedOne ==
  ASSUME NEW x, NEW w, w[x] \in Nat
  PROVE  Weighed(<<x>>, w) = w[x]
<1> DEFINE n == w[x]
<1>1. n \in Nat
  OBVIOUS
<1>2. [i \in 1..Len(<<x>>) |-> w[<<x>>[i]]] = <<n>>
  OBVIOUS
<1> HIDE DEF n
<1>3. <<n>> = Append(<<>>, n) /\ <<>> \in Seq(Nat)
  OBVIOUS
<1>4. Total(Append(<<>>, n)) = Total(<<>>) + n
  BY <1>1, <1>3, TotalAppend
<1>5. Total(<<n>>) = n
  BY <1>1, <1>3, <1>4, TotalEmpty
<1> QED BY <1>2, <1>5 DEF Weighed, n

\* Elements without weight weigh nothing.
LEMMA WeighedZero ==
  ASSUME NEW T, NEW s \in Seq(T), NEW w \in [T -> Nat], \A i \in 1..Len(s) : w[s[i]] = 0
  PROVE  Weighed(s, w) = 0
<1>1. /\ \A i \in 1..Len(s) : Weights(s, w)[i] = 0
      /\ Weighed(s, w) = FirstTotal(Weights(s, w), Len(s)) /\ Len(s) \in Nat
  BY WeightsType
<1> QED BY <1>1, TotalZero

\* With weight 1 each, a sequence weighs its length.
LEMMA WeighedLength ==
  ASSUME NEW T, NEW s \in Seq(T), NEW w \in [T -> Nat], \A i \in 1..Len(s) : w[s[i]] = 1
  PROVE  Weighed(s, w) = Len(s)
<1> DEFINE v == Weights(s, w)
           n == Len(s)
<1>1. /\ \A i \in 1..n : v[i] = 1 /\ v[i] \in Nat
      /\ Weighed(s, w) = FirstTotal(v, n) /\ n \in Nat
  BY WeightsType
<1> HIDE DEF v, n
<1> DEFINE S == {m \in Nat : m <= n => FirstTotal(v, m) = m}
<1>2. 0 \in S
  BY FirstTotalNone
<1>3. ASSUME NEW m \in Nat, m \in S PROVE m + 1 \in S
  <2> SUFFICES ASSUME m + 1 <= n PROVE FirstTotal(v, m + 1) = m + 1
    OBVIOUS
  <2>1. m <= n /\ m + 1 \in 1..n /\ \A i \in 1..(m + 1) : i \in 1..n
    BY <1>1
  <2>2. AddsNext(v, m) /\ v[m + 1] = 1
    BY <1>1, <2>1, FirstTotalNext
  <2> QED BY <1>3, <2>1, <2>2 DEF AddsNext
<1>4. n \in S
  <2> HIDE DEF S
  <2> QED BY <1>1, <1>2, <1>3, SetInduction
<1> QED BY <1>1, <1>4 DEF n

\* What weighs no more.
LEMMA WeighedLess ==
  ASSUME NEW T, NEW s \in Seq(T), NEW w \in [T -> Nat], NEW u \in [T -> Nat],
         \A x \in T : w[x] <= u[x]
  PROVE  Weighed(s, w) <= Weighed(s, u)
<1>1. /\ \A i \in 1..Len(s) : Weights(s, w)[i] = w[s[i]] /\ w[s[i]] \in Nat /\ s[i] \in T
      /\ Weighed(s, w) = FirstTotal(Weights(s, w), Len(s)) /\ Len(s) \in Nat
  BY WeightsType
<1>2. /\ \A i \in 1..Len(s) : Weights(s, u)[i] = u[s[i]] /\ u[s[i]] \in Nat
      /\ Weighed(s, u) = FirstTotal(Weights(s, u), Len(s))
  BY WeightsType
<1>3. \A i \in 1..Len(s) : Weights(s, w)[i] <= Weights(s, u)[i]
  BY <1>1, <1>2
<1> QED BY <1>1, <1>2, <1>3, TotalMonotone

\* Joined sequences weigh what they weigh apart.
LEMMA WeighedJoin ==
  ASSUME NEW T, NEW s \in Seq(T), NEW t \in Seq(T), NEW w \in [T -> Nat]
  PROVE  Weighed(s \o t, w) = Weighed(s, w) + Weighed(t, w)
<1> DEFINE u == s \o t
           a == Weights(s, w)
           b == Weights(t, w)
           c == Weights(u, w)
<1>1. Joins(u, s, t, T) /\ Len(s) \in Nat /\ Len(t) \in Nat
  BY JoinParts
<1> HIDE DEF u
<1>2. /\ u \in Seq(T) /\ Len(u) = Len(s) + Len(t)
      /\ \A i \in 1..Len(s) : u[i] = s[i]
      /\ \A i \in 1..Len(t) : u[Len(s) + i] = t[i]
  BY <1>1 DEF Joins
<1>3. /\ a \in Seq(Nat) /\ Len(a) = Len(s) /\ Weighed(s, w) = Total(a)
      /\ \A i \in 1..Len(s) : a[i] = w[s[i]]
  BY WeightsType
<1>4. /\ b \in Seq(Nat) /\ Len(b) = Len(t) /\ Weighed(t, w) = Total(b)
      /\ \A i \in 1..Len(t) : b[i] = w[t[i]]
  BY WeightsType
<1>5. /\ c \in Seq(Nat) /\ Len(c) = Len(u) /\ Weighed(u, w) = Total(c)
      /\ \A i \in 1..Len(u) : c[i] = w[u[i]]
  BY <1>2, WeightsType, ZenonT(90)
<1> HIDE DEF a, b, c
<1> DEFINE d == a \o b
<1>6. Joins(d, a, b, Nat)
  BY <1>3, <1>4, JoinParts
<1> HIDE DEF d
<1>7. /\ d \in Seq(Nat) /\ Len(d) = Len(a) + Len(b)
      /\ \A i \in 1..Len(a) : d[i] = a[i]
      /\ \A i \in 1..Len(b) : d[Len(a) + i] = b[i]
  BY <1>6 DEF Joins
<1>8. \A i \in 1..Len(u) : c[i] = d[i]
  <2> SUFFICES ASSUME NEW i \in 1..Len(u) PROVE c[i] = d[i]
    OBVIOUS
  <2>1. CASE i \in 1..Len(s)
    BY <1>2, <1>3, <1>5, <1>7, <2>1
  <2>2. CASE i \notin 1..Len(s)
    <3> DEFINE j == i - Len(s)
    <3>1. j \in 1..Len(t) /\ i = Len(s) + j
      BY <1>1, <1>2, <2>2
    <3> HIDE DEF j
    <3> QED BY <1>2, <1>3, <1>4, <1>5, <1>7, <3>1
  <2> QED BY <2>1, <2>2
<1>9. c = d
  BY <1>2, <1>3, <1>4, <1>5, <1>7, <1>8
<1>10. Total(a \o b) = Total(a) + Total(b)
  BY <1>3, <1>4, TotalJoin
<1> QED BY <1>3, <1>4, <1>5, <1>9, <1>10 DEF d, u

\* What each of seqs weighs.
EachWeighs(seqs, w) == [i \in 1..Len(seqs) |-> Weighed(seqs[i], w)]

\* So do several.
LEMMA WeighedFlatten ==
  ASSUME NEW T, NEW seqs \in Seq(Seq(T)), NEW w \in [T -> Nat]
  PROVE  /\ FlattenSeq(seqs) \in Seq(T)
         /\ \A i \in 1..Len(seqs) : EachWeighs(seqs, w)[i] = Weighed(seqs[i], w)
                                    /\ Weighed(seqs[i], w) \in Nat
         /\ Weighed(FlattenSeq(seqs), w) = FirstTotal(EachWeighs(seqs, w), Len(seqs))
<1> DEFINE n == Len(seqs)
           v == EachWeighs(seqs, w)
<1>1. n \in Nat /\ \A i \in 1..n : seqs[i] \in Seq(T)
  OBVIOUS
<1>2. \A i \in 1..n : v[i] = Weighed(seqs[i], w) /\ v[i] \in Nat
  <2> SUFFICES ASSUME NEW i \in 1..n PROVE v[i] = Weighed(seqs[i], w) /\ v[i] \in Nat
    OBVIOUS
  <2>1. Weighed(seqs[i], w) \in Nat
    BY <1>1, WeightsType
  <2> QED BY <2>1 DEF EachWeighs
<1>3. FlattenSeq(seqs) \in Seq(T)
  BY FlattenType
<1> HIDE DEF v
<1>4. CASE n = 0
  <2>1. seqs = <<>>
    BY <1>1, <1>4
  <2>2. FlattenSeq(seqs) = <<>>
    BY <2>1, FlattenEmpty, Zenon
  <2>3. Weighed(FlattenSeq(seqs), w) = 0
    BY <2>2, WeighedNone, Zenon
  <2>4. FirstTotal(v, n) = 0
    BY <1>4, FirstTotalNone
  <2> QED BY <1>2, <1>3, <2>3, <2>4 DEF v
<1>5. CASE n # 0
  <2>1. PICK f : Joined(f, seqs, n) /\ FlattenSeq(seqs) = f[n]
    BY <1>1, <1>5, FlattenJoined
  <2>2. \A i \in 1..n : f[i] \in Seq(T)
    BY <2>1, JoinedType
  <2> DEFINE S == {m \in Nat : m + 1 <= n => Weighed(f[m + 1], w) = FirstTotal(v, m + 1)}
  <2>3. 0 \in S
    <3>1. 1 \in 1..n /\ 0 + 1 = 1
      BY <1>1, <1>5
    <3>2. f[1] = seqs[1]
      BY <2>1, <3>1, JoinedFirst
    <3>3. AddsNext(v, 0)
      <4>1. \A i \in 1..(0 + 1) : v[i] \in Nat
        BY <1>2, <3>1
      <4> QED BY <4>1, FirstTotalNext
    <3>4. FirstTotal(v, 1) = 0 + v[1]
      BY <3>1, <3>3, FirstTotalNone DEF AddsNext
    <3>5. v[1] = Weighed(seqs[1], w) /\ v[1] \in Nat
      BY <1>2, <3>1
    <3> QED BY <3>1, <3>2, <3>4, <3>5
  <2>4. ASSUME NEW m \in Nat, m \in S PROVE m + 1 \in S
    <3>1. ASSUME m + 2 <= n PROVE Weighed(f[m + 2], w) = FirstTotal(v, m + 2)
      <4> DEFINE l == m + 1
      <4>1. /\ l \in Nat /\ l \in 1..n /\ l + 1 \in 1..n /\ l + 1 # 1 /\ (l + 1) - 1 = l
            /\ m + 2 = l + 1 /\ \A i \in 1..(l + 1) : i \in 1..n
        BY <1>1, <3>1
      <4>2. Weighed(f[l], w) = FirstTotal(v, l)
        BY <2>4, <4>1
      <4> HIDE DEF l
      <4>3. Extends(f, seqs, l + 1)
        BY <2>1, <4>1, JoinedNext, Zenon
      <4>4. f[l + 1] = f[l] \o seqs[l + 1]
        BY <4>1, <4>3 DEF Extends
      <4>5. f[l] \in Seq(T) /\ seqs[l + 1] \in Seq(T)
        BY <1>1, <2>2, <4>1
      <4>6. Weighed(f[l] \o seqs[l + 1], w) = Weighed(f[l], w) + Weighed(seqs[l + 1], w)
        BY <4>5, WeighedJoin
      <4>7. AddsNext(v, l)
        BY <1>2, <4>1, FirstTotalNext
      <4>8. v[l + 1] = Weighed(seqs[l + 1], w)
        BY <1>2, <4>1
      <4>9. Weighed(f[l + 1], w) = FirstTotal(v, l + 1)
        BY <4>2, <4>4, <4>6, <4>7, <4>8 DEF AddsNext
      <4> QED BY <4>1, <4>9
    <3>2. (m + 1) + 1 = m + 2 /\ m + 1 \in Nat
      OBVIOUS
    <3> QED BY <3>1, <3>2
  <2>5. n - 1 \in Nat /\ (n - 1) + 1 = n
    BY <1>1, <1>5
  <2>6. n - 1 \in S
    <3> HIDE DEF S
    <3> QED BY <2>3, <2>4, <2>5, SetInduction
  <2>7. Weighed(f[n], w) = FirstTotal(v, n)
    BY <2>5, <2>6
  <2> QED BY <1>2, <1>3, <2>1, <2>7 DEF v
<1> QED BY <1>4, <1>5

\* The weights of what is in P, the others without any.
Within(w, P) == [x \in DOMAIN w |-> IF x \in P THEN w[x] ELSE 0]

\* What is kept weighs what it weighed.
LEMMA WeighedSifted ==
  ASSUME NEW T, NEW s \in Seq(T), NEW w \in [T -> Nat], NEW P
  PROVE  /\ Sifted(s, P) \in Seq(T) /\ Within(w, P) \in [T -> Nat]
         /\ Weighed(Sifted(s, P), w) = Weighed(s, Within(w, P))
<1> DEFINE seqs == [i \in DOMAIN s |-> IF s[i] \in P THEN <<s[i]>> ELSE <<>>]
           u == Within(w, P)
           n == Len(s)
<1>1. n \in Nat /\ DOMAIN s = 1..n /\ \A i \in 1..n : s[i] \in T
  OBVIOUS
<1>2. u \in [T -> Nat] /\ \A x \in T : u[x] = IF x \in P THEN w[x] ELSE 0
  BY DEF Within
<1>3. seqs \in Seq(Seq(T)) /\ Len(seqs) = n
  <2>1. \A i \in 1..n : <<s[i]>> \in Seq(T) /\ <<>> \in Seq(T)
    BY <1>1
  <2>2. seqs \in [1..n -> Seq(T)]
    BY <1>1, <2>1
  <2> HIDE DEF seqs
  <2> QED BY <1>1, <2>2
<1>4. \A i \in 1..n : seqs[i] = IF s[i] \in P THEN <<s[i]>> ELSE <<>>
  BY <1>1
<1> HIDE DEF seqs, u
<1>5. ASSUME NEW i \in 1..n PROVE Weighed(seqs[i], w) = Weights(s, u)[i]
  <2>1. s[i] \in T /\ w[s[i]] \in Nat /\ Weights(s, u)[i] = u[s[i]]
    <3>1. s[i] \in T
      BY <1>1
    <3>2. w[s[i]] \in Nat
      BY <3>1
    <3>3. Weights(s, u)[i] = u[s[i]]
      BY DEF Weights
    <3> QED BY <3>1, <3>2, <3>3
  <2>2. CASE s[i] \in P
    <3>1. seqs[i] = <<s[i]>> /\ u[s[i]] = w[s[i]]
      BY <1>2, <1>4, <2>1, <2>2
    <3>2. Weighed(<<s[i]>>, w) = w[s[i]]
      BY <2>1, WeighedOne
    <3> QED BY <2>1, <3>1, <3>2
  <2>3. CASE s[i] \notin P
    <3>1. seqs[i] = <<>> /\ u[s[i]] = 0
      BY <1>2, <1>4, <2>1, <2>3
    <3>2. Weighed(seqs[i], w) = 0
      BY <3>1, WeighedNone, Zenon
    <3> QED BY <2>1, <3>1, <3>2
  <2> QED BY <2>2, <2>3
<1> HIDE DEF n
<1>6. /\ \A i \in 1..n : EachWeighs(seqs, w)[i] = Weighed(seqs[i], w)
      /\ Weighed(FlattenSeq(seqs), w) = FirstTotal(EachWeighs(seqs, w), n)
      /\ FlattenSeq(seqs) \in Seq(T)
  BY <1>3, WeighedFlatten
<1>7. Weighed(s, u) = FirstTotal(Weights(s, u), n)
  BY <1>2, WeightsType DEF n
<1>8. FirstTotal(EachWeighs(seqs, w), n) = FirstTotal(Weights(s, u), n)
  BY <1>5, <1>6, TotalAlike
<1> QED BY <1>2, <1>6, <1>7, <1>8 DEF Sifted, seqs, u

\* The elements of T with key key.
Keyed(T, K, key) == {x \in T : K[x] = key}

\* The elements of s with the keys listed weigh together what s does.
Shares(T, s, w, K, listed, m) ==
    /\ \A j \in 1..m : Weighed(Sifted(s, Keyed(T, K, listed[j])), w) \in Nat
    /\ FirstTotal([j \in 1..m |-> Weighed(Sifted(s, Keyed(T, K, listed[j])), w)], m)
          = Weighed(s, w)

\* Grouped by their keys, all of them listed once, the elements of s weigh
\* together what s does.
LEMMA WeighedBuckets ==
  ASSUME NEW T, NEW s \in Seq(T), NEW w \in [T -> Nat], NEW K, NEW listed, NEW m \in Nat,
         DOMAIN listed = 1..m,
         \A i \in 1..Len(s) : \E j \in 1..m : listed[j] = K[s[i]],
         \A i, j \in 1..m : listed[i] = listed[j] => i = j
  PROVE  Shares(T, s, w, K, listed, m)
<1> DEFINE n == Len(s)
           v == Weights(s, w)
           k == [i \in 1..n |-> K[s[i]]]
           Held(j) == Weighed(Sifted(s, Keyed(T, K, listed[j])), w)
           x == [j \in 1..m |-> Held(j)]
<1>1. n \in Nat /\ \A i \in 1..n : v[i] = w[s[i]] /\ v[i] \in Nat /\ s[i] \in T
  BY WeightsType
<1>2. Weighed(s, w) = FirstTotal(v, n)
  BY WeightsType
<1>3. \A i \in 1..n : \E j \in 1..m : listed[j] = k[i]
  OBVIOUS
<1>4. ASSUME NEW j \in 1..m PROVE Held(j) \in Nat /\ Held(j) = Bucket(v, k, listed, n)[j]
  <2> DEFINE P == Keyed(T, K, listed[j])
             u == Within(w, P)
             y == [i \in 1..n |-> IF k[i] = listed[j] THEN v[i] ELSE 0]
  <2>1. /\ Sifted(s, P) \in Seq(T) /\ u \in [T -> Nat]
        /\ Held(j) = Weighed(s, u)
    BY WeighedSifted
  <2>2. \A z \in T : u[z] = IF K[z] = listed[j] THEN w[z] ELSE 0
    BY DEF Within, Keyed
  <2> HIDE DEF u
  <2>3. /\ Weighed(s, u) = FirstTotal(Weights(s, u), n) /\ Weighed(s, u) \in Nat
        /\ \A i \in 1..n : Weights(s, u)[i] = u[s[i]]
    BY <2>1, WeightsType, SMTT(20)
  <2>4. \A i \in 1..n : Weights(s, u)[i] = y[i]
    BY <1>1, <2>2, <2>3
  <2> HIDE DEF y, n, v, k
  <2>5. FirstTotal(Weights(s, u), n) = FirstTotal(y, n)
    BY <2>4, TotalAlike
  <2>6. Bucket(v, k, listed, n)[j] = FirstTotal(y, n)
    BY DEF Bucket, y
  <2> QED BY <2>1, <2>3, <2>5, <2>6
<1> HIDE DEF v, k, n, Held
<1>5. FirstTotal(Bucket(v, k, listed, n), m) = FirstTotal(v, n)
  BY <1>1, <1>3, TotalBuckets
<1>6. FirstTotal(x, m) = FirstTotal(Bucket(v, k, listed, n), m)
  <2>1. \A j \in 1..m : x[j] = Bucket(v, k, listed, n)[j]
    BY <1>4
  <2> HIDE DEF x
  <2> QED BY <2>1, TotalAlike
<1> QED BY <1>2, <1>4, <1>5, <1>6 DEF Held, Shares

\* A sum does not shrink when numbers are added at its end and none becomes less.
LEMMA TotalOnward ==
  ASSUME NEW s \in Seq(Nat), NEW t \in Seq(Nat), Len(s) <= Len(t),
         \A i \in 1..Len(s) : s[i] <= t[i]
  PROVE  Total(s) <= Total(t)
<1> DEFINE n == Len(s)
           S == {m \in Nat : n + m <= Len(t) => FirstTotal(t, n) <= FirstTotal(t, n + m)}
<1>1. n \in Nat /\ Len(t) \in Nat /\ \A i \in 1..Len(t) : t[i] \in Nat
  OBVIOUS
<1>2. FirstTotal(t, n) \in Nat
  BY <1>1, FirstTotalType
<1>3. 0 \in S
  <2>1. n + 0 = n
    BY <1>1
  <2> QED BY <1>2, <2>1
<1>4. ASSUME NEW m \in Nat, m \in S PROVE m + 1 \in S
  <2> SUFFICES ASSUME n + (m + 1) <= Len(t) PROVE FirstTotal(t, n) <= FirstTotal(t, n + (m + 1))
    OBVIOUS
  <2> DEFINE k == n + m
  <2>1. k \in Nat /\ k + 1 = n + (m + 1) /\ k + 1 \in 1..Len(t) /\ \A i \in 1..(k + 1) : t[i] \in Nat
    BY <1>1
  <2>2. FirstTotal(t, n) <= FirstTotal(t, k)
    BY <1>1, <1>4
  <2> HIDE DEF k
  <2>3. FirstTotal(t, k) \in Nat /\ AddsNext(t, k)
    BY <2>1, FirstTotalNext
  <2> DEFINE a == FirstTotal(t, k)
             b == t[k + 1]
             d == FirstTotal(t, n)
  <2>4. FirstTotal(t, k + 1) = a + b
    BY <2>3 DEF AddsNext
  <2>5. a \in Nat /\ b \in Nat /\ d \in Nat /\ d <= a
    BY <1>1, <1>2, <2>1, <2>2, <2>3
  <2> HIDE DEF a, b
  <2>6. d <= a + b
    BY <2>5
  <2> QED BY <2>1, <2>4, <2>6
<1> DEFINE m == Len(t) - n
<1>5. m \in Nat /\ n + m = Len(t)
  BY <1>1
<1> HIDE DEF S, m
<1>6. m \in S
  BY <1>3, <1>4, <1>5, SetInduction
<1>7. FirstTotal(t, n) <= FirstTotal(t, Len(t))
  BY <1>5, <1>6 DEF S
<1>8. FirstTotal(s, n) <= FirstTotal(t, n)
  <2>1. \A i \in 1..n : s[i] \in Nat /\ t[i] \in Nat /\ s[i] <= t[i]
    BY <1>1
  <2> QED BY <1>1, <2>1, TotalMonotone
<1>9. Total(s) = FirstTotal(s, n) /\ Total(t) = FirstTotal(t, Len(t))
  BY TotalFirsts
<1>10. FirstTotal(s, n) \in Nat /\ FirstTotal(t, Len(t)) \in Nat
  <2>1. \A i \in 1..n : s[i] \in Nat
    OBVIOUS
  <2> QED BY <1>1, <2>1, FirstTotalType
<1> HIDE DEF n
<1> QED BY <1>2, <1>7, <1>8, <1>9, <1>10
=============================================================================
