---------------------------- MODULE RegistryProofs ----------------------------
(***************************************************************************)
(* Proofs about Registry, for any names, labels and number of samples.     *)
(* First the duplicate guard, in which a key is only compared; then the    *)
(* texts: keys and sample lines can be read back, so two label sets have   *)
(* neither in common; then where the blocks of a body are; last what these *)
(* say together of the lines of a body.                                    *)
(***************************************************************************)
EXTENDS Registry, InductionProofs

\* The positions looked at so far under a name.
Seen(n) == {j \in 1..(next - 1) : samples[j].name = n}

\* Sample i is the first of its series.
IsFirst(i) == \A j \in 1..(i - 1) : ~SameSeries(j, i)

Shape ==
    /\ samples \in Seq(Samples)
    /\ next \in 1..(Len(samples) + 1)
    /\ pc \in {"check", "insert", "done"}
    /\ pc = "done" => next = Len(samples) + 1
    /\ seen \in [Names -> SUBSET {SeriesKey(labels) : labels \in Labels}]
    /\ groups \in [Names -> Seq(Nat)]

\* The keys of a name are those of its samples so far.
SeenExact ==
    \A n \in Names : \A key : key \in seen[n] <=> \E j \in Seen(n) : SeriesKey(samples[j].labels) = key

\* Under each name the guard has kept the first sample of every series so far,
\* and no other.
FirstKept ==
    \A n \in Names : \A i \in Nat :
        (\E k \in DOMAIN groups[n] : groups[n][k] = i) <=> (i \in Seen(n) /\ IsFirst(i))

Warned == pc # "check" => dups = Duplicates

Inv == Shape /\ SeenExact /\ FirstKept /\ Warned

\* A scrape's samples are a sequence.
LEMMA InputsAreSequences == ASSUME NEW s \in Inputs PROVE s \in Seq(Samples)
BY SampleAssumption DEF Inputs

\* Before the loop starts no key is seen and nothing is kept.
LEMMA InitInv == Init => Inv
<1> SUFFICES ASSUME Init PROVE Inv
  OBVIOUS
<1>1. samples \in Seq(Samples)
  BY InputsAreSequences DEF Init
<1>2. Len(samples) \in Nat /\ next = 1
  BY <1>1 DEF Init
<1>3. Shape
  BY <1>1, <1>2 DEF Init, Shape
<1>4. \A n \in Names : Seen(n) = {}
  BY <1>2 DEF Seen
<1>5. SeenExact /\ FirstKept /\ Warned
  BY <1>4 DEF Init, SeenExact, FirstKept, Warned
<1> QED BY <1>3, <1>5 DEF Inv

\* The guard refuses a sample exactly when its series was met before.
LEMMA GuardExact ==
  ASSUME Inv, next <= Len(samples)
  PROVE  /\ samples[next].name \in Names
         /\ SeriesKey(samples[next].labels) \in seen[samples[next].name] <=> ~IsFirst(next)
<1>1. samples[next] \in Samples
  BY DEF Inv, Shape
<1>2. samples[next].name \in Names
  BY <1>1 DEF Samples
<1>3. SeriesKey(samples[next].labels) \in seen[samples[next].name]
        <=> \E j \in Seen(samples[next].name) :
                SeriesKey(samples[j].labels) = SeriesKey(samples[next].labels)
  BY <1>2 DEF Inv, SeenExact
<1> QED BY <1>2, <1>3 DEF Seen, IsFirst, SameSeries

\* One turn of the loop keeps the account of what was seen and kept.
LEMMA InsertInv == ASSUME Inv, Insert PROVE Inv'
<1> DEFINE name == samples[next].name
           key == SeriesKey(samples[next].labels)
<1>1. /\ pc = "insert" /\ next <= Len(samples) /\ next' = next + 1
      /\ seen' = [seen EXCEPT ![name] = @ \cup {key}]
      /\ groups' = IF key \in seen[name] THEN groups
                   ELSE [groups EXCEPT ![name] = Append(@, next)]
      /\ pc' = pc /\ samples' = samples /\ dups' = dups
  BY DEF Insert
<1>2. /\ name \in Names
      /\ key \in seen[name] <=> ~IsFirst(next)
  BY <1>1, GuardExact
<1>3. next \in Nat /\ next >= 1 /\ Len(samples) \in Nat /\ samples[next] \in Samples
  BY <1>1 DEF Inv, Shape
<1>4. /\ groups \in [Names -> Seq(Nat)]
      /\ seen \in [Names -> SUBSET {SeriesKey(labels) : labels \in Labels}]
  BY DEF Inv, Shape
<1>5. \A n \in Names : Seen(n)' = IF n = name THEN Seen(n) \cup {next} ELSE Seen(n)
  BY <1>1, <1>3 DEF Seen
<1>6. \A i : IsFirst(i)' <=> IsFirst(i)
  BY <1>1 DEF IsFirst, SameSeries
<1>7. Shape'
  <2>1. key \in {SeriesKey(labels) : labels \in Labels}
    BY <1>3 DEF Samples
  <2>2. seen' \in [Names -> SUBSET {SeriesKey(labels) : labels \in Labels}]
    BY <1>1, <1>2, <1>4, <2>1
  <2>3. groups' \in [Names -> Seq(Nat)]
    BY <1>1, <1>2, <1>3, <1>4
  <2> QED BY <1>1, <1>3, <2>2, <2>3 DEF Inv, Shape
<1>8. SeenExact'
  <2> SUFFICES ASSUME NEW n \in Names, NEW q
               PROVE  q \in seen'[n] <=> \E j \in Seen(n)' : SeriesKey(samples[j].labels) = q
    BY <1>1 DEF SeenExact
  <2>1. q \in seen[n] <=> \E j \in Seen(n) : SeriesKey(samples[j].labels) = q
    BY DEF Inv, SeenExact
  <2>2. seen'[n] = IF n = name THEN seen[n] \cup {key} ELSE seen[n]
    BY <1>1, <1>4
  <2> QED BY <2>1, <2>2, <1>5
<1>9. FirstKept'
  <2> SUFFICES ASSUME NEW n \in Names, NEW i \in Nat
               PROVE  (\E k \in DOMAIN groups'[n] : groups'[n][k] = i)
                        <=> (i \in Seen(n)' /\ IsFirst(i))
    BY <1>6 DEF FirstKept
  <2>1. (\E k \in DOMAIN groups[n] : groups[n][k] = i) <=> (i \in Seen(n) /\ IsFirst(i))
    BY DEF Inv, FirstKept
  <2>2. CASE n # name \/ key \in seen[name]
    <3>1. groups'[n] = groups[n]
      BY <2>2, <1>1, <1>4
    <3> QED BY <3>1, <2>1, <2>2, <1>2, <1>5
  <2>3. CASE n = name /\ key \notin seen[name]
    <3>1. groups[n] \in Seq(Nat) /\ groups'[n] = Append(groups[n], next)
      BY <2>3, <1>1, <1>2, <1>4
    <3> DEFINE old == groups[n]
    <3>2. /\ DOMAIN old = 1..Len(old) /\ Len(old) \in Nat
          /\ DOMAIN Append(old, next) = 1..(Len(old) + 1)
          /\ \A k \in 1..Len(old) : Append(old, next)[k] = old[k]
          /\ Append(old, next)[Len(old) + 1] = next
      BY <3>1, <1>3
    <3> HIDE DEF old
    <3>3. (\E k \in DOMAIN Append(old, next) : Append(old, next)[k] = i)
            <=> ((\E k \in DOMAIN old : old[k] = i) \/ i = next)
      BY <3>2
    <3>4. (\E k \in DOMAIN groups'[n] : groups'[n][k] = i)
            <=> ((\E k \in DOMAIN groups[n] : groups[n][k] = i) \/ i = next)
      BY <3>1, <3>3 DEF old
    <3> QED BY <3>4, <2>1, <2>3, <1>2, <1>5
  <2> QED BY <2>2, <2>3
<1>10. Warned'
  BY <1>1 DEF Inv, Warned, Duplicates, SameSeries
<1> QED BY <1>7, <1>8, <1>9, <1>10 DEF Inv

\* A step outside the loop leaves the account alone.
LEMMA FrameInv ==
  ASSUME Inv, UNCHANGED <<samples, next, seen, groups>>
  PROVE  SeenExact' /\ FirstKept' /\ Duplicates' = Duplicates
<1>1. (\A n : Seen(n)' = Seen(n)) /\ (\A i : IsFirst(i)' <=> IsFirst(i))
  BY DEF Seen, IsFirst, SameSeries
<1>2. SeenExact'
  BY <1>1 DEF Inv, SeenExact
<1>3. FirstKept'
  BY <1>1 DEF Inv, FirstKept
<1>4. Duplicates' = Duplicates
  BY DEF Duplicates, SameSeries
<1> QED BY <1>2, <1>3, <1>4

\* Every step of update_samples preserves the invariant.
LEMMA StepInv == Inv /\ [Next]_vars => Inv'
<1> SUFFICES ASSUME Inv, [Next]_vars PROVE Inv'
  OBVIOUS
<1>1. CASE Check
  <2>1. SeenExact' /\ FirstKept' /\ Duplicates' = Duplicates
    BY <1>1, FrameInv DEF Check
  <2>2. Shape'
    BY <1>1 DEF Check, Inv, Shape
  <2>3. Warned'
    BY <1>1, <2>1 DEF Check, Warned
  <2> QED BY <2>1, <2>2, <2>3 DEF Inv
<1>2. CASE Insert
  BY <1>2, InsertInv
<1>3. CASE Encode
  <2>1. SeenExact' /\ FirstKept' /\ Duplicates' = Duplicates
    BY <1>3, FrameInv DEF Encode
  <2>2. Len(samples) \in Nat /\ next \in 1..(Len(samples) + 1) /\ next > Len(samples)
    BY <1>3 DEF Encode, Inv, Shape
  <2>3. next = Len(samples) + 1
    BY <2>2
  <2>4. Shape'
    BY <1>3, <2>3 DEF Encode, Inv, Shape
  <2>5. Warned'
    BY <1>3, <2>1 DEF Encode, Inv, Warned
  <2> QED BY <2>1, <2>4, <2>5 DEF Inv
<1>4. CASE UNCHANGED vars
  <2>1. SeenExact' /\ FirstKept' /\ Duplicates' = Duplicates
    BY <1>4, FrameInv DEF vars
  <2>2. Shape' /\ Warned'
    BY <1>4, <2>1 DEF vars, Inv, Shape, Warned
  <2> QED BY <2>1, <2>2 DEF Inv
<1> QED BY <1>1, <1>2, <1>3, <1>4 DEF Next, Stored

\* The guard keeps the first sample of every series and no other.
THEOREM FirstKeptHolds == Spec => []FirstKept
BY InitInv, StepInv, PTL DEF Spec, Inv

\* The warning names exactly the metrics of which a sample was dropped.
THEOREM DropsReportedHolds == Spec => []DropsReported
<1>1. Inv => DropsReported
  <2> SUFFICES ASSUME Inv, pc = "done"
               PROVE  Duplicates = {samples[i].name : i \in DOMAIN samples \ Kept}
    BY DEF Inv, Warned, DropsReported
  <2>1. next = Len(samples) + 1 /\ Len(samples) \in Nat /\ DOMAIN samples = 1..Len(samples)
    BY DEF Inv, Shape
  <2>2. ASSUME NEW i \in DOMAIN samples PROVE i \in Kept <=> IsFirst(i)
    <3>1. samples[i] \in Samples /\ samples[i].name \in Names
      <4>1. samples[i] \in Samples
        BY DEF Inv, Shape
      <4> QED BY <4>1 DEF Samples
    <3>2. i \in Seen(samples[i].name)
      BY <2>1 DEF Seen
    <3>3. IsFirst(i) => i \in Kept
      BY <3>1, <3>2, <2>1 DEF Inv, FirstKept, Kept
    <3>4. i \in Kept => IsFirst(i)
      BY <2>1 DEF Inv, FirstKept, Kept
    <3> QED BY <3>3, <3>4
  <2>3. {k \in DOMAIN samples : \E i \in 1..(k - 1) : SameSeries(i, k)} = DOMAIN samples \ Kept
    BY <2>2 DEF IsFirst
  <2> QED BY <2>3 DEF Duplicates
<1> QED BY <1>1, InitInv, StepInv, PTL DEF Spec

-----------------------------------------------------------------------------
(* What a label set is written as, and that it can be read back.           *)

\* Those of the special characters that have no name in the code.
Soh == "SOH"
Stx == "STX"
Comma == ","
Equals == "="
En == "n"

\* The characters with a meaning of their own.
LEMMA Signs ==
  /\ Soh \in Chars /\ Stx \in Chars /\ Comma \in Chars /\ Equals \in Chars /\ En \in Chars
  /\ Quote \in Chars /\ Backslash \in Chars /\ Newline \in Chars
BY LabelAssumption DEF Soh, Stx, Comma, Equals, En, Quote, Backslash, Newline

\* Those the escapes tell apart.
LEMMA SignsDiffer ==
  /\ Quote # Backslash /\ Quote # Newline /\ Backslash # Newline
  /\ Quote # En /\ Backslash # En /\ Equals # Quote
BY DEF Equals, En, Quote, Backslash, Newline

\* The keys of a label set are its label names.
LEMMA KeysOfLabels ==
  ASSUME NEW labels \in Labels
  PROVE  /\ KeysOf(labels) \in Seq(Chars)
         /\ \A i \in DOMAIN KeysOf(labels) : KeysOf(labels)[i] \in DOMAIN labels
         /\ \A k \in DOMAIN labels : \E i \in DOMAIN KeysOf(labels) : KeysOf(labels)[i] = k
<1> DEFINE seqs == [i \in DOMAIN KeyOrder |->
                      IF KeyOrder[i] \in DOMAIN labels THEN <<KeyOrder[i]>> ELSE <<>>]
           keys == FlattenSeq(seqs)
<1>1. KeyOrder \in Seq(Chars) /\ DOMAIN labels \subseteq {KeyOrder[i] : i \in DOMAIN KeyOrder}
  BY LabelAssumption
<1>2. /\ seqs \in Seq(Seq(Chars)) /\ DOMAIN KeyOrder = 1..Len(KeyOrder)
      /\ Len(seqs) = Len(KeyOrder)
  <2>1. KeyOrder \in [1..Len(KeyOrder) -> Chars] /\ Len(KeyOrder) \in Nat
    BY <1>1
  <2>2. \A x \in Chars : <<x>> \in Seq(Chars)
    OBVIOUS
  <2>3. \A i \in DOMAIN KeyOrder :
          (IF KeyOrder[i] \in DOMAIN labels THEN <<KeyOrder[i]>> ELSE <<>>) \in Seq(Chars)
    BY <2>1, <2>2, EmptySeq
  <2>4. seqs \in [1..Len(KeyOrder) -> Seq(Chars)]
    BY <2>1, <2>3
  <2> HIDE DEF seqs
  <2> QED BY <2>1, <2>4
<1>3. \A i \in 1..Len(seqs) :
        seqs[i] = IF KeyOrder[i] \in DOMAIN labels THEN <<KeyOrder[i]>> ELSE <<>>
  BY <1>2
<1> HIDE DEF seqs
<1>4. /\ \A x : Len(<<x>>) = 1 /\ <<x>>[1] = x /\ 1 \in 1..Len(<<x>>)
      /\ Len(<<>>) = 0
  OBVIOUS
<1>5. keys \in Seq(Chars)
  BY <1>2, FlattenType
<1>6. PICK start : Placed(seqs, start)
  BY <1>2, FlattenPlaces
<1>7. /\ \A i \in 1..Len(seqs) : \A j \in 1..Len(seqs[i]) :
            start[i] + j \in 1..Len(keys) /\ keys[start[i] + j] = seqs[i][j]
      /\ \A k \in 1..Len(keys) :
            \E i \in 1..Len(seqs) : \E j \in 1..Len(seqs[i]) : k = start[i] + j
  BY <1>6, Zenon DEF Placed
<1> HIDE DEF keys
<1>8. ASSUME NEW k \in DOMAIN keys PROVE keys[k] \in DOMAIN labels
  <2>1. k \in 1..Len(keys)
    BY <1>5
  <2>2. PICK i \in 1..Len(seqs) : \E j \in 1..Len(seqs[i]) : k = start[i] + j
    BY <1>7, <2>1
  <2>3. PICK j \in 1..Len(seqs[i]) : k = start[i] + j
    BY <2>2
  <2>4. keys[k] = seqs[i][j]
    BY <1>7, <2>3
  <2>5. KeyOrder[i] \in DOMAIN labels /\ seqs[i] = <<KeyOrder[i]>> /\ j = 1
    <3>1. CASE KeyOrder[i] \in DOMAIN labels
      <4>1. seqs[i] = <<KeyOrder[i]>> /\ Len(seqs[i]) = 1
        BY <1>3, <1>4, <3>1
      <4> QED BY <3>1, <4>1
    <3>2. CASE KeyOrder[i] \notin DOMAIN labels
      <4>1. Len(seqs[i]) = 0
        BY <1>3, <1>4, <3>2
      <4> QED BY <4>1
    <3> QED BY <3>1, <3>2
  <2> QED BY <1>4, <2>4, <2>5
<1>9. ASSUME NEW k \in DOMAIN labels PROVE \E i \in DOMAIN keys : keys[i] = k
  <2>1. PICK i \in 1..Len(seqs) : KeyOrder[i] = k
    BY <1>1, <1>2
  <2>2. seqs[i] = <<k>> /\ 1 \in 1..Len(seqs[i]) /\ seqs[i][1] = k
    BY <1>3, <1>4, <2>1
  <2>3. start[i] + 1 \in 1..Len(keys) /\ keys[start[i] + 1] = k
    BY <1>7, <2>2
  <2>4. start[i] + 1 \in DOMAIN keys
    BY <1>5, <2>3
  <2> QED BY <2>3, <2>4
<1> QED BY <1>5, <1>8, <1>9 DEF KeysOf, keys, seqs

\* Label sets with the same keys and the same texts are the same.
LEMMA LabelsEqual ==
  ASSUME NEW a \in Labels, NEW b \in Labels, KeysOf(a) = KeysOf(b),
         \A i \in DOMAIN KeysOf(a) : a[KeysOf(a)[i]] = b[KeysOf(b)[i]]
  PROVE  a = b
<1>1. a \in [DOMAIN a -> Seq(Chars)] /\ b \in [DOMAIN b -> Seq(Chars)]
  BY LabelAssumption
<1>2. DOMAIN a = DOMAIN b
  <2>1. \A k \in DOMAIN a : k \in DOMAIN b
    <3> SUFFICES ASSUME NEW k \in DOMAIN a PROVE k \in DOMAIN b
      OBVIOUS
    <3>1. PICK i \in DOMAIN KeysOf(a) : KeysOf(a)[i] = k
      BY KeysOfLabels
    <3>2. KeysOf(b)[i] \in DOMAIN b
      BY KeysOfLabels
    <3> QED BY <3>1, <3>2
  <2>2. \A k \in DOMAIN b : k \in DOMAIN a
    <3> SUFFICES ASSUME NEW k \in DOMAIN b PROVE k \in DOMAIN a
      OBVIOUS
    <3>1. PICK i \in DOMAIN KeysOf(b) : KeysOf(b)[i] = k
      BY KeysOfLabels
    <3>2. KeysOf(a)[i] \in DOMAIN a
      BY KeysOfLabels
    <3> QED BY <3>1, <3>2
  <2> QED BY <2>1, <2>2
<1>3. \A k \in DOMAIN a : a[k] = b[k]
  BY KeysOfLabels
<1> QED BY <1>1, <1>2, <1>3

\* The texts in the labels keep to a set of characters.
TextsIn(labels, C) == \A k \in DOMAIN labels : \A i \in DOMAIN labels[k] : labels[k][i] \in C

\* What series_key writes of one label.
KeyWord(k, v) == <<k, Soh>> \o v \o <<Stx>>

\* Where the parts of such a word are in a text that starts with it.
Spells(p, k, v) ==
  /\ p[1] = k /\ p[Len(v) + 3] = Stx
  /\ \A i \in 1..Len(v) : p[2 + i] = v[i]

\* A text that starts with a label's word spells the label.
LEMMA KeyWordParts ==
  ASSUME NEW k \in Chars, NEW v \in Seq(Chars), NEW x \in Seq(Chars)
  PROVE  /\ KeyWord(k, v) \in Seq(Chars) /\ Len(KeyWord(k, v)) = Len(v) + 3
         /\ Spells(KeyWord(k, v) \o x, k, v)
<1> DEFINE h == <<k, Soh>>
           e == <<Stx>>
           hv == h \o v
           u == hv \o e
           all == u \o x
<1>1. Soh \in Chars /\ Stx \in Chars
  BY Signs
<1>2. /\ h \in Seq(Chars) /\ Len(h) = 2 /\ h[1] = k
      /\ e \in Seq(Chars) /\ Len(e) = 1 /\ e[1] = Stx /\ Len(v) \in Nat /\ Len(x) \in Nat
  BY <1>1
<1> HIDE DEF h, e
<1>3. Joins(hv, h, v, Chars)
  BY <1>2, JoinParts, Zenon
<1>4. /\ hv \in Seq(Chars) /\ Len(hv) = Len(v) + 2 /\ hv[1] = k
      /\ \A i \in 1..Len(v) : hv[2 + i] = v[i]
  BY <1>2, <1>3 DEF Joins
<1> HIDE DEF hv
<1>5. Joins(u, hv, e, Chars)
  BY <1>2, <1>4, JoinParts, Zenon
<1>6. /\ u \in Seq(Chars) /\ Len(u) = Len(v) + 3 /\ u[1] = k
      /\ \A i \in 1..Len(v) : u[2 + i] = v[i]
      /\ u[Len(v) + 3] = Stx
  BY <1>2, <1>4, <1>5 DEF Joins
<1> HIDE DEF u
<1>7. Joins(all, u, x, Chars)
  BY <1>2, <1>6, JoinParts, Zenon
<1>8. Spells(all, k, v)
  BY <1>2, <1>6, <1>7 DEF Joins, Spells
<1> QED BY <1>6, <1>8, Zenon DEF KeyWord, all, u, hv, h, e

\* Texts without the character that closes a label in a key.
Unclosed == Seq(Chars \ {Stx})

\* They are texts.
LEMMA UnclosedTexts == \A v \in Unclosed : v \in Seq(Chars)
BY DEF Unclosed

\* A text spells one label with such a value.
LEMMA SpellsOne ==
  ASSUME NEW p, NEW k, NEW l, NEW v \in Unclosed, NEW w \in Unclosed,
         Spells(p, k, v), Spells(p, l, w)
  PROVE  k = l /\ v = w
<1>1. /\ v \in Seq(Chars \ {Stx}) /\ w \in Seq(Chars \ {Stx})
      /\ Len(v) \in Nat /\ Len(w) \in Nat
  BY DEF Unclosed
<1>2. p[1] = k /\ p[Len(v) + 3] = Stx /\ \A i \in 1..Len(v) : p[2 + i] = v[i]
  BY DEF Spells
<1>3. p[1] = l /\ p[Len(w) + 3] = Stx /\ \A i \in 1..Len(w) : p[2 + i] = w[i]
  BY DEF Spells
<1>4. ~(Len(v) < Len(w))
  <2> SUFFICES ASSUME Len(v) < Len(w) PROVE FALSE
    OBVIOUS
  <2>1. Len(v) + 1 \in 1..Len(w) /\ 2 + (Len(v) + 1) = Len(v) + 3
    BY <1>1
  <2>2. p[Len(v) + 3] = w[Len(v) + 1] /\ w[Len(v) + 1] # Stx
    BY <1>1, <1>3, <2>1
  <2> QED BY <1>2, <2>2
<1>5. ~(Len(w) < Len(v))
  <2> SUFFICES ASSUME Len(w) < Len(v) PROVE FALSE
    OBVIOUS
  <2>1. Len(w) + 1 \in 1..Len(v) /\ 2 + (Len(w) + 1) = Len(w) + 3
    BY <1>1
  <2>2. p[Len(w) + 3] = v[Len(w) + 1] /\ v[Len(w) + 1] # Stx
    BY <1>1, <1>2, <2>1
  <2> QED BY <1>3, <2>2
<1>6. Len(v) = Len(w)
  BY <1>1, <1>4, <1>5
<1>7. \A i \in 1..Len(v) : v[i] = w[i]
  BY <1>2, <1>3, <1>6
<1>8. v = w
  BY <1>1, <1>6, <1>7, SeqEqual
<1> QED BY <1>2, <1>3, <1>8

\* What series_key writes of labels with such values, and of a label set.
KeyWordsIn == {KeyWord(k, v) : k \in Chars, v \in Unclosed}
KeyWords(labels) == [i \in DOMAIN KeysOf(labels) |->
                       KeyWord(KeysOf(labels)[i], labels[KeysOf(labels)[i]])]

\* The words are texts, none starts another, and all have characters.
LEMMA KeyWordsPrefixFree ==
  /\ KeyWordsIn \in SUBSET Seq(Chars)
  /\ PrefixFree(KeyWordsIn, Chars) /\ Ends({<<>>}, KeyWordsIn, Chars)
<1>1. ASSUME NEW u \in KeyWordsIn
      PROVE  \E k \in Chars, v \in Unclosed : u = KeyWord(k, v)
  BY DEF KeyWordsIn
<1>2. ASSUME NEW u \in KeyWordsIn PROVE u \in Seq(Chars) /\ Len(u) # 0 /\ Len(u) \in Nat
  <2>1. PICK k \in Chars, v \in Unclosed : u = KeyWord(k, v)
    BY <1>1
  <2>2. v \in Seq(Chars) /\ <<>> \in Seq(Chars)
    BY UnclosedTexts
  <2>3. KeyWord(k, v) \in Seq(Chars) /\ Len(KeyWord(k, v)) = Len(v) + 3
    BY <2>2, KeyWordParts, Zenon
  <2> QED BY <2>1, <2>2, <2>3
<1>3. ASSUME NEW u \in KeyWordsIn, NEW z \in KeyWordsIn,
             NEW x \in Seq(Chars), NEW y \in Seq(Chars), u \o x = z \o y
      PROVE  u = z
  <2>1. PICK k \in Chars, v \in Unclosed : u = KeyWord(k, v)
    BY <1>1
  <2>2. PICK l \in Chars, w \in Unclosed : z = KeyWord(l, w)
    BY <1>1
  <2>3. Spells(u \o x, k, v)
    BY <2>1, UnclosedTexts, KeyWordParts, Zenon
  <2>4. Spells(z \o y, l, w)
    BY <2>2, UnclosedTexts, KeyWordParts, Zenon
  <2>5. Spells(u \o x, l, w)
    BY <1>3, <2>4, Zenon
  <2>6. k = l /\ v = w
    BY <2>3, <2>5, SpellsOne, Zenon
  <2> QED BY <2>1, <2>2, <2>6
<1>4. ASSUME NEW u \in KeyWordsIn, NEW x \in Seq(Chars) PROVE u \o x # <<>>
  <2>1. Joins(u \o x, u, x, Chars)
    BY <1>2, JoinParts, Zenon
  <2>2. Len(u \o x) = Len(u) + Len(x) /\ Len(x) \in Nat
    BY <2>1 DEF Joins
  <2>3. Len(u \o x) # 0
    BY <1>2, <2>2
  <2> QED BY <2>3, EmptySeq
<1>5. PrefixFree(KeyWordsIn, Chars)
  BY <1>3, Zenon DEF PrefixFree
<1>6. Ends({<<>>}, KeyWordsIn, Chars)
  BY <1>4, Zenon DEF Ends
<1> QED BY <1>2, <1>5, <1>6

\* The key of a label set is its words, one after the other.
LEMMA KeyOfWords ==
  ASSUME NEW labels \in Labels, TextsIn(labels, Chars \ {Stx})
  PROVE  /\ KeyWords(labels) \in Seq(KeyWordsIn)
         /\ Len(KeyWords(labels)) = Len(KeysOf(labels))
         /\ SeriesKey(labels) = After(KeyWords(labels), <<>>)
         /\ \A i \in DOMAIN KeysOf(labels) :
              KeysOf(labels)[i] \in Chars /\ labels[KeysOf(labels)[i]] \in Unclosed
<1>1. labels \in [DOMAIN labels -> Seq(Chars)]
  BY LabelAssumption
<1>2. \A k \in DOMAIN labels : labels[k] \in Unclosed
  <2> SUFFICES ASSUME NEW k \in DOMAIN labels PROVE labels[k] \in Unclosed
    OBVIOUS
  <2>1. labels[k] \in Seq(Chars)
    BY <1>1
  <2>2. \A i \in 1..Len(labels[k]) : labels[k][i] \in Chars \ {Stx}
    BY <2>1 DEF TextsIn
  <2> QED BY <2>1, <2>2 DEF Unclosed
<1>3. \A i \in DOMAIN KeysOf(labels) :
        KeysOf(labels)[i] \in Chars /\ labels[KeysOf(labels)[i]] \in Unclosed
  BY <1>2, KeysOfLabels
<1>4. KeyWords(labels) \in Seq(KeyWordsIn) /\ Len(KeyWords(labels)) = Len(KeysOf(labels))
  <2>1. KeysOf(labels) \in Seq(Chars)
    BY KeysOfLabels
  <2>2. \A i \in DOMAIN KeysOf(labels) :
          KeyWord(KeysOf(labels)[i], labels[KeysOf(labels)[i]]) \in KeyWordsIn
    BY <1>3 DEF KeyWordsIn
  <2> QED BY <2>1, <2>2 DEF KeyWords
<1>5. SeriesKey(labels) = FlattenSeq(KeyWords(labels))
  BY Zenon DEF SeriesKey, KeyWords, KeyWord, Soh, Stx
<1>6. KeyWords(labels) \in Seq(Seq(Chars))
  BY <1>4, KeyWordsPrefixFree
<1>7. FlattenSeq(KeyWords(labels)) \in Seq(Chars)
  BY <1>6, FlattenType
<1>8. After(KeyWords(labels), <<>>) = FlattenSeq(KeyWords(labels))
  BY <1>7, ConcatEmptySeq DEF After
<1> QED BY <1>3, <1>4, <1>5, <1>8

\* Different label sets have different keys if no text has the character that
\* closes a value in a key.
LEMMA SeriesKeyInjective ==
  ASSUME NEW a \in Labels, NEW b \in Labels, TextsIn(a, Chars \ {Stx}),
         TextsIn(b, Chars \ {Stx}), SeriesKey(a) = SeriesKey(b)
  PROVE  a = b
<1>1. KeyWords(a) = KeyWords(b)
  <2> DEFINE W == KeyWordsIn
             none == <<>>
             R == {none}
             A == KeyWords(a)
             B == KeyWords(b)
  <2>1. R \in SUBSET Seq(Chars) /\ none \in R
    OBVIOUS
  <2>2. A \in Seq(W) /\ B \in Seq(W) /\ After(A, none) = After(B, none)
    BY KeyOfWords, Zenon
  <2>3. W \in SUBSET Seq(Chars) /\ PrefixFree(W, Chars) /\ Ends(R, W, Chars)
    BY KeyWordsPrefixFree
  <2> HIDE DEF W, none, R, A, B
  <2>4. ReadBack(A, W, R)
    BY <2>1, <2>2, <2>3, FlattenInjective, Zenon
  <2>5. A = B
    BY <2>1, <2>2, <2>4, Zenon DEF ReadBack
  <2> QED BY <2>5 DEF A, B
<1>2. /\ KeysOf(a) \in Seq(Chars) /\ KeysOf(b) \in Seq(Chars)
      /\ Len(KeysOf(a)) = Len(KeysOf(b))
  <2>1. KeysOf(a) \in Seq(Chars) /\ KeysOf(b) \in Seq(Chars)
    BY KeysOfLabels, Zenon
  <2>2. Len(KeyWords(a)) = Len(KeysOf(a)) /\ Len(KeyWords(b)) = Len(KeysOf(b))
    BY KeyOfWords, Zenon
  <2> QED BY <1>1, <2>1, <2>2
<1>3. ASSUME NEW i \in DOMAIN KeysOf(a)
      PROVE  KeysOf(a)[i] = KeysOf(b)[i] /\ a[KeysOf(a)[i]] = b[KeysOf(b)[i]]
  <2>1. i \in DOMAIN KeysOf(b)
    BY <1>2
  <2> DEFINE k == KeysOf(a)[i]
             l == KeysOf(b)[i]
             v == a[k]
             w == b[l]
  <2>2. KeyWord(k, v) = KeyWord(l, w)
    <3>1. KeyWords(a)[i] = KeyWord(k, v) /\ KeyWords(b)[i] = KeyWord(l, w)
      BY <2>1, Zenon DEF KeyWords
    <3> QED BY <1>1, <3>1, Zenon
  <2>3. k \in Chars /\ l \in Chars /\ v \in Unclosed /\ w \in Unclosed
    BY <2>1, KeyOfWords, Zenon
  <2> HIDE DEF k, l, v, w
  <2>4. /\ Spells(KeyWord(k, v) \o <<>>, k, v) /\ Spells(KeyWord(l, w) \o <<>>, l, w)
    BY <2>3, UnclosedTexts, EmptySeq, KeyWordParts, Zenon
  <2>5. k = l /\ v = w
    <3>1. Spells(KeyWord(k, v) \o <<>>, l, w)
      BY <2>2, <2>4, Zenon
    <3> QED BY <2>3, <2>4, <3>1, SpellsOne, Zenon
  <2> QED BY <2>5 DEF k, l, v, w
<1>4. KeysOf(a) = KeysOf(b)
  <2>1. DOMAIN KeysOf(a) = 1..Len(KeysOf(a))
    BY <1>2
  <2> QED BY <1>2, <1>3, <2>1, SeqEqual
<1> QED BY <1>3, <1>4, LabelsEqual

-----------------------------------------------------------------------------
(* What a sample line shows, and that it can be read back.                 *)

\* What an escape is recognised by.
Marks(p, c) ==
  IF c = Backslash THEN p[1] = Backslash /\ p[2] = Backslash
  ELSE IF c = Quote THEN p[1] = Backslash /\ p[2] = Quote
  ELSE IF c = Newline THEN p[1] = Backslash /\ p[2] = En
  ELSE p[1] = c

\* An escape is a text, and that of a printable character has one or two.
LEMMA EscapeType ==
  ASSUME NEW c \in Chars
  PROVE  /\ EscapeChar(c) \in Seq(Chars)
         /\ c \notin Controls => Len(EscapeChar(c)) \in {1, 2} /\ Marks(EscapeChar(c), c)
<1>1. /\ Quote \in Chars /\ Backslash \in Chars /\ En \in Chars
      /\ Quote # Backslash /\ Quote # Newline /\ Backslash # Newline
  BY Signs, SignsDiffer
<1>2. /\ \A x \in Chars : <<x>> \in Seq(Chars) /\ Len(<<x>>) = 1 /\ <<x>>[1] = x
      /\ \A x, y \in Chars : /\ <<x, y>> \in Seq(Chars) /\ Len(<<x, y>>) = 2
                             /\ <<x, y>>[1] = x /\ <<x, y>>[2] = y
      /\ <<>> \in Seq(Chars)
  OBVIOUS
<1>3. EscapeChar(c) = CASE c = Backslash -> <<Backslash, Backslash>>
                        [] c = Quote -> <<Backslash, Quote>>
                        [] c = Newline -> <<Backslash, En>>
                        [] c \in Controls -> <<>>
                        [] OTHER -> <<c>>
  BY Zenon DEF EscapeChar, En
<1>4. EscapeChar(c) \in Seq(Chars)
  BY <1>1, <1>2, <1>3
<1>5. ASSUME c \notin Controls
      PROVE  Len(EscapeChar(c)) \in {1, 2} /\ Marks(EscapeChar(c), c)
  BY <1>1, <1>2, <1>3, <1>5 DEF Marks
<1> QED BY <1>4, <1>5

\* Two characters have different escapes, and none is closed by a quote.
LEMMA MarksOne ==
  ASSUME NEW p, NEW c, NEW d, Marks(p, c), Marks(p, d)
  PROVE  c = d /\ p[1] # Quote
BY SignsDiffer DEF Marks

\* The printable characters, the escapes of such a text, one by one, and the
\* text between its quotes with what follows.
Printable == Seq(Chars \ Controls)
EscapesIn == {EscapeChar(c) : c \in Chars \ Controls}
Escapes(v) == [i \in DOMAIN v |-> EscapeChar(v[i])]
Closed == {<<Quote>> \o x : x \in Seq(Chars)}
Quoted(v, x) == After(Escapes(v), <<Quote>> \o x)

\* An escape with something behind it is recognised by the same characters.
LEMMA MarksBefore ==
  ASSUME NEW c \in Chars \ Controls, NEW x \in Seq(Chars)
  PROVE  Marks(EscapeChar(c) \o x, c)
<1> DEFINE u == EscapeChar(c)
           p == u \o x
<1>1. u \in Seq(Chars) /\ Len(u) \in {1, 2} /\ Marks(u, c)
  BY EscapeType
<1>2. (c = Backslash \/ c = Quote \/ c = Newline) => Len(u) = 2
  BY SignsDiffer DEF EscapeChar
<1> HIDE DEF u
<1>3. Joins(p, u, x, Chars)
  BY <1>1, JoinParts, Zenon
<1>4. \A i \in 1..Len(u) : p[i] = u[i]
  BY <1>3 DEF Joins
<1>5. p[1] = u[1] /\ (Len(u) = 2 => p[2] = u[2])
  BY <1>1, <1>4
<1>6. Marks(p, c)
  BY <1>1, <1>2, <1>5 DEF Marks
<1> QED BY <1>6 DEF p, u

\* The escapes are texts, none starts another, and none starts with a quote.
LEMMA EscapesPrefixFree ==
  /\ EscapesIn \in SUBSET Seq(Chars) /\ Closed \in SUBSET Seq(Chars)
  /\ PrefixFree(EscapesIn, Chars) /\ Ends(Closed, EscapesIn, Chars)
<1>1. ASSUME NEW u \in EscapesIn PROVE \E c \in Chars \ Controls : u = EscapeChar(c)
  BY DEF EscapesIn
<1>2. ASSUME NEW u \in EscapesIn PROVE u \in Seq(Chars)
  BY <1>1, EscapeType
<1>3. ASSUME NEW r \in Closed PROVE r \in Seq(Chars) /\ r[1] = Quote
  <2> DEFINE q == <<Quote>>
  <2>1. PICK x \in Seq(Chars) : r = q \o x
    BY DEF Closed
  <2>2. q \in Seq(Chars) /\ Len(q) = 1 /\ q[1] = Quote
    BY Signs
  <2> HIDE DEF q
  <2>3. Joins(r, q, x, Chars)
    BY <2>1, <2>2, JoinParts, Zenon
  <2> QED BY <2>2, <2>3 DEF Joins
<1>4. ASSUME NEW u \in EscapesIn, NEW z \in EscapesIn,
             NEW x \in Seq(Chars), NEW y \in Seq(Chars), u \o x = z \o y
      PROVE  u = z
  <2>1. PICK c \in Chars \ Controls : u = EscapeChar(c)
    BY <1>1
  <2>2. PICK d \in Chars \ Controls : z = EscapeChar(d)
    BY <1>1
  <2>3. Marks(u \o x, c)
    BY <2>1, MarksBefore, Zenon
  <2>4. Marks(u \o x, d)
    BY <1>4, <2>2, MarksBefore, Zenon
  <2>5. c = d
    BY <2>3, <2>4, MarksOne, Zenon
  <2> QED BY <2>1, <2>2, <2>5
<1>5. ASSUME NEW r \in Closed, NEW u \in EscapesIn, NEW x \in Seq(Chars) PROVE u \o x # r
  <2>1. PICK c \in Chars \ Controls : u = EscapeChar(c)
    BY <1>1
  <2>2. Marks(u \o x, c)
    BY <2>1, MarksBefore, Zenon
  <2>3. (u \o x)[1] # Quote
    BY <2>2, MarksOne, Zenon
  <2> QED BY <1>3, <2>3
<1>6. PrefixFree(EscapesIn, Chars)
  BY <1>4, Zenon DEF PrefixFree
<1>7. Ends(Closed, EscapesIn, Chars)
  BY <1>5, Zenon DEF Ends
<1> QED BY <1>2, <1>3, <1>6, <1>7

\* A text in quotes is read back, whatever follows it.
LEMMA QuotedRead ==
  ASSUME NEW v \in Printable, NEW w \in Printable, NEW x \in Seq(Chars), NEW y \in Seq(Chars),
         Quoted(v, x) = Quoted(w, y)
  PROVE  v = w
<1> DEFINE A == Escapes(v)
           B == Escapes(w)
           r == <<Quote>> \o x
           q == <<Quote>> \o y
<1>1. /\ v \in Seq(Chars \ Controls) /\ w \in Seq(Chars \ Controls)
      /\ DOMAIN v = 1..Len(v) /\ DOMAIN w = 1..Len(w)
      /\ Len(v) \in Nat /\ Len(w) \in Nat
  BY DEF Printable
<1>2. /\ A \in Seq(EscapesIn) /\ B \in Seq(EscapesIn)
      /\ Len(A) = Len(v) /\ Len(B) = Len(w)
  <2>1. \A c \in Chars \ Controls : EscapeChar(c) \in EscapesIn
    BY Zenon DEF EscapesIn
  <2> QED BY <1>1, <2>1 DEF Escapes
<1>3. r \in Closed /\ q \in Closed
  BY Zenon DEF Closed
<1>4. After(A, r) = After(B, q)
  BY DEF Quoted
<1>5. ReadBack(A, EscapesIn, Closed)
  <2> HIDE DEF A
  <2> QED BY <1>2, EscapesPrefixFree, FlattenInjective, Zenon
<1>6. A = B
  <2> HIDE DEF A, B, r, q
  <2> QED BY <1>2, <1>3, <1>4, <1>5, Zenon DEF ReadBack
<1>7. Len(v) = Len(w)
  BY <1>2, <1>6
<1>8. ASSUME NEW i \in 1..Len(v) PROVE v[i] = w[i]
  <2>1. v[i] \in Chars \ Controls /\ w[i] \in Chars \ Controls
    BY <1>1, <1>7
  <2>2. EscapeChar(v[i]) = EscapeChar(w[i])
    <3>1. i \in DOMAIN v /\ i \in DOMAIN w
      BY <1>1, <1>7
    <3>2. A[i] = EscapeChar(v[i]) /\ B[i] = EscapeChar(w[i])
      BY <3>1, Zenon DEF Escapes
    <3> QED BY <1>6, <3>2, Zenon
  <2>3. Marks(EscapeChar(v[i]), v[i]) /\ Marks(EscapeChar(w[i]), w[i])
    BY <2>1, EscapeType
  <2>4. Marks(EscapeChar(v[i]), w[i])
    BY <2>2, <2>3, Zenon
  <2> QED BY <2>3, <2>4, MarksOne, Zenon
<1> QED BY <1>1, <1>7, <1>8, SeqEqual

\* A label of a sample line, the texts that start with one, and the lines' words:
\* every label but the first has a comma in front.
Pair(k, v) == <<k, Equals, Quote>> \o Escape(v) \o <<Quote>>
Shows(p, k, v) == \E x \in Seq(Chars) : p = <<k, Equals, Quote>> \o Quoted(v, x)
PairsIn == {Pair(k, v) : k \in Chars, v \in Printable}
WordsIn == PairsIn \cup {<<Comma>> \o u : u \in PairsIn}

\* An escaped text is a text, and so is one between quotes.
LEMMA QuotedType ==
  ASSUME NEW v \in Seq(Chars)
  PROVE  /\ Escape(v) \in Seq(Chars) /\ Escape(v) = FlattenSeq(Escapes(v))
         /\ \A x \in Seq(Chars) : Quoted(v, x) \in Seq(Chars)
<1> DEFINE A == Escapes(v)
           q == <<Quote>>
<1>1. A \in Seq(Seq(Chars))
  <2>1. \A c \in Chars : EscapeChar(c) \in Seq(Chars)
    BY EscapeType
  <2>2. v \in [1..Len(v) -> Chars] /\ Len(v) \in Nat /\ DOMAIN v = 1..Len(v)
    OBVIOUS
  <2>3. A \in [1..Len(v) -> Seq(Chars)]
    BY <2>1, <2>2 DEF Escapes
  <2> HIDE DEF A
  <2> QED BY <2>2, <2>3
<1>2. FlattenSeq(A) \in Seq(Chars) /\ q \in Seq(Chars)
  BY <1>1, FlattenType, Signs
<1>3. Escape(v) = FlattenSeq(A)
  BY Zenon DEF Escape, Escapes
<1> HIDE DEF q
<1>4. ASSUME NEW x \in Seq(Chars) PROVE FlattenSeq(A) \o (q \o x) \in Seq(Chars)
  <2>1. q \o x \in Seq(Chars)
    BY <1>2, ConcatProperties
  <2> HIDE DEF A
  <2> QED BY <1>2, <2>1, ConcatProperties
<1>5. \A x \in Seq(Chars) : Quoted(v, x) \in Seq(Chars)
  <2> HIDE DEF A
  <2> QED BY <1>4, Zenon DEF Quoted, After, A, q
<1> QED BY <1>2, <1>3, <1>5

\* A text that starts with a label shows it, and starts with its name, an equals
\* sign and a quote.
LEMMA PairShows ==
  ASSUME NEW k \in Chars, NEW v \in Seq(Chars), NEW x \in Seq(Chars)
  PROVE  /\ Pair(k, v) \in Seq(Chars) /\ Len(Pair(k, v)) # 0
         /\ Shows(Pair(k, v) \o x, k, v)
         /\ (Pair(k, v) \o x)[2] = Equals /\ (Pair(k, v) \o x)[3] = Quote
         /\ 2 \in 1..Len(Pair(k, v) \o x)
<1> DEFINE h == <<k, Equals, Quote>>
           e == Escape(v)
           q == <<Quote>>
           he == h \o e
           u == he \o q
           t == q \o x
           s == e \o t
           p == h \o s
<1>1. /\ h \in Seq(Chars) /\ Len(h) = 3 /\ h[2] = Equals /\ h[3] = Quote
      /\ e \in Seq(Chars) /\ q \in Seq(Chars) /\ Len(q) = 1
  BY Signs, QuotedType
<1>2. s = Quoted(v, x)
  BY QuotedType, Zenon DEF Quoted, After
<1> HIDE DEF h, e, q
<1>3. he \in Seq(Chars) /\ t \in Seq(Chars)
  BY <1>1, ConcatProperties
<1>4. Associates(h, e, t) /\ Associates(he, q, x)
  BY <1>1, <1>3, JoinAssociative, Zenon
<1>5. u \o x = p
  <2>1. u \o x = he \o t
    BY <1>4, Zenon DEF Associates
  <2>2. he \o t = p
    BY <1>4, Zenon DEF Associates
  <2> QED BY <2>1, <2>2, Zenon
<1>6. u \in Seq(Chars) /\ Len(u) # 0
  <2> HIDE DEF he
  <2>1. Joins(u, he, q, Chars)
    BY <1>1, <1>3, JoinParts, Zenon
  <2>2. u \in Seq(Chars) /\ Len(u) = Len(he) + Len(q) /\ Len(he) \in Nat
    BY <1>3, <2>1 DEF Joins
  <2> QED BY <1>1, <2>2
<1>7. s \in Seq(Chars)
  BY <1>1, <1>3, ConcatProperties
<1>8. p[2] = Equals /\ p[3] = Quote /\ 2 \in 1..Len(p)
  <2> HIDE DEF s
  <2>1. Joins(p, h, s, Chars)
    BY <1>1, <1>7, JoinParts, Zenon
  <2>2. Len(s) \in Nat
    BY <1>7
  <2> QED BY <1>1, <2>1, <2>2 DEF Joins
<1>9. Shows(p, k, v)
  <2> HIDE DEF s
  <2> QED BY <1>2, Zenon DEF Shows, p, h
<1> HIDE DEF p
<1>10. u = Pair(k, v)
  BY Zenon DEF Pair, u, he, h, e, q
<1> QED BY <1>5, <1>6, <1>8, <1>9, <1>10, Zenon

\* A text shows one label of printable characters.
LEMMA ShowsOne ==
  ASSUME NEW p, NEW k \in Chars, NEW l \in Chars, NEW v \in Printable, NEW w \in Printable,
         Shows(p, k, v), Shows(p, l, w)
  PROVE  k = l /\ v = w
<1> DEFINE h == <<k, Equals, Quote>>
           g == <<l, Equals, Quote>>
<1>1. v \in Seq(Chars) /\ w \in Seq(Chars)
  BY DEF Printable
<1>2. PICK x \in Seq(Chars) : p = h \o Quoted(v, x)
  BY Zenon DEF Shows
<1>3. PICK y \in Seq(Chars) : p = g \o Quoted(w, y)
  BY Zenon DEF Shows
<1> DEFINE s == Quoted(v, x)
           t == Quoted(w, y)
<1>4. s \in Seq(Chars) /\ t \in Seq(Chars)
  BY <1>1, QuotedType
<1>5. /\ h \in Seq(Chars) /\ g \in Seq(Chars) /\ Len(h) = 3 /\ Len(g) = 3
      /\ h[1] = k /\ g[1] = l
  BY Signs
<1> HIDE DEF h, g, s, t
<1>6. Joins(p, h, s, Chars) /\ Joins(p, g, t, Chars)
  BY <1>2, <1>3, <1>4, <1>5, JoinParts, Zenon DEF s, t
<1>7. k = l
  BY <1>5, <1>6 DEF Joins
<1>8. h = g
  BY <1>7, Zenon DEF h, g
<1>9. h \o s = h \o t
  BY <1>2, <1>3, <1>8, Zenon DEF s, t
<1>10. s = t
  BY <1>4, <1>5, <1>9, ConcatSimplifications
<1>11. v = w
  BY <1>10, QuotedRead, Zenon DEF s, t
<1> QED BY <1>7, <1>11

\* A comma in front is removed.
LEMMA AfterComma ==
  ASSUME NEW u \in Seq(Chars), NEW x \in Seq(Chars)
  PROVE  /\ <<Comma>> \o u \in Seq(Chars) /\ Len(<<Comma>> \o u) # 0
         /\ Associates(<<Comma>>, u, x) /\ u \o x \in Seq(Chars)
         /\ \A y \in Seq(Chars) : <<Comma>> \o x = <<Comma>> \o y => x = y
         /\ 2 \in 1..Len(x) => (<<Comma>> \o x)[3] = x[2]
<1> DEFINE c == <<Comma>>
<1>1. c \in Seq(Chars) /\ Len(c) = 1 /\ Len(u) \in Nat /\ Len(x) \in Nat
  BY Signs
<1> HIDE DEF c
<1>2. Joins(c \o u, c, u, Chars) /\ Joins(c \o x, c, x, Chars) /\ Joins(u \o x, u, x, Chars)
  BY <1>1, JoinParts, Zenon
<1>3. c \o u \in Seq(Chars) /\ Len(c \o u) # 0 /\ u \o x \in Seq(Chars)
  BY <1>1, <1>2 DEF Joins
<1>4. 2 \in 1..Len(x) => (c \o x)[3] = x[2]
  BY <1>1, <1>2 DEF Joins
<1>5. Associates(c, u, x)
  BY <1>1, JoinAssociative, Zenon
<1>6. \A y \in Seq(Chars) : c \o x = c \o y => x = y
  BY <1>1, ConcatSimplifications
<1> QED BY <1>3, <1>4, <1>5, <1>6, Zenon DEF c

\* A label without a comma shows itself; behind a comma the sign comes third.
LEMMA WordCases ==
  ASSUME NEW u \in WordsIn, NEW x \in Seq(Chars)
  PROVE  /\ u \in Seq(Chars) /\ Len(u) # 0
         /\ \E k \in Chars, v \in Printable :
              \/ u = Pair(k, v) /\ Shows(u \o x, k, v) /\ (u \o x)[3] = Quote
              \/ /\ u = <<Comma>> \o Pair(k, v)
                 /\ \E s \in Seq(Chars) : u \o x = <<Comma>> \o s /\ Shows(s, k, v)
                 /\ (u \o x)[3] = Equals
<1>1. ASSUME NEW w \in PairsIn PROVE \E k \in Chars, v \in Printable : w = Pair(k, v)
  BY DEF PairsIn
<1>2. \A v \in Printable : v \in Seq(Chars)
  BY DEF Printable
<1>3. CASE u \in PairsIn
  <2>1. PICK k \in Chars, v \in Printable : u = Pair(k, v)
    BY <1>1, <1>3
  <2>2. v \in Seq(Chars)
    BY <1>2
  <2>3. /\ u \in Seq(Chars) /\ Len(u) # 0
        /\ Shows(u \o x, k, v) /\ (u \o x)[3] = Quote
    BY <2>1, <2>2, PairShows, Zenon
  <2> QED BY <2>1, <2>3, Zenon
<1>4. CASE u \notin PairsIn
  <2>1. PICK w \in PairsIn : u = <<Comma>> \o w
    BY <1>4 DEF WordsIn
  <2>2. PICK k \in Chars, v \in Printable : w = Pair(k, v)
    BY <1>1
  <2>3. v \in Seq(Chars)
    BY <1>2
  <2> DEFINE s == w \o x
  <2>4. /\ w \in Seq(Chars) /\ Shows(s, k, v) /\ s[2] = Equals /\ 2 \in 1..Len(s)
    BY <2>2, <2>3, PairShows, Zenon
  <2>5. /\ u \in Seq(Chars) /\ Len(u) # 0
        /\ Associates(<<Comma>>, w, x) /\ s \in Seq(Chars)
    BY <2>1, <2>4, AfterComma, Zenon
  <2>6. u \o x = <<Comma>> \o s
    BY <2>1, <2>5, Zenon DEF Associates
  <2>7. (<<Comma>> \o s)[3] = s[2]
    <3> HIDE DEF s
    <3> QED BY <2>4, <2>5, AfterComma, Zenon
  <2>8. (u \o x)[3] = Equals
    BY <2>4, <2>6, <2>7
  <2> HIDE DEF s
  <2> QED BY <2>1, <2>2, <2>4, <2>5, <2>6, <2>8, Zenon
<1> QED BY <1>3, <1>4

\* The words of a sample line are texts, none starts another, and all have
\* characters.
LEMMA WordsPrefixFree ==
  /\ WordsIn \in SUBSET Seq(Chars)
  /\ PrefixFree(WordsIn, Chars) /\ Ends({<<>>}, WordsIn, Chars)
<1>1. ASSUME NEW u \in WordsIn PROVE u \in Seq(Chars) /\ Len(u) # 0 /\ Len(u) \in Nat
  <2>1. <<>> \in Seq(Chars)
    OBVIOUS
  <2>2. u \in Seq(Chars) /\ Len(u) # 0
    BY <2>1, WordCases, Zenon
  <2> QED BY <2>2
<1>2. ASSUME NEW u \in WordsIn, NEW z \in WordsIn,
             NEW x \in Seq(Chars), NEW y \in Seq(Chars), u \o x = z \o y
      PROVE  u = z
  <2>1. PICK k \in Chars, v \in Printable :
          \/ u = Pair(k, v) /\ Shows(u \o x, k, v) /\ (u \o x)[3] = Quote
          \/ /\ u = <<Comma>> \o Pair(k, v)
             /\ \E s \in Seq(Chars) : u \o x = <<Comma>> \o s /\ Shows(s, k, v)
             /\ (u \o x)[3] = Equals
    BY WordCases, Zenon
  <2>2. PICK l \in Chars, w \in Printable :
          \/ z = Pair(l, w) /\ Shows(z \o y, l, w) /\ (z \o y)[3] = Quote
          \/ /\ z = <<Comma>> \o Pair(l, w)
             /\ \E s \in Seq(Chars) : z \o y = <<Comma>> \o s /\ Shows(s, l, w)
             /\ (z \o y)[3] = Equals
    BY WordCases, Zenon
  <2>3. CASE (u \o x)[3] = Quote
    <3>1. u = Pair(k, v) /\ Shows(u \o x, k, v)
      BY <2>1, <2>3, SignsDiffer, Zenon
    <3>2. z = Pair(l, w) /\ Shows(u \o x, l, w)
      BY <1>2, <2>2, <2>3, SignsDiffer, Zenon
    <3>3. k = l /\ v = w
      BY <3>1, <3>2, ShowsOne, Zenon
    <3> QED BY <3>1, <3>2, <3>3, Zenon
  <2>4. CASE (u \o x)[3] # Quote
    <3>1. /\ u = <<Comma>> \o Pair(k, v)
          /\ \E s \in Seq(Chars) : u \o x = <<Comma>> \o s /\ Shows(s, k, v)
      BY <2>1, <2>4, Zenon
    <3>2. /\ z = <<Comma>> \o Pair(l, w)
          /\ \E s \in Seq(Chars) : u \o x = <<Comma>> \o s /\ Shows(s, l, w)
      BY <1>2, <2>2, <2>4, Zenon
    <3>3. PICK s \in Seq(Chars) : u \o x = <<Comma>> \o s /\ Shows(s, k, v)
      BY <3>1
    <3>4. PICK t \in Seq(Chars) : u \o x = <<Comma>> \o t /\ Shows(t, l, w)
      BY <3>2
    <3>5. <<Comma>> \o s = <<Comma>> \o t
      BY <3>3, <3>4, Zenon
    <3>6. s = t
      BY <3>3, <3>4, <3>5, AfterComma, Zenon
    <3>7. k = l /\ v = w
      BY <3>3, <3>4, <3>6, ShowsOne, Zenon
    <3> QED BY <3>1, <3>2, <3>7, Zenon
  <2> QED BY <2>3, <2>4
<1>3. ASSUME NEW u \in WordsIn, NEW x \in Seq(Chars) PROVE u \o x # <<>>
  <2>1. Joins(u \o x, u, x, Chars)
    BY <1>1, JoinParts, Zenon
  <2>2. Len(u \o x) = Len(u) + Len(x) /\ Len(x) \in Nat
    BY <2>1 DEF Joins
  <2>3. Len(u \o x) # 0
    BY <1>1, <2>2
  <2> QED BY <2>3, EmptySeq
<1>4. PrefixFree(WordsIn, Chars)
  BY <1>2, Zenon DEF PrefixFree
<1>5. Ends({<<>>}, WordsIn, Chars)
  BY <1>3, Zenon DEF Ends
<1> QED BY <1>1, <1>4, <1>5

\* Two labels are written alike, with a comma in front or without.
Alike(k, v, l, w) ==
  Pair(k, v) = Pair(l, w) \/ <<Comma>> \o Pair(k, v) = <<Comma>> \o Pair(l, w)

\* Such labels are the same.
LEMMA PairsDiffer ==
  ASSUME NEW k \in Chars, NEW l \in Chars, NEW v \in Printable, NEW w \in Printable,
         Alike(k, v, l, w)
  PROVE  k = l /\ v = w
<1>1. v \in Seq(Chars) /\ w \in Seq(Chars) /\ <<>> \in Seq(Chars)
  BY DEF Printable
<1>2. /\ Pair(k, v) \in Seq(Chars) /\ Pair(l, w) \in Seq(Chars)
      /\ Shows(Pair(k, v) \o <<>>, k, v) /\ Shows(Pair(l, w) \o <<>>, l, w)
  BY <1>1, PairShows, Zenon
<1>3. Pair(k, v) = Pair(l, w)
  BY <1>2, AfterComma, Zenon DEF Alike
<1>4. Shows(Pair(k, v) \o <<>>, l, w)
  BY <1>2, <1>3, Zenon
<1> QED BY <1>2, <1>4, ShowsOne, Zenon

\* What a sample line shows of a label set, label by label.
LineWords(labels) ==
  [i \in DOMAIN KeysOf(labels) |->
     IF i = 1 THEN Pair(KeysOf(labels)[i], labels[KeysOf(labels)[i]])
     ELSE <<Comma>> \o Pair(KeysOf(labels)[i], labels[KeysOf(labels)[i]])]

\* It is a text.
LEMMA RenderedType ==
  ASSUME NEW labels \in Labels
  PROVE  /\ Rendered(labels) \in Seq(Chars) /\ Rendered(labels) = FlattenSeq(LineWords(labels))
<1>1. labels \in [DOMAIN labels -> Seq(Chars)] /\ KeysOf(labels) \in Seq(Chars)
  BY LabelAssumption, KeysOfLabels
<1>2. ASSUME NEW i \in DOMAIN KeysOf(labels) PROVE LineWords(labels)[i] \in Seq(Chars)
  <2> DEFINE k == KeysOf(labels)[i]
             v == labels[k]
  <2>1. k \in Chars /\ k \in DOMAIN labels
    BY <1>1, KeysOfLabels
  <2>2. v \in Seq(Chars) /\ <<>> \in Seq(Chars)
    BY <1>1, <2>1
  <2>3. LineWords(labels)[i] = IF i = 1 THEN Pair(k, v) ELSE <<Comma>> \o Pair(k, v)
    BY Zenon DEF LineWords
  <2> HIDE DEF k, v
  <2>4. Pair(k, v) \in Seq(Chars)
    BY <2>1, <2>2, PairShows, Zenon
  <2>5. <<Comma>> \o Pair(k, v) \in Seq(Chars)
    BY <2>2, <2>4, AfterComma, Zenon
  <2> QED BY <2>3, <2>4, <2>5
<1>3. LineWords(labels) \in Seq(Seq(Chars))
  <2>1. Len(KeysOf(labels)) \in Nat /\ DOMAIN KeysOf(labels) = 1..Len(KeysOf(labels))
    BY <1>1
  <2>2. DOMAIN LineWords(labels) = DOMAIN KeysOf(labels)
    BY DEF LineWords
  <2>3. LineWords(labels) = [i \in DOMAIN LineWords(labels) |-> LineWords(labels)[i]]
    BY DEF LineWords
  <2>4. LineWords(labels) \in [1..Len(KeysOf(labels)) -> Seq(Chars)]
    BY <1>2, <2>1, <2>2, <2>3
  <2> QED BY <2>1, <2>4
<1>4. Rendered(labels) = FlattenSeq(LineWords(labels))
  BY Zenon DEF Rendered, LineWords, Pair, Comma, Equals
<1> QED BY <1>3, <1>4, FlattenType

\* The words of a label set of printable texts.
LEMMA LineOfWords ==
  ASSUME NEW labels \in Labels, TextsIn(labels, Chars \ Controls)
  PROVE  /\ LineWords(labels) \in Seq(WordsIn)
         /\ Len(LineWords(labels)) = Len(KeysOf(labels))
         /\ Rendered(labels) = After(LineWords(labels), <<>>)
         /\ \A i \in DOMAIN KeysOf(labels) :
              KeysOf(labels)[i] \in Chars /\ labels[KeysOf(labels)[i]] \in Printable
<1>1. labels \in [DOMAIN labels -> Seq(Chars)] /\ KeysOf(labels) \in Seq(Chars)
  BY LabelAssumption, KeysOfLabels
<1>2. \A k \in DOMAIN labels : labels[k] \in Printable
  <2> SUFFICES ASSUME NEW k \in DOMAIN labels PROVE labels[k] \in Printable
    OBVIOUS
  <2>1. labels[k] \in Seq(Chars)
    BY <1>1
  <2>2. \A i \in 1..Len(labels[k]) : labels[k][i] \in Chars \ Controls
    BY <2>1 DEF TextsIn
  <2> QED BY <2>1, <2>2 DEF Printable
<1>3. \A i \in DOMAIN KeysOf(labels) :
        KeysOf(labels)[i] \in Chars /\ labels[KeysOf(labels)[i]] \in Printable
  BY <1>2, KeysOfLabels
<1>4. LineWords(labels) \in Seq(WordsIn) /\ Len(LineWords(labels)) = Len(KeysOf(labels))
  <2>1. \A u \in PairsIn : u \in WordsIn /\ <<Comma>> \o u \in WordsIn
    BY Zenon DEF WordsIn
  <2>2. ASSUME NEW i \in DOMAIN KeysOf(labels) PROVE LineWords(labels)[i] \in WordsIn
    <3> DEFINE k == KeysOf(labels)[i]
               v == labels[k]
    <3>1. LineWords(labels)[i] = IF i = 1 THEN Pair(k, v) ELSE <<Comma>> \o Pair(k, v)
      BY Zenon DEF LineWords
    <3>2. k \in Chars /\ v \in Printable
      BY <1>3, Zenon
    <3> HIDE DEF k, v
    <3>3. Pair(k, v) \in PairsIn
      BY <3>2 DEF PairsIn
    <3> QED BY <2>1, <3>1, <3>3, Zenon
  <2>3. Len(KeysOf(labels)) \in Nat /\ DOMAIN KeysOf(labels) = 1..Len(KeysOf(labels))
    BY <1>1
  <2>4. /\ DOMAIN LineWords(labels) = DOMAIN KeysOf(labels)
        /\ LineWords(labels) = [i \in DOMAIN LineWords(labels) |-> LineWords(labels)[i]]
    BY DEF LineWords
  <2>5. LineWords(labels) \in [1..Len(KeysOf(labels)) -> WordsIn]
    BY <2>2, <2>3, <2>4
  <2> QED BY <2>3, <2>5
<1>5. Rendered(labels) \in Seq(Chars) /\ Rendered(labels) = FlattenSeq(LineWords(labels))
  BY RenderedType
<1>6. After(LineWords(labels), <<>>) = FlattenSeq(LineWords(labels))
  BY <1>5, ConcatEmptySeq DEF After
<1> QED BY <1>3, <1>4, <1>5, <1>6

\* Different label sets of printable texts are shown differently: the escapes
\* lose nothing, and no text can end its quotes or its label early.
LEMMA RenderedInjective ==
  ASSUME NEW a \in Labels, NEW b \in Labels, TextsIn(a, Chars \ Controls),
         TextsIn(b, Chars \ Controls), Rendered(a) = Rendered(b)
  PROVE  a = b
<1>1. LineWords(a) = LineWords(b)
  <2> DEFINE W == WordsIn
             none == <<>>
             R == {none}
             A == LineWords(a)
             B == LineWords(b)
  <2>1. R \in SUBSET Seq(Chars) /\ none \in R
    OBVIOUS
  <2>2. A \in Seq(W) /\ B \in Seq(W) /\ After(A, none) = After(B, none)
    BY LineOfWords, Zenon
  <2>3. W \in SUBSET Seq(Chars) /\ PrefixFree(W, Chars) /\ Ends(R, W, Chars)
    BY WordsPrefixFree
  <2> HIDE DEF W, none, R, A, B
  <2>4. ReadBack(A, W, R)
    BY <2>1, <2>2, <2>3, FlattenInjective, Zenon
  <2>5. A = B
    BY <2>1, <2>2, <2>4, Zenon DEF ReadBack
  <2> QED BY <2>5 DEF A, B
<1>2. /\ KeysOf(a) \in Seq(Chars) /\ KeysOf(b) \in Seq(Chars)
      /\ Len(KeysOf(a)) = Len(KeysOf(b))
  <2>1. KeysOf(a) \in Seq(Chars) /\ KeysOf(b) \in Seq(Chars)
    BY KeysOfLabels, Zenon
  <2>2. Len(LineWords(a)) = Len(KeysOf(a)) /\ Len(LineWords(b)) = Len(KeysOf(b))
    BY LineOfWords, Zenon
  <2> QED BY <1>1, <2>1, <2>2
<1>3. ASSUME NEW i \in DOMAIN KeysOf(a)
      PROVE  KeysOf(a)[i] = KeysOf(b)[i] /\ a[KeysOf(a)[i]] = b[KeysOf(b)[i]]
  <2>1. i \in DOMAIN KeysOf(b)
    BY <1>2
  <2> DEFINE k == KeysOf(a)[i]
             l == KeysOf(b)[i]
             v == a[k]
             w == b[l]
  <2>2. /\ LineWords(a)[i] = IF i = 1 THEN Pair(k, v) ELSE <<Comma>> \o Pair(k, v)
        /\ LineWords(b)[i] = IF i = 1 THEN Pair(l, w) ELSE <<Comma>> \o Pair(l, w)
    BY <2>1, Zenon DEF LineWords
  <2>3. k \in Chars /\ l \in Chars /\ v \in Printable /\ w \in Printable
    BY <2>1, LineOfWords, Zenon
  <2> HIDE DEF k, l, v, w
  <2>4. Alike(k, v, l, w)
    BY <1>1, <2>2, Zenon DEF Alike
  <2>5. k = l /\ v = w
    BY <2>3, <2>4, PairsDiffer, Zenon
  <2> QED BY <2>5 DEF k, l, v, w
<1>4. KeysOf(a) = KeysOf(b)
  <2>1. DOMAIN KeysOf(a) = 1..Len(KeysOf(a))
    BY <1>2
  <2> QED BY <1>2, <1>3, <2>1, SeqEqual
<1> QED BY <1>3, <1>4, LabelsEqual

-----------------------------------------------------------------------------
(* The body: where the header and the lines of every metric are.           *)

\* Under a name the samples are kept in the order in which they came.
Ordered == \A n \in Names : \A i, j \in DOMAIN groups[n] : i < j => groups[n][i] < groups[n][j]

\* The body is empty until it holds the blocks of all names.
Blocks == [i \in DOMAIN NameOrder |-> Block(NameOrder[i])]
Written == IF pc = "done" THEN body = FlattenSeq(Blocks) ELSE body = <<>>

BodyInv == samples \in Inputs /\ dups \subseteq Names /\ Ordered /\ Written

\* What the guard keeps under a name are first samples with that name.
LEMMA KeptFacts ==
  ASSUME Inv, NEW n \in Names
  PROVE  /\ groups[n] \in Seq(Nat)
         /\ \A k \in 1..Len(groups[n]) :
              /\ groups[n][k] \in Seen(n) /\ IsFirst(groups[n][k])
              /\ groups[n][k] \in DOMAIN samples /\ samples[groups[n][k]].name = n
              /\ samples[groups[n][k]].labels \in Labels
<1>1. groups[n] \in Seq(Nat)
  BY DEF Inv, Shape
<1>2. ASSUME NEW k \in 1..Len(groups[n])
      PROVE  groups[n][k] \in Seen(n) /\ IsFirst(groups[n][k])
  <2>1. k \in DOMAIN groups[n] /\ groups[n][k] \in Nat
    BY <1>1
  <2> QED BY <2>1 DEF Inv, FirstKept
<1>3. ASSUME NEW i \in Seen(n)
      PROVE  i \in DOMAIN samples /\ samples[i].name = n /\ samples[i].labels \in Labels
  <2>1. /\ samples \in Seq(Samples) /\ next \in 1..(Len(samples) + 1) /\ Len(samples) \in Nat
        /\ DOMAIN samples = 1..Len(samples)
    BY DEF Inv, Shape
  <2>2. i \in 1..(next - 1) /\ samples[i].name = n
    BY DEF Seen
  <2>3. i \in 1..Len(samples)
    BY <2>1, <2>2
  <2>4. samples[i] \in Samples
    BY <2>1, <2>3
  <2> QED BY <2>1, <2>2, <2>3, <2>4 DEF Samples
<1> QED BY <1>1, <1>2, <1>3

\* The names warned about are names.
LEMMA DuplicateNames == Inv => Duplicates \subseteq Names
<1> SUFFICES ASSUME Inv, NEW j \in DOMAIN samples PROVE samples[j].name \in Names
  BY DEF Duplicates
<1>1. samples[j] \in Samples
  BY DEF Inv, Shape
<1> QED BY <1>1 DEF Samples

\* A sample kept comes behind those kept before.
LEMMA InsertOrdered == ASSUME Inv, Ordered, Insert PROVE Ordered'
<1> DEFINE name == samples[next].name
           key == SeriesKey(samples[next].labels)
<1>1. /\ next <= Len(samples)
      /\ groups' = IF key \in seen[name] THEN groups
                   ELSE [groups EXCEPT ![name] = Append(@, next)]
  BY DEF Insert
<1>2. groups \in [Names -> Seq(Nat)] /\ next \in Nat
  BY DEF Inv, Shape
<1> SUFFICES ASSUME NEW n \in Names, NEW i \in DOMAIN groups'[n], NEW j \in DOMAIN groups'[n], i < j
             PROVE  groups'[n][i] < groups'[n][j]
  BY DEF Ordered
<1>3. CASE n # name \/ key \in seen[name]
  <2>1. groups'[n] = groups[n]
    BY <1>1, <1>2, <1>3
  <2> QED BY <2>1 DEF Ordered
<1>4. CASE n = name /\ key \notin seen[name]
  <2> DEFINE old == groups[n]
  <2>1. old \in Seq(Nat) /\ groups'[n] = Append(old, next)
    BY <1>1, <1>2, <1>4
  <2>2. \A k \in 1..Len(old) : old[k] \in Nat /\ old[k] < next
    <3>1. \A k \in 1..Len(old) : old[k] \in Seen(n)
      BY KeptFacts
    <3> QED BY <1>2, <3>1 DEF Seen
  <2>3. \A k, m \in 1..Len(old) : k < m => old[k] < old[m]
    BY <2>1 DEF Ordered
  <2> HIDE DEF old
  <2>4. /\ Len(old) \in Nat /\ DOMAIN Append(old, next) = 1..(Len(old) + 1)
        /\ \A k \in 1..Len(old) : Append(old, next)[k] = old[k]
        /\ Append(old, next)[Len(old) + 1] = next
    BY <1>2, <2>1
  <2>5. i \in 1..Len(old) /\ j \in 1..(Len(old) + 1)
    BY <2>1, <2>4
  <2>6. CASE j = Len(old) + 1
    BY <2>1, <2>2, <2>4, <2>5, <2>6
  <2>7. CASE j # Len(old) + 1
    <3>1. j \in 1..Len(old)
      BY <2>4, <2>5, <2>7
    <3> QED BY <2>1, <2>3, <2>4, <2>5, <3>1
  <2> QED BY <2>6, <2>7
<1> QED BY <1>3, <1>4

\* Every step of update_samples keeps the body's invariant.
LEMMA BodyStep == Inv /\ BodyInv /\ [Next]_vars => BodyInv'
<1> SUFFICES ASSUME Inv, BodyInv, [Next]_vars PROVE BodyInv'
  OBVIOUS
<1>1. CASE Check
  <2>1. dups' \subseteq Names
    BY <1>1, DuplicateNames DEF Check
  <2> QED BY <1>1, <2>1 DEF Check, BodyInv, Ordered, Written
<1>2. CASE Insert
  <2>1. Ordered'
    BY <1>2, InsertOrdered DEF BodyInv
  <2> QED BY <1>2, <2>1 DEF Insert, BodyInv, Written
<1>3. CASE Encode
  <2>1. Blocks' = Blocks
    BY <1>3 DEF Encode, Blocks, Block, Header, Line
  <2>2. pc' = "done" /\ body' = FlattenSeq(Blocks)
    BY <1>3, Zenon DEF Encode, Blocks
  <2>3. Written'
    BY <2>1, <2>2, Zenon DEF Written
  <2> QED BY <1>3, <2>3 DEF Encode, BodyInv, Ordered
<1>4. CASE UNCHANGED vars
  <2>1. Blocks' = Blocks
    BY <1>4 DEF vars, Blocks, Block, Header, Line
  <2>2. body' = body /\ pc' = pc
    BY <1>4 DEF vars
  <2>3. Written'
    BY <2>1, <2>2, Zenon DEF Written, BodyInv
  <2> QED BY <1>4, <2>3 DEF vars, BodyInv, Ordered
<1> QED BY <1>1, <1>2, <1>3, <1>4 DEF Next, Stored

\* Nothing is kept or written at first.
LEMMA InitBody == Init => BodyInv
<1> SUFFICES ASSUME Init PROVE BodyInv
  OBVIOUS
<1>1. \A n \in Names : groups[n] = <<>> /\ DOMAIN groups[n] = {}
  BY DEF Init
<1> QED BY <1>1 DEF Init, BodyInv, Ordered, Written

\* Line j of the block of a name, and its header before.
Item(n, j) == IF j = 0 THEN Header(groups[n][1]) ELSE Line(groups[n][j])

\* A block is nothing, or a header and a line for every sample kept.
LEMMA BlockParts ==
  ASSUME Inv, NEW n \in Names
  PROVE  /\ Block(n) \in Seq(Items)
         /\ groups[n] = <<>> => Len(Block(n)) = 0
         /\ groups[n] # <<>> =>
              /\ Len(Block(n)) = Len(groups[n]) + 1
              /\ \A j \in 0..Len(groups[n]) : Block(n)[1 + j] = Item(n, j)
<1> DEFINE kept == groups[n]
           lines == [i \in DOMAIN kept |-> Line(kept[i])]
           head == <<Header(kept[1])>>
<1>1. /\ kept \in Seq(Nat) /\ Len(kept) \in Nat /\ DOMAIN kept = 1..Len(kept)
      /\ \A k \in 1..Len(kept) : samples[kept[k]].labels \in Labels
  BY KeptFacts
<1>2. CASE kept = <<>>
  <2>1. Block(n) = <<>>
    BY <1>2, Zenon DEF Block
  <2> QED BY <1>2, <2>1, EmptySeq
<1>3. CASE kept # <<>>
  <2>1. Len(kept) # 0 /\ 1 \in 1..Len(kept) /\ kept[1] \in Nat
    BY <1>1, <1>3, EmptySeq
  <2>2. \A k \in 1..Len(kept) : Line(kept[k]) \in Items
    <3>1. \A k \in 1..Len(kept) : Rendered(samples[kept[k]].labels) \in Seq(Chars)
      BY <1>1, RenderedType
    <3>2. \A k \in 1..Len(kept) : kept[k] \in Nat
      BY <1>1
    <3> HIDE DEF kept
    <3> QED BY <3>1, <3>2 DEF Line, Items
  <2>3. Header(kept[1]) \in Items
    <3>1. <<>> \in Seq(Chars)
      OBVIOUS
    <3> HIDE DEF kept
    <3> QED BY <2>1, <3>1 DEF Header, Items
  <2>4. lines \in [1..Len(kept) -> Items] /\ \A k \in 1..Len(kept) : lines[k] = Line(kept[k])
    <3> HIDE DEF kept
    <3> QED BY <1>1, <2>2
  <2> HIDE DEF lines
  <2>5. lines \in Seq(Items) /\ Len(lines) = Len(kept)
    BY <1>1, <2>4
  <2>6. head \in Seq(Items) /\ Len(head) = 1 /\ head[1] = Header(kept[1])
    BY <2>3
  <2> HIDE DEF head
  <2>7. Joins(head \o lines, head, lines, Items)
    BY <2>5, <2>6, JoinParts, Zenon
  <2>8. Block(n) = head \o lines
    BY <1>3, Zenon DEF Block, head, lines
  <2> HIDE DEF kept
  <2>9. /\ Block(n) \in Seq(Items) /\ Len(Block(n)) = Len(kept) + 1
        /\ Block(n)[1] = Header(kept[1])
        /\ \A k \in 1..Len(kept) : Block(n)[1 + k] = Line(kept[k])
    BY <1>1, <2>4, <2>5, <2>6, <2>7, <2>8 DEF Joins
  <2>10. \A j \in 0..Len(kept) : Block(n)[1 + j] = IF j = 0 THEN Header(kept[1]) ELSE Line(kept[j])
    BY <1>1, <2>9
  <2>11. \A j \in 0..Len(kept) : Block(n)[1 + j] = Item(n, j)
    BY <2>10, Zenon DEF Item, kept
  <2> QED BY <1>3, <2>9, <2>11, Zenon DEF kept
<1> QED BY <1>2, <1>3

\* The block of name i starts behind start[i], and the body has nothing else.
Laid(start) ==
  /\ \A i \in DOMAIN NameOrder : start[i] \in Nat
  /\ \A i \in DOMAIN NameOrder : \A j \in 0..Len(groups[NameOrder[i]]) :
       groups[NameOrder[i]] # <<>> =>
         start[i] + (1 + j) \in DOMAIN body /\ body[start[i] + (1 + j)] = Item(NameOrder[i], j)
  /\ \A k \in DOMAIN body :
       \E i \in DOMAIN NameOrder : \E j \in 0..Len(groups[NameOrder[i]]) :
         groups[NameOrder[i]] # <<>> /\ k = start[i] + (1 + j)

\* The blocks are sequences of items, one for each name.
LEMMA BlocksType ==
  ASSUME Inv
  PROVE  /\ Blocks \in Seq(Seq(Items)) /\ Len(Blocks) \in Nat
         /\ DOMAIN NameOrder = 1..Len(Blocks)
         /\ \A i \in 1..Len(Blocks) : NameOrder[i] \in Names /\ Blocks[i] = Block(NameOrder[i])
<1>1. Len(NameOrder) \in Nat /\ DOMAIN NameOrder = 1..Len(NameOrder)
  BY NameAssumption
<1>2. \A i \in 1..Len(NameOrder) : NameOrder[i] \in Names
  BY <1>1 DEF Names
<1>3. \A i \in 1..Len(NameOrder) : Block(NameOrder[i]) \in Seq(Items)
  BY <1>2, BlockParts
<1>4. /\ Blocks \in [1..Len(NameOrder) -> Seq(Items)]
      /\ \A i \in 1..Len(NameOrder) : Blocks[i] = Block(NameOrder[i])
  BY <1>1, <1>3 DEF Blocks
<1> QED BY <1>1, <1>2, <1>4

\* A finished body is laid out so.
LEMMA BodyLaid ==
  ASSUME Inv, BodyInv, pc = "done"
  PROVE  body \in Seq(Items) /\ \E start : Laid(start)
<1>1. body = FlattenSeq(Blocks)
  BY DEF BodyInv, Written
<1>2. /\ Blocks \in Seq(Seq(Items)) /\ Len(Blocks) \in Nat
      /\ DOMAIN NameOrder = 1..Len(Blocks)
      /\ \A i \in 1..Len(Blocks) : NameOrder[i] \in Names /\ Blocks[i] = Block(NameOrder[i])
  BY BlocksType
<1>3. body \in Seq(Items)
  BY <1>1, <1>2, FlattenType
<1>4. PICK start : Placed(Blocks, start)
  BY <1>2, FlattenPlaces
<1>5. /\ start \in [1..Len(Blocks) -> Nat]
      /\ \A i \in 1..Len(Blocks) : \A j \in 1..Len(Blocks[i]) :
           start[i] + j \in 1..Len(body) /\ body[start[i] + j] = Blocks[i][j]
      /\ \A k \in 1..Len(body) :
           \E i \in 1..Len(Blocks) : \E j \in 1..Len(Blocks[i]) : k = start[i] + j
  BY <1>1, <1>4, Zenon DEF Placed
<1>6. DOMAIN body = 1..Len(body)
  BY <1>3
<1>7. ASSUME NEW i \in 1..Len(Blocks)
      PROVE  /\ Len(groups[NameOrder[i]]) \in Nat
             /\ groups[NameOrder[i]] = <<>> => Len(Blocks[i]) = 0
             /\ groups[NameOrder[i]] # <<>> =>
                  /\ Len(Blocks[i]) = Len(groups[NameOrder[i]]) + 1
                  /\ \A j \in 0..Len(groups[NameOrder[i]]) :
                       Blocks[i][1 + j] = Item(NameOrder[i], j)
  <2> DEFINE n == NameOrder[i]
  <2>1. n \in Names /\ Blocks[i] = Block(n)
    BY <1>2
  <2> HIDE DEF n
  <2>2. groups[n] \in Seq(Nat)
    BY <2>1, KeptFacts, Zenon
  <2>3. Len(groups[n]) \in Nat
    BY <2>2
  <2>4. /\ groups[n] = <<>> => Len(Blocks[i]) = 0
        /\ groups[n] # <<>> =>
             /\ Len(Blocks[i]) = Len(groups[n]) + 1
             /\ \A j \in 0..Len(groups[n]) : Blocks[i][1 + j] = Item(n, j)
    BY <2>1, BlockParts, Zenon
  <2> QED BY <2>3, <2>4, Zenon DEF n
<1>8. ASSUME NEW i \in 1..Len(Blocks), NEW j \in 0..Len(groups[NameOrder[i]]),
             groups[NameOrder[i]] # <<>>
      PROVE  /\ start[i] + (1 + j) \in DOMAIN body
             /\ body[start[i] + (1 + j)] = Item(NameOrder[i], j)
  <2>1. 1 + j \in 1..Len(Blocks[i]) /\ Blocks[i][1 + j] = Item(NameOrder[i], j)
    BY <1>7, <1>8
  <2> QED BY <1>5, <1>6, <2>1, Zenon
<1>9. ASSUME NEW k \in DOMAIN body
      PROVE  \E i \in 1..Len(Blocks) : \E j \in 0..Len(groups[NameOrder[i]]) :
               groups[NameOrder[i]] # <<>> /\ k = start[i] + (1 + j)
  <2>1. PICK i \in 1..Len(Blocks) : \E m \in 1..Len(Blocks[i]) : k = start[i] + m
    BY <1>5, <1>6, Zenon
  <2>2. PICK m \in 1..Len(Blocks[i]) : k = start[i] + m
    BY <2>1
  <2>3. groups[NameOrder[i]] # <<>>
    BY <1>7, <2>2
  <2>4. m - 1 \in 0..Len(groups[NameOrder[i]]) /\ m = 1 + (m - 1)
    BY <1>7, <2>2, <2>3
  <2> QED BY <2>2, <2>3, <2>4
<1>10. \A i \in 1..Len(Blocks) : start[i] \in Nat
  BY <1>5
<1>11. Laid(start)
  BY <1>2, <1>8, <1>9, <1>10, Zenon DEF Laid
<1> QED BY <1>3, <1>11

\* An item names the metric of its block, and a line the sample it shows.
LEMMA ItemFacts ==
  ASSUME Inv, NEW n \in Names, groups[n] # <<>>, NEW j \in 0..Len(groups[n])
  PROVE  /\ NameOf(Item(n, j)) = n
         /\ j = 0 => Item(n, j).kind = "header" /\ Item(n, j).index = groups[n][1]
         /\ j # 0 => /\ j \in 1..Len(groups[n])
                     /\ Item(n, j).kind = "line" /\ Item(n, j).index = groups[n][j]
                     /\ Item(n, j).text = Rendered(samples[groups[n][j]].labels)
<1>1. /\ Len(groups[n]) \in Nat /\ 1 \in 1..Len(groups[n])
      /\ \A k \in 1..Len(groups[n]) : samples[groups[n][k]].name = n
  <2>1. /\ groups[n] \in Seq(Nat)
        /\ \A k \in 1..Len(groups[n]) : samples[groups[n][k]].name = n
    BY KeptFacts, Zenon
  <2> QED BY <2>1, EmptySeq
<1>2. \A i : /\ Header(i).kind = "header" /\ Header(i).index = i
             /\ Line(i).kind = "line" /\ Line(i).index = i
             /\ Line(i).text = Rendered(samples[i].labels)
  BY DEF Header, Line
<1>3. CASE j = 0
  <2>1. Item(n, j) = Header(groups[n][1])
    BY <1>3 DEF Item
  <2> QED BY <1>1, <1>2, <1>3, <2>1 DEF NameOf
<1>4. CASE j # 0
  <2>1. Item(n, j) = Line(groups[n][j]) /\ j \in 1..Len(groups[n])
    BY <1>1, <1>4 DEF Item
  <2> QED BY <1>1, <1>2, <1>4, <2>1 DEF NameOf
<1> QED BY <1>3, <1>4

\* What stands at a position of a finished body.
At(start, k, i, j) ==
  LET n == NameOrder[i]
  IN  /\ i \in DOMAIN NameOrder /\ n \in Names /\ groups[n] # <<>> /\ j \in 0..Len(groups[n])
      /\ k = start[i] + (1 + j) /\ k \in DOMAIN body /\ start[i] \in Nat
      /\ body[k] = Item(n, j) /\ NameOf(body[k]) = n
      /\ k \in LinePositions <=> j # 0

\* Every position is a place in some block.
LEMMA Located ==
  ASSUME Inv, NEW start, Laid(start), NEW k \in DOMAIN body
  PROVE  \E i \in DOMAIN NameOrder : \E j \in 0..Len(groups[NameOrder[i]]) : At(start, k, i, j)
<1>1. PICK i \in DOMAIN NameOrder : \E j \in 0..Len(groups[NameOrder[i]]) :
        groups[NameOrder[i]] # <<>> /\ k = start[i] + (1 + j)
  BY DEF Laid
<1>2. PICK j \in 0..Len(groups[NameOrder[i]]) :
        groups[NameOrder[i]] # <<>> /\ k = start[i] + (1 + j)
  BY <1>1
<1>3. /\ NameOrder[i] \in Names
      /\ body[k] = Item(NameOrder[i], j) /\ start[i] \in Nat
  BY <1>2 DEF Laid, Names
<1>4. /\ NameOf(body[k]) = NameOrder[i]
      /\ j = 0 => body[k].kind = "header"
      /\ j # 0 => body[k].kind = "line"
  BY <1>2, <1>3, ItemFacts
<1>5. k \in LinePositions <=> j # 0
  BY <1>4 DEF LinePositions
<1> QED BY <1>2, <1>3, <1>4, <1>5, Zenon DEF At

\* And every place in a block is a position.
LEMMA Placing ==
  ASSUME Inv, NEW start, Laid(start), NEW i \in DOMAIN NameOrder,
         groups[NameOrder[i]] # <<>>, NEW j \in 0..Len(groups[NameOrder[i]])
  PROVE  At(start, start[i] + (1 + j), i, j)
<1> DEFINE k == start[i] + (1 + j)
<1>1. /\ NameOrder[i] \in Names /\ k \in DOMAIN body
      /\ body[k] = Item(NameOrder[i], j) /\ start[i] \in Nat
  BY DEF Laid, Names
<1>2. /\ NameOf(body[k]) = NameOrder[i]
      /\ j = 0 => body[k].kind = "header"
      /\ j # 0 => body[k].kind = "line"
  BY <1>1, ItemFacts
<1>3. k \in LinePositions <=> j # 0
  BY <1>1, <1>2 DEF LinePositions
<1> QED BY <1>1, <1>2, <1>3, Zenon DEF At

\* The first sample of every series is kept, under its name.
LEMMA FirstExists ==
  ASSUME Inv, NEW n \in Names, NEW i \in Seen(n)
  PROVE  \E k \in 1..Len(groups[n]) : groups[n][k] <= i /\ SameSeries(groups[n][k], i)
<1>1. i \in Nat /\ i >= 1 /\ i <= next - 1 /\ next \in Nat /\ samples[i].name = n
  BY DEF Inv, Shape, Seen
<1> DEFINE T == {j \in Nat : j \in 1..i /\ SameSeries(j, i)}
<1>2. T # {} /\ T \subseteq Nat
  BY <1>1 DEF SameSeries
<1>3. PICK m \in T : \A j \in T : <<j, m>> \notin OpToRel(<, Nat)
  <2> HIDE DEF T
  <2> QED BY <1>2, WFMin, NatLessThanWellFounded
<1>4. m \in Nat /\ m \in 1..i /\ SameSeries(m, i)
  OBVIOUS
<1>5. \A j \in T : ~(j < m)
  BY <1>3, <1>4 DEF OpToRel
<1>6. IsFirst(m)
  <2> SUFFICES ASSUME NEW j \in 1..(m - 1), SameSeries(j, m) PROVE FALSE
    BY DEF IsFirst
  <2>1. j \in Nat /\ j < m /\ j \in 1..i
    BY <1>1, <1>4
  <2>2. SameSeries(j, i)
    BY <1>4 DEF SameSeries
  <2>3. j \in T
    BY <2>1, <2>2
  <2> HIDE DEF T
  <2> QED BY <1>5, <2>1, <2>3
<1>7. m \in Seen(n) /\ m <= i
  BY <1>1, <1>4 DEF Seen, SameSeries
<1>8. PICK k \in DOMAIN groups[n] : groups[n][k] = m
  BY <1>4, <1>6, <1>7 DEF Inv, FirstKept
<1>9. k \in 1..Len(groups[n])
  <2>1. groups[n] \in Seq(Nat)
    BY DEF Inv, Shape
  <2> QED BY <2>1
<1> QED BY <1>4, <1>7, <1>8, <1>9

\* A name sorted twice would be written twice: none is.
LEMMA SamePlace ==
  ASSUME Inv, NEW start, NEW k, NEW m, NEW i, NEW j, NEW a, NEW b,
         At(start, k, i, j), At(start, m, a, b), NameOf(body[k]) = NameOf(body[m])
  PROVE  i = a /\ (j = b => k = m)
BY NameAssumption DEF At

\* The lines of a body follow the one header of their metric, which is that of
\* the first sample with its name.
LEMMA LaidGrouped ==
  ASSUME Inv, Ordered, NEW start, Laid(start), body \in Seq(Items)
  PROVE  GroupedByName
<1>1. DOMAIN body = 1..Len(body) /\ Len(body) \in Nat
  OBVIOUS
<1>2. ASSUME NEW k \in LinePositions
      PROVE  \E h \in HeaderPositions :
               h < k /\ \A m \in h..k : NameOf(body[m]) = NameOf(body[k])
  <2>1. PICK i \in DOMAIN NameOrder : \E j \in 0..Len(groups[NameOrder[i]]) : At(start, k, i, j)
    BY Located DEF LinePositions
  <2>2. PICK j \in 0..Len(groups[NameOrder[i]]) : At(start, k, i, j)
    BY <2>1
  <2> DEFINE n == NameOrder[i]
             h == start[i] + (1 + 0)
  <2>3. /\ groups[n] # <<>> /\ j # 0 /\ start[i] \in Nat /\ k = start[i] + (1 + j)
        /\ NameOf(body[k]) = n
    BY <2>2 DEF At
  <2>4. Len(groups[n]) \in Nat /\ 0 \in 0..Len(groups[n])
    <3>1. groups[n] \in Seq(Nat)
      BY <2>2 DEF At, Inv, Shape
    <3> QED BY <3>1
  <2>5. At(start, h, i, 0)
    BY <2>3, <2>4, Placing, Zenon
  <2>6. h \in HeaderPositions /\ h < k
    <3>1. h \in DOMAIN body /\ h \notin LinePositions
      BY <2>5 DEF At
    <3> QED BY <2>3, <3>1 DEF HeaderPositions
  <2>7. ASSUME NEW m \in h..k PROVE NameOf(body[m]) = n
    <3> DEFINE q == m - h
               len == Len(groups[n])
               s == start[i]
    <3>1. q \in 0..len /\ m = s + (1 + q)
      <4>1. len \in Nat /\ s \in Nat /\ j \in 0..len /\ m \in (s + (1 + 0))..(s + (1 + j))
        BY <2>3, <2>4
      <4> HIDE DEF len, s
      <4> QED BY ONLY <4>1 DEF q, h, s
    <3> HIDE DEF q
    <3>2. At(start, m, i, q)
      BY <2>3, <3>1, Placing, Zenon DEF len, s
    <3> QED BY <3>2 DEF At
  <2> QED BY <2>3, <2>6, <2>7
<1>3. ASSUME NEW h \in HeaderPositions
      PROVE  /\ \A m \in HeaderPositions : NameOf(body[m]) = NameOf(body[h]) => m = h
             /\ \A i \in 1..(body[h].index - 1) : samples[i].name # NameOf(body[h])
  <2>1. \A m \in HeaderPositions : m \in DOMAIN body /\ m \notin LinePositions
    BY DEF HeaderPositions
  <2>2. PICK a \in DOMAIN NameOrder : \E j \in 0..Len(groups[NameOrder[a]]) : At(start, h, a, j)
    BY <2>1, Located
  <2>3. At(start, h, a, 0)
    BY <2>1, <2>2 DEF At
  <2>4. ASSUME NEW m \in HeaderPositions, NameOf(body[m]) = NameOf(body[h]) PROVE m = h
    <3>1. PICK i \in DOMAIN NameOrder : \E j \in 0..Len(groups[NameOrder[i]]) : At(start, m, i, j)
      BY <2>1, Located
    <3>2. At(start, m, i, 0)
      BY <2>1, <3>1 DEF At
    <3> QED BY <2>3, <2>4, <3>2, SamePlace
  <2> DEFINE n == NameOrder[a]
             kept == groups[n]
  <2>5. /\ n \in Names /\ kept # <<>> /\ body[h] = Item(n, 0) /\ NameOf(body[h]) = n
        /\ 0 \in 0..Len(kept)
    BY <2>3 DEF At
  <2>6. body[h].index = kept[1]
    BY <2>5, ItemFacts
  <2>7. kept \in Seq(Nat) /\ Len(kept) \in Nat /\ 1 \in 1..Len(kept) /\ DOMAIN kept = 1..Len(kept)
    <3>1. kept \in Seq(Nat)
      BY <2>5 DEF Inv, Shape
    <3> HIDE DEF kept
    <3> QED BY <2>5, <3>1, EmptySeq
  <2>8. ASSUME NEW i \in 1..(kept[1] - 1), samples[i].name = n PROVE FALSE
    <3>1. kept[1] \in Nat /\ kept[1] \in Seen(n) /\ i < kept[1] /\ i \in Nat /\ i >= 1
      BY <2>5, <2>7, KeptFacts
    <3>2. kept[1] <= next - 1 /\ next \in Nat
      BY <3>1 DEF Seen, Inv, Shape
    <3>3. i \in 1..(next - 1)
      <4> HIDE DEF kept
      <4> QED BY <3>1, <3>2
    <3>4. i \in Seen(n)
      BY <2>8, <3>3 DEF Seen
    <3>5. PICK k \in 1..Len(kept) : kept[k] <= i
      BY <2>5, <3>4, FirstExists
    <3>6. kept[k] \in Nat /\ (k # 1 => kept[1] < kept[k])
      BY <2>5, <2>7 DEF Ordered
    <3> HIDE DEF kept
    <3> QED BY <3>1, <3>5, <3>6
  <2> QED BY <2>4, <2>5, <2>6, <2>8
<1> QED BY <1>2, <1>3 DEF GroupedByName

\* Every metric has one header, and its lines follow it, in every reachable state.
THEOREM GroupedByNameHolds == Spec => []GroupedByName
<1>1. Inv /\ BodyInv => GroupedByName
  <2> SUFFICES ASSUME Inv, BodyInv PROVE GroupedByName
    OBVIOUS
  <2>1. CASE pc = "done"
    <3>1. body \in Seq(Items) /\ \E start : Laid(start)
      BY <2>1, BodyLaid
    <3> QED BY <3>1, LaidGrouped DEF BodyInv
  <2>2. CASE pc # "done"
    <3>1. body = <<>>
      BY <2>2 DEF BodyInv, Written
    <3>2. LinePositions = {} /\ HeaderPositions = {}
      BY <3>1 DEF LinePositions, HeaderPositions
    <3> QED BY <3>2 DEF GroupedByName
  <2> QED BY <2>1, <2>2
<1> QED BY <1>1, InitInv, StepInv, InitBody, BodyStep, PTL DEF Spec

\* Every state of an update is well typed.
THEOREM TypeCorrect == Spec => []TypeOK
<1>1. Inv /\ BodyInv => TypeOK
  <2> SUFFICES ASSUME Inv, BodyInv PROVE TypeOK
    OBVIOUS
  <2>1. body \in Seq(Items)
    <3>1. CASE pc = "done"
      BY <3>1, BodyLaid
    <3>2. CASE pc # "done"
      BY <3>2, EmptySeq DEF BodyInv, Written
    <3> QED BY <3>1, <3>2
  <2>2. groups \in [Names -> Seq(DOMAIN samples)]
    <3>1. groups \in [Names -> Seq(Nat)]
      BY DEF Inv, Shape
    <3>2. ASSUME NEW n \in Names PROVE groups[n] \in Seq(DOMAIN samples)
      <4> DEFINE kept == groups[n]
      <4>1. kept \in Seq(Nat) /\ \A k \in 1..Len(kept) : kept[k] \in DOMAIN samples
        BY KeptFacts
      <4> HIDE DEF kept
      <4>2. kept \in Seq(DOMAIN samples)
        BY <4>1
      <4> QED BY <4>2 DEF kept
    <3> QED BY <3>1, <3>2
  <2> QED BY <2>1, <2>2 DEF TypeOK, Inv, Shape, BodyInv, Keys
<1> QED BY <1>1, InitInv, StepInv, InitBody, BodyStep, PTL DEF Spec

\* If no text has a character that the encoder leaves out, no two lines of a body
\* are the same series: samples with one line have one key, and the guard keeps
\* the first.
THEOREM SeriesUniqueHolds ==
  ASSUME \A labels \in Labels : TextsIn(labels, Chars \ Controls)
  PROVE  Spec => []SeriesUnique
<1>1. Inv /\ BodyInv => SeriesUnique
  <2> SUFFICES ASSUME Inv, BodyInv, NEW k \in LinePositions, NEW m \in LinePositions,
                      NameOf(body[k]) = NameOf(body[m]), body[k].text = body[m].text
               PROVE  k = m
    BY DEF SeriesUnique
  <2>1. k \in DOMAIN body /\ m \in DOMAIN body
    BY DEF LinePositions
  <2>2. pc = "done"
    <3> SUFFICES ASSUME pc # "done" PROVE FALSE
      OBVIOUS
    <3>1. body = <<>>
      BY DEF BodyInv, Written
    <3> QED BY <2>1, <3>1
  <2>3. PICK start : Laid(start)
    BY <2>2, BodyLaid
  <2>4. PICK i \in DOMAIN NameOrder : \E j \in 0..Len(groups[NameOrder[i]]) : At(start, k, i, j)
    BY <2>1, <2>3, Located
  <2>5. PICK j \in 0..Len(groups[NameOrder[i]]) : At(start, k, i, j)
    BY <2>4
  <2>6. PICK a \in DOMAIN NameOrder : \E b \in 0..Len(groups[NameOrder[a]]) : At(start, m, a, b)
    BY <2>1, <2>3, Located
  <2>7. PICK b \in 0..Len(groups[NameOrder[a]]) : At(start, m, a, b)
    BY <2>6
  <2>8. i = a /\ (j = b => k = m)
    BY <2>5, <2>7, SamePlace
  <2> DEFINE n == NameOrder[i]
             kept == groups[n]
             p == kept[j]
             q == kept[b]
  <2>9. /\ n \in Names /\ kept # <<>> /\ j # 0 /\ b # 0
        /\ j \in 0..Len(kept) /\ b \in 0..Len(kept)
        /\ body[k] = Item(n, j) /\ body[m] = Item(n, b)
    BY <2>5, <2>7, <2>8 DEF At
  <2>10. /\ j \in 1..Len(kept) /\ b \in 1..Len(kept)
         /\ Rendered(samples[p].labels) = Rendered(samples[q].labels)
    BY <2>9, ItemFacts
  <2>11. /\ IsFirst(p) /\ IsFirst(q) /\ p \in Seen(n) /\ q \in Seen(n)
         /\ samples[p].labels \in Labels /\ samples[q].labels \in Labels
         /\ samples[p].name = n /\ samples[q].name = n
    BY <2>9, <2>10, KeptFacts
  <2>12. samples[p].labels = samples[q].labels
    BY <2>10, <2>11, RenderedInjective, Zenon
  <2>13. SameSeries(p, q) /\ SameSeries(q, p)
    BY <2>11, <2>12 DEF SameSeries
  <2>14. p \in Nat /\ q \in Nat /\ p >= 1 /\ q >= 1
    BY <2>11 DEF Seen
  <2>15. j \in DOMAIN kept /\ b \in DOMAIN kept
    <3>1. kept \in Seq(Nat)
      BY <2>9 DEF Inv, Shape
    <3> QED BY <2>10, <3>1
  <2>16. (j < b => p < q) /\ (b < j => q < p)
    BY <2>9, <2>15 DEF BodyInv, Ordered
  <2> HIDE DEF p, q, kept, n
  <2>17. ~(p < q) /\ ~(q < p)
    BY <2>11, <2>13, <2>14 DEF IsFirst
  <2>18. j = b
    BY <2>10, <2>16, <2>17
  <2> QED BY <2>8, <2>18
<1> QED BY <1>1, InitInv, StepInv, InitBody, BodyStep, PTL DEF Spec

\* If no text has the character that closes a value in a key, the lines of a body
\* are the first samples of every series: keys confuse no two label sets.
THEOREM FirstOfEachSeriesHolds ==
  ASSUME \A labels \in Labels : TextsIn(labels, Chars \ {Stx})
  PROVE  Spec => []FirstOfEachSeries
<1>1. Inv /\ BodyInv => FirstOfEachSeries
  <2> SUFFICES ASSUME Inv, BodyInv, pc = "done"
               PROVE  {body[k].index : k \in LinePositions} =
                        {i \in DOMAIN samples : \A j \in 1..(i - 1) : samples[j] # samples[i]}
    BY DEF FirstOfEachSeries
  <2>1. PICK start : Laid(start)
    BY BodyLaid
  <2>2. /\ DOMAIN samples = 1..Len(samples) /\ Len(samples) \in Nat
        /\ next = Len(samples) + 1 /\ samples \in Seq(Samples)
    BY DEF Inv, Shape
  <2>3. ASSUME NEW i \in DOMAIN samples
        PROVE  IsFirst(i) <=> \A j \in 1..(i - 1) : samples[j] # samples[i]
    <3> SUFFICES ASSUME NEW j \in 1..(i - 1)
                 PROVE  SameSeries(j, i) <=> samples[j] = samples[i]
      BY DEF IsFirst
    <3>1. j \in 1..Len(samples) /\ i \in 1..Len(samples)
      BY <2>2
    <3>2. samples[j] \in Samples /\ samples[i] \in Samples
      BY <2>2, <3>1
    <3>3. samples[j].labels \in Labels /\ samples[i].labels \in Labels
      BY <3>2 DEF Samples
    <3>4. SeriesKey(samples[j].labels) = SeriesKey(samples[i].labels)
            => samples[j].labels = samples[i].labels
      BY <3>3, SeriesKeyInjective, Zenon
    <3> DEFINE s == samples[j]
               t == samples[i]
    <3>5. s.name = t.name /\ s.labels = t.labels => s = t
      <4> HIDE DEF s, t
      <4>1. s \in Samples /\ t \in Samples
        BY <3>2 DEF s, t
      <4> QED BY <4>1 DEF Samples
    <3>6. s = t => s.name = t.name /\ SeriesKey(s.labels) = SeriesKey(t.labels)
      OBVIOUS
    <3> QED BY <3>4, <3>5, <3>6, Zenon DEF SameSeries
  <2>4. ASSUME NEW k \in LinePositions
        PROVE  body[k].index \in DOMAIN samples /\ IsFirst(body[k].index)
    <3>1. PICK i \in DOMAIN NameOrder : \E j \in 0..Len(groups[NameOrder[i]]) : At(start, k, i, j)
      BY <2>1, Located DEF LinePositions
    <3>2. PICK j \in 0..Len(groups[NameOrder[i]]) : At(start, k, i, j)
      BY <3>1
    <3> DEFINE n == NameOrder[i]
    <3>3. n \in Names /\ groups[n] # <<>> /\ j # 0 /\ body[k] = Item(n, j)
      BY <3>2 DEF At
    <3>4. j \in 1..Len(groups[n]) /\ body[k].index = groups[n][j]
      BY <3>3, ItemFacts
    <3> QED BY <3>3, <3>4, KeptFacts
  <2>5. ASSUME NEW i \in DOMAIN samples, IsFirst(i)
        PROVE  \E k \in LinePositions : body[k].index = i
    <3> DEFINE n == samples[i].name
    <3>1. samples[i] \in Samples
      BY <2>2
    <3>2. n \in Names /\ i \in Seen(n) /\ i \in Nat
      BY <2>2, <3>1 DEF Samples, Seen
    <3>3. PICK j \in DOMAIN groups[n] : groups[n][j] = i
      BY <2>5, <3>2 DEF Inv, FirstKept
    <3>4. groups[n] \in Seq(Nat)
      BY <3>2 DEF Inv, Shape
    <3>5. groups[n] # <<>> /\ j \in 0..Len(groups[n]) /\ j # 0
      BY <3>3, <3>4
    <3>6. PICK a \in DOMAIN NameOrder : NameOrder[a] = n
      BY <3>2 DEF Names
    <3> DEFINE k == start[a] + (1 + j)
    <3> HIDE DEF n
    <3>7. At(start, k, a, j)
      BY <2>1, <3>5, <3>6, Placing, Zenon
    <3> HIDE DEF k
    <3>8. k \in LinePositions /\ body[k] = Item(n, j)
      BY <3>5, <3>6, <3>7, Zenon DEF At
    <3>9. body[k].index = i
      BY <3>2, <3>3, <3>5, <3>8, ItemFacts
    <3> QED BY <3>8, <3>9
  <2> QED BY <2>3, <2>4, <2>5
<1> QED BY <1>1, InitInv, StepInv, InitBody, BodyStep, PTL DEF Spec
=============================================================================
