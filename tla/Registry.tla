------------------------------- MODULE Registry -------------------------------
(***************************************************************************)
(* One update_samples of crates/nlx-metrics/src/registry.rs: the samples   *)
(* all collectors emitted in a scrape become the exposition body, grouped  *)
(* by metric name, with a guard that keeps the first of equal series.      *)
(*                                                                         *)
(* Label text is a sequence of characters, because what the guard compares *)
(* and what the encoder writes are two different texts of the same labels. *)
(* A sample's help, kind and value are told apart by its position.         *)
(***************************************************************************)
EXTENDS Naturals, Sequences, SequencesExt

CONSTANTS
    NameOrder,   \* metric names, sorted as the BTreeMap iterates them
    Chars,       \* characters of texts; a label name counts as one of them
    KeyOrder,    \* label names, sorted likewise
    Labels,      \* the label sets in use: functions from some keys to texts
    Controls,    \* characters below U+0020 other than the newline
    MaxSamples   \* samples of one scrape (bounds the run)

Names == {NameOrder[i] : i \in DOMAIN NameOrder}
Samples == [name : Names, labels : Labels]
Inputs == UNION {[1..n -> Samples] : n \in 0..MaxSamples}

ASSUME NameAssumption ==
    /\ NameOrder \in Seq(STRING)
    /\ \A i, j \in DOMAIN NameOrder : NameOrder[i] = NameOrder[j] => i = j
ASSUME SampleAssumption == MaxSamples \in Nat

VARIABLES
    pc,       \* "check", "insert" or "done"
    samples,  \* what the scrape collected
    next,     \* the sample encode_samples looks at
    seen,     \* GroupEntry.seen: the keys met under each name
    groups,   \* GroupEntry.observations: positions of the samples kept
    dups,     \* names warned about
    body      \* the encoded text: headers and sample lines

vars == <<pc, samples, next, seen, groups, dups, body>>

Init ==
    /\ pc = "check"
    /\ samples \in Inputs
    /\ next = 1
    /\ seen = [n \in Names |-> {}]
    /\ groups = [n \in Names |-> <<>>]
    /\ dups = {}
    /\ body = <<>>

-----------------------------------------------------------------------------
Backslash == "\\"
Quote == "\""
Newline == "\n"

ASSUME LabelAssumption ==
    /\ {Backslash, Quote, Newline, "n", ",", "=", "SOH", "STX"} \subseteq Chars
    /\ KeyOrder \in Seq(Chars)
    /\ \A labels \in Labels :
        /\ labels \in [DOMAIN labels -> Seq(Chars)]
        /\ DOMAIN labels \subseteq {KeyOrder[i] : i \in DOMAIN KeyOrder}

\* The label names present, in order.
KeysOf(labels) ==
    FlattenSeq([i \in DOMAIN KeyOrder |->
                  IF KeyOrder[i] \in DOMAIN labels THEN <<KeyOrder[i]>> ELSE <<>>])

\* series_key: every key and value, closed by two control characters.
SeriesKey(labels) ==
    LET keys == KeysOf(labels)
    IN  FlattenSeq([i \in DOMAIN keys |-> <<keys[i], "SOH">> \o labels[keys[i]] \o <<"STX">>])

\* Mutants of the escapes: the backslash, or the quote, is written as it is.
EscapeCharNoBackslash(ch) ==
    CASE ch = Quote -> <<Backslash, Quote>>
      [] ch = Newline -> <<Backslash, "n">>
      [] ch \in Controls -> <<>>
      [] OTHER -> <<ch>>
EscapeCharNoQuote(ch) ==
    CASE ch = Backslash -> <<Backslash, Backslash>>
      [] ch = Newline -> <<Backslash, "n">>
      [] ch \in Controls -> <<>>
      [] OTHER -> <<ch>>

\* escape_label_value, one character at a time.
EscapeChar(ch) ==
    CASE ch = Backslash -> <<Backslash, Backslash>>
      [] ch = Quote -> <<Backslash, Quote>>
      [] ch = Newline -> <<Backslash, "n">>
      [] ch \in Controls -> <<>>
      [] OTHER -> <<ch>>

Escape(text) == FlattenSeq([i \in DOMAIN text |-> EscapeChar(text[i])])

\* What write_sample_line puts between the braces.
Rendered(labels) ==
    LET keys == KeysOf(labels)
        pair(i) == <<keys[i], "=", Quote>> \o Escape(labels[keys[i]]) \o <<Quote>>
    IN  FlattenSeq([i \in DOMAIN keys |-> IF i = 1 THEN pair(i) ELSE <<",">> \o pair(i)])

-----------------------------------------------------------------------------
SameSeries(i, j) ==
    samples[i].name = samples[j].name /\ SeriesKey(samples[i].labels) = SeriesKey(samples[j].labels)

\* Mutant: one set of keys for all names.
DuplicatesAcrossNames ==
    {samples[j].name : j \in {k \in DOMAIN samples :
        \E i \in 1..(k - 1) : SeriesKey(samples[i].labels) = SeriesKey(samples[k].labels)}}

\* duplicate_series: names under which a series comes back.
Duplicates ==
    {samples[j].name : j \in {k \in DOMAIN samples : \E i \in 1..(k - 1) : SameSeries(i, k)}}

\* The warning is prepared before anything is encoded.
Check ==
    /\ pc = "check"
    /\ dups' = Duplicates
    /\ pc' = "insert"
    /\ UNCHANGED <<samples, next, seen, groups, body>>

\* Mutant: a series that comes back replaces the first one.
InsertReplacing ==
    LET name == samples[next].name
        key == SeriesKey(samples[next].labels)
    IN  /\ pc = "insert" /\ next <= Len(samples)
        /\ seen' = [seen EXCEPT ![name] = @ \cup {key}]
        /\ groups' = [groups EXCEPT ![name] =
             Append(SelectSeq(@, LAMBDA i : SeriesKey(samples[i].labels) # key), next)]
        /\ next' = next + 1
        /\ UNCHANGED <<pc, samples, dups, body>>

\* Mutant: the guard remembers what a sample line shows, not its key.
InsertByLine ==
    LET name == samples[next].name
        key == Rendered(samples[next].labels)
    IN  /\ pc = "insert" /\ next <= Len(samples)
        /\ seen' = [seen EXCEPT ![name] = @ \cup {key}]
        /\ groups' = IF key \in seen[name] THEN groups
                     ELSE [groups EXCEPT ![name] = Append(@, next)]
        /\ next' = next + 1
        /\ UNCHANGED <<pc, samples, dups, body>>

\* One turn of the grouping loop: the sample is kept if its key is new.
Insert ==
    LET name == samples[next].name
        key == SeriesKey(samples[next].labels)
    IN  /\ pc = "insert" /\ next <= Len(samples)
        /\ seen' = [seen EXCEPT ![name] = @ \cup {key}]
        /\ groups' = IF key \in seen[name] THEN groups
                     ELSE [groups EXCEPT ![name] = Append(@, next)]
        /\ next' = next + 1
        /\ UNCHANGED <<pc, samples, dups, body>>

Header(i) == [kind |-> "header", index |-> i, text |-> <<>>]
Line(i) == [kind |-> "line", index |-> i, text |-> Rendered(samples[i].labels)]

\* Mutant: a header before every sample line.
BlockPerSample(name) ==
    LET kept == groups[name]
    IN  FlattenSeq([i \in DOMAIN kept |-> <<Header(kept[i]), Line(kept[i])>>])

\* The block of one metric: HELP and TYPE of the sample that opened the group,
\* then the lines.
Block(name) ==
    LET kept == groups[name]
    IN  IF kept = <<>> THEN <<>>
        ELSE <<Header(kept[1])>> \o [i \in DOMAIN kept |-> Line(kept[i])]

\* The text is written name by name and stored in one swap.
Encode ==
    /\ pc = "insert" /\ next > Len(samples)
    /\ body' = FlattenSeq([i \in DOMAIN NameOrder |-> Block(NameOrder[i])])
    /\ pc' = "done"
    /\ UNCHANGED <<samples, next, seen, groups, dups>>

Stored == pc = "done" /\ UNCHANGED vars

Next == Check \/ Insert \/ Encode \/ Stored

Spec == Init /\ [][Next]_vars

-----------------------------------------------------------------------------
Keys == {SeriesKey(labels) : labels \in Labels}
Items == [kind : {"header", "line"}, index : Nat, text : Seq(Chars)]

TypeOK ==
    /\ pc \in {"check", "insert", "done"}
    /\ samples \in Inputs
    /\ next \in 1..(Len(samples) + 1)
    /\ seen \in [Names -> SUBSET Keys]
    /\ groups \in [Names -> Seq(DOMAIN samples)]
    /\ dups \subseteq Names
    /\ body \in Seq(Items)

NameOf(item) == samples[item.index].name
LinePositions == {k \in DOMAIN body : body[k].kind = "line"}
HeaderPositions == DOMAIN body \ LinePositions

\* registry.rs: "This guard guarantees the body is always valid even if a
\* collector regresses": no two lines of a body are the same series.
SeriesUnique ==
    \A k, m \in LinePositions :
        NameOf(body[k]) = NameOf(body[m]) /\ body[k].text = body[m].text => k = m

\* The guard drops nothing else: the lines of a body are the first samples of
\* every series, for names and label sets compared as the collectors gave them.
FirstOfEachSeries ==
    pc = "done" =>
        {body[k].index : k \in LinePositions} =
            {i \in DOMAIN samples : \A j \in 1..(i - 1) : samples[j] # samples[i]}

\* Every name has one header, its lines follow it, and the header is that of
\* the first sample with the name, whatever order the collectors emitted in.
GroupedByName ==
    /\ \A k \in LinePositions :
        \E h \in HeaderPositions : h < k /\ \A m \in h..k : NameOf(body[m]) = NameOf(body[k])
    /\ \A h \in HeaderPositions :
        /\ \A m \in HeaderPositions : NameOf(body[m]) = NameOf(body[h]) => m = h
        /\ \A i \in 1..(body[h].index - 1) : samples[i].name # NameOf(body[h])

\* The samples the guard has let through.
Kept == {i \in DOMAIN samples : \E n \in Names : \E k \in DOMAIN groups[n] : groups[n][k] = i}

\* The warning, computed in a loop of its own, names exactly the metrics of
\* which the encoder dropped a sample: a collector bug never passes silently.
DropsReported ==
    pc = "done" => dups = {samples[i].name : i \in DOMAIN samples \ Kept}
=============================================================================
