--------------------------- MODULE NetlinkDumpProofs ---------------------------
(***************************************************************************)
(* Proofs about NetlinkDump, for any sequence of requests, any number of   *)
(* attempts and parts, and any buffer bounds.                              *)
(***************************************************************************)
EXTENDS NetlinkDump, TLAPS, SequenceTheorems, WellFoundedInduction

-----------------------------------------------------------------------------
(* parse_datagram.                                                         *)

\* A non-empty set of naturals has a least element.
LEMMA LeastNatural ==
  ASSUME NEW T, T \subseteq Nat, T # {}
  PROVE  \E x \in T : \A y \in T : x <= y
<1>1. PICK x \in T : \A y \in T : <<y, x>> \notin OpToRel(<, Nat)
  BY NatLessThanWellFounded, WFMin, Zenon
<1>2. \A y \in T : ~(y < x)
  BY <1>1 DEF OpToRel
<1> QED BY <1>2

\* Parsing ends at the first message that ends it.
LEMMA StopFirst ==
  ASSUME NEW dgram \in Seq(Messages), Stops(dgram) # {}
  PROVE  /\ Stop(dgram) \in 1..Len(dgram)
         /\ Stop(dgram) \in Stops(dgram)
         /\ \A j \in Stops(dgram) : Stop(dgram) <= j
<1>1. Stops(dgram) \subseteq 1..Len(dgram) /\ Len(dgram) \in Nat
  BY DEF Stops
<1>2. \E x \in Stops(dgram) : \A y \in Stops(dgram) : x <= y
  BY <1>1, LeastNatural
<1>3. Stop(dgram) \in Stops(dgram) /\ \A j \in Stops(dgram) : Stop(dgram) <= j
  BY <1>2, Zenon DEF Stop
<1> QED BY <1>1, <1>3

\* A verdict is "more" exactly when nothing in the datagram ends the parsing.
LEMMA VerdictCases ==
  ASSUME NEW dgram \in Seq(Messages)
  PROVE  /\ Verdict(dgram) \in {"more", "intr", "done", "error"}
         /\ Verdict(dgram) = "more" <=> Stops(dgram) = {}
<1>1. CASE Stops(dgram) = {}
  BY <1>1 DEF Verdict
<1>2. CASE Stops(dgram) # {}
  <2> DEFINE m == dgram[Stop(dgram)]
  <2>1. Stop(dgram) \in Stops(dgram)
    BY <1>2, StopFirst
  <2>2. m.intr \/ m.kind \in {"done", "error"}
    BY <2>1 DEF Stops
  <2>3. Verdict(dgram) = IF m.intr THEN "intr" ELSE m.kind
    BY <1>2 DEF Verdict
  <2> HIDE DEF m
  <2> QED BY <1>2, <2>2, <2>3
<1> QED BY <1>1, <1>2

Unflagged(frames) == \A i \in DOMAIN frames : ~frames[i].intr

\* The payloads pushed are messages of the datagram, none flagged; a datagram
\* that does not end the dump contributes at least one.
LEMMA FramesUnflagged ==
  ASSUME NEW dgram \in Seq(Messages)
  PROVE  /\ Frames(dgram) \in Seq(Messages)
         /\ Unflagged(Frames(dgram))
         /\ Stops(dgram) = {} /\ dgram # <<>> => Frames(dgram) # <<>>
<1>1. CASE Stops(dgram) = {}
  <2>1. Frames(dgram) = dgram
    BY <1>1 DEF Frames
  <2>2. \A i \in DOMAIN dgram : ~dgram[i].intr
    BY <1>1 DEF Stops
  <2> QED BY <2>1, <2>2 DEF Unflagged
<1>2. CASE Stops(dgram) # {}
  <2> DEFINE n == Stop(dgram) - 1
  <2>1. n \in Nat /\ n + 1 \in 1..Len(dgram) /\ \A j \in Stops(dgram) : n < j
    <3>1. Stop(dgram) \in 1..Len(dgram) /\ Len(dgram) \in Nat
      BY <1>2, StopFirst
    <3>2. \A j \in Stops(dgram) : j \in Nat /\ Stop(dgram) <= j
      BY <1>2, StopFirst DEF Stops
    <3> QED BY <3>1, <3>2
  <2>2. Frames(dgram) = SubSeq(dgram, 1, n)
    BY <1>2 DEF Frames
  <2> HIDE DEF n
  <2>3. \A i \in 1..n : dgram[i] \in Messages /\ ~dgram[i].intr
    BY <2>1 DEF Stops
  <2>4. /\ SubSeq(dgram, 1, n) \in Seq(Messages)
        /\ Len(SubSeq(dgram, 1, n)) = n
        /\ \A i \in 1..n : SubSeq(dgram, 1, n)[i] = dgram[i]
    BY <2>1, <2>3
  <2>5. DOMAIN SubSeq(dgram, 1, n) = 1..n
    BY <2>4, <2>1
  <2> QED BY <1>2, <2>2, <2>3, <2>4, <2>5 DEF Unflagged
<1> QED BY <1>1, <1>2

\* Frames accumulated over several datagrams stay unflagged.
LEMMA ConcatUnflagged ==
  ASSUME NEW s \in Seq(Messages), NEW t \in Seq(Messages), Unflagged(s), Unflagged(t)
  PROVE  s \o t \in Seq(Messages) /\ Unflagged(s \o t)
<1>1. /\ s \o t \in Seq(Messages) /\ Len(s \o t) = Len(s) + Len(t)
      /\ \A i \in 1..(Len(s) + Len(t)) : (s \o t)[i] =
            IF i <= Len(s) THEN s[i] ELSE t[i - Len(s)]
  BY ConcatProperties
<1>2. /\ Len(s) \in Nat /\ Len(t) \in Nat
      /\ DOMAIN s = 1..Len(s) /\ DOMAIN t = 1..Len(t)
      /\ DOMAIN (s \o t) = 1..(Len(s) + Len(t))
  BY <1>1
<1>3. \A i \in 1..Len(s) : ~s[i].intr
  BY <1>2 DEF Unflagged
<1>4. \A i \in 1..Len(t) : ~t[i].intr
  BY <1>2 DEF Unflagged
<1>5. \A i \in 1..(Len(s) + Len(t)) : ~(s \o t)[i].intr
  BY <1>1, <1>2, <1>3, <1>4
<1> QED BY <1>1, <1>2, <1>5 DEF Unflagged

-----------------------------------------------------------------------------
(* The invariant.                                                          *)

Datagrams == Seq(Messages) \ {<<>>}
LiveDumps == {d \in Dumps : d.part \in 1..Parts}
Doubled(size) == IF 2 * size < MaxRcvbuf THEN 2 * size ELSE MaxRcvbuf

Shape ==
    /\ pc \in {"request", "send", "recv", "done", "failed"}
    /\ call \in 1..Len(Calls)
    /\ restarts \in 0..Attempts
    /\ pc \notin {"done", "failed"} => restarts < Attempts
    /\ seq \in 0..(SeqModulus - 1)
    /\ overrun \in BOOLEAN /\ disturbed \in BOOLEAN
    /\ out \in Seq(Messages)
    /\ rq \in Seq(Datagrams)
    /\ dumping \in LiveDumps \cup {NoDump}
    /\ answers \in Seq(Answers)

\* The socket's buffer is the tracked size or its one doubling, and the thread
\* knows which.
Buffer ==
    /\ tracked \in MinRcvbuf..MaxRcvbuf
    /\ grown \in BOOLEAN
    /\ sockbuf = tracked \/ sockbuf = Doubled(tracked)
    /\ grown = FALSE => rcvbuf = tracked
    /\ grown = TRUE => rcvbuf = sockbuf

\* The newest datagram of a queue ends the parsing of whoever reads it.
Ends(queue) == queue # <<>> /\ Verdict(queue[Len(queue)]) # "more"

\* Something is queued for a thread in recv and, for a dump the kernel has
\* finished, the newest datagram ends it.
Waiting ==
    pc = "recv" /\ ~overrun =>
        /\ rq # <<>>
        /\ Calls[call] = "dump" /\ dumping = NoDump => Ends(rq)

Inv == Shape /\ Buffer /\ Waiting /\ Unflagged(out) /\ NoInterruptedFrame

\* There is always a request to make, of one of the two kinds.
LEMMA CallKinds ==
  /\ Len(Calls) \in Nat /\ 1 \in 1..Len(Calls)
  /\ \A i \in 1..Len(Calls) : Calls[i] \in {"single", "dump"}
BY CallsAssumption

\* The datagrams the kernel makes are well formed, and the last one of a dump
\* and a refusal end the parsing.
LEMMA KernelDatagrams ==
  ASSUME NEW d \in LiveDumps, NEW f \in BOOLEAN, NEW s \in Nat
  PROVE  /\ DumpDatagram(d, f) \in Datagrams
         /\ d.part = Parts => Verdict(DumpDatagram(d, f)) # "more"
         /\ <<Closing("error", s, FALSE)>> \in Datagrams
         /\ Verdict(<<Closing("error", s, FALSE)>>) # "more"
         /\ <<Data(s, 1, FALSE)>> \in Datagrams
<1>1. /\ Data(d.seq, d.part, f) \in Messages /\ Closing("done", d.seq, f) \in Messages
      /\ Closing("error", s, FALSE) \in Messages /\ Data(s, 1, FALSE) \in Messages
  BY DEF LiveDumps, Dumps, Messages, Data, Closing
<1>2. DumpDatagram(d, f) \in Datagrams
  BY <1>1 DEF DumpDatagram, Datagrams
<1>3. ASSUME d.part = Parts PROVE Verdict(DumpDatagram(d, f)) # "more"
  <2>1. DumpDatagram(d, f) = <<Data(d.seq, d.part, f), Closing("done", d.seq, f)>>
    BY <1>3 DEF DumpDatagram
  <2>2. 2 \in DOMAIN DumpDatagram(d, f) /\ DumpDatagram(d, f)[2].kind = "done"
    BY <2>1 DEF Closing
  <2>3. Stops(DumpDatagram(d, f)) # {}
    BY <2>2 DEF Stops
  <2> QED BY <1>2, <2>3, VerdictCases DEF Datagrams
<1>4. /\ <<Closing("error", s, FALSE)>> \in Datagrams
      /\ <<Data(s, 1, FALSE)>> \in Datagrams
  <2>1. ASSUME NEW msg \in Messages PROVE <<msg>> \in Datagrams
    BY DEF Datagrams
  <2> QED BY <1>1, <2>1
<1>5. Verdict(<<Closing("error", s, FALSE)>>) # "more"
  <2>1. 1 \in Stops(<<Closing("error", s, FALSE)>>)
    BY DEF Stops, Closing
  <2> QED BY <2>1, <1>4, VerdictCases DEF Datagrams
<1> QED BY <1>2, <1>3, <1>4, <1>5

\* A datagram joins a queue and is its newest.
LEMMA Enqueued ==
  ASSUME NEW queue \in Seq(Datagrams), NEW dgram \in Datagrams
  PROVE  /\ Append(queue, dgram) \in Seq(Datagrams) /\ Append(queue, dgram) # <<>>
         /\ Verdict(dgram) # "more" => Ends(Append(queue, dgram))
<1>1. /\ Append(queue, dgram) \in Seq(Datagrams)
      /\ Len(Append(queue, dgram)) = Len(queue) + 1 /\ Len(queue) \in Nat
      /\ Append(queue, dgram)[Len(queue) + 1] = dgram
  OBVIOUS
<1>2. Append(queue, dgram) # <<>>
  BY <1>1
<1> QED BY <1>1, <1>2 DEF Ends

\* The kernel's next datagram is queued or its loss is due at the next recv.
LEMMA Generated ==
  ASSUME NEW d \in LiveDumps, NEW queue \in Seq(Datagrams), Generate(d, queue),
         disturbed \in BOOLEAN
  PROVE  /\ rq' \in Seq(Datagrams) /\ dumping' \in LiveDumps \cup {NoDump}
         /\ overrun' \in BOOLEAN /\ disturbed' \in BOOLEAN
         /\ ~overrun' => rq' # <<>> /\ (dumping' = NoDump => Ends(rq'))
<1>1. dumping' \in LiveDumps \cup {NoDump} /\ (dumping' = NoDump => d.part = Parts)
  <2>1. d.part \in 1..Parts /\ d \in Dumps /\ Parts \in Nat
    BY BoundsAssumption DEF LiveDumps
  <2>2. CASE d.part = Parts
    BY <2>2 DEF Generate, Following
  <2>3. CASE d.part # Parts
    <3>1. dumping' = [d EXCEPT !.part = @ + 1]
      BY <2>3 DEF Generate, Following
    <3>2. dumping' \in LiveDumps
      BY <3>1, <2>1, <2>3 DEF LiveDumps, Dumps
    <3> QED BY <3>2, DumpAssumption DEF LiveDumps
  <2> QED BY <2>2, <2>3
<1>2. CASE rq' = queue /\ overrun' = TRUE /\ UNCHANGED disturbed
  BY <1>1, <1>2
<1>3. ASSUME NEW f \in BOOLEAN, rq' = Append(queue, DumpDatagram(d, f)),
             disturbed' = (disturbed \/ f), overrun' = FALSE
      PROVE  /\ rq' \in Seq(Datagrams) /\ rq' # <<>> /\ disturbed' \in BOOLEAN
             /\ d.part = Parts => Ends(rq')
  <2>1. DumpDatagram(d, f) \in Datagrams /\ (d.part = Parts => Verdict(DumpDatagram(d, f)) # "more")
    BY KernelDatagrams
  <2> QED BY <1>3, <2>1, Enqueued
<1> QED BY <1>1, <1>2, <1>3 DEF Generate

-----------------------------------------------------------------------------
(* The steps.                                                              *)

\* The head of a queue is taken; a queue of two keeps its newest datagram.
LEMMA Dequeued ==
  ASSUME NEW queue \in Seq(Datagrams), queue # <<>>
  PROVE  /\ Head(queue) \in Datagrams /\ Tail(queue) \in Seq(Datagrams)
         /\ Ends(queue) /\ Verdict(Head(queue)) = "more" => Ends(Tail(queue))
<1>1. /\ Head(queue) \in Datagrams /\ Tail(queue) \in Seq(Datagrams)
      /\ Len(Tail(queue)) = Len(queue) - 1 /\ Head(queue) = queue[1]
      /\ Len(queue) \in Nat \ {0}
      /\ \A i \in 1..Len(Tail(queue)) : Tail(queue)[i] = queue[i + 1]
  BY HeadTailProperties, EmptySeq
<1>2. ASSUME Ends(queue), Verdict(Head(queue)) = "more" PROVE Ends(Tail(queue))
  <2>1. Len(queue) # 1
    BY <1>1, <1>2 DEF Ends
  <2>2. Len(Tail(queue)) \in Nat /\ Len(Tail(queue)) >= 1
    BY <1>1, <2>1
  <2>3. Tail(queue)[Len(Tail(queue))] = queue[Len(queue)]
    BY <1>1, <2>2
  <2>4. Tail(queue) # <<>>
    <3>1. Len(<<>>) = 0
      BY EmptySeq
    <3> DEFINE length == Len(Tail(queue))
    <3> HIDE DEF length
    <3>a. length \in Nat /\ length >= 1
      BY <2>2, Zenon DEF length
    <3>b. length # 0
      BY <3>a
    <3>2. Len(Tail(queue)) # 0
      BY <3>b, Zenon DEF length
    <3> QED BY <3>1, <3>2, Zenon
  <2> QED BY <1>2, <2>3, <2>4 DEF Ends
<1> QED BY <1>1, <1>2

\* What one call of parse_datagram and the branch after it change.
LEMMA Handled ==
  ASSUME Inv, NEW dgram \in Datagrams, pc = "recv", Handle(dgram)
  PROVE  /\ pc' \in {"request", "recv", "done", "failed"}
         /\ call' \in 1..Len(Calls)
         /\ restarts' \in 0..Attempts /\ (pc' \notin {"done", "failed"} => restarts' < Attempts)
         /\ out' \in Seq(Messages) /\ Unflagged(out')
         /\ answers' \in Seq(Answers) /\ NoInterruptedFrame'
         /\ tracked' = tracked \/ tracked' = rcvbuf
         /\ pc' = "recv" => call' = call /\ Verdict(dgram) = "more"
<1> DEFINE frames == out \o Frames(dgram)
<1>0. dgram \in Seq(Messages) /\ dgram # <<>>
  BY DEF Datagrams
<1>1. frames \in Seq(Messages) /\ Unflagged(frames)
  BY <1>0, FramesUnflagged, ConcatUnflagged DEF Inv, Shape
<1>2. Verdict(dgram) \in {"more", "intr", "done", "error"}
  BY <1>0, VerdictCases
<1>3. out' = frames
  BY DEF Handle
<1>4. restarts \in Nat /\ restarts < Attempts /\ Attempts \in Nat \ {0} /\ Len(Calls) \in Nat
  BY BoundsAssumption, CallKinds DEF Inv, Shape
<1>5. ASSUME UNCHANGED answers PROVE NoInterruptedFrame' /\ answers' \in Seq(Answers)
  BY <1>5 DEF Inv, Shape, NoInterruptedFrame
<1>6. CASE Return(frames)
  <2> DEFINE a == [seq |-> seq, frames |-> frames, clean |-> ~disturbed]
  <2>1. a \in Answers /\ Unflagged(a.frames)
    BY <1>1, BoundsAssumption DEF Inv, Shape, Answers
  <2>2. answers' = Append(answers, a) /\ answers \in Seq(Answers)
    BY <1>6 DEF Return, Inv, Shape
  <2> HIDE DEF a
  <2>3. /\ answers' \in Seq(Answers) /\ Len(answers') = Len(answers) + 1
        /\ \A k \in 1..Len(answers) : answers'[k] = answers[k]
        /\ answers'[Len(answers) + 1] = a
        /\ Len(answers) \in Nat
        /\ DOMAIN answers' = 1..(Len(answers) + 1) /\ DOMAIN answers = 1..Len(answers)
    BY <2>1, <2>2
  <2>4. \A k \in DOMAIN answers' : Unflagged(answers'[k].frames)
    <3>1. \A k \in DOMAIN answers : Unflagged(answers[k].frames)
      BY DEF Inv, NoInterruptedFrame, Unflagged
    <3> QED BY <2>1, <2>3, <3>1
  <2>5. NoInterruptedFrame'
    BY <2>4 DEF NoInterruptedFrame, Unflagged
  <2>6. restarts' = 0 /\ (tracked' = tracked \/ tracked' = rcvbuf)
    BY <1>6 DEF Return
  <2>7. pc' \in {"request", "done"} /\ call' \in 1..Len(Calls)
    BY <1>6, <1>4 DEF Return, Inv, Shape
  <2> QED BY <1>1, <1>3, <1>4, <2>3, <2>5, <2>6, <2>7
<1>7. CASE Interrupted
  <2>1. /\ restarts' = restarts + 1 /\ UNCHANGED <<call, tracked, answers>>
        /\ pc' = IF Calls[call] = "dump" /\ restarts + 1 < Attempts THEN "request" ELSE "failed"
    BY <1>7 DEF Interrupted
  <2> QED BY <2>1, <1>1, <1>3, <1>4, <1>5 DEF Inv, Shape
<1>8. CASE pc' = "failed" /\ UNCHANGED <<call, restarts, tracked, answers>>
  BY <1>8, <1>1, <1>3, <1>5 DEF Inv, Shape
<1>9. CASE Verdict(dgram) = "more" /\ UNCHANGED <<pc, call, restarts, tracked, answers>>
  BY <1>9, <1>1, <1>3, <1>4, <1>5 DEF Inv, Shape
<1>10. \/ Return(frames)
       \/ Interrupted
       \/ pc' = "failed" /\ UNCHANGED <<call, restarts, tracked, answers>>
       \/ Verdict(dgram) = "more" /\ UNCHANGED <<pc, call, restarts, tracked, answers>>
  BY <1>2 DEF Handle
<1> QED BY <1>6, <1>7, <1>8, <1>9, <1>10

\* A plain request never goes on receiving.
LEMMA SingleEnds ==
  ASSUME Inv, NEW dgram \in Datagrams, pc = "recv", Handle(dgram), Calls[call] = "single"
  PROVE  pc' # "recv"
<1> DEFINE frames == out \o Frames(dgram)
<1>0. dgram \in Seq(Messages) /\ dgram # <<>> /\ out \in Seq(Messages)
  BY DEF Datagrams, Inv, Shape
<1>1. Frames(dgram) \in Seq(Messages)
  BY <1>0, FramesUnflagged
<1>2. Verdict(dgram) = "more" => frames # <<>>
  BY <1>0, <1>1, FramesUnflagged, VerdictCases, ConcatEqualIffEmpty
<1>3. Verdict(dgram) \in {"more", "intr", "done", "error"}
  BY <1>0, VerdictCases
<1>4. \/ Return(frames) \/ Interrupted \/ pc' = "failed"
  <2> HIDE DEF frames
  <2>1. CASE Verdict(dgram) \in {"more", "done"}
    BY <2>1, <1>2 DEF Handle, frames
  <2>2. CASE Verdict(dgram) \in {"intr", "error"}
    BY <2>2 DEF Handle, frames
  <2> QED BY <2>1, <2>2, <1>3
<1> QED BY <1>4 DEF Return, Interrupted

\* Before the first request the socket is quiet.
LEMMA InitInv == Init => Inv
<1> SUFFICES ASSUME Init PROVE Inv
  OBVIOUS
<1>1. seq \in 0..(SeqModulus - 1)
  BY BoundsAssumption DEF Init
<1>2. Shape
  <2>1. /\ pc = "request" /\ call \in 1..Len(Calls)
        /\ restarts \in 0..Attempts /\ restarts < Attempts
    BY BoundsAssumption, CallKinds DEF Init
  <2>2. out \in Seq(Messages) /\ rq \in Seq(Datagrams) /\ answers \in Seq(Answers)
    BY EmptySeq DEF Init
  <2>3. overrun \in BOOLEAN /\ disturbed \in BOOLEAN /\ dumping \in LiveDumps \cup {NoDump}
    BY DEF Init
  <2> QED BY <1>1, <2>1, <2>2, <2>3 DEF Shape
<1>3. Buffer
  <2>1. tracked \in MinRcvbuf..MaxRcvbuf
    BY BoundsAssumption DEF Init
  <2>2. sockbuf = tracked /\ rcvbuf = tracked /\ grown = FALSE
    BY DEF Init
  <2> QED BY <2>1, <2>2 DEF Buffer
<1>4. Waiting /\ Unflagged(out) /\ NoInterruptedFrame
  BY DEF Init, Waiting, Unflagged, NoInterruptedFrame
<1> QED BY <1>2, <1>3, <1>4 DEF Inv

\* A send leaves the answer, or the loss of its first datagram, in the queue.
LEMMA SendInv == ASSUME Inv, Send PROVE Inv'
<1>1. /\ pc = "send" /\ pc' = "recv" /\ out' = <<>>
      /\ UNCHANGED <<call, restarts, seq, tracked, rcvbuf, grown, sockbuf, answers>>
  BY DEF Send
<1>2. seq \in Nat /\ rq \in Seq(Datagrams) /\ disturbed \in BOOLEAN /\ 1 \in 1..Parts
  BY BoundsAssumption DEF Inv, Shape
<1>3. /\ rq' \in Seq(Datagrams) /\ dumping' \in LiveDumps \cup {NoDump}
      /\ overrun' \in BOOLEAN /\ disturbed' \in BOOLEAN
      /\ ~overrun' => rq' # <<>>
      /\ Calls[call] = "dump" /\ ~overrun' /\ dumping' = NoDump => Ends(rq')
  <2> DEFINE d0 == [seq |-> seq, part |-> 1]
             refusal == <<Closing("error", seq, FALSE)>>
             reply == <<Data(seq, 1, FALSE)>>
  <2>1. d0 \in LiveDumps
    BY <1>2 DEF LiveDumps, Dumps
  <2>2. refusal \in Datagrams /\ Verdict(refusal) # "more" /\ reply \in Datagrams
    BY <1>2, <2>1, KernelDatagrams
  <2>3. CASE Generate(d0, rq)
    <3> HIDE DEF d0
    <3> QED BY <2>1, <2>3, <1>2, Generated
  <2>4. CASE rq' = Append(rq, refusal) /\ UNCHANGED <<dumping, overrun, disturbed>>
    <3> HIDE DEF refusal
    <3> QED BY <2>2, <2>4, <1>2, Enqueued DEF Inv, Shape
  <2>5. CASE Calls[call] # "dump" /\ rq' = Append(rq, reply) /\ UNCHANGED <<dumping, overrun, disturbed>>
    <3> HIDE DEF reply
    <3> QED BY <2>2, <2>5, <1>2, Enqueued DEF Inv, Shape
  <2> QED BY <2>3, <2>4, <2>5 DEF Send, AcceptDump, AcceptSingle
<1>4. Shape'
  BY <1>1, <1>3 DEF Inv, Shape
<1>5. Waiting'
  BY <1>1, <1>3 DEF Waiting
<1>6. Buffer' /\ Unflagged(out)' /\ NoInterruptedFrame'
  BY <1>1 DEF Inv, Buffer, Unflagged, NoInterruptedFrame
<1> QED BY <1>4, <1>5, <1>6 DEF Inv

\* A recv takes a datagram and leaves something for the next one.
LEMMA RecvInv == ASSUME Inv, Recv PROVE Inv'
<1> DEFINE dgram == Head(rq)
<1>1. /\ pc = "recv" /\ ~overrun /\ rq # <<>> /\ Dequeue /\ Handle(dgram)
      /\ UNCHANGED <<seq, rcvbuf, grown, sockbuf>>
  BY DEF Recv
<1>2. rq \in Seq(Datagrams) /\ disturbed \in BOOLEAN /\ overrun \in BOOLEAN
      /\ dumping \in LiveDumps \cup {NoDump}
  BY DEF Inv, Shape
<1>3. dgram \in Datagrams /\ Tail(rq) \in Seq(Datagrams)
  BY <1>1, <1>2, Dequeued
<1>4. /\ rq' \in Seq(Datagrams) /\ dumping' \in LiveDumps \cup {NoDump}
      /\ overrun' \in BOOLEAN /\ disturbed' \in BOOLEAN
      /\ Calls[call] = "dump" /\ Verdict(dgram) = "more" /\ ~overrun' =>
            rq' # <<>> /\ (dumping' = NoDump => Ends(rq'))
  <2>1. CASE dumping = NoDump
    <3>1. rq' = Tail(rq) /\ UNCHANGED <<dumping, overrun, disturbed>>
      BY <1>1, <2>1 DEF Dequeue
    <3>2. Calls[call] = "dump" /\ Verdict(dgram) = "more" => Ends(Tail(rq))
      BY <1>1, <1>2, <2>1, Dequeued DEF Inv, Waiting
    <3>3. Ends(Tail(rq)) => Tail(rq) # <<>>
      BY DEF Ends
    <3> QED BY <1>2, <1>3, <3>1, <3>2, <3>3
  <2>2. CASE dumping # NoDump
    <3>1. dumping \in LiveDumps /\ Generate(dumping, Tail(rq))
      BY <1>1, <1>2, <2>2 DEF Dequeue
    <3> QED BY <1>2, <1>3, <3>1, Generated
  <2> QED BY <2>1, <2>2
<1>5. /\ pc' \in {"request", "recv", "done", "failed"}
      /\ call' \in 1..Len(Calls)
      /\ restarts' \in 0..Attempts /\ (pc' \notin {"done", "failed"} => restarts' < Attempts)
      /\ out' \in Seq(Messages) /\ Unflagged(out')
      /\ answers' \in Seq(Answers) /\ NoInterruptedFrame'
      /\ tracked' = tracked \/ tracked' = rcvbuf
      /\ pc' = "recv" => call' = call /\ Verdict(dgram) = "more"
  BY <1>1, <1>3, Handled
<1>6. pc' = "recv" => Calls[call] = "dump"
  <2>1. Calls[call] \in {"single", "dump"}
    BY CallKinds DEF Inv, Shape
  <2> QED BY <2>1, <1>1, <1>3, SingleEnds
<1> HIDE DEF dgram
<1>7. Shape'
  BY <1>1, <1>4, <1>5 DEF Inv, Shape
<1>8. Buffer'
  BY <1>1, <1>5, BoundsAssumption DEF Inv, Buffer, Doubled
<1>9. Waiting'
  BY <1>4, <1>5, <1>6 DEF Waiting
<1>10. Unflagged(out)'
  BY <1>5 DEF Unflagged
<1> QED BY <1>5, <1>7, <1>8, <1>9, <1>10 DEF Inv

\* Each step of the collector and its thread preserves the invariant.
LEMMA StepInv == Inv /\ [Next]_vars => Inv'
<1> SUFFICES ASSUME Inv, [Next]_vars PROVE Inv'
  OBVIOUS
<1>1. CASE Request
  <2>1. /\ pc = "request" /\ pc' = "send" /\ seq' = (seq + 1) % SeqModulus
        /\ rcvbuf' = tracked /\ grown' = FALSE /\ out' = <<>>
        /\ UNCHANGED <<call, restarts, tracked, sockbuf, rq, dumping, overrun, disturbed, answers>>
    BY <1>1 DEF Request, kernelVars
  <2>2. seq' \in 0..(SeqModulus - 1)
    BY <2>1, BoundsAssumption DEF Inv, Shape
  <2>3. Shape'
    BY <2>1, <2>2 DEF Inv, Shape
  <2>4. Buffer'
    BY <2>1 DEF Inv, Buffer
  <2>5. Waiting' /\ Unflagged(out)' /\ NoInterruptedFrame'
    BY <2>1 DEF Inv, Waiting, Unflagged, NoInterruptedFrame
  <2> QED BY <2>3, <2>4, <2>5 DEF Inv
<1>2. CASE Send
  BY <1>2, SendInv
<1>3. CASE Recv
  BY <1>3, RecvInv
<1>4. CASE Overflow
  <2>1. /\ pc = "recv" /\ overrun' = FALSE
        /\ UNCHANGED <<call, restarts, seq, tracked, out, rq, dumping, disturbed, answers>>
        /\ GrowTo(Doubled(rcvbuf))
    BY <1>4 DEF Overflow, Doubled
  <2>2. pc' \in {"send", "failed"}
    BY <2>1 DEF GrowTo
  <2>3. Shape'
    BY <2>1, <2>2 DEF Inv, Shape
  <2>4. Buffer'
    BY <2>1, BoundsAssumption DEF GrowTo, Doubled, Inv, Buffer
  <2>5. Waiting' /\ Unflagged(out)' /\ NoInterruptedFrame'
    BY <2>1, <2>2 DEF Inv, Waiting, Unflagged, NoInterruptedFrame
  <2> QED BY <2>3, <2>4, <2>5 DEF Inv
<1>5. CASE Fail
  BY <1>5 DEF Fail, threadVars, kernelVars, Inv, Shape, Buffer, Waiting, Unflagged,
        NoInterruptedFrame
<1>6. CASE UNCHANGED vars
  BY <1>6 DEF vars, callerVars, threadVars, kernelVars, Inv, Shape, Buffer, Waiting, Ends,
        Unflagged, NoInterruptedFrame
<1> QED BY <1>1, <1>2, <1>3, <1>4, <1>5, <1>6 DEF Next, Closed

-----------------------------------------------------------------------------
\* Every variable of the transport and of the kernel keeps its type, the
\* sequence number its width and the retry counter its limit.
THEOREM TypeCorrect == Spec => []TypeOK
<1>1. Inv => TypeOK
  <2> SUFFICES ASSUME Inv PROVE TypeOK
    OBVIOUS
  <2>1. tracked \in Nat /\ rcvbuf \in Nat /\ sockbuf \in Nat /\ grown \in BOOLEAN
    BY BoundsAssumption DEF Inv, Buffer, Doubled
  <2>2. rq \in Seq(Seq(Messages))
    BY SeqMonotonic DEF Inv, Shape, Datagrams
  <2>3. dumping \in Dumps \cup {NoDump}
    BY DEF Inv, Shape, LiveDumps
  <2> QED BY <2>1, <2>2, <2>3 DEF Inv, Shape, TypeOK
<1> QED BY <1>1, InitInv, StepInv, PTL DEF Spec

\* No recv is entered that nothing will answer, whatever was lost, flagged,
\* refused or left over from earlier requests.
THEOREM RecvAnsweredHolds == Spec => []RecvAnswered
<1>1. Inv => RecvAnswered
  BY DEF Inv, Waiting, RecvAnswered
<1> QED BY <1>1, InitInv, StepInv, PTL DEF Spec

\* SO_RCVBUF never passes its maximum, and what the socket and the thread
\* remember of it is never more than what is in force.
THEOREM RcvbufBoundedHolds == Spec => []RcvbufBounded
<1>1. Inv => RcvbufBounded
  BY BoundsAssumption DEF Inv, Buffer, Doubled, RcvbufBounded
<1> QED BY <1>1, InitInv, StepInv, PTL DEF Spec

\* No frame of an inconsistent part of a dump reaches a collector.
THEOREM NoInterruptedFrameHolds == Spec => []NoInterruptedFrame
<1>1. Inv => NoInterruptedFrame
  BY DEF Inv
<1> QED BY <1>1, InitInv, StepInv, PTL DEF Spec

-----------------------------------------------------------------------------
(* Dumps that were not interrupted.                                        *)

\* The first n parts of the dump with sequence number s.
FirstParts(s, n) == [p \in 1..n |-> Data(s, p, FALSE)]
PartOf(s, k) == [seq |-> s, part |-> k]

\* What a dump has received is its first parts, and one datagram is queued, with
\* the next part.
Continuing ==
    ~overrun /\ \E k \in 1..Parts :
        /\ out = FirstParts(seq, k - 1)
        /\ rq = <<DumpDatagram(PartOf(seq, k), FALSE)>>
        /\ dumping = Following(PartOf(seq, k))

\* While nothing was flagged, requests start on an empty queue, and new calls
\* when no dump goes on; a plain request has its one answer queued; and a dump
\* continues, or its datagram was lost, or it was sent again while the one that
\* lost its datagram goes on, and is refused.
Undisturbed ==
    ~disturbed =>
        /\ pc \in {"request", "send"} => rq = <<>> /\ ~overrun
        /\ pc = "request" \/ (pc = "send" /\ Calls[call] = "single") => dumping = NoDump
        /\ pc = "recv" /\ Calls[call] = "single" =>
              /\ out = <<>> /\ dumping = NoDump /\ ~overrun
              /\ rq \in {<< <<Data(seq, 1, FALSE)>> >>, << <<Closing("error", seq, FALSE)>> >>}
        /\ pc = "recv" /\ Calls[call] = "dump" =>
              \/ overrun /\ rq = <<>>
              \/ ~overrun /\ rq = << <<Closing("error", seq, FALSE)>> >>
              \/ Continuing

\* Every call made so far but the current one has its answer.
Counted == pc \in {"request", "send", "recv"} => Len(answers) = call - 1

CleanInv == Inv /\ Undisturbed /\ Counted /\ CleanDumpComplete

\* A sequence of one element.
LEMMA Singleton ==
  ASSUME NEW S, NEW x \in S, NEW q \in Seq(S), Len(q) = 1, q[1] = x
  PROVE  q = <<x>>
<1>1. <<x>> \in Seq(S) /\ Len(<<x>>) = 1 /\ <<x>>[1] = x
  OBVIOUS
<1>2. \A i \in 1..Len(q) : q[i] = <<x>>[i]
  BY <1>1
<1> QED BY <1>1, <1>2, SeqEqual, Zenon

\* What appending one element gives.
LEMMA OneMore ==
  ASSUME NEW S, NEW q \in Seq(S), NEW t \in Seq(S), NEW x \in S,
         Len(t) = Len(q) + 1, \A i \in 1..Len(q) : t[i] = q[i], t[Len(t)] = x
  PROVE  q \o <<x>> = t
<1>1. <<x>> \in Seq(S) /\ Len(<<x>>) = 1 /\ <<x>>[1] = x
  OBVIOUS
<1> DEFINE joined == q \o <<x>>
<1>2. /\ joined \in Seq(S) /\ Len(joined) = Len(q) + Len(<<x>>)
      /\ \A i \in 1..(Len(q) + Len(<<x>>)) : joined[i] =
            IF i <= Len(q) THEN q[i] ELSE <<x>>[i - Len(q)]
  BY <1>1, ConcatProperties, Zenon
<1> HIDE DEF joined
<1>3. Len(q) \in Nat
  OBVIOUS
<1>4. \A i \in 1..Len(joined) : joined[i] = t[i]
  BY <1>1, <1>2, <1>3
<1>5. joined = t
  BY <1>1, <1>2, <1>4, SeqEqual
<1> QED BY <1>5 DEF joined

\* The first parts of a dump as a sequence.
LEMMA Parted ==
  ASSUME NEW s \in Nat, NEW n \in Nat
  PROVE  /\ FirstParts(s, n) \in Seq(Messages) /\ Len(FirstParts(s, n)) = n
         /\ \A p \in 1..n : FirstParts(s, n)[p] = Data(s, p, FALSE)
<1>1. \A p \in 1..n : Data(s, p, FALSE) \in Messages
  BY DEF Data, Messages
<1>2. FirstParts(s, n) \in [1..n -> Messages]
  BY <1>1 DEF FirstParts
<1>3. \A p \in 1..n : FirstParts(s, n)[p] = Data(s, p, FALSE)
  BY DEF FirstParts
<1>4. FirstParts(s, n) \in Seq(Messages)
  BY <1>2
<1>5. Len(FirstParts(s, n)) = n
  BY <1>2
<1> QED BY <1>3, <1>4, <1>5

\* What parsing makes of the datagrams of an undisturbed exchange.
LEMMA CleanDatagrams ==
  ASSUME NEW s \in Nat, NEW k \in 1..Parts
  PROVE  /\ k < Parts => /\ Verdict(DumpDatagram(PartOf(s, k), FALSE)) = "more"
                         /\ Frames(DumpDatagram(PartOf(s, k), FALSE)) = <<Data(s, k, FALSE)>>
         /\ k = Parts => /\ Verdict(DumpDatagram(PartOf(s, k), FALSE)) = "done"
                         /\ Frames(DumpDatagram(PartOf(s, k), FALSE)) = <<Data(s, k, FALSE)>>
         /\ Verdict(<<Data(s, k, FALSE)>>) = "more"
         /\ Frames(<<Data(s, k, FALSE)>>) = <<Data(s, k, FALSE)>>
         /\ Verdict(<<Closing("error", s, FALSE)>>) = "error"
<1> DEFINE data == Data(s, k, FALSE)
           done == Closing("done", s, FALSE)
           fault == Closing("error", s, FALSE)
<1>0. /\ data \in Messages /\ done \in Messages /\ fault \in Messages
      /\ ~data.intr /\ data.kind = "data" /\ ~done.intr /\ done.kind = "done"
      /\ ~fault.intr /\ fault.kind = "error"
  BY BoundsAssumption DEF Messages, Data, Closing
<1>a. PartOf(s, k).part = k /\ PartOf(s, k).seq = s
  BY DEF PartOf
<1> HIDE DEF data, done, fault
<1>1. Stops(<<data>>) = {}
  BY <1>0 DEF Stops
<1>2. Stops(<<fault>>) = {1}
  BY <1>0 DEF Stops
<1>3. Stops(<<data, done>>) = {2}
  BY <1>0 DEF Stops
<1>4. Verdict(<<data>>) = "more" /\ Frames(<<data>>) = <<data>>
  BY <1>1 DEF Verdict, Frames
<1>5. Verdict(<<fault>>) = "error"
  <2>0. <<fault>> \in Seq(Messages)
    BY <1>0
  <2>1. Stop(<<fault>>) = 1
    BY <2>0, <1>2, StopFirst, Zenon
  <2> QED BY <1>0, <1>2, <2>1 DEF Verdict
<1>6. Verdict(<<data, done>>) = "done" /\ Frames(<<data, done>>) = <<data>>
  <2> DEFINE dgram == <<data, done>>
  <2>0. dgram \in Seq(Messages) /\ Len(dgram) = 2 /\ dgram[1] = data /\ dgram[2] = done
    BY <1>0
  <2> HIDE DEF dgram
  <2>1. Stop(dgram) = 2
    BY <2>0, <1>3, StopFirst, Zenon DEF dgram
  <2>2. SubSeq(dgram, 1, 1) = <<data>>
    <3>1. /\ SubSeq(dgram, 1, 1) \in Seq(Messages) /\ Len(SubSeq(dgram, 1, 1)) = 1
          /\ SubSeq(dgram, 1, 1)[1] = data
      BY <2>0
    <3> QED BY <3>1, <1>0, Singleton, Zenon
  <2> QED BY <1>0, <1>3, <2>0, <2>1, <2>2 DEF Verdict, Frames, dgram
<1>7. DumpDatagram(PartOf(s, k), FALSE) = IF k = Parts THEN <<data, done>> ELSE <<data>>
  BY <1>a DEF DumpDatagram, data, done
<1>8. k < Parts => k # Parts
  BY BoundsAssumption
<1> QED BY <1>4, <1>5, <1>6, <1>7, <1>8 DEF data, fault

\* One more part.
LEMMA NextPart ==
  ASSUME NEW s \in Nat, NEW k \in Nat \ {0}
  PROVE  FirstParts(s, k - 1) \o <<Data(s, k, FALSE)>> = FirstParts(s, k)
<1> DEFINE n == k - 1
<1>1. n \in Nat /\ n + 1 = k /\ 1..n \subseteq 1..k /\ k \in 1..k
  OBVIOUS
<1> HIDE DEF n
<1> DEFINE q == FirstParts(s, n)
           t == FirstParts(s, k)
           x == Data(s, k, FALSE)
<1>2. /\ q \in Seq(Messages) /\ Len(q) = n /\ \A p \in 1..n : q[p] = Data(s, p, FALSE)
      /\ t \in Seq(Messages) /\ Len(t) = k /\ \A p \in 1..k : t[p] = Data(s, p, FALSE)
  BY <1>1, Parted
<1>3. x \in Messages
  BY DEF Data, Messages
<1> HIDE DEF q, t, x
<1>4. Len(t) = Len(q) + 1 /\ (\A i \in 1..Len(q) : t[i] = q[i]) /\ t[Len(t)] = x
  BY <1>1, <1>2 DEF x
<1>5. q \o <<x>> = t
  BY <1>2, <1>3, <1>4, OneMore
<1> QED BY <1>5 DEF q, t, x, n

\* What a dump or a plain request owes its caller on a quiet socket.
Owed == IF Calls[call] = "dump" THEN FirstParts(seq, Parts) ELSE <<Data(seq, 1, FALSE)>>

\* Before the first request nothing has been answered.
LEMMA InitClean == Init => CleanInv
<1> SUFFICES ASSUME Init PROVE CleanInv
  OBVIOUS
<1>1. Undisturbed /\ Counted /\ CleanDumpComplete
  BY DEF Init, Undisturbed, Counted, CleanDumpComplete
<1> QED BY <1>1, InitInv DEF CleanInv

\* An answer returned is counted, and is what it owes if the socket is quiet.
LEMMA Returned ==
  ASSUME CleanInv, pc = "recv", NEW frames \in Seq(Messages), Return(frames),
         ~disturbed => frames = Owed
  PROVE  Counted' /\ CleanDumpComplete'
<1> DEFINE a == [seq |-> seq, frames |-> frames, clean |-> ~disturbed]
<1>1. /\ answers \in Seq(Answers) /\ call \in 1..Len(Calls) /\ Len(Calls) \in Nat
      /\ Len(answers) = call - 1 /\ seq \in Nat /\ disturbed \in BOOLEAN
  BY CallKinds, BoundsAssumption DEF CleanInv, Inv, Shape, Counted
<1>2. a \in Answers /\ a.seq = seq /\ a.frames = frames /\ a.clean = ~disturbed
  BY <1>1 DEF Answers
<1>3. answers' = Append(answers, a)
  BY DEF Return
<1> HIDE DEF a
<1>4. /\ Len(answers') = Len(answers) + 1
      /\ \A i \in 1..Len(answers) : answers'[i] = answers[i]
      /\ answers'[Len(answers) + 1] = a
      /\ DOMAIN answers' = 1..(Len(answers) + 1) /\ DOMAIN answers = 1..Len(answers)
      /\ Len(answers) \in Nat
  BY <1>1, <1>2, <1>3
<1>5. Counted'
  <2>1. \/ pc' = "done"
        \/ pc' = "request" /\ call' = call + 1
    BY DEF Return
  <2> QED BY <1>1, <1>4, <2>1 DEF Counted
<1>6. \A i \in DOMAIN answers : answers[i].clean =>
        answers[i].frames = IF Calls[i] = "dump" THEN WholeDump(answers[i].seq)
                            ELSE <<Data(answers[i].seq, 1, FALSE)>>
  BY DEF CleanInv, CleanDumpComplete
<1>7. a.clean => a.frames = IF Calls[call] = "dump" THEN WholeDump(a.seq)
                            ELSE <<Data(a.seq, 1, FALSE)>>
  BY <1>2 DEF Owed, WholeDump, FirstParts
<1>8. CleanDumpComplete'
  <2> SUFFICES ASSUME NEW i \in DOMAIN answers', answers'[i].clean
               PROVE  answers'[i].frames = IF Calls[i] = "dump" THEN WholeDump(answers'[i].seq)
                                           ELSE <<Data(answers'[i].seq, 1, FALSE)>>
    BY DEF CleanDumpComplete, WholeDump
  <2>1. CASE i \in 1..Len(answers)
    BY <1>4, <1>6, <2>1
  <2>2. CASE i = Len(answers) + 1
    <3>1. i = call
      BY <1>1, <2>2
    <3> QED BY <1>4, <1>7, <2>2, <3>1
  <2> QED BY <1>4, <2>1, <2>2
<1> QED BY <1>5, <1>8

\* The kernel's next datagram of a dump nothing else is queued for: if nothing
\* was flagged, it is the whole queue, or is lost.
LEMMA GeneratedClean ==
  ASSUME NEW k \in 1..Parts, Generate(PartOf(seq, k), <<>>), ~disturbed'
  PROVE  /\ dumping' = Following(PartOf(seq, k))
         /\ \/ overrun' /\ rq' = <<>>
            \/ ~overrun' /\ rq' = <<DumpDatagram(PartOf(seq, k), FALSE)>>
<1>1. dumping' = Following(PartOf(seq, k))
  BY DEF Generate
<1>2. CASE rq' = <<>> /\ overrun' = TRUE
  BY <1>1, <1>2
<1>3. ASSUME NEW f \in BOOLEAN, rq' = Append(<<>>, DumpDatagram(PartOf(seq, k), f)),
             disturbed' = (disturbed \/ f), overrun' = FALSE
      PROVE  ~overrun' /\ rq' = <<DumpDatagram(PartOf(seq, k), FALSE)>>
  <2>1. f = FALSE /\ ~overrun'
    BY <1>3
  <2>2. Append(<<>>, DumpDatagram(PartOf(seq, k), FALSE)) = <<DumpDatagram(PartOf(seq, k), FALSE)>>
    OBVIOUS
  <2> QED BY <1>3, <2>1, <2>2
<1> QED BY <1>1, <1>2, <1>3 DEF Generate

\* A dump whose next datagram the kernel produces continues, or loses it.
LEMMA ContinuedClean ==
  ASSUME NEW k \in 1..Parts, Generate(PartOf(seq, k), <<>>), out' = FirstParts(seq, k - 1),
         UNCHANGED <<seq, call>>, pc' = "recv", Calls[call] = "dump"
  PROVE  Undisturbed'
<1> SUFFICES ASSUME ~disturbed' PROVE (overrun' /\ rq' = <<>>) \/ Continuing'
  BY DEF Undisturbed
<1>1. /\ dumping' = Following(PartOf(seq, k))
      /\ \/ overrun' /\ rq' = <<>>
         \/ ~overrun' /\ rq' = <<DumpDatagram(PartOf(seq, k), FALSE)>>
  BY GeneratedClean
<1> QED BY <1>1 DEF Continuing, FirstParts, PartOf, Data, DumpDatagram, Closing, Following

\* A send on an empty queue queues the one datagram that answers it, or loses it.
LEMMA SendClean ==
  ASSUME CleanInv, Send
  PROVE  Undisturbed'
<1>1. /\ pc = "send" /\ pc' = "recv" /\ UNCHANGED <<call, seq>> /\ out' = <<>>
      /\ Calls[call] \in {"single", "dump"}
  BY CallKinds DEF Send, CleanInv, Inv, Shape
<1>2. CASE disturbed
  <2>1. disturbed'
    BY <1>2 DEF Send, AcceptDump, AcceptSingle, Generate
  <2> QED BY <2>1 DEF Undisturbed
<1>3. CASE ~disturbed /\ Calls[call] = "dump"
  <2>1. rq = <<>> /\ ~overrun
    BY <1>1, <1>3 DEF CleanInv, Undisturbed
  <2>2. AcceptDump
    BY <1>3 DEF Send
  <2>3. CASE dumping = NoDump
    <3>1. Generate(PartOf(seq, 1), <<>>)
      BY <2>1, <2>2, <2>3 DEF AcceptDump, PartOf
    <3>2. 1 \in 1..Parts /\ <<>> = FirstParts(seq, 1 - 1)
      BY BoundsAssumption DEF FirstParts
    <3> QED BY <1>1, <1>3, <3>1, <3>2, ContinuedClean
  <2>4. CASE dumping # NoDump
    <3>1. rq' = << <<Closing("error", seq, FALSE)>> >> /\ UNCHANGED overrun
      <4>1. ASSUME NEW dgram PROVE Append(<<>>, dgram) = <<dgram>>
        OBVIOUS
      <4>2. rq' = Append(<<>>, <<Closing("error", seq, FALSE)>>) /\ UNCHANGED overrun
        BY <2>1, <2>2, <2>4 DEF AcceptDump
      <4> QED BY <4>1, <4>2, Zenon
    <3> QED BY <1>1, <1>3, <2>1, <3>1 DEF Undisturbed, Closing
  <2> QED BY <2>3, <2>4
<1>4. CASE ~disturbed /\ Calls[call] = "single"
  <2>1. rq = <<>> /\ dumping = NoDump /\ ~overrun
    BY <1>1, <1>4 DEF CleanInv, Undisturbed
  <2>2. AcceptSingle
    BY <1>4 DEF Send
  <2>3. \/ rq' = << <<Data(seq, 1, FALSE)>> >>
        \/ rq' = << <<Closing("error", seq, FALSE)>> >>
    <3>1. ASSUME NEW dgram PROVE Append(<<>>, dgram) = <<dgram>>
      OBVIOUS
    <3>2. \/ rq' = Append(<<>>, <<Data(seq, 1, FALSE)>>)
          \/ rq' = Append(<<>>, <<Closing("error", seq, FALSE)>>)
      BY <2>1, <2>2 DEF AcceptSingle
    <3> QED BY <3>1, <3>2, Zenon
  <2>4. UNCHANGED <<dumping, overrun>>
    BY <2>2 DEF AcceptSingle
  <2> QED BY <1>1, <1>4, <2>1, <2>3, <2>4 DEF Undisturbed, Data, Closing
<1> QED BY <1>1, <1>2, <1>3, <1>4

\* On a quiet socket a plain request gets its reply, or fails.
LEMMA SingleClean ==
  ASSUME CleanInv, Recv, ~disturbed, Calls[call] = "single"
  PROVE  /\ rq' = <<>> /\ UNCHANGED <<dumping, overrun, disturbed>> /\ dumping = NoDump
         /\ \/ Return(Owed)
            \/ pc' = "failed" /\ UNCHANGED answers
<1> DEFINE reply == <<Data(seq, 1, FALSE)>>
           fault == <<Closing("error", seq, FALSE)>>
<1>1. /\ out = <<>> /\ dumping = NoDump /\ rq \in {<<reply>>, <<fault>>}
      /\ Dequeue /\ Handle(Head(rq))
  BY DEF CleanInv, Undisturbed, Recv
<1>2. seq \in Nat /\ 1 \in 1..Parts
  BY BoundsAssumption DEF CleanInv, Inv, Shape
<1>3. Verdict(reply) = "more" /\ Frames(reply) = reply /\ Verdict(fault) = "error"
  BY <1>2, CleanDatagrams
<1>4. <<>> \o reply = reply /\ reply # <<>> /\ Owed = reply
  BY DEF Owed
<1> HIDE DEF reply, fault
<1>5. rq' = <<>> /\ UNCHANGED <<dumping, overrun, disturbed>>
  <2>1. Tail(<<reply>>) = <<>> /\ Tail(<<fault>>) = <<>>
    OBVIOUS
  <2> QED BY <1>1, <2>1 DEF Dequeue
<1>6. CASE rq = <<reply>>
  <2>1. Handle(reply)
    BY <1>1, <1>6
  <2> QED BY <1>1, <1>3, <1>4, <1>5, <2>1 DEF Handle
<1>7. CASE rq = <<fault>>
  <2>1. Handle(fault)
    BY <1>1, <1>7
  <2> QED BY <1>1, <1>3, <1>5, <2>1 DEF Handle
<1> QED BY <1>1, <1>6, <1>7

\* On a quiet socket a dump takes its next part, and returns with the last.
LEMMA DumpClean ==
  ASSUME CleanInv, Recv, ~disturbed, Calls[call] = "dump", Continuing
  PROVE  \/ /\ Return(Owed) /\ rq' = <<>> /\ dumping = NoDump
            /\ UNCHANGED <<dumping, overrun, disturbed>>
         \/ \E k \in 1..Parts :
              /\ out' = FirstParts(seq, k - 1) /\ Generate(PartOf(seq, k), <<>>)
              /\ UNCHANGED <<pc, call, seq, answers>>
<1>1. PICK k \in 1..Parts :
        /\ out = FirstParts(seq, k - 1)
        /\ rq = <<DumpDatagram(PartOf(seq, k), FALSE)>>
        /\ dumping = Following(PartOf(seq, k))
  BY DEF Continuing
<1> DEFINE dgram == DumpDatagram(PartOf(seq, k), FALSE)
<1>2. seq \in Nat /\ Parts \in Nat /\ k \in Nat \ {0} /\ (k # Parts <=> k < Parts)
  BY BoundsAssumption DEF CleanInv, Inv, Shape
<1>3. out \o Frames(dgram) = FirstParts(seq, k)
  <2>1. Frames(dgram) = <<Data(seq, k, FALSE)>>
    BY <1>2, CleanDatagrams, Zenon
  <2> QED BY <1>1, <1>2, <2>1, NextPart
<1>4. Verdict(dgram) = (IF k = Parts THEN "done" ELSE "more")
  <2>1. /\ k = Parts => Verdict(dgram) = "done"
        /\ k < Parts => Verdict(dgram) = "more"
    BY <1>2, CleanDatagrams, Zenon
  <2> QED BY <1>2, <2>1
<1>5. Dequeue /\ Handle(Head(rq)) /\ UNCHANGED seq
  BY DEF Recv
<1> HIDE DEF dgram
<1>6. rq = <<dgram>> /\ Head(rq) = dgram /\ Tail(rq) = <<>>
  BY <1>1 DEF dgram
<1>7. Handle(dgram)
  BY <1>5, <1>6
<1>8. CASE k = Parts
  <2>1. dumping = NoDump
    BY <1>1, <1>8 DEF Following, PartOf
  <2>2. Return(FirstParts(seq, Parts))
    BY <1>3, <1>4, <1>7, <1>8 DEF Handle
  <2>3. rq' = <<>> /\ UNCHANGED <<dumping, overrun, disturbed>>
    BY <1>5, <1>6, <2>1 DEF Dequeue
  <2> QED BY <2>1, <2>2, <2>3 DEF Owed
<1>9. CASE k # Parts
  <2>1. k + 1 \in 1..Parts /\ (k + 1) - 1 = k
    BY <1>2, <1>9
  <2>2. dumping = PartOf(seq, k + 1)
    BY <1>1, <1>9 DEF Following, PartOf
  <2>3. dumping # NoDump
    BY <1>2, <2>1, <2>2, DumpAssumption DEF PartOf, Dumps
  <2>4. Generate(PartOf(seq, k + 1), <<>>)
    BY <1>5, <1>6, <2>2, <2>3 DEF Dequeue
  <2>5. out' = FirstParts(seq, k) /\ UNCHANGED <<pc, call, answers>>
    BY <1>3, <1>4, <1>7, <1>9 DEF Handle
  <2> QED BY <1>5, <2>1, <2>4, <2>5
<1> QED BY <1>8, <1>9

\* A dump that is refused fails.
LEMMA RefusedClean ==
  ASSUME CleanInv, Recv, rq = << <<Closing("error", seq, FALSE)>> >>
  PROVE  pc' = "failed" /\ UNCHANGED answers
<1> DEFINE fault == <<Closing("error", seq, FALSE)>>
<1>1. seq \in Nat /\ 1 \in 1..Parts
  BY BoundsAssumption DEF CleanInv, Inv, Shape
<1>2. Verdict(fault) = "error"
  BY <1>1, CleanDatagrams
<1>3. Handle(fault)
  BY DEF Recv
<1> HIDE DEF fault
<1> QED BY <1>2, <1>3 DEF Handle

\* Once disturbed, an answer is not marked clean.
LEMMA HandledAnyhow ==
  ASSUME CleanInv, Recv, disturbed
  PROVE  Undisturbed' /\ Counted' /\ CleanDumpComplete'
<1>1. disturbed'
  BY DEF Recv, Dequeue, Generate
<1>2. Undisturbed'
  BY <1>1 DEF Undisturbed
<1>3. Head(rq) \in Datagrams /\ out \in Seq(Messages) /\ Handle(Head(rq)) /\ pc = "recv"
  BY Dequeued DEF Recv, CleanInv, Inv, Shape
<1>4. Head(rq) \in Seq(Messages)
  BY <1>3 DEF Datagrams
<1>5. out \o Frames(Head(rq)) \in Seq(Messages)
  BY <1>3, <1>4, FramesUnflagged, ConcatProperties
<1>6. \/ Return(out \o Frames(Head(rq)))
      \/ UNCHANGED <<call, answers>>
  BY <1>3, <1>4, VerdictCases DEF Handle, Interrupted
<1>7. CASE Return(out \o Frames(Head(rq)))
  BY <1>2, <1>3, <1>5, <1>7, Returned
<1>8. CASE UNCHANGED <<call, answers>>
  <2>1. Len(answers) = call - 1
    BY <1>3 DEF CleanInv, Counted
  <2> QED BY <1>2, <1>8, <2>1 DEF CleanInv, Counted, CleanDumpComplete, WholeDump
<1> QED BY <1>6, <1>7, <1>8

\* A recv on a quiet socket: the answer is the owed one, or the dump goes on.
LEMMA RecvClean ==
  ASSUME CleanInv, Recv
  PROVE  Undisturbed' /\ Counted' /\ CleanDumpComplete'
<1>1. CASE disturbed
  BY <1>1, HandledAnyhow
<1> SUFFICES ASSUME ~disturbed PROVE Undisturbed' /\ Counted' /\ CleanDumpComplete'
  BY <1>1
<1>2. /\ pc = "recv" /\ ~overrun /\ seq \in Nat /\ Parts \in Nat
      /\ Calls[call] \in {"single", "dump"}
  BY CallKinds, BoundsAssumption DEF Recv, CleanInv, Inv, Shape
<1>3. Owed \in Seq(Messages)
  <2>1. Data(seq, 1, FALSE) \in Messages
    BY <1>2 DEF Data, Messages
  <2>2. FirstParts(seq, Parts) \in Seq(Messages)
    BY <1>2, Parted
  <2>3. <<Data(seq, 1, FALSE)>> \in Seq(Messages)
    <3>1. ASSUME NEW msg \in Messages PROVE <<msg>> \in Seq(Messages)
      OBVIOUS
    <3> QED BY <2>1, <3>1, Zenon
  <2> QED BY <2>2, <2>3, Zenon DEF Owed
<1>4. CASE /\ Return(Owed) /\ rq' = <<>> /\ dumping = NoDump
           /\ UNCHANGED <<dumping, overrun, disturbed>>
  <2>1. pc' \in {"request", "done"}
    BY <1>4 DEF Return
  <2>2. Undisturbed'
    BY <1>2, <1>4, <2>1 DEF Undisturbed
  <2> QED BY <1>2, <1>3, <1>4, <2>2, Returned
<1>5. CASE pc' = "failed" /\ UNCHANGED answers
  BY <1>2, <1>5 DEF CleanInv, Undisturbed, Counted, CleanDumpComplete, WholeDump
<1>6. ASSUME NEW k \in 1..Parts, out' = FirstParts(seq, k - 1), Generate(PartOf(seq, k), <<>>),
             UNCHANGED <<pc, call, seq, answers>>, Calls[call] = "dump"
      PROVE  Undisturbed' /\ Counted' /\ CleanDumpComplete'
  <2>1. Counted' /\ CleanDumpComplete'
    BY <1>6 DEF CleanInv, Counted, CleanDumpComplete, WholeDump
  <2>2. Undisturbed'
    BY <1>2, <1>6, ContinuedClean
  <2> QED BY <2>1, <2>2
<1>7. CASE Calls[call] = "single"
  BY <1>4, <1>5, <1>7, SingleClean
<1>8. CASE Calls[call] = "dump"
  <2>1. Continuing \/ rq = << <<Closing("error", seq, FALSE)>> >>
    BY <1>2, <1>8 DEF CleanInv, Undisturbed
  <2>2. CASE Continuing
    BY <1>4, <1>6, <1>8, <2>2, DumpClean
  <2>3. CASE rq = << <<Closing("error", seq, FALSE)>> >>
    BY <1>5, <2>3, RefusedClean
  <2> QED BY <2>1, <2>2, <2>3
<1> QED BY <1>2, <1>7, <1>8

\* Each step keeps a quiet socket quiet or disturbs it for good.
LEMMA StepClean == CleanInv /\ [Next]_vars => CleanInv'
<1> SUFFICES ASSUME CleanInv, [Next]_vars PROVE Undisturbed' /\ Counted' /\ CleanDumpComplete'
  BY StepInv DEF CleanInv
<1>1. CASE Request
  <2>1. /\ pc = "request" /\ pc' = "send"
        /\ UNCHANGED <<call, rq, dumping, overrun, disturbed, answers>>
    BY <1>1 DEF Request, kernelVars
  <2> QED BY <2>1 DEF CleanInv, Undisturbed, Counted, CleanDumpComplete, WholeDump
<1>2. CASE Send
  <2>1. pc = "send" /\ UNCHANGED <<call, answers>>
    BY <1>2 DEF Send
  <2> QED BY <1>2, <2>1, SendClean DEF CleanInv, Counted, CleanDumpComplete, WholeDump
<1>3. CASE Recv
  BY <1>3, RecvClean
<1>4. CASE Overflow
  <2>1. pc = "recv" /\ overrun /\ UNCHANGED <<call, disturbed, answers>>
    BY <1>4 DEF Overflow
  <2>2. /\ ~overrun' /\ UNCHANGED rq
        /\ pc' = "failed" \/ (pc' = "send" /\ Calls[call] = "dump")
    BY <1>4 DEF Overflow, GrowTo
  <2>3. ~disturbed /\ Calls[call] = "dump" => rq = <<>>
    BY <2>1 DEF CleanInv, Undisturbed, Continuing
  <2>4. Undisturbed'
    BY <2>1, <2>2, <2>3 DEF Undisturbed
  <2> QED BY <2>1, <2>2, <2>4 DEF CleanInv, Counted, CleanDumpComplete, WholeDump
<1>5. CASE Fail
  <2>1. pc' = "failed" /\ UNCHANGED <<overrun, disturbed, answers>>
    BY <1>5 DEF Fail, kernelVars
  <2> QED BY <2>1 DEF CleanInv, Undisturbed, Counted, CleanDumpComplete, WholeDump
<1>6. CASE UNCHANGED vars
  <2>1. UNCHANGED <<pc, call, seq, out, rq, dumping, overrun, disturbed, answers>>
    BY <1>6 DEF vars, callerVars, threadVars, kernelVars
  <2>2. Undisturbed'
    BY <2>1, Zenon DEF CleanInv, Undisturbed, Continuing
  <2>3. Counted' /\ CleanDumpComplete'
    BY <2>1 DEF CleanInv, Counted, CleanDumpComplete, WholeDump
  <2> QED BY <2>2, <2>3
<1> QED BY <1>1, <1>2, <1>3, <1>4, <1>5, <1>6 DEF Next, Closed

\* On a socket where nothing was flagged every call returned its whole table, in
\* order and once, or its own reply, whatever was lost and sent again: no datagram
\* of one request is left for the next (transport.rs: blocking_dump,
\* parse_datagram).
THEOREM CleanDumpCompleteHolds == Spec => []CleanDumpComplete
<1>1. CleanInv => CleanDumpComplete
  BY DEF CleanInv
<1> QED BY <1>1, InitClean, StepClean, PTL DEF Spec
=============================================================================
