---------------------------- MODULE NetlinkDump -----------------------------
(***************************************************************************)
(* One NetlinkSocket (crates/nlx-netlink/src/transport.rs) during one      *)
(* collect() of a collector that makes several requests on it, with the    *)
(* collector's dump_with_retries loop (collectors/rt.rs and its copies).   *)
(*                                                                         *)
(* The kernel is external and is modelled from what the transport handles: *)
(* it queues one datagram when a dump starts and one more after every      *)
(* recv, refuses a dump request while another one runs on the socket, may  *)
(* flag any later datagram NLM_F_DUMP_INTR, and may lose a datagram, which *)
(* the next recv reports as ENOBUFS.                                       *)
(***************************************************************************)
EXTENDS Naturals, Sequences, FiniteSets

CONSTANTS
    Calls,       \* the requests of one collect(): "single" or "dump"
    Attempts,    \* MAX_DUMP_RESTARTS: dumps one retry loop makes at most
    Parts,       \* datagrams of a complete dump
    MinRcvbuf,   \* MIN_RCVBUF, in units of 1 MiB
    MaxRcvbuf,   \* MAX_RCVBUF
    SeqModulus,  \* 2^32: nlmsg_seq is a u32 that wraps
    NoDump       \* no dump is running on the socket

ASSUME CallsAssumption == Calls \in Seq({"single", "dump"}) /\ Calls # <<>>
ASSUME BoundsAssumption ==
    /\ Attempts \in Nat \ {0}
    /\ Parts \in Nat \ {0}
    /\ MinRcvbuf \in Nat \ {0}
    /\ MaxRcvbuf \in Nat
    /\ MinRcvbuf <= MaxRcvbuf
    /\ SeqModulus \in Nat \ {0}

VARIABLES
    \* the collector and its NetlinkSocket
    pc,          \* "request", "send", "recv", "done" or "failed"
    call,        \* position in Calls
    restarts,    \* dump_with_retries' counter
    seq,         \* the nlmsg_seq of the current request
    tracked,     \* NetlinkSocket.rcvbuf_size
    \* the blocking_dump call on the pool thread
    rcvbuf,      \* its own rcvbuf_size
    grown,       \* enobufs_retried
    out,         \* frames accumulated since the last send
    \* the kernel's side of the socket
    sockbuf,     \* SO_RCVBUF in force
    rq,          \* queued datagrams
    dumping,     \* the dump in progress
    overrun,     \* ENOBUFS is due at the next recv
    \* history
    disturbed,   \* a datagram was flagged INTR since the socket opened
    answers      \* what each completed call returned

callerVars == <<pc, call, restarts, seq, tracked>>
threadVars == <<rcvbuf, grown, out>>
kernelVars == <<sockbuf, rq, dumping, overrun>>
vars == <<callerVars, threadVars, kernelVars, disturbed, answers>>

-----------------------------------------------------------------------------
Messages == [kind : {"data", "done", "error"}, seq : Nat, part : Nat, intr : BOOLEAN]
Dumps == [seq : Nat, part : Nat]

\* The marker is no dump.
ASSUME DumpAssumption == NoDump \notin Dumps

Data(s, p, f) == [kind |-> "data", seq |-> s, part |-> p, intr |-> f]
Closing(kind, s, f) == [kind |-> kind, seq |-> s, part |-> 0, intr |-> f]

Init ==
    /\ pc = "request" /\ call = 1 /\ restarts = 0
    /\ seq \in {0, SeqModulus - 1}
    /\ tracked = MinRcvbuf /\ rcvbuf = MinRcvbuf /\ grown = FALSE /\ out = <<>>
    /\ sockbuf = MinRcvbuf /\ rq = <<>> /\ dumping = NoDump /\ overrun = FALSE
    /\ disturbed = FALSE /\ answers = <<>>

-----------------------------------------------------------------------------
(* The kernel.                                                             *)

\* The datagram holding part d.part of a dump; the last one ends it.
DumpDatagram(d, flagged) ==
    IF d.part = Parts
    THEN <<Data(d.seq, d.part, flagged), Closing("done", d.seq, flagged)>>
    ELSE <<Data(d.seq, d.part, flagged)>>

Following(d) == IF d.part = Parts THEN NoDump ELSE [d EXCEPT !.part = @ + 1]

\* The kernel produces the next datagram of dump d behind `queue': the table
\* may have changed since the previous one, and the datagram may be lost.
Generate(d, queue) ==
    /\ dumping' = Following(d)
    /\ \/ \E flagged \in (IF d.part = 1 THEN {FALSE} ELSE BOOLEAN) :
            /\ rq' = Append(queue, DumpDatagram(d, flagged))
            /\ disturbed' = (disturbed \/ flagged)
            /\ overrun' = FALSE
       \/ rq' = queue /\ overrun' = TRUE /\ UNCHANGED disturbed

\* A dump request starts a dump, or is refused (EBUSY) while one is running.
AcceptDump ==
    IF dumping = NoDump
    THEN Generate([seq |-> seq, part |-> 1], rq)
    ELSE /\ rq' = Append(rq, <<Closing("error", seq, FALSE)>>)
         /\ UNCHANGED <<dumping, overrun, disturbed>>

\* A plain request is answered by one message and no NLMSG_DONE, or refused.
AcceptSingle ==
    /\ \/ rq' = Append(rq, <<Data(seq, 1, FALSE)>>)
       \/ rq' = Append(rq, <<Closing("error", seq, FALSE)>>)
    /\ UNCHANGED <<dumping, overrun, disturbed>>

\* recv takes the oldest datagram, and the kernel continues the dump.
Dequeue ==
    IF dumping = NoDump
    THEN rq' = Tail(rq) /\ UNCHANGED <<dumping, overrun, disturbed>>
    ELSE Generate(dumping, Tail(rq))

-----------------------------------------------------------------------------
(* NetlinkSocket::parse_datagram.                                          *)

\* Mutant: NLM_F_DUMP_INTR is looked for on the NLMSG_DONE message alone.
StopsAtDone(dgram) == {i \in DOMAIN dgram : dgram[i].kind \in {"done", "error"}}

\* Messages at which parsing of a datagram ends, and the first of them.
Stops(dgram) == {i \in DOMAIN dgram : dgram[i].intr \/ dgram[i].kind \in {"done", "error"}}
Stop(dgram) == CHOOSE i \in Stops(dgram) : \A j \in Stops(dgram) : i <= j

\* "more", "intr", or the kind of the terminating message.
Verdict(dgram) ==
    IF Stops(dgram) = {} THEN "more"
    ELSE IF dgram[Stop(dgram)].intr THEN "intr" ELSE dgram[Stop(dgram)].kind

\* Mutant: a datagram that ends the dump contributes nothing.
FramesUnlessDone(dgram) == IF Stops(dgram) = {} THEN dgram ELSE <<>>

\* The payloads pushed before that.
Frames(dgram) ==
    IF Stops(dgram) = {} THEN dgram ELSE SubSeq(dgram, 1, Stop(dgram) - 1)

-----------------------------------------------------------------------------
(* The collector's task and the pool thread it waits for.                  *)

\* dump() or request_single(): build_request draws a sequence number, and the
\* thread starts from the tracked buffer size.
Request ==
    /\ pc = "request"
    /\ seq' = (seq + 1) % SeqModulus
    /\ rcvbuf' = tracked
    /\ grown' = FALSE
    /\ out' = <<>>
    /\ pc' = "send"
    /\ UNCHANGED <<call, restarts, tracked, kernelVars, disturbed, answers>>

\* uring_send; every (re)start of a dump begins with an empty `out'.
Send ==
    /\ pc = "send"
    /\ IF Calls[call] = "dump" THEN AcceptDump ELSE AcceptSingle
    /\ out' = <<>>
    /\ pc' = "recv"
    /\ UNCHANGED <<call, restarts, seq, tracked, rcvbuf, grown, sockbuf, answers>>

\* Any other io_uring, dup or parse error ends the collect().
Fail ==
    /\ pc \in {"request", "send", "recv"}
    /\ pc' = "failed"
    /\ UNCHANGED <<call, restarts, seq, tracked, threadVars, kernelVars, disturbed, answers>>

\* The call returns Ok(frames): dump() adopts the thread's buffer size.
Return(frames) ==
    /\ answers' = Append(answers, [seq |-> seq, frames |-> frames, clean |-> ~disturbed])
    /\ tracked' = IF Calls[call] = "dump" THEN rcvbuf ELSE tracked
    /\ restarts' = 0
    /\ IF call = Len(Calls)
       THEN pc' = "done" /\ UNCHANGED call
       ELSE pc' = "request" /\ call' = call + 1

\* Mutant: one attempt more than the loop allows.
InterruptedLate ==
    /\ restarts' = restarts + 1
    /\ pc' = IF Calls[call] = "dump" /\ restarts <= Attempts THEN "request" ELSE "failed"
    /\ UNCHANGED <<call, tracked, answers>>

\* The call returns Err(DumpIntr): a dump is retried on the same socket.
Interrupted ==
    /\ restarts' = restarts + 1
    /\ pc' = IF Calls[call] = "dump" /\ restarts + 1 < Attempts THEN "request" ELSE "failed"
    /\ UNCHANGED <<call, tracked, answers>>

\* What the thread does with what one recv brought.
Handle(dgram) ==
    LET frames == out \o Frames(dgram)
        verdict == Verdict(dgram)
        complete == verdict = "done" \/ (Calls[call] = "single" /\ frames # <<>>)
    IN  /\ out' = frames
        /\ CASE verdict \in {"more", "done"} /\ complete -> Return(frames)
             [] verdict = "more" /\ ~complete -> UNCHANGED <<pc, call, restarts, tracked, answers>>
             [] verdict = "intr" -> Interrupted
             [] verdict = "error" ->
                  pc' = "failed" /\ UNCHANGED <<call, restarts, tracked, answers>>

\* Mutant: a plain request waits for NLMSG_DONE.
RecvUntilDone ==
    /\ pc = "recv" /\ ~overrun /\ rq # <<>>
    /\ Dequeue
    /\ IF Verdict(Head(rq)) = "more"
       THEN out' = out \o Frames(Head(rq)) /\ UNCHANGED <<pc, call, restarts, tracked, answers>>
       ELSE Handle(Head(rq))
    /\ UNCHANGED <<seq, rcvbuf, grown, sockbuf>>

Recv ==
    /\ pc = "recv" /\ ~overrun /\ rq # <<>>
    /\ Dequeue
    /\ Handle(Head(rq))
    /\ UNCHANGED <<seq, rcvbuf, grown, sockbuf>>

\* recv returns ENOBUFS: the first time in a dump the buffer is doubled up to
\* the maximum and the request is sent again; otherwise the call fails.
GrowTo(size) ==
    IF Calls[call] = "dump" /\ ~grown /\ size # rcvbuf
    THEN /\ sockbuf' = size /\ rcvbuf' = size
         /\ grown' = TRUE
         /\ pc' = "send"
    ELSE /\ pc' = "failed"
         /\ UNCHANGED <<sockbuf, rcvbuf, grown>>

\* Mutants: the doubling is not capped; receiving goes on without a resend.
OverflowUncapped ==
    /\ pc = "recv" /\ overrun
    /\ overrun' = FALSE
    /\ GrowTo(2 * rcvbuf)
    /\ UNCHANGED <<call, restarts, seq, tracked, out, rq, dumping, disturbed, answers>>
OverflowNoResend ==
    /\ pc = "recv" /\ overrun
    /\ overrun' = FALSE
    /\ sockbuf' = rcvbuf
    /\ UNCHANGED <<callerVars, threadVars, rq, dumping, disturbed, answers>>

Overflow ==
    /\ pc = "recv" /\ overrun
    /\ overrun' = FALSE
    /\ GrowTo(IF 2 * rcvbuf < MaxRcvbuf THEN 2 * rcvbuf ELSE MaxRcvbuf)
    /\ UNCHANGED <<call, restarts, seq, tracked, out, rq, dumping, disturbed, answers>>

\* The collector has returned and its socket is closed.
Closed == pc \in {"done", "failed"} /\ UNCHANGED vars

Next == Request \/ Send \/ Recv \/ Overflow \/ Fail \/ Closed

Spec == Init /\ [][Next]_vars

\* The pool thread keeps running; what it waits for is in the queue.
FairSpec == Spec /\ WF_vars(Request \/ Send \/ Recv \/ Overflow)

-----------------------------------------------------------------------------
Answers == [seq : Nat, frames : Seq(Messages), clean : BOOLEAN]

TypeOK ==
    /\ pc \in {"request", "send", "recv", "done", "failed"}
    /\ call \in 1..Len(Calls)
    /\ restarts \in 0..Attempts
    /\ seq \in 0..(SeqModulus - 1)
    /\ tracked \in Nat /\ rcvbuf \in Nat /\ sockbuf \in Nat
    /\ grown \in BOOLEAN /\ overrun \in BOOLEAN /\ disturbed \in BOOLEAN
    /\ out \in Seq(Messages)
    /\ rq \in Seq(Seq(Messages))
    /\ dumping \in Dumps \cup {NoDump}
    /\ answers \in Seq(Answers)

WholeDump(s) == [p \in 1..Parts |-> Data(s, p, FALSE)]

\* On a socket where no datagram was flagged a dump returns its whole table, in
\* order, once, and a plain request its own reply, whatever was asked before and
\* whatever was lost and sent again.
CleanDumpComplete ==
    \A k \in DOMAIN answers : answers[k].clean =>
        answers[k].frames = IF Calls[k] = "dump" THEN WholeDump(answers[k].seq)
                            ELSE <<Data(answers[k].seq, 1, FALSE)>>

\* A frame the kernel marked inconsistent never reaches a collector.
NoInterruptedFrame ==
    \A k \in DOMAIN answers : \A i \in DOMAIN answers[k].frames : ~answers[k].frames[i].intr

\* The thread never enters a recv nothing will answer: through interruptions,
\* restarts and left-over datagrams every send leaves a terminator behind it.
RecvAnswered == pc = "recv" => overrun \/ rq # <<>>

\* The size the socket remembers never exceeds the one in force, and no
\* sequence of restarts takes SO_RCVBUF past MAX_RCVBUF.
RcvbufBounded == tracked <= sockbuf /\ rcvbuf <= sockbuf /\ sockbuf <= MaxRcvbuf

\* The collect() ends, however often the dump is interrupted or overrun.
Terminates == <>(pc \in {"done", "failed"})

\* netlink-protocol.md 3.1: "nlmsg_seq -- Sequence number; match in reply to
\* detect stale messages": frames returned for a request are replies to it.
RepliesMatchSeq ==
    \A k \in DOMAIN answers : \A i \in DOMAIN answers[k].frames :
        answers[k].frames[i].seq = answers[k].seq
=============================================================================
