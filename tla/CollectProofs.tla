--------------------------- MODULE CollectProofs ----------------------------
(***************************************************************************)
(* Theorems about Collect, for any kernel and any number of scrapes.       *)
(***************************************************************************)
EXTENDS Collect, InductionProofs, FiniteSetTheorems

-----------------------------------------------------------------------------
(* What the answers are.                                                   *)

\* A collector fails, reports nothing or goes on, whatever fails.
LEMMA Reactions ==
  ASSUME NEW c \in CollectorNames, NEW op, NEW e
  PROVE  Reaction(c, op, e) \in {"fail", "empty", "skip"}
<1>1. c = "devlink" => Reaction(c, op, e) \in {"fail", "empty", "skip"}
  BY DEF Reaction, ProcFirst, DevlinkReaction, GenlReaction
<1>2. c = "ethtool" => Reaction(c, op, e) \in {"fail", "empty", "skip"}
  BY DEF Reaction, ProcFirst, EthtoolReaction, GenlReaction
<1>3. c = "ipvs" => Reaction(c, op, e) \in {"fail", "empty", "skip"}
  BY DEF Reaction, ProcFirst, IpvsReaction, GenlReaction
<1>4. c = "xfrm" => Reaction(c, op, e) \in {"fail", "empty", "skip"}
  BY DEF Reaction, ProcFirst, XfrmReaction
<1>5. c = "wireguard" => Reaction(c, op, e) \in {"fail", "empty", "skip"}
  BY DEF Reaction, ProcFirst, WgReaction, GenlReaction
<1>6. c = "nftables" => Reaction(c, op, e) \in {"fail", "empty", "skip"}
  BY DEF Reaction, ProcFirst, NftReaction
<1>7. c = "rtnetlink" => Reaction(c, op, e) \in {"fail", "empty", "skip"}
  BY DEF Reaction, ProcFirst, RtReaction
<1>8. c = "rtnetlink_extended" => Reaction(c, op, e) \in {"fail", "empty", "skip"}
  BY DEF Reaction, ProcFirst, RtxReaction
<1>9. c = "conntrack" => Reaction(c, op, e) \in {"fail", "empty", "skip"}
  BY DEF Reaction, ProcFirst, CtReaction
<1>10. c = "conntrack_expect" => Reaction(c, op, e) \in {"fail", "empty", "skip"}
  BY DEF Reaction, ProcFirst, ExpectReaction
<1>11. c = "sock_diag" => Reaction(c, op, e) \in {"fail", "empty", "skip"}
  BY DEF Reaction, ProcFirst, SockReaction
<1>12. c = "traffic_control" => Reaction(c, op, e) \in {"fail", "empty", "skip"}
  BY DEF Reaction, ProcFirst, TcReaction
<1>13. c = "drop_monitor" => Reaction(c, op, e) \in {"fail", "empty", "skip"}
  BY DEF Reaction, ProcFirst, DropReaction
<1>14. c \in DOMAIN ProcFirst => Reaction(c, op, e) = ProcReaction(ProcFirst[c], op)
  BY DEF Reaction, ProcFirst
<1>15. c \in DOMAIN ProcFirst => Reaction(c, op, e) \in {"fail", "empty", "skip"}
  BY <1>14 DEF ProcReaction
<1> QED
  BY <1>1, <1>2, <1>3, <1>4, <1>5, <1>6, <1>7, <1>8, <1>9, <1>10, <1>11, <1>12, <1>13, <1>15 DEF CollectorNames, ProcFirst

\* The request that answer i was given to.
Requested(c, answers, i) == Plan(c, SubSeq(answers, 1, i - 1))[i]

\* What is true of any answer, when the kernel went from state b to n.
Real(c, b, n, r, a) ==
    IF a.error = "none" THEN \E t \in b..n : a = Answer(c, t, r)
    ELSE IF a.error = "stale" THEN a = LeftAnswer(r, a.frames) /\ \E S : a.frames \in Seq(S)
    ELSE a = NoAnswer(r, a.error) /\ Reaction(c, r.op, a.error) = "skip"

\* What AnswersReal says of an answer that was left over: of another attempt at
\* the same dump, or of a request before that did not get its answer.
Rest(c, b, n, r, frames) == \E t \in b..n : frames \in Tails(Answer(c, t, r).frames)
Follows(answers, i, r) == i > 1 /\ ~r.fresh /\ answers[i - 1].error # "none"
Explained(c, b, n, answers, i, r, frames) ==
    \/ r.tries > 1 /\ Rest(c, b, n, r, frames)
    \/ Follows(answers, i, r) /\ frames \in {<<>>} \cup Misreadings(c, r.op)

\* AnswersReal with what it takes to be inductive: the answers are a sequence,
\* each to a request that there was, the kernel is in one of its states, what is
\* tried again may be, and a body is made of all the answers.
CollectInv ==
    /\ who \in Collectors
    /\ now \in 1..Len(Kernel[who]) /\ begun \in 1..now
    /\ \E S : got \in Seq(S)
    /\ \A i \in 1..Len(got) :
          /\ Real(who, begun, now, Requested(who, got, i), got[i])
          /\ Len(Plan(who, SubSeq(got, 1, i - 1))) > i - 1
          /\ got[i].error = "stale" =>
                Explained(who, begun, now, got, i, Requested(who, got, i), got[i].frames)
    /\ tries \in Nat
    /\ phase = "busy" /\ tries > 0 => Asked.tries > 1
    /\ Succeeded => /\ Len(got) = Len(Plan(who, got))
                    /\ body = Emit(who, got)

\* The kernel answers with sequences.
LEMMA AnswerSequence ==
  ASSUME NEW c \in Collectors, NEW t \in 1..Len(Kernel[c]), NEW r
  PROVE  \E S : Answer(c, t, r).frames \in Seq(S)
<1>1. <<>> \in Seq({})
  OBVIOUS
<1>2. t \in DOMAIN Kernel[c]
  BY KernelAssumption DEF Sequential
<1>3. CASE r.op \in DOMAIN Kernel[c][t] /\ r.arg \in DOMAIN Kernel[c][t][r.op]
  <2>1. Answer(c, t, r).frames = Kernel[c][t][r.op][r.arg]
    BY <1>3 DEF Answer
  <2>2. Kernel[c][t][r.op][r.arg] \in Seq(ToSet(Kernel[c][t][r.op][r.arg]))
    BY <1>2, <1>3, KernelAssumption DEF Sequential
  <2> QED BY <2>1, <2>2
<1>4. CASE ~(r.op \in DOMAIN Kernel[c][t] /\ r.arg \in DOMAIN Kernel[c][t][r.op])
  <2>1. Answer(c, t, r).frames = <<>>
    BY <1>4 DEF Answer
  <2> QED BY <1>1, <2>1
<1> QED BY <1>3, <1>4

\* An answer of the kernel is real: without an error it is what it is, with one
\* it has no frames.
LEMMA AnswerIsReal ==
  ASSUME NEW c, NEW b \in Nat, NEW n \in Nat, b <= n, NEW r,
         Answer(c, n, r).error # "none" => Reaction(c, r.op, Answer(c, n, r).error) = "skip"
  PROVE  /\ Real(c, b, n, r, Answer(c, n, r))
         /\ Answer(c, n, r).error # "stale"
<1>1. Answer(c, n, r).error # "stale"
  BY DEF Answer
<1>2. CASE Answer(c, n, r).error = "none"
  BY <1>1, <1>2 DEF Real
<1>3. CASE Answer(c, n, r).error # "none"
  <2>1. Answer(c, n, r) = NoAnswer(r, Answer(c, n, r).error)
    BY <1>3 DEF Answer, NoAnswer
  <2> QED BY <1>1, <1>3, <2>1 DEF Real
<1> QED BY <1>1, <1>2, <1>3

\* A failure that is tolerated is real.
LEMMA FailureIsReal ==
  ASSUME NEW c, NEW b, NEW n, NEW r, NEW e, e \notin Delivered, Reaction(c, r.op, e) = "skip"
  PROVE  Real(c, b, n, r, NoAnswer(r, e))
BY DEF Real, NoAnswer, Delivered

\* Later states of the kernel leave an answer as real as it was.
LEMMA RealLater ==
  ASSUME NEW c, NEW b \in Nat, NEW n \in Nat, NEW m \in Nat, n <= m, NEW r, NEW a,
         Real(c, b, n, r, a)
  PROVE  Real(c, b, m, r, a)
BY DEF Real

\* And as well explained.
LEMMA ExplainedLater ==
  ASSUME NEW c, NEW b \in Nat, NEW n \in Nat, NEW m \in Nat, n <= m, NEW answers, NEW i, NEW r,
         NEW frames, Explained(c, b, n, answers, i, r, frames)
  PROVE  Explained(c, b, m, answers, i, r, frames)
BY DEF Explained, Rest

\* Taking the answer to the request that is due keeps all of the invariant
\* but what it says of a body.
LEMMA TakenReal ==
  ASSUME CollectInv, NEW answer, NEW remains, Taken(answer, remains), Asking,
         Real(who, begun, now, Asked, answer),
         answer.error = "stale" =>
            Explained(who, begun, now, got, Len(got) + 1, Asked, answer.frames)
  PROVE  CollectInv'
<1>1. PICK S : got \in Seq(S)
  BY DEF CollectInv
<1> DEFINE T == S \cup {answer}
           L == Len(got)
<1>2. got \in Seq(T) /\ answer \in T /\ L \in Nat
  BY <1>1
<1>3. /\ got' = Append(got, answer) /\ got' \in Seq(T) /\ Len(got') = L + 1
      /\ \A i \in 1..L : got'[i] = got[i]
      /\ got'[L + 1] = answer
  BY <1>2, AppendProperties DEF Taken
<1>4. ASSUME NEW i \in 1..(L + 1)
      PROVE  /\ Real(who', begun', now', Requested(who', got', i), got'[i])
             /\ Len(Plan(who', SubSeq(got', 1, i - 1))) > i - 1
             /\ got'[i].error = "stale" =>
                   Explained(who', begun', now', got', i, Requested(who', got', i), got'[i].frames)
  <2>1. SubSeq(got', 1, i - 1) = SubSeq(got, 1, i - 1)
    BY <1>2, <1>3
  <2>2. Requested(who', got', i) = Requested(who, got, i)
    BY <2>1 DEF Requested, Taken
  <2>3. who' = who /\ begun' = begun /\ now' = now
    BY DEF Taken
  <2>4. i > 1 => got'[i - 1] = got[i - 1]
    BY <1>2, <1>3
  <2>5. \A r, frames : Explained(who, begun, now, got', i, r, frames)
                          <=> Explained(who, begun, now, got, i, r, frames)
    BY <2>4 DEF Explained, Follows
  <2>6. CASE i \in 1..L
    BY <1>3, <2>1, <2>2, <2>3, <2>5, <2>6 DEF CollectInv
  <2>7. CASE i = L + 1
    <3>1. SubSeq(got, 1, i - 1) = got /\ i - 1 = L
      BY <1>2, <2>7
    <3>2. Requested(who, got, i) = Asked
      BY <2>7, <3>1 DEF Requested, Asked
    <3>3. Len(Plan(who, got)) > L
      BY DEF Asking
    <3> QED BY <1>3, <2>1, <2>2, <2>3, <2>5, <2>7, <3>1, <3>2, <3>3
  <2> QED BY <2>6, <2>7
<1>5. ~Succeeded' /\ tries' = 0
  BY DEF Taken, Asking, Succeeded
<1> HIDE DEF T, L
<1> QED BY <1>3, <1>4, <1>5 DEF CollectInv, Taken, L

\* So does stopping.
LEMMA StopKeeps ==
  ASSUME CollectInv, NEW outcome, outcome # "ok", Stop(outcome)
  PROVE  CollectInv'
BY DEF CollectInv, Stop, Succeeded

\* And whatever the collector does about a failure.
LEMMA FailedKeeps ==
  ASSUME CollectInv, NEW answer, NEW remains, Failed(answer, remains), Asking,
         answer.error # "stale",
         Reaction(who, answer.op, answer.error) = "skip" => Real(who, begun, now, Asked, answer)
  PROVE  CollectInv'
<1>1. Reaction(who, answer.op, answer.error) \in {"fail", "empty", "skip"}
  BY Reactions, CollectorAssumption DEF CollectInv
<1>2. CASE Reaction(who, answer.op, answer.error) = "fail"
  BY <1>2, StopKeeps DEF Failed
<1>3. CASE Reaction(who, answer.op, answer.error) = "empty"
  BY <1>3, StopKeeps DEF Failed
<1>4. CASE Reaction(who, answer.op, answer.error) = "skip"
  BY <1>4, TakenReal DEF Failed, Skip
<1> QED BY <1>1, <1>2, <1>3, <1>4

\* No error has the name of an answer that is delivered.
LEMMA ErrorsNamed ==
  ASSUME NEW r, NEW e \in Errors(r)
  PROVE  e \notin Delivered
BY RefusalAssumption DEF Errors, Delivered

\* What is left on a socket is a sequence, and explained.
LEMMA LeftIsReal ==
  ASSUME CollectInv, Asking, NEW frames \in LeftFor(Asked), Dirty
  PROVE  /\ \E S : frames \in Seq(S)
         /\ Explained(who, begun, now, got, Len(got) + 1, Asked, frames)
<1>1. Len(got) \in Nat /\ now \in 1..Len(Kernel[who]) /\ begun \in 1..now /\ now \in Nat
      /\ \A t \in begun..now : t \in 1..Len(Kernel[who])
  <2>1. Kernel[who] \in Seq(ToSet(Kernel[who]))
    BY KernelAssumption DEF CollectInv, Sequential
  <2> QED BY <2>1 DEF CollectInv
<1>2. \A t \in begun..now : \E S : Answer(who, t, Asked).frames \in Seq(S)
  BY <1>1, AnswerSequence DEF CollectInv
<1>3. \A t \in begun..now : <<>> \in Tails(Answer(who, t, Asked).frames)
  <2> SUFFICES ASSUME NEW t \in begun..now PROVE <<>> \in Tails(Answer(who, t, Asked).frames)
    OBVIOUS
  <2> DEFINE s == Answer(who, t, Asked).frames
  <2>1. PICK S : s \in Seq(S)
    BY <1>2
  <2> HIDE DEF s
  <2>2. Len(s) \in 0..Len(s) /\ SubSeq(s, Len(s) + 1, Len(s)) = <<>>
    BY <2>1
  <2>3. <<>> \in Tails(s)
    BY <2>2 DEF Tails
  <2> QED BY <2>3 DEF s
<1>4. tries > 0 => Asked.tries > 1
  BY DEF CollectInv, Asking
<1>5. FollowsFailure => Follows(got, Len(got) + 1, Asked)
  <2> SUFFICES ASSUME FollowsFailure PROVE Follows(got, Len(got) + 1, Asked)
    OBVIOUS
  <2>1. PICK S : got \in Seq(S)
    BY DEF CollectInv
  <2>2. got # <<>> /\ ~Asked.fresh /\ Last(got).error # "none"
    BY DEF FollowsFailure, OtherSocket
  <2>3. Last(got) = got[Len(got)] /\ Len(got) > 0
    BY <2>1, <2>2 DEF Last
  <2>4. Len(got) + 1 > 1 /\ (Len(got) + 1) - 1 = Len(got)
    BY <1>1, <2>3
  <2> QED BY <2>2, <2>3, <2>4 DEF Follows
<1>6. CASE frames = <<>>
  <2>1. tries > 0 \/ FollowsFailure
    BY DEF Dirty, CollectInv
  <2>2. frames \in Seq({})
    BY <1>6
  <2>3. tries > 0 => Rest(who, begun, now, Asked, frames)
    BY <1>1, <1>3, <1>6 DEF Rest
  <2> QED BY <1>4, <1>5, <1>6, <2>1, <2>2, <2>3 DEF Explained
<1>7. CASE tries > 0 /\ \E t \in begun..now : frames \in Tails(Answer(who, t, Asked).frames)
  <2>1. PICK t \in begun..now : frames \in Tails(Answer(who, t, Asked).frames)
    BY <1>7
  <2>2. PICK S : Answer(who, t, Asked).frames \in Seq(S)
    BY <1>2
  <2>3. \A s \in Seq(S) : \A f \in Tails(s) : f \in Seq(S)
    <3> SUFFICES ASSUME NEW s \in Seq(S), NEW n \in 0..Len(s)
                 PROVE  SubSeq(s, n + 1, Len(s)) \in Seq(S)
      BY DEF Tails
    <3>1. Len(s) \in Nat /\ \A i \in (n + 1)..Len(s) : s[i] \in S
      OBVIOUS
    <3> QED BY <3>1, SubSeqProperties
  <2>4. frames \in Seq(S)
    BY <2>1, <2>2, <2>3
  <2>5. Rest(who, begun, now, Asked, frames)
    BY <2>1 DEF Rest
  <2> QED BY <1>4, <1>7, <2>4, <2>5 DEF Explained
<1>8. CASE FollowsFailure /\ frames \in Misreadings(who, Asked.op)
  <2>1. Sequential(frames)
    BY <1>8, MisreadAssumption DEF Misreadings, Attr
  <2> QED BY <1>5, <1>8, <2>1 DEF Explained, Sequential
<1> QED BY <1>6, <1>7, <1>8 DEF LeftFor

\* The invariant is true at the start.
LEMMA CollectInit ==
  Init => CollectInv
<1> SUFFICES ASSUME Init PROVE CollectInv
  OBVIOUS
<1>1. who \in Collectors /\ now = 1 /\ begun = 1 /\ got = <<>> /\ tries = 0 /\ ~Succeeded
  BY DEF Init, Succeeded
<1>2. Kernel[who] \in Seq(ToSet(Kernel[who])) /\ Kernel[who] # <<>>
  BY <1>1, KernelAssumption DEF Sequential
<1>3. Len(Kernel[who]) \in Nat \ {0}
  BY <1>2
<1>4. got \in Seq({}) /\ Len(got) = 0
  BY <1>1
<1> QED BY <1>1, <1>3, <1>4 DEF CollectInv

\* Every step keeps it: only Taken adds an answer, to the request that was due.
LEMMA CollectStep ==
  CollectInv /\ [Next]_vars => CollectInv'
<1> SUFFICES ASSUME CollectInv, [Next]_vars PROVE CollectInv'
  OBVIOUS
<1>1. Len(Kernel[who]) \in Nat /\ now \in Nat /\ begun \in Nat /\ begun <= now
  <2>1. Kernel[who] \in Seq(ToSet(Kernel[who]))
    BY KernelAssumption DEF CollectInv, Sequential
  <2> QED BY <2>1 DEF CollectInv
<1>2. CASE Change
  <2>1. now' \in 1..Len(Kernel[who]) /\ now' \in Nat /\ now <= now' /\ begun \in 1..now'
    BY <1>1, <1>2 DEF Change, CollectInv
  <2>2. \A i \in 1..Len(got) : Real(who, begun, now', Requested(who, got, i), got[i])
    BY <1>1, <2>1, RealLater DEF CollectInv
  <2>3. \A i \in 1..Len(got) : got[i].error = "stale" =>
           Explained(who, begun, now', got, i, Requested(who, got, i), got[i].frames)
    BY <1>1, <2>1, ExplainedLater DEF CollectInv
  <2>4. UNCHANGED <<who, phase, begun, got, tries, result, body>>
    BY <1>2 DEF Change
  <2> QED BY <2>1, <2>2, <2>3, <2>4 DEF CollectInv, Succeeded, Asked
<1>3. CASE Startup
  BY <1>3 DEF Startup, CollectInv, Succeeded
<1>4. CASE Begin
  <2>1. got' = <<>> /\ got' \in Seq({}) /\ Len(got') = 0 /\ ~Succeeded' /\ tries' = 0
    BY <1>4 DEF Begin, Succeeded
  <2>2. who' = who /\ now' \in 1..Len(Kernel[who]) /\ begun' \in 1..now'
    BY <1>1, <1>4 DEF Begin, CollectInv
  <2> QED BY <2>1, <2>2 DEF CollectInv
<1>5. CASE Answered
  <2> DEFINE answer == Answer(who, now, Asked)
  <2>1. answer.op = Asked.op
    BY DEF Answer
  <2>2. CASE answer.error = "none"
    <3>1. Real(who, begun, now, Asked, answer)
      BY <1>1, <2>2, AnswerIsReal
    <3> QED BY <1>5, <2>2, <3>1, TakenReal DEF Answered
  <2>3. CASE answer.error # "none"
    <3>1. /\ answer.error # "stale"
          /\ Reaction(who, answer.op, answer.error) = "skip" => Real(who, begun, now, Asked, answer)
      BY <1>1, <2>1, AnswerIsReal DEF Answer
    <3> QED BY <1>5, <2>3, <3>1, FailedKeeps DEF Answered
  <2> QED BY <2>2, <2>3
<1>6. CASE Refused
  <2>1. PICK e \in Errors(Asked), remains \in BOOLEAN : Failed(NoAnswer(Asked, e), remains)
    BY <1>6 DEF Refused
  <2>2. NoAnswer(Asked, e).op = Asked.op /\ NoAnswer(Asked, e).error = e /\ e \notin Delivered
    BY ErrorsNamed DEF NoAnswer
  <2>3. Reaction(who, Asked.op, e) = "skip" => Real(who, begun, now, Asked, NoAnswer(Asked, e))
    BY <2>2, FailureIsReal
  <2> QED BY <1>6, <2>1, <2>2, <2>3, FailedKeeps DEF Refused, Delivered
<1>7. CASE Interrupted
  <2>1. CASE tries + 1 < Asked.tries
    <3>1. Asked.tries > 1
      <4>1. CASE tries = 0
        BY <2>1, <4>1
      <4>2. CASE tries > 0
        BY <1>7, <4>2 DEF CollectInv, Interrupted, Asking
      <4> QED BY <4>1, <4>2 DEF CollectInv
    <3>2. /\ tries' = tries + 1
          /\ UNCHANGED <<who, phase, begun, now, got, result, body>>
      BY <1>7, <2>1 DEF Interrupted
    <3> QED BY <3>1, <3>2 DEF CollectInv, Succeeded, Asked
  <2>2. CASE ~(tries + 1 < Asked.tries)
    <3> DEFINE a == NoAnswer(Asked, "intr")
    <3>1. PICK remains \in BOOLEAN : Failed(a, remains)
      BY <1>7, <2>2 DEF Interrupted, Abandoned
    <3>2. a.op = Asked.op /\ a.error = "intr"
      BY DEF NoAnswer
    <3>3. Reaction(who, Asked.op, "intr") = "skip" => Real(who, begun, now, Asked, a)
      BY FailureIsReal DEF Delivered
    <3> HIDE DEF a
    <3> QED BY <1>7, <3>1, <3>2, <3>3, FailedKeeps DEF Interrupted
  <2> QED BY <2>1, <2>2
<1>8. CASE LeftOver
  <2>1. PICK frames \in LeftFor(Asked) : Taken(LeftAnswer(Asked, frames), TRUE)
    BY <1>8 DEF LeftOver
  <2>2. Asking /\ Dirty
    BY <1>8 DEF LeftOver
  <2>3. (\E S : frames \in Seq(S)) /\ Explained(who, begun, now, got, Len(got) + 1, Asked, frames)
    BY <2>2, LeftIsReal
  <2>4. LeftAnswer(Asked, frames).error = "stale" /\ LeftAnswer(Asked, frames).frames = frames
    BY DEF LeftAnswer, NoAnswer
  <2>5. Real(who, begun, now, Asked, LeftAnswer(Asked, frames))
    BY <2>3, <2>4 DEF Real
  <2> QED BY <2>1, <2>2, <2>3, <2>4, <2>5, TakenReal
<1>9. CASE Finish
  BY <1>9 DEF Finish, CollectInv, Succeeded, Asked
<1>10. CASE UNCHANGED vars
  BY <1>10 DEF vars, CollectInv, Succeeded, Asked
<1> QED BY <1>2, <1>3, <1>4, <1>5, <1>6, <1>7, <1>8, <1>9, <1>10 DEF Next

\* In every reachable state the invariant is true.
LEMMA CollectHolds == Spec => []CollectInv
BY CollectInit, CollectStep, PTL DEF Spec

\* Each answer a collector goes by is one of the kernel, given between the
\* beginning of this collect() and now to the request that was due; or none; or
\* what an attempt before, or a request before on the same socket, left there.
THEOREM AnswersRealHolds == Spec => []AnswersReal
<1>1. CollectInv => AnswersReal
  <2> SUFFICES ASSUME CollectInv, NEW i \in DOMAIN got
               PROVE  LET r == Requested(who, got, i)
                          follows == i > 1 /\ ~r.fresh /\ got[i - 1].error # "none"
                      IN  CASE got[i].error = "none" -> \E t \in Instants : got[i] = Answer(who, t, r)
                            [] got[i].error = "stale" ->
                                  /\ got[i] = LeftAnswer(r, got[i].frames)
                                  /\ \/ r.tries > 1 /\ \E t \in Instants :
                                            got[i].frames \in Tails(Answer(who, t, r).frames)
                                     \/ follows /\ got[i].frames \in {<<>>} \cup Misreadings(who, r.op)
                            [] OTHER -> /\ got[i] = NoAnswer(r, got[i].error)
                                        /\ Reaction(who, r.op, got[i].error) = "skip"
    BY DEF AnswersReal, Requested
  <2> DEFINE r == Requested(who, got, i)
  <2>1. i \in 1..Len(got)
    BY DEF CollectInv
  <2>2. Real(who, begun, now, r, got[i])
    BY <2>1 DEF CollectInv
  <2>3. got[i].error = "stale" => Explained(who, begun, now, got, i, r, got[i].frames)
    BY <2>1 DEF CollectInv
  <2> HIDE DEF r
  <2>4. CASE got[i].error = "none"
    BY <2>2, <2>4 DEF Real, Instants, r
  <2>5. CASE got[i].error = "stale"
    <3>1. got[i] = LeftAnswer(r, got[i].frames)
      BY <2>2, <2>5 DEF Real
    <3>2. Explained(who, begun, now, got, i, r, got[i].frames)
      BY <2>3, <2>5
    <3> QED BY <2>5, <3>1, <3>2 DEF Explained, Rest, Follows, Instants, r
  <2>6. CASE got[i].error \notin {"none", "stale"}
    BY <2>2, <2>6 DEF Real, r
  <2> QED BY <2>4, <2>5, <2>6
<1> QED BY <1>1, CollectHolds, PTL

-----------------------------------------------------------------------------
(* Collectors whose requests do not depend on the answers, and those among *)
(* them each of whose metrics comes from one request.                      *)

Independent ==
    {"ethtool", "conntrack", "conntrack_expect", "rtnetlink", "xfrm", "softnet", "softirq",
     "irq", "sockstat"}
Fixed == Independent \cup {"traffic_control", "sock_diag", "nftables"}

\* A list of requests that differ in their names.
Distinct(P) ==
    /\ \E S : P \in Seq(S)
    /\ \A i, j \in 1..Len(P) : P[i].op = P[j].op => i = j

\* Their requests are the same whatever the answers.
FixedPlan(c) == Plan(c, <<>>)

\* Whatever was answered, the requests of such a collector are the same.
LEMMA PlanFixed ==
  ASSUME NEW c \in Fixed, NEW answers
  PROVE  Plan(c, answers) = FixedPlan(c)
<1>1. c = "ethtool" => Plan(c, answers) = FixedPlan(c)
  BY DEF Plan, FixedPlan, EthtoolPlan
<1>2. c = "conntrack" => Plan(c, answers) = FixedPlan(c)
  BY DEF Plan, FixedPlan, CtPlan
<1>3. c = "conntrack_expect" => Plan(c, answers) = FixedPlan(c)
  BY DEF Plan, FixedPlan, ExpectPlan
<1>4. c = "rtnetlink" => Plan(c, answers) = FixedPlan(c)
  BY DEF Plan, FixedPlan, RtPlan
<1>5. c = "xfrm" => Plan(c, answers) = FixedPlan(c)
  BY DEF Plan, FixedPlan, XfrmPlan
<1>6. c = "softnet" => Plan(c, answers) = FixedPlan(c)
  BY DEF Plan, FixedPlan, SoftnetPlan
<1>7. c = "softirq" => Plan(c, answers) = FixedPlan(c)
  BY DEF Plan, FixedPlan, SoftirqPlan
<1>8. c = "irq" => Plan(c, answers) = FixedPlan(c)
  BY DEF Plan, FixedPlan, IrqPlan
<1>9. c = "sockstat" => Plan(c, answers) = FixedPlan(c)
  BY DEF Plan, FixedPlan, SockstatPlan
<1>10. c = "traffic_control" => Plan(c, answers) = FixedPlan(c)
  BY DEF Plan, FixedPlan, TcPlan
<1>11. c = "sock_diag" => Plan(c, answers) = FixedPlan(c)
  BY DEF Plan, FixedPlan, SockPlan
<1>12. c = "nftables" => Plan(c, answers) = FixedPlan(c)
  BY DEF Plan, FixedPlan, NftPlan
<1> QED BY <1>1, <1>2, <1>3, <1>4, <1>5, <1>6, <1>7, <1>8, <1>9, <1>10, <1>11, <1>12 DEF Fixed, Independent

\* The names of these requests, in the order they are made.
Names(c) ==
    CASE c = "ethtool" -> <<"resolve", "stats">>
      [] c = "conntrack" -> <<"cpus", "entries">>
      [] c = "conntrack_expect" -> <<"expect">>
      [] c = "rtnetlink" -> <<"links", "addresses", "routes", "neighbours">>
      [] c = "xfrm" -> <<"sa", "policy", "sadinfo", "spdinfo">>
      [] c = "softnet" -> <<"softnet_stat">>
      [] c = "softirq" -> <<"softirqs">>
      [] c = "irq" -> <<"interrupts">>
      [] c = "sockstat" -> <<"sockstat">>
      [] c = "traffic_control" -> <<"links", "qdiscs">>
      [] c = "sock_diag" -> <<"tcp4", "udp4", "tcp6", "udp6">>
      [] c = "nftables" -> <<"tables", "chains", "rules", "counters", "sets", "quotas", "limits",
                             "generation", "flowtables">>

\* P makes requests of these names.
Asks(P, names) == Len(P) = Len(names) /\ \A i \in 1..Len(P) : P[i].op = names[i]

\* A request has the name it was made with.
LEMMA RequestNames ==
  ASSUME NEW op, NEW n, NEW arg
  PROVE  /\ Dump(op, n).op = op /\ OnFresh(Dump(op, n)).op = op
         /\ Single(op).op = op /\ OnFresh(Single(op)).op = op
         /\ ReadFor(op, arg).op = op
BY DEF Dump, DumpFor, Single, OnFresh, ReadFor, Request

\* A list of one request.
LEMMA OneRequest ==
  ASSUME NEW r, NEW a, r.op = a
  PROVE  Distinct(<<r>>) /\ Asks(<<r>>, <<a>>)
<1> DEFINE P == <<r>>
<1>1. P \in Seq({r})
  OBVIOUS
<1>2. \A i, j \in 1..Len(P) : P[i].op = P[j].op => i = j
  OBVIOUS
<1>3. Asks(P, <<a>>)
  BY DEF Asks
<1> HIDE DEF P
<1>4. Distinct(P)
  BY <1>1, <1>2, Zenon DEF Distinct
<1> QED BY <1>3, <1>4 DEF P

\* Two requests of different names.
LEMMA TwoRequests ==
  ASSUME NEW r, NEW s, NEW a, NEW b, r.op = a, s.op = b, a # b
  PROVE  Distinct(<<r, s>>) /\ Asks(<<r, s>>, <<a, b>>)
<1> DEFINE P == <<r, s>>
<1>1. P \in Seq({r, s})
  OBVIOUS
<1>2. \A i, j \in 1..Len(P) : P[i].op = P[j].op => i = j
  OBVIOUS
<1>3. Asks(P, <<a, b>>)
  BY DEF Asks
<1> HIDE DEF P
<1>4. Distinct(P)
  BY <1>1, <1>2, Zenon DEF Distinct
<1> QED BY <1>3, <1>4 DEF P

\* Four requests of different names.
LEMMA FourRequests ==
  ASSUME NEW r, NEW s, NEW t, NEW u, NEW a, NEW b, NEW c, NEW d,
         r.op = a, s.op = b, t.op = c, u.op = d,
         a # b, a # c, a # d, b # c, b # d, c # d
  PROVE  Distinct(<<r, s, t, u>>) /\ Asks(<<r, s, t, u>>, <<a, b, c, d>>)
<1> DEFINE P == <<r, s, t, u>>
<1>1. P \in Seq({r, s, t, u})
  OBVIOUS
<1>2. \A i, j \in 1..Len(P) : P[i].op = P[j].op => i = j
  OBVIOUS
<1>3. Asks(P, <<a, b, c, d>>)
  BY DEF Asks
<1> HIDE DEF P
<1>4. Distinct(P)
  BY <1>1, <1>2, Zenon DEF Distinct
<1> QED BY <1>3, <1>4 DEF P

\* The nine requests of nftables.rs.
LEMMA NftPlanNames ==
  /\ Distinct(NftPlan(<<>>))
  /\ Asks(NftPlan(<<>>), <<"tables", "chains", "rules", "counters", "sets", "quotas", "limits",
                           "generation", "flowtables">>)
<1> DEFINE names == <<"tables", "chains", "rules", "counters", "sets", "quotas", "limits",
                      "generation", "flowtables">>
           dumped == <<"tables", "chains", "rules", "counters", "sets", "quotas", "limits">>
           P == NftPlan(<<>>)
           F == [i \in 1..7 |-> NftFresh(dumped[i])]
           R == <<OnFresh(Single("generation")), NftFresh("flowtables")>>
           S == {F[i] : i \in 1..7} \cup {R[1], R[2]}
<1>1. MapSeq(dumped, NftFresh) = F
  BY DEF MapSeq
<1>2. F \in Seq(S) /\ Len(F) = 7 /\ R \in Seq(S) /\ Len(R) = 2
  OBVIOUS
<1>3. P = F \o R
  BY <1>1 DEF NftPlan
<1>4. (\A i \in 1..7 : F[i].op = dumped[i]) /\ R[1].op = "generation" /\ R[2].op = "flowtables"
  BY RequestNames DEF NftFresh
<1> HIDE DEF F, R, S, P
<1>5. Joins(P, F, R, S)
  BY <1>2, <1>3, JoinParts
<1>6. P \in Seq(S) /\ Len(P) = 9
  BY <1>2, <1>5 DEF Joins
<1>7. (\A i \in 1..7 : P[i] = F[i]) /\ P[8] = R[1] /\ P[9] = R[2]
  BY <1>2, <1>5 DEF Joins
<1>8. \A i \in 1..9 : P[i].op = names[i]
  BY <1>4, <1>7
<1>9. \A i, j \in 1..9 : names[i] = names[j] => i = j
  OBVIOUS
<1>10. Len(names) = 9
  OBVIOUS
<1>11. Asks(P, names)
  BY <1>6, <1>8, <1>10 DEF Asks
<1> HIDE DEF names
<1>12. \A i, j \in 1..Len(P) : P[i].op = P[j].op => i = j
  BY <1>6, <1>8, <1>9
<1>13. Distinct(P)
  BY <1>6, <1>12, Zenon DEF Distinct
<1> QED BY <1>11, <1>13 DEF P, names

\* What each of these collectors requests, by name.
LEMMA PlanNames ==
  ASSUME NEW c \in Fixed
  PROVE  Distinct(FixedPlan(c)) /\ Asks(FixedPlan(c), Names(c))
<1> DEFINE Named == Distinct(FixedPlan(c)) /\ Asks(FixedPlan(c), Names(c))
<1>1. c = "ethtool" => Named
  BY TwoRequests, RequestNames DEF Plan, FixedPlan, EthtoolPlan, Names, Resolve
<1>2. c = "conntrack" => Named
  BY TwoRequests, RequestNames DEF Plan, FixedPlan, CtPlan, Names
<1>3. c = "conntrack_expect" => Named
  BY OneRequest, RequestNames DEF Plan, FixedPlan, ExpectPlan, Names
<1>4. c = "rtnetlink" => Named
  BY FourRequests, RequestNames DEF Plan, FixedPlan, RtPlan, Names
<1>5. c = "xfrm" => Named
  BY FourRequests, RequestNames DEF Plan, FixedPlan, XfrmPlan, Names
<1>6. c = "softnet" => Named
  BY OneRequest, RequestNames DEF Plan, FixedPlan, SoftnetPlan, Names, Read
<1>7. c = "softirq" => Named
  BY OneRequest, RequestNames DEF Plan, FixedPlan, SoftirqPlan, Names, Read
<1>8. c = "irq" => Named
  BY OneRequest, RequestNames DEF Plan, FixedPlan, IrqPlan, Names, Read
<1>9. c = "sockstat" => Named
  BY OneRequest, RequestNames DEF Plan, FixedPlan, SockstatPlan, Names, Read
<1>10. c = "traffic_control" => Named
  BY TwoRequests, RequestNames DEF Plan, FixedPlan, TcPlan, Names
<1>11. c = "sock_diag" => Named
  <2> DEFINE listed == <<OnFresh(Dump("tcp4", MaxDumpRestarts)), Dump("udp4", MaxDumpRestarts),
                         Dump("tcp6", MaxDumpRestarts), Dump("udp6", MaxDumpRestarts)>>
  <2>1. SockPlan(<<>>) = listed
    BY DEF SockPlan, SockDumps
  <2>2. Distinct(listed) /\ Asks(listed, <<"tcp4", "udp4", "tcp6", "udp6">>)
    BY FourRequests, RequestNames
  <2> HIDE DEF listed
  <2> QED BY <2>1, <2>2 DEF Plan, FixedPlan, Names
<1>12. c = "nftables" => Named
  BY NftPlanNames DEF Plan, FixedPlan, Names
<1> QED BY <1>1, <1>2, <1>3, <1>4, <1>5, <1>6, <1>7, <1>8, <1>9, <1>10, <1>11, <1>12 DEF Fixed, Independent

\* What Undisturbed answers to one request: as before if it failed, or got what
\* was left on its socket.
Picked(failed, r) == Where(failed, LAMBDA a : a.op = r.op /\ a.arg = r.arg)
Replied(c, t, failed, r) ==
    LET same == Picked(failed, r)
    IN  IF same = <<>> THEN Answer(c, t, r)
        ELSE IF same[1].error = "stale" THEN same[1] ELSE NoAnswer(r, same[1].error)

\* When nothing depends on the answers, one stage is like the next.
LEMMA UndisturbedFixed ==
  ASSUME NEW c, NEW P, \A answers : Plan(c, answers) = P, NEW t, NEW failed
  PROVE  Undisturbed(c, t, failed) = [i \in DOMAIN P |-> Replied(c, t, failed, P[i])]
<1> DEFINE M == [i \in DOMAIN P |-> Replied(c, t, failed, P[i])]
           stage == CHOOSE f : f = [n \in 0..MaxStages |->
                        IF n = 0 THEN <<>>
                        ELSE [i \in DOMAIN Plan(c, f[n - 1]) |->
                                 Replied(c, t, failed, Plan(c, f[n - 1])[i])]]
<1>1. Undisturbed(c, t, failed) = stage[MaxStages]
  BY DEF Undisturbed, MapSeq, Replied, Picked
<1>2. \E f : f = [n \in 0..MaxStages |->
                     IF n = 0 THEN <<>>
                     ELSE [i \in DOMAIN Plan(c, f[n - 1]) |->
                              Replied(c, t, failed, Plan(c, f[n - 1])[i])]]
  <2> DEFINE g == [n \in 0..MaxStages |-> IF n = 0 THEN <<>> ELSE M]
  <2>1. \A n \in 0..MaxStages :
           M = [i \in DOMAIN Plan(c, g[n - 1]) |-> Replied(c, t, failed, Plan(c, g[n - 1])[i])]
    OBVIOUS
  <2>2. g = [n \in 0..MaxStages |->
                IF n = 0 THEN <<>>
                ELSE [i \in DOMAIN Plan(c, g[n - 1]) |->
                         Replied(c, t, failed, Plan(c, g[n - 1])[i])]]
    BY <2>1
  <2> HIDE DEF g
  <2> QED BY <2>2
<1>3. stage = [n \in 0..MaxStages |->
                  IF n = 0 THEN <<>>
                  ELSE [i \in DOMAIN Plan(c, stage[n - 1]) |->
                           Replied(c, t, failed, Plan(c, stage[n - 1])[i])]]
  BY <1>2, Zenon
<1> HIDE DEF stage
<1>4. MaxStages \in 0..MaxStages /\ MaxStages # 0
  BY DEF MaxStages
<1>5. stage[MaxStages] = [i \in DOMAIN Plan(c, stage[MaxStages - 1]) |->
                             Replied(c, t, failed, Plan(c, stage[MaxStages - 1])[i])]
  BY <1>3, <1>4, Zenon
<1>6. Plan(c, stage[MaxStages - 1]) = P
  OBVIOUS
<1> QED BY <1>1, <1>5, <1>6

\* The answers are those to the requests of a list that does not change.
LEMMA FixedAnswers ==
  ASSUME CollectInv, Succeeded, who \in Fixed
  PROVE  /\ Len(got) \in Nat /\ DOMAIN got = 1..Len(got) /\ Len(got) = Len(FixedPlan(who))
         /\ DOMAIN FixedPlan(who) = 1..Len(got)
         /\ \A i \in 1..Len(got) : /\ Real(who, begun, now, FixedPlan(who)[i], got[i])
                                   /\ got[i].op = FixedPlan(who)[i].op
                                   /\ got[i].arg = FixedPlan(who)[i].arg
<1> DEFINE P == FixedPlan(who)
<1>1. /\ Len(got) \in Nat /\ DOMAIN got = 1..Len(got)
      /\ Len(got) = Len(Plan(who, got))
      /\ \A i \in 1..Len(got) : Real(who, begun, now, Requested(who, got, i), got[i])
  BY DEF CollectInv
<1>2. Len(got) = Len(P) /\ DOMAIN P = 1..Len(P)
  BY <1>1, PlanFixed, PlanNames DEF Distinct
<1>3. ASSUME NEW i \in 1..Len(got)
      PROVE  /\ Real(who, begun, now, P[i], got[i])
             /\ got[i].op = P[i].op
             /\ got[i].arg = P[i].arg
  <2>1. Requested(who, got, i) = P[i]
    BY PlanFixed DEF Requested
  <2>2. Real(who, begun, now, P[i], got[i])
    BY <1>1, <2>1
  <2> HIDE DEF P
  <2>3. \A t : Answer(who, t, P[i]).op = P[i].op /\ Answer(who, t, P[i]).arg = P[i].arg
    BY DEF Answer
  <2>4. \A e : NoAnswer(P[i], e).op = P[i].op /\ NoAnswer(P[i], e).arg = P[i].arg
    BY DEF NoAnswer
  <2>5. \A f : LeftAnswer(P[i], f).op = P[i].op /\ LeftAnswer(P[i], f).arg = P[i].arg
    BY DEF LeftAnswer, NoAnswer
  <2>6. \/ \E t : got[i] = Answer(who, t, P[i])
        \/ got[i] = LeftAnswer(P[i], got[i].frames)
        \/ got[i] = NoAnswer(P[i], got[i].error)
    BY <2>2 DEF Real
  <2> QED BY <2>2, <2>3, <2>4, <2>5, <2>6
<1> QED BY <1>1, <1>2, <1>3

\* The answers picked out for a request are to it, and are among the failures.
LEMMA PickedFirst ==
  ASSUME NEW T, NEW s \in Seq(T), NEW r, Picked(s, r) # <<>>
  PROVE  /\ Picked(s, r)[1].op = r.op /\ Picked(s, r)[1].arg = r.arg
         /\ \E j \in 1..Len(s) : Picked(s, r)[1] = s[j]
<1> DEFINE alike == {a \in T : a.op = r.op /\ a.arg = r.arg}
           same == Picked(s, r)
<1>1. [i \in DOMAIN s |-> IF s[i].op = r.op /\ s[i].arg = r.arg THEN <<s[i]>> ELSE <<>>]
      = [i \in DOMAIN s |-> IF s[i] \in alike THEN <<s[i]>> ELSE <<>>]
  OBVIOUS
<1>2. same = Sifted(s, alike)
  BY <1>1 DEF Where, Sifted, Picked
<1>3. same # <<>>
  OBVIOUS
<1> HIDE DEF alike, same
<1>4. same \in Seq(T) /\ Filters(same, s, alike)
  BY <1>2, SiftedFilters
<1>5. 1 \in 1..Len(same)
  BY <1>3, <1>4
<1>6. PICK j \in 1..Len(s) : s[j] \in alike /\ same[1] = s[j]
  BY <1>4, <1>5 DEF Filters
<1> QED BY <1>6 DEF alike, same

\* They are of this collect().
LEMMA PickedGot ==
  ASSUME CollectInv, NEW r, Picked(Failures, r) # <<>>
  PROVE  /\ Picked(Failures, r)[1].op = r.op /\ Picked(Failures, r)[1].arg = r.arg
         /\ \E j \in 1..Len(got) : Picked(Failures, r)[1] = got[j]
<1>1. PICK T : got \in Seq(T)
  BY DEF CollectInv
<1> DEFINE bad == {a \in T : a.error # "none"}
<1>2. Failures = Sifted(got, bad)
  BY <1>1 DEF Failures, Where, Sifted
<1>3. Failures \in Seq(T) /\ Filters(Failures, got, bad)
  BY <1>1, <1>2, SiftedFilters
<1> DEFINE same == Picked(Failures, r)
<1>4. same[1].op = r.op /\ same[1].arg = r.arg
  BY <1>3, PickedFirst
<1>5. \E j \in 1..Len(Failures) : same[1] = Failures[j]
  BY <1>3, PickedFirst
<1>6. \A j \in 1..Len(Failures) : \E i \in 1..Len(got) : Failures[j] = got[i]
  BY <1>3 DEF Filters
<1> HIDE DEF same
<1>7. \E i \in 1..Len(got) : same[1] = got[i]
  BY <1>5, <1>6
<1> QED BY <1>4, <1>7 DEF same

\* Whatever request k of them was answered, at one instant an undisturbed
\* collect() with the same failures has the same frames for it.
LEMMA SameFrames ==
  ASSUME CollectInv, Succeeded, who \in Fixed, NEW k \in 1..Len(got)
  PROVE  \E t \in Instants :
            Frames(Undisturbed(who, t, Failures), Names(who)[k]) = Frames(got, Names(who)[k])
<1> DEFINE P == FixedPlan(who)
           n == Len(got)
           op == Names(who)[k]
           U(t) == Undisturbed(who, t, Failures)
<1>1. /\ n \in Nat /\ DOMAIN got = 1..n /\ DOMAIN P = 1..n
      /\ \A i \in 1..n : /\ Real(who, begun, now, P[i], got[i])
                         /\ got[i].op = P[i].op
                         /\ got[i].arg = P[i].arg
  BY FixedAnswers
<1>2. /\ \A i \in 1..n : P[i].op = op => i = k
      /\ P[k].op = op
  BY <1>1, FixedAnswers, PlanNames DEF Distinct, Asks
<1>3. \A t : U(t) = [i \in 1..n |-> Replied(who, t, Failures, P[i])]
  <2>1. \A answers : Plan(who, answers) = P
    BY PlanFixed
  <2> HIDE DEF P
  <2> SUFFICES ASSUME NEW t PROVE U(t) = [i \in 1..n |-> Replied(who, t, Failures, P[i])]
    OBVIOUS
  <2>2. U(t) = [i \in DOMAIN P |-> Replied(who, t, Failures, P[i])]
    BY <2>1, UndisturbedFixed
  <2> QED BY <1>1, <2>2
<1> DEFINE Same(r) == Picked(Failures, r)
<1>4. PICK T : got \in Seq(T)
  BY DEF CollectInv
<1> DEFINE bad == {a \in T : a.error # "none"}
           alike == {a \in T : a.op = P[k].op /\ a.arg = P[k].arg}
           same == Same(P[k])
<1>5. Failures \in Seq(T) /\ Filters(Failures, got, bad)
  <2>1. Failures = Sifted(got, bad)
    BY <1>4 DEF Failures, Where, Sifted
  <2> QED BY <1>4, <2>1, SiftedFilters
<1>6. \A t : \A i \in 1..n : Replied(who, t, Failures, P[i]).op = P[i].op
  <2> SUFFICES ASSUME NEW t, NEW i \in 1..n
               PROVE  Replied(who, t, Failures, P[i]).op = P[i].op
    OBVIOUS
  <2> HIDE DEF P
  <2>1. Same(P[i]) # <<>> => Same(P[i])[1].op = P[i].op
    BY PickedGot
  <2> HIDE DEF Same
  <2>2. Replied(who, t, Failures, P[i])
        = IF Same(P[i]) = <<>> THEN Answer(who, t, P[i])
          ELSE IF Same(P[i])[1].error = "stale" THEN Same(P[i])[1]
          ELSE NoAnswer(P[i], Same(P[i])[1].error)
    BY DEF Replied, Same
  <2>3. Answer(who, t, P[i]).op = P[i].op /\ \A e : NoAnswer(P[i], e).op = P[i].op
    BY DEF Answer, NoAnswer
  <2> QED BY <2>1, <2>2, <2>3
<1>7. same \in Seq(T) /\ Filters(same, Failures, alike)
  <2>1. \A i \in DOMAIN Failures : Failures[i] \in T
    BY <1>5
  <2>2. [i \in DOMAIN Failures |->
            IF Failures[i].op = P[k].op /\ Failures[i].arg = P[k].arg THEN <<Failures[i]>> ELSE <<>>]
        = [i \in DOMAIN Failures |-> IF Failures[i] \in alike THEN <<Failures[i]>> ELSE <<>>]
    BY <2>1
  <2>3. same = Sifted(Failures, alike)
    BY <2>2 DEF Where, Sifted, Picked
  <2> HIDE DEF same, alike
  <2> QED BY <1>5, <2>3, SiftedFilters
<1>8. got[k].error = "none" => same = <<>>
  <2> SUFFICES ASSUME got[k].error = "none", same # <<>> PROVE FALSE
    OBVIOUS
  <2>1. 1 \in 1..Len(same)
    BY <1>7
  <2>2. PICK f \in 1..Len(Failures) : Failures[f] \in alike
    BY <1>7, <2>1 DEF Filters
  <2>3. PICK j \in 1..n : got[j] \in bad /\ Failures[f] = got[j]
    BY <1>5 DEF Filters
  <2>4. P[j].op = op
    BY <1>1, <1>2, <2>2, <2>3
  <2> QED BY <1>2, <2>3, <2>4
<1>9. got[k].error # "none" => same # <<>>
  <2> SUFFICES ASSUME got[k].error # "none" PROVE same # <<>>
    OBVIOUS
  <2>1. got[k] \in bad /\ got[k] \in alike
    BY <1>1, <1>4
  <2>2. PICK f \in 1..Len(Failures) : Failures[f] = got[k]
    BY <1>5, <2>1 DEF Filters
  <2>3. Failures[f] \in alike
    BY <2>1, <2>2
  <2> HIDE DEF same, alike
  <2>4. PICK g \in 1..Len(same) : same[g] = Failures[f]
    BY <1>7, <2>3 DEF Filters
  <2> QED BY <2>4
<1>10. same # <<>> => same[1] = got[k]
  <2> SUFFICES ASSUME same # <<>> PROVE same[1] = got[k]
    OBVIOUS
  <2>1. same[1].op = P[k].op /\ \E j \in 1..n : same[1] = got[j]
    BY PickedGot
  <2>2. PICK j \in 1..n : same[1] = got[j]
    BY <2>1
  <2>3. P[j].op = op
    BY <1>1, <1>2, <2>1, <2>2
  <2> QED BY <1>2, <2>2, <2>3
<1>11. \E t \in Instants : Replied(who, t, Failures, P[k]).frames = got[k].frames
  <2>1. CASE got[k].error = "none"
    <3>1. PICK t \in Instants : got[k] = Answer(who, t, P[k])
      BY <1>1, <2>1 DEF Real, Instants
    <3>2. Replied(who, t, Failures, P[k]) = Answer(who, t, P[k])
      BY <1>8, <2>1 DEF Replied
    <3> QED BY <3>1, <3>2
  <2>2. CASE got[k].error = "stale"
    <3>1. Replied(who, now, Failures, P[k]) = got[k]
      BY <1>9, <1>10, <2>2 DEF Replied
    <3>2. now \in Instants
      BY DEF CollectInv, Instants
    <3> QED BY <3>1, <3>2
  <2>3. CASE got[k].error \notin {"none", "stale"}
    <3>1. Replied(who, now, Failures, P[k]) = NoAnswer(P[k], Same(P[k])[1].error)
      BY <1>9, <1>10, <2>3 DEF Replied
    <3>2. got[k] = NoAnswer(P[k], got[k].error)
      BY <1>1, <2>3 DEF Real
    <3>3. \A e : NoAnswer(P[k], e).frames = <<>>
      BY DEF NoAnswer
    <3>4. now \in Instants
      BY DEF CollectInv, Instants
    <3>5. Replied(who, now, Failures, P[k]).frames = <<>> /\ got[k].frames = <<>>
      BY <3>1, <3>2, <3>3
    <3> QED BY <3>4, <3>5
  <2> QED BY <2>1, <2>3, <2>2
<1>12. PICK t \in Instants : Replied(who, t, Failures, P[k]).frames = got[k].frames
  BY <1>11
<1> DEFINE u == U(t)
<1>13. u = [i \in 1..n |-> Replied(who, t, Failures, P[i])]
  BY <1>3
<1>14. DOMAIN u = 1..n /\ \A i \in 1..n : u[i] = Replied(who, t, Failures, P[i])
  BY <1>13
<1> HIDE DEF P, n, op, Same, same, U, u
<1>15. \A i \in 1..n : (IF u[i].op = op THEN u[i].frames ELSE <<>>)
                        = (IF got[i].op = op THEN got[i].frames ELSE <<>>)
  BY <1>1, <1>2, <1>6, <1>12, <1>14
<1>16. [i \in DOMAIN u |-> IF u[i].op = op THEN u[i].frames ELSE <<>>]
       = [i \in DOMAIN got |-> IF got[i].op = op THEN got[i].frames ELSE <<>>]
  BY <1>1, <1>14, <1>15
<1>17. Frames(u, op) = Frames(got, op)
  BY <1>16 DEF Frames
<1> QED BY <1>17 DEF u, op, U

-----------------------------------------------------------------------------
(* Samples that count keys.                                                *)

\* What a set is listed as has each of its elements once.
LEMMA SetListed ==
  ASSUME NEW S, IsFiniteSet(S)
  PROVE  /\ SetToSeq(S) \in [1..Cardinality(S) -> S] /\ Cardinality(S) \in Nat
         /\ \A i, j \in 1..Cardinality(S) : SetToSeq(S)[i] = SetToSeq(S)[j] => i = j
         /\ \A x \in S : \E i \in 1..Cardinality(S) : SetToSeq(S)[i] = x
<1> DEFINE n == Cardinality(S)
<1>1. n \in Nat /\ ExistsBijection(1..n, S)
  BY FS_CardinalityType
<1>2. \E f \in [1..n -> S] : IsInjective(f)
  BY <1>1 DEF ExistsBijection, Bijection, Injection
<1>3. SetToSeq(S) = CHOOSE f \in [1..n -> S] : IsInjective(f)
  BY DEF SetToSeq
<1>4. SetToSeq(S) \in [1..n -> S] /\ IsInjective(SetToSeq(S))
  BY <1>2, <1>3
<1>5. SetToSeq(S) \in Surjection(1..n, S)
  <2>1. IsFiniteSet(1..n) /\ Cardinality(1..n) = Cardinality(S) /\ IsFiniteSet(S)
    BY <1>1, FS_Interval
  <2>2. SetToSeq(S) \in Injection(1..n, S)
    BY <1>4 DEF Injection
  <2> QED BY <2>1, <2>2, FS_Injection
<1> QED BY <1>1, <1>4, <1>5 DEF IsInjective, Surjection

\* The keys of a sequence.
LEMMA KeysFinite ==
  ASSUME NEW S, NEW keys \in Seq(S)
  PROVE  IsFiniteSet({keys[i] : i \in DOMAIN keys})
<1> DEFINE D == {keys[i] : i \in DOMAIN keys}
<1>1. DOMAIN keys = 1..Len(keys) /\ Len(keys) \in Nat
  OBVIOUS
<1>2. IsFiniteSet(1..Len(keys))
  BY <1>1, FS_Interval
<1>3. keys \in Surjection(1..Len(keys), D)
  BY <1>1 DEF Surjection
<1> HIDE DEF D
<1> QED BY <1>2, <1>3, FS_Surjection DEF D

\* Samples of one metric, no two of which have the same labels.
OneEach(samples, name) ==
    /\ \E T : samples \in Seq(T)
    /\ \A i \in 1..Len(samples) : samples[i].name = name
    /\ \A i, j \in 1..Len(samples) : samples[i].labels = samples[j].labels => i = j

\* The count of each key.
Counts(keys, name) == Tally(keys, LAMBDA k, n : Gauge(name, k, n))

\* Counting keys makes such samples.
LEMMA CountsOneEach ==
  ASSUME NEW S, NEW keys \in Seq(S), NEW name
  PROVE  OneEach(Counts(keys, name), name)
<1> DEFINE D == {keys[i] : i \in DOMAIN keys}
           listed == SetToSeq(D)
           m == Cardinality(D)
           Count(k) == Len(FlattenSeq([j \in DOMAIN keys |->
                                          IF keys[j] = k THEN <<keys[j]>> ELSE <<>>]))
           e == [i \in 1..m |-> Gauge(name, listed[i], Count(listed[i]))]
<1>1. /\ listed \in [1..m -> D] /\ m \in Nat
      /\ \A i, j \in 1..m : listed[i] = listed[j] => i = j
  <2>1. IsFiniteSet(D)
    BY KeysFinite
  <2> HIDE DEF D
  <2> QED BY <2>1, SetListed
<1>2. Counts(keys, name) = FlattenSeq([i \in 1..m |-> <<e[i]>>])
  <2>1. Counts(keys, name)
        = FlattenSeq([i \in DOMAIN listed |-> <<Gauge(name, listed[i], Count(listed[i]))>>])
    BY DEF Counts, Tally, Grouped, Each, MapSeq, Where
  <2>2. DOMAIN listed = 1..m
    BY <1>1
  <2>3. \A i \in 1..m : <<Gauge(name, listed[i], Count(listed[i]))>> = <<e[i]>>
    OBVIOUS
  <2>4. [i \in DOMAIN listed |-> <<Gauge(name, listed[i], Count(listed[i]))>>]
        = [i \in 1..m |-> <<e[i]>>]
    BY <2>2, <2>3
  <2> QED BY <2>1, <2>4
<1> DEFINE T == {e[i] : i \in 1..m}
<1>3. e \in [1..m -> T]
  OBVIOUS
<1>4. \A i \in 1..m : e[i].name = name /\ e[i].labels = listed[i]
  BY DEF Gauge
<1> HIDE DEF e, T, m, listed
<1>5. FlattenSeq([i \in 1..m |-> <<e[i]>>]) = e
  BY <1>1, <1>3, FlattenSingles
<1>6. e \in Seq(T) /\ Len(e) = m
  BY <1>1, <1>3
<1>7. OneEach(e, name)
  BY <1>1, <1>4, <1>6 DEF OneEach
<1> QED BY <1>2, <1>5, <1>7

-----------------------------------------------------------------------------
(* The parts of a body, each from the frames of one request.               *)

\* rt.rs
RtNamed(frames) == Where(frames, LAMBDA f : "name" \in DOMAIN f)
RtWholeOf(frames) == Where(frames, LAMBDA f : f # <<>>)
RtUnbridged(frames) == Where(frames, LAMBDA f : f.family # "bridge")
RtLinks(frames) == Each(RtNamed(frames), LinkSamples)
RtAddresses(frames) ==
    Counts(MapSeq(RtWholeOf(frames), LAMBDA f : [family |-> RtFamily(f.family)]),
           "nft_address_count")
RtRoutes(frames) == Counts(MapSeq(RtWholeOf(frames), RtRouteKey), "nft_route_count")
RtNeighbours(frames) ==
    Counts(MapSeq(RtUnbridged(RtWholeOf(frames)), RtNeighKey), "nft_neighbor_count")

\* The samples of rt.rs are its four parts, one after the other.
LEMMA RtParts ==
  ASSUME NEW g
  PROVE  RtEmit(g) = RtLinks(Frames(g, "links")) \o RtAddresses(Frames(g, "addresses"))
                     \o RtRoutes(Frames(g, "routes")) \o RtNeighbours(Frames(g, "neighbours"))
BY DEF RtEmit, RtLinks, RtAddresses, RtRoutes, RtNeighbours, RtNamed, RtWholeOf, RtUnbridged, RtWhole,
   Counts, Tally,
   Grouped, Each, MapSeq, Where

\* xfrm.rs
XfrmWholeOf(frames) == Where(frames, XfrmWhole)
XfrmStates(frames) == Counts(MapSeq(XfrmWholeOf(frames), XfrmStateKey), "nft_xfrm_sa_count")
XfrmPolicies(frames) == Counts(MapSeq(XfrmWholeOf(frames), XfrmPolicyKey), "nft_xfrm_sp_count")
XfrmSad(frames) == XfrmHash(frames, "nft_xfrm_sad_hash_count", "nft_xfrm_sad_hash_max")
XfrmSpd(frames) == XfrmHash(frames, "nft_xfrm_spd_hash_count", "nft_xfrm_spd_hash_max")

\* Those of xfrm.rs are its four parts.
LEMMA XfrmParts ==
  ASSUME NEW g
  PROVE  XfrmEmit(g) = XfrmStates(Frames(g, "sa")) \o XfrmPolicies(Frames(g, "policy"))
                       \o XfrmSad(Frames(g, "sadinfo")) \o XfrmSpd(Frames(g, "spdinfo"))
BY DEF XfrmEmit, XfrmStates, XfrmPolicies, XfrmSad, XfrmSpd, XfrmWholeOf, Counts, Tally, Grouped, Each,
   MapSeq, Where

\* conntrack.rs
CtCounted(frames) ==
    LET Given(c) == c.new => \E i \in DOMAIN frames : c.attr \in DOMAIN frames[i]
    IN  MapSeq(Where(CtCounters, Given),
               LAMBDA c : Counter(c.name, NoLabels, CtSum(frames, c.attr)))
CtHeld(frames) ==
    <<Gauge("nft_conntrack_entries", NoLabels, TotalOf(frames, LAMBDA f : Attr(f, "entries", 0)))>>

\* Those of conntrack.rs are its two parts.
LEMMA CtParts ==
  ASSUME NEW g
  PROVE  CtEmit(g) = CtCounted(Frames(g, "cpus")) \o CtHeld(Frames(g, "entries"))
BY DEF CtEmit, CtCounted, CtHeld, CtEntries

-----------------------------------------------------------------------------
(* The parts are sequences, and no two parts of a body have a name in      *)
(* common.                                                                 *)

\* A sequence of samples with names among these.
NamedIn(samples, names) ==
    /\ \E T : samples \in Seq(T)
    /\ \A i \in 1..Len(samples) : samples[i].name \in names

\* One sample per label set of a metric: all of them have its name.
LEMMA OneEachNamed ==
  ASSUME NEW samples, NEW name, OneEach(samples, name)
  PROVE  NamedIn(samples, {name})
BY DEF OneEach, NamedIn

\* A function on the first n naturals is a sequence of length n.
LEMMA FunctionIsSeq ==
  ASSUME NEW T, NEW n \in Nat, NEW f \in [1..n -> T]
  PROVE  f \in Seq(T) /\ Len(f) = n
OBVIOUS

ElementsOf(s) == {s[j] : j \in 1..Len(s)}

\* A sequence is one of its own elements.
LEMMA SeqOfElements ==
  ASSUME NEW S, NEW s \in Seq(S)
  PROVE  s \in Seq(ElementsOf(s))
<1>1. Len(s) \in Nat /\ s \in [1..Len(s) -> S]
  OBVIOUS
<1>2. s \in [1..Len(s) -> ElementsOf(s)]
  BY <1>1 DEF ElementsOf
<1> QED BY <1>1, <1>2, FunctionIsSeq

\* Sequences, of whatever elements each, are all of the elements of any.
LEMMA CommonElements ==
  ASSUME NEW n \in Nat, NEW seqs, \A i \in 1..n : \E S : seqs[i] \in Seq(S)
  PROVE  \E T : \A i \in 1..n : seqs[i] \in Seq(T)
<1> DEFINE T == UNION {ElementsOf(seqs[i]) : i \in 1..n}
<1>1. ASSUME NEW i \in 1..n PROVE seqs[i] \in Seq(T)
  <2>1. PICK S : seqs[i] \in Seq(S)
    OBVIOUS
  <2>2. seqs[i] \in Seq(ElementsOf(seqs[i]))
    BY <2>1, SeqOfElements
  <2>3. ElementsOf(seqs[i]) \subseteq T
    OBVIOUS
  <2> HIDE DEF T
  <2> QED BY <2>2, <2>3
<1> HIDE DEF T
<1> QED BY <1>1

\* Joining keeps the names.
LEMMA FlattenNamed ==
  ASSUME NEW n \in Nat, NEW seqs, NEW names, seqs = [i \in 1..n |-> seqs[i]],
         \A i \in 1..n : NamedIn(seqs[i], names)
  PROVE  NamedIn(FlattenSeq(seqs), names)
<1> DEFINE flat == FlattenSeq(seqs)
<1>1. PICK T : \A i \in 1..n : seqs[i] \in Seq(T)
  BY CommonElements DEF NamedIn
<1>2. seqs \in [1..n -> Seq(T)]
  BY <1>1
<1>3. seqs \in Seq(Seq(T)) /\ Len(seqs) = n
  BY <1>2
<1>4. flat \in Seq(T) /\ \E start : Placed(seqs, start)
  BY <1>3, FlattenType, FlattenPlaces
<1>5. ASSUME NEW k \in 1..Len(flat) PROVE flat[k].name \in names
  <2>1. PICK start : Placed(seqs, start)
    BY <1>4
  <2>2. PICK i \in 1..n : \E j \in 1..Len(seqs[i]) : k = start[i] + j
    BY <1>3, <2>1 DEF Placed
  <2>3. PICK j \in 1..Len(seqs[i]) : k = start[i] + j
    BY <2>2
  <2>4. flat[start[i] + j] = seqs[i][j]
    BY <1>3, <2>1 DEF Placed
  <2>5. flat[k] = seqs[i][j]
    BY <2>3, <2>4
  <2> QED BY <2>5 DEF NamedIn
<1> QED BY <1>4, <1>5, Zenon DEF NamedIn

\* What a filter lets through is a sequence again.
LEMMA RtFilters ==
  ASSUME NEW T, NEW frames \in Seq(T)
  PROVE  /\ RtNamed(frames) \in Seq(T)
         /\ Filters(RtNamed(frames), frames, {f \in T : "name" \in DOMAIN f})
         /\ RtWholeOf(frames) \in Seq(T)
         /\ RtUnbridged(frames) \in Seq(T)
<1>1. RtNamed(frames) = Sifted(frames, {f \in T : "name" \in DOMAIN f})
  BY DEF RtNamed, Where, Sifted
<1>2. RtWholeOf(frames) = Sifted(frames, {f \in T : f # <<>>})
  BY DEF RtWholeOf, Where, Sifted
<1>3. RtUnbridged(frames) = Sifted(frames, {f \in T : f.family # "bridge"})
  BY DEF RtUnbridged, Where, Sifted
<1> QED BY <1>1, <1>2, <1>3, SiftedFilters

\* Associations and policies too short for their header are left out.
LEMMA XfrmFilters ==
  ASSUME NEW T, NEW frames \in Seq(T)
  PROVE  XfrmWholeOf(frames) \in Seq(T)
<1>1. XfrmWholeOf(frames) = Sifted(frames, {f \in T : XfrmWhole(f)})
  BY DEF XfrmWholeOf, Where, Sifted
<1> QED BY <1>1, SiftedFilters

\* The names of the parts.
LinkNames == {LinkCounters[i].name : i \in 1..8} \cup {"nft_link_up"}

\* Samples of one link.
LEMMA LinkNamed ==
  ASSUME NEW f
  PROVE  NamedIn(LinkSamples(f), LinkNames)
<1> DEFINE labels == [device |-> f.name]
           stats == LinkStats(f)
           counters == [i \in 1..8 |-> Counter(LinkCounters[i].name, labels,
                                               stats[LinkCounters[i].at])]
           up == <<Gauge("nft_link_up", labels, Bit(LinkUp(f)))>>
           T == {counters[i] : i \in 1..8} \cup {up[1]}
<1>1. LinkSamples(f) = counters \o up
  <2>1. DOMAIN LinkCounters = 1..8
    BY DEF LinkCounters
  <2> QED BY <2>1 DEF LinkSamples, MapSeq
<1>2. \A i \in 1..8 : counters[i].name \in LinkNames
  BY DEF Counter, LinkNames
<1>3. up[1].name \in LinkNames
  BY DEF Gauge, LinkNames
<1>4. counters \in Seq(T) /\ Len(counters) = 8 /\ up \in Seq(T) /\ Len(up) = 1
  <2>1. counters \in [1..8 -> T]
    OBVIOUS
  <2>2. up \in [1..1 -> T]
    OBVIOUS
  <2> HIDE DEF counters, up, T
  <2>3. counters \in Seq(T) /\ Len(counters) = 8
    BY <2>1, FunctionIsSeq
  <2>4. up \in Seq(T) /\ Len(up) = 1
    BY <2>2, FunctionIsSeq
  <2> QED BY <2>3, <2>4
<1> HIDE DEF counters, up, T
<1>5. Joins(counters \o up, counters, up, T)
  BY <1>4, JoinParts
<1>6. /\ counters \o up \in Seq(T) /\ Len(counters \o up) = 9
      /\ \A i \in 1..9 : (counters \o up)[i].name \in LinkNames
  <2> DEFINE s == counters \o up
  <2>1. /\ s \in Seq(T) /\ Len(s) = 9
        /\ \A i \in 1..8 : s[i] = counters[i]
        /\ s[9] = up[1]
    BY <1>4, <1>5 DEF Joins
  <2> HIDE DEF s
  <2>2. \A i \in 1..9 : i \in 1..8 \/ i = 9
    OBVIOUS
  <2>3. \A i \in 1..9 : s[i].name \in LinkNames
    BY <1>2, <1>3, <2>1, <2>2
  <2> QED BY <2>1, <2>3 DEF s
<1> QED BY <1>1, <1>6 DEF NamedIn

\* The four parts of rt.rs.
LEMMA RtLinksNamed ==
  ASSUME NEW T, NEW frames \in Seq(T)
  PROVE  NamedIn(RtLinks(frames), LinkNames)
<1> DEFINE W == RtNamed(frames)
           seqs == [i \in 1..Len(W) |-> LinkSamples(W[i])]
<1>1. W \in Seq(T) /\ Len(W) \in Nat /\ DOMAIN W = 1..Len(W)
  <2>1. W \in Seq(T)
    BY RtFilters
  <2> HIDE DEF W
  <2> QED BY <2>1
<1>2. RtLinks(frames) = FlattenSeq(seqs)
  BY <1>1 DEF RtLinks, Each, MapSeq
<1>3. \A i \in 1..Len(W) : NamedIn(seqs[i], LinkNames)
  BY LinkNamed
<1>4. seqs = [i \in 1..Len(W) |-> seqs[i]]
  OBVIOUS
<1> HIDE DEF seqs, W
<1>5. NamedIn(FlattenSeq(seqs), LinkNames)
  BY <1>1, <1>3, <1>4, FlattenNamed
<1> QED BY <1>2, <1>5

\* Addresses, routes and neighbours are counted once per label set.
LEMMA RtCountsEach ==
  ASSUME NEW T, NEW frames \in Seq(T)
  PROVE  /\ OneEach(RtAddresses(frames), "nft_address_count")
         /\ OneEach(RtRoutes(frames), "nft_route_count")
         /\ OneEach(RtNeighbours(frames), "nft_neighbor_count")
<1> DEFINE W == RtWholeOf(frames)
           V == RtUnbridged(W)
<1>1. W \in Seq(T) /\ V \in Seq(T)
  BY RtFilters
<1> HIDE DEF W, V
<1>2. \A s \in Seq(T) : Len(s) \in Nat /\ DOMAIN s = 1..Len(s)
  OBVIOUS
<1>3. OneEach(RtAddresses(frames), "nft_address_count")
  <2> DEFINE keys == [i \in DOMAIN W |-> [family |-> RtFamily(W[i].family)]]
             S == {keys[i] : i \in DOMAIN W}
  <2>1. keys \in [1..Len(W) -> S]
    BY <1>1, <1>2
  <2>2. RtAddresses(frames) = Counts(keys, "nft_address_count")
    BY DEF RtAddresses, MapSeq, W
  <2> HIDE DEF keys, S
  <2>3. keys \in Seq(S)
    BY <1>1, <1>2, <2>1
  <2> QED BY <2>2, <2>3, CountsOneEach
<1>4. OneEach(RtRoutes(frames), "nft_route_count")
  <2> DEFINE keys == [i \in DOMAIN W |-> RtRouteKey(W[i])]
             S == {keys[i] : i \in DOMAIN W}
  <2>1. keys \in [1..Len(W) -> S]
    BY <1>1, <1>2
  <2>2. RtRoutes(frames) = Counts(keys, "nft_route_count")
    BY DEF RtRoutes, MapSeq, W
  <2> HIDE DEF keys, S
  <2>3. keys \in Seq(S)
    BY <1>1, <1>2, <2>1
  <2> QED BY <2>2, <2>3, CountsOneEach
<1>5. OneEach(RtNeighbours(frames), "nft_neighbor_count")
  <2> DEFINE keys == [i \in DOMAIN V |-> RtNeighKey(V[i])]
             S == {keys[i] : i \in DOMAIN V}
  <2>1. keys \in [1..Len(V) -> S]
    BY <1>1, <1>2
  <2>2. RtNeighbours(frames) = Counts(keys, "nft_neighbor_count")
    BY DEF RtNeighbours, MapSeq, W, V
  <2> HIDE DEF keys, S
  <2>3. keys \in Seq(S)
    BY <1>1, <1>2, <2>1
  <2> QED BY <2>2, <2>3, CountsOneEach
<1> QED BY <1>3, <1>4, <1>5

\* The four parts of xfrm.rs.
LEMMA XfrmCountsEach ==
  ASSUME NEW T, NEW frames \in Seq(T)
  PROVE  /\ OneEach(XfrmStates(frames), "nft_xfrm_sa_count")
         /\ OneEach(XfrmPolicies(frames), "nft_xfrm_sp_count")
<1> DEFINE W == XfrmWholeOf(frames)
<1>1. W \in Seq(T)
  BY XfrmFilters
<1> HIDE DEF W
<1>2. Len(W) \in Nat /\ DOMAIN W = 1..Len(W)
  BY <1>1
<1>3. OneEach(XfrmStates(frames), "nft_xfrm_sa_count")
  <2> DEFINE keys == [i \in DOMAIN W |-> XfrmStateKey(W[i])]
             S == {keys[i] : i \in DOMAIN W}
  <2>1. keys \in [1..Len(W) -> S]
    BY <1>2
  <2>2. XfrmStates(frames) = Counts(keys, "nft_xfrm_sa_count")
    BY DEF XfrmStates, MapSeq, W
  <2> HIDE DEF keys, S
  <2>3. keys \in Seq(S)
    BY <1>2, <2>1
  <2> QED BY <2>2, <2>3, CountsOneEach
<1>4. OneEach(XfrmPolicies(frames), "nft_xfrm_sp_count")
  <2> DEFINE keys == [i \in DOMAIN W |-> XfrmPolicyKey(W[i])]
             S == {keys[i] : i \in DOMAIN W}
  <2>1. keys \in [1..Len(W) -> S]
    BY <1>2
  <2>2. XfrmPolicies(frames) = Counts(keys, "nft_xfrm_sp_count")
    BY DEF XfrmPolicies, MapSeq, W
  <2> HIDE DEF keys, S
  <2>3. keys \in Seq(S)
    BY <1>2, <2>1
  <2> QED BY <2>2, <2>3, CountsOneEach
<1> QED BY <1>3, <1>4

\* The two samples of each frame of hash sizes.
LEMMA XfrmHashNamed ==
  ASSUME NEW T, NEW frames \in Seq(T), NEW count, NEW max
  PROVE  NamedIn(XfrmHash(frames, count, max), {count, max})
<1> DEFINE a(i) == Gauge(count, NoLabels, Attr(frames[i], "count", 0))
           b(i) == Gauge(max, NoLabels, Attr(frames[i], "max", 0))
           seqs == [i \in 1..Len(frames) |-> <<a(i), b(i)>>]
<1>1. Len(frames) \in Nat /\ DOMAIN frames = 1..Len(frames)
  OBVIOUS
<1>2. XfrmHash(frames, count, max) = FlattenSeq(seqs)
  BY <1>1 DEF XfrmHash, Each, MapSeq
<1>3. \A i \in 1..Len(frames) : a(i).name = count /\ b(i).name = max
  BY DEF Gauge
<1> HIDE DEF a, b
<1>4. ASSUME NEW i \in 1..Len(frames) PROVE NamedIn(seqs[i], {count, max})
  <2> DEFINE s == <<a(i), b(i)>>
  <2>1. seqs[i] = s
    OBVIOUS
  <2>2. s \in Seq({a(i), b(i)})
    OBVIOUS
  <2>3. \A j \in 1..Len(s) : s[j].name \in {count, max}
    BY <1>3
  <2> HIDE DEF s, seqs
  <2>4. NamedIn(s, {count, max})
    BY <2>2, <2>3, Zenon DEF NamedIn
  <2> QED BY <2>1, <2>4
<1>5. seqs = [i \in 1..Len(frames) |-> seqs[i]]
  OBVIOUS
<1> HIDE DEF seqs
<1>6. NamedIn(FlattenSeq(seqs), {count, max})
  BY <1>1, <1>4, <1>5, FlattenNamed
<1> QED BY <1>2, <1>6

\* The two parts of conntrack.rs.
CtNames == {CtCounters[i].name : i \in 1..7}

\* The summed counters of conntrack have their own names.
LEMMA CtCountedNamed ==
  ASSUME NEW frames
  PROVE  NamedIn(CtCounted(frames), CtNames)
<1> DEFINE T == {CtCounters[i] : i \in 1..7}
           given == {c \in T : c.new => \E i \in DOMAIN frames : c.attr \in DOMAIN frames[i]}
           W == Sifted(CtCounters, given)
           s == [i \in DOMAIN W |-> Counter(W[i].name, NoLabels, CtSum(frames, W[i].attr))]
           S == {s[i] : i \in DOMAIN W}
<1>1. CtCounters \in Seq(T) /\ DOMAIN CtCounters = 1..7
  <2>1. DOMAIN CtCounters = 1..7 /\ CtCounters = [i \in 1..7 |-> CtCounters[i]]
    BY DEF CtCounters
  <2>2. CtCounters \in [1..7 -> T]
    BY <2>1
  <2> HIDE DEF T
  <2> QED BY <2>1, <2>2, FunctionIsSeq
<1>2. CtCounted(frames) = s
  <2>1. \A i \in 1..7 : CtCounters[i] \in given <=>
           (CtCounters[i].new => \E j \in DOMAIN frames : CtCounters[i].attr \in DOMAIN frames[j])
    OBVIOUS
  <2>2. W = FlattenSeq([i \in DOMAIN CtCounters |->
               IF CtCounters[i].new => \E j \in DOMAIN frames : CtCounters[i].attr \in DOMAIN frames[j]
               THEN <<CtCounters[i]>> ELSE <<>>])
    BY <1>1, <2>1 DEF Sifted
  <2> HIDE DEF W
  <2> QED BY <2>2 DEF CtCounted, MapSeq, Where
<1> HIDE DEF given
<1>3. W \in Seq(T)
  BY <1>1, SiftedFilters
<1> HIDE DEF W
<1>4. Len(W) \in Nat /\ DOMAIN W = 1..Len(W) /\ \A i \in 1..Len(W) : W[i] \in T
  BY <1>3
<1>5. s \in [1..Len(W) -> S]
  BY <1>4
<1>6. \A i \in 1..Len(W) : s[i].name \in CtNames
  BY <1>4 DEF Counter, CtNames
<1> HIDE DEF s, S
<1>7. s \in Seq(S) /\ Len(s) = Len(W)
  BY <1>4, <1>5, FunctionIsSeq
<1> QED BY <1>2, <1>6, <1>7 DEF NamedIn

\* So has the number of entries.
LEMMA CtHeldNamed ==
  ASSUME NEW frames
  PROVE  NamedIn(CtHeld(frames), {"nft_conntrack_entries"})
<1> DEFINE x == Gauge("nft_conntrack_entries", NoLabels,
                      TotalOf(frames, LAMBDA f : Attr(f, "entries", 0)))
           s == <<x>>
<1>1. CtHeld(frames) = s /\ x.name = "nft_conntrack_entries"
  BY DEF CtHeld, Gauge
<1> HIDE DEF x
<1>2. s \in Seq({x}) /\ \A i \in 1..Len(s) : s[i] = x
  OBVIOUS
<1> HIDE DEF s
<1> QED BY <1>1, <1>2 DEF NamedIn

-----------------------------------------------------------------------------
(* What joined samples have.                                               *)

\* Samples joined have the names of both, and each is of one of them.
LEMMA JoinNamed ==
  ASSUME NEW a, NEW b, NEW A, NEW B, NamedIn(a, A), NamedIn(b, B)
  PROVE  /\ NamedIn(a \o b, A \cup B)
         /\ \A s : HasSample(a \o b, s) <=> HasSample(a, s) \/ HasSample(b, s)
<1>1. PICK S : a \in Seq(S)
  BY DEF NamedIn
<1>2. PICK R : b \in Seq(R)
  BY DEF NamedIn
<1> DEFINE T == S \cup R
           u == a \o b
<1>3. a \in Seq(T) /\ b \in Seq(T)
  BY <1>1, <1>2
<1>4. Joins(u, a, b, T)
  BY <1>3, JoinParts
<1> HIDE DEF T, u
<1>5. /\ u \in Seq(T) /\ DOMAIN u = 1..Len(u) /\ Len(u) = Len(a) + Len(b)
      /\ Len(a) \in Nat /\ DOMAIN a = 1..Len(a) /\ Len(b) \in Nat /\ DOMAIN b = 1..Len(b)
      /\ \A i \in 1..Len(a) : u[i] = a[i]
      /\ \A i \in 1..Len(b) : u[Len(a) + i] = b[i]
  BY <1>3, <1>4 DEF Joins
<1>6. ASSUME NEW i \in 1..Len(u)
      PROVE  \/ i \in 1..Len(a) /\ u[i] = a[i]
             \/ \E j \in 1..Len(b) : u[i] = b[j]
  <2>1. CASE i \in 1..Len(a)
    BY <1>5, <2>1
  <2>2. CASE i \notin 1..Len(a)
    <3> DEFINE j == i - Len(a)
    <3>1. j \in 1..Len(b) /\ Len(a) + j = i
      BY <1>5, <2>2
    <3> HIDE DEF j
    <3>2. u[Len(a) + j] = b[j]
      BY <1>5, <3>1
    <3> QED BY <3>1, <3>2
  <2> QED BY <2>1, <2>2
<1>7. \A i \in 1..Len(u) : u[i].name \in A \cup B
  BY <1>6 DEF NamedIn
<1>8. \A i \in 1..Len(a) : i \in 1..Len(u) /\ u[i] = a[i]
  BY <1>5
<1>9. \A i \in 1..Len(b) : Len(a) + i \in 1..Len(u) /\ u[Len(a) + i] = b[i]
  BY <1>5
<1>10. \A s : HasSample(u, s) <=> HasSample(a, s) \/ HasSample(b, s)
  <2>1. \A s : /\ HasSample(u, s) <=> \E i \in 1..Len(u) : u[i] = s
               /\ HasSample(a, s) <=> \E i \in 1..Len(a) : a[i] = s
               /\ HasSample(b, s) <=> \E i \in 1..Len(b) : b[i] = s
    BY <1>5 DEF HasSample
  <2>2. ASSUME NEW s, HasSample(u, s) PROVE HasSample(a, s) \/ HasSample(b, s)
    <3>1. PICK i \in 1..Len(u) : u[i] = s
      BY <2>1, <2>2
    <3> QED BY <1>6, <2>1, <3>1
  <2>3. ASSUME NEW s, HasSample(a, s) PROVE HasSample(u, s)
    <3>1. PICK i \in 1..Len(a) : a[i] = s
      BY <2>1, <2>3
    <3> QED BY <1>8, <2>1, <3>1
  <2>4. ASSUME NEW s, HasSample(b, s) PROVE HasSample(u, s)
    <3>1. PICK i \in 1..Len(b) : b[i] = s
      BY <2>1, <2>4
    <3>2. Len(a) + i \in 1..Len(u) /\ u[Len(a) + i] = s
      BY <1>9, <3>1
    <3> QED BY <2>1, <3>2
  <2> QED BY <2>2, <2>3, <2>4
<1>11. NamedIn(u, A \cup B)
  BY <1>5, <1>7, Zenon DEF NamedIn
<1> QED BY <1>10, <1>11 DEF u

\* The same for four.
LEMMA FourNamed ==
  ASSUME NEW a, NEW b, NEW c, NEW d, NEW A, NEW B, NEW C, NEW D,
         NamedIn(a, A), NamedIn(b, B), NamedIn(c, C), NamedIn(d, D)
  PROVE  \A s : HasSample(a \o b \o c \o d, s)
                   <=> HasSample(a, s) \/ HasSample(b, s) \/ HasSample(c, s) \/ HasSample(d, s)
<1> DEFINE u == a \o b
           v == u \o c
<1>1. NamedIn(u, A \cup B) /\ \A s : HasSample(u, s) <=> HasSample(a, s) \/ HasSample(b, s)
  BY JoinNamed
<1> HIDE DEF u
<1>2. /\ NamedIn(v, A \cup B \cup C)
      /\ \A s : HasSample(v, s) <=> HasSample(u, s) \/ HasSample(c, s)
  BY <1>1, JoinNamed
<1> DEFINE E == A \cup B \cup C
<1> HIDE DEF v, E
<1>3. \A s : HasSample(v \o d, s) <=> HasSample(v, s) \/ HasSample(d, s)
  <2>1. NamedIn(v, E)
    BY <1>2 DEF E
  <2> QED BY <2>1, JoinNamed
<1> QED BY <1>1, <1>2, <1>3 DEF u, v

\* A sample of a sequence has one of its names.
LEMMA HasNamed ==
  ASSUME NEW a, NEW A, NamedIn(a, A), NEW s, HasSample(a, s)
  PROVE  s.name \in A
BY DEF NamedIn, HasSample

\* Two collections of samples, one at each instant, that consist of parts: what
\* is there is the sum of the parts, and each part has names of its own.
Consists(samples, parts, names) ==
    /\ \A s : HasSample(samples, s) <=> \E k \in DOMAIN names : HasSample(parts[k], s)
    /\ \A k \in DOMAIN names : \A s : HasSample(parts[k], s) => s.name \in names[k]

Disjoint(names) ==
    \A k, l \in DOMAIN names : k # l => names[k] \cap names[l] = {}

\* A series is there when a sample of it is.
LEMMA SeriesOfSample ==
  ASSUME NEW samples, NEW s
  PROVE  HasSeries(samples, s)
         <=> \E x : HasSample(samples, x) /\ x.name = s.name /\ x.labels = s.labels
BY DEF HasSeries, HasSample

\* Every sample is of an instant, and what is there at all of them is a sample.
Reflects(samples, I, real) ==
    /\ \A s : HasSample(samples, s) => \E t \in I : HasSample(real[t], s)
    /\ \A s : (\A t \in I : HasSeries(real[t], s)) => HasSeries(samples, s)

\* If each part of a body is that part of one instant, every sample is real,
\* and a series that is there at every instant is in the body.
LEMMA PartsReal ==
  ASSUME NEW samples, NEW I, NEW real, NEW names, NEW parts, NEW partsAt, I # {}, Disjoint(names),
         Consists(samples, parts, names),
         \A t \in I : Consists(real[t], partsAt[t], names),
         \A k \in DOMAIN names : \E t \in I : partsAt[t][k] = parts[k]
  PROVE  Reflects(samples, I, real)
<1>1. ASSUME NEW s, HasSample(samples, s) PROVE \E t \in I : HasSample(real[t], s)
  <2>1. PICK k \in DOMAIN names : HasSample(parts[k], s)
    BY <1>1 DEF Consists
  <2>2. PICK t \in I : partsAt[t][k] = parts[k]
    OBVIOUS
  <2>3. HasSample(real[t], s)
    BY <2>1, <2>2 DEF Consists
  <2> QED BY <2>3
<1>2. ASSUME NEW s, \A t \in I : HasSeries(real[t], s) PROVE HasSeries(samples, s)
  <2>1. PICK t0 \in I : TRUE
    OBVIOUS
  <2>2. PICK x0 : HasSample(real[t0], x0) /\ x0.name = s.name
    BY <1>2, SeriesOfSample
  <2>3. PICK k \in DOMAIN names : HasSample(partsAt[t0][k], x0)
    BY <2>2 DEF Consists
  <2>4. s.name \in names[k]
    BY <2>2, <2>3 DEF Consists
  <2>5. PICK t \in I : partsAt[t][k] = parts[k]
    OBVIOUS
  <2>6. PICK x : HasSample(real[t], x) /\ x.name = s.name /\ x.labels = s.labels
    BY <1>2, SeriesOfSample
  <2>7. PICK l \in DOMAIN names : HasSample(partsAt[t][l], x)
    BY <2>6 DEF Consists
  <2>8. s.name \in names[l]
    BY <2>6, <2>7 DEF Consists
  <2>9. l = k
    BY <2>4, <2>8 DEF Disjoint
  <2>10. HasSample(samples, x)
    BY <2>5, <2>7, <2>9 DEF Consists
  <2> QED BY <2>6, <2>10, SeriesOfSample
<1> QED BY <1>1, <1>2 DEF Reflects

-----------------------------------------------------------------------------
(* The bodies of these collectors.                                         *)

\* Parts of a body of c and the names that each of them has.
PartNames(c) ==
    CASE c = "rtnetlink" ->
            <<LinkNames, {"nft_address_count"}, {"nft_route_count"}, {"nft_neighbor_count"}>>
      [] c = "xfrm" ->
            <<{"nft_xfrm_sa_count"}, {"nft_xfrm_sp_count"},
              {"nft_xfrm_sad_hash_count", "nft_xfrm_sad_hash_max"},
              {"nft_xfrm_spd_hash_count", "nft_xfrm_spd_hash_max"}>>
      [] c = "conntrack" -> <<CtNames, {"nft_conntrack_entries"}>>

\* Part k, from what the request named k was answered.
Part(c, k, frames) ==
    CASE c = "rtnetlink" /\ k = 1 -> RtLinks(frames)
      [] c = "rtnetlink" /\ k = 2 -> RtAddresses(frames)
      [] c = "rtnetlink" /\ k = 3 -> RtRoutes(frames)
      [] c = "rtnetlink" /\ k = 4 -> RtNeighbours(frames)
      [] c = "xfrm" /\ k = 1 -> XfrmStates(frames)
      [] c = "xfrm" /\ k = 2 -> XfrmPolicies(frames)
      [] c = "xfrm" /\ k = 3 -> XfrmSad(frames)
      [] c = "xfrm" /\ k = 4 -> XfrmSpd(frames)
      [] c = "conntrack" /\ k = 1 -> CtCounted(frames)
      [] c = "conntrack" /\ k = 2 -> CtHeld(frames)

Parted == {"rtnetlink", "xfrm", "conntrack"}

\* The names differ from part to part.
LEMMA PartNamesDisjoint ==
  ASSUME NEW c \in Parted
  PROVE  /\ Disjoint(PartNames(c))
         /\ DOMAIN PartNames(c) = 1..Len(Names(c))
<1>1. CASE c = "rtnetlink"
  <2>1. \A x \in LinkNames : x \notin {"nft_address_count", "nft_route_count", "nft_neighbor_count"}
    <3>1. \A i \in 1..8 : LinkCounters[i].name
             \notin {"nft_address_count", "nft_route_count", "nft_neighbor_count"}
      BY DEF LinkCounters
    <3> QED BY <3>1 DEF LinkNames
  <2> DEFINE names == PartNames(c)
  <2>2. /\ DOMAIN names = 1..4
        /\ names[1] = LinkNames /\ names[2] = {"nft_address_count"}
        /\ names[3] = {"nft_route_count"} /\ names[4] = {"nft_neighbor_count"}
    BY <1>1 DEF PartNames
  <2>3. Len(Names(c)) = 4
    BY <1>1 DEF Names
  <2> HIDE DEF names
  <2>4. \A k : k \in 1..4 <=> k = 1 \/ k = 2 \/ k = 3 \/ k = 4
    OBVIOUS
  <2>5. Disjoint(names)
    BY <2>1, <2>2, <2>4 DEF Disjoint
  <2> QED BY <2>2, <2>3, <2>5 DEF names
<1>2. CASE c = "xfrm"
  <2> DEFINE names == PartNames(c)
  <2>1. /\ DOMAIN names = 1..4
        /\ names[1] = {"nft_xfrm_sa_count"} /\ names[2] = {"nft_xfrm_sp_count"}
        /\ names[3] = {"nft_xfrm_sad_hash_count", "nft_xfrm_sad_hash_max"}
        /\ names[4] = {"nft_xfrm_spd_hash_count", "nft_xfrm_spd_hash_max"}
    BY <1>2 DEF PartNames
  <2>2. Len(Names(c)) = 4
    BY <1>2 DEF Names
  <2> HIDE DEF names
  <2>3. \A k : k \in 1..4 <=> k = 1 \/ k = 2 \/ k = 3 \/ k = 4
    OBVIOUS
  <2>4. Disjoint(names)
    BY <2>1, <2>3 DEF Disjoint
  <2> QED BY <2>1, <2>2, <2>4 DEF names
<1>3. CASE c = "conntrack"
  <2>1. "nft_conntrack_entries" \notin CtNames
    <3>1. \A i \in 1..7 : CtCounters[i].name # "nft_conntrack_entries"
      BY DEF CtCounters
    <3> QED BY <3>1 DEF CtNames
  <2> DEFINE names == PartNames(c)
  <2>2. DOMAIN names = 1..2 /\ names[1] = CtNames /\ names[2] = {"nft_conntrack_entries"}
    BY <1>3 DEF PartNames
  <2>3. Len(Names(c)) = 2
    BY <1>3 DEF Names
  <2> HIDE DEF names
  <2>4. \A k : k \in 1..2 <=> k = 1 \/ k = 2
    OBVIOUS
  <2>5. Disjoint(names)
    BY <2>1, <2>2, <2>4 DEF Disjoint
  <2> QED BY <2>2, <2>3, <2>5 DEF names
<1> QED BY <1>1, <1>2, <1>3 DEF Parted

\* Whatever is answered with sequences of frames, a body consists of its parts.
LEMMA BodyConsists ==
  ASSUME NEW c \in Parted, NEW g, \A op : \E T : Frames(g, op) \in Seq(T)
  PROVE  Consists(Emit(c, g), [k \in 1..Len(Names(c)) |-> Part(c, k, Frames(g, Names(c)[k]))],
                  PartNames(c))
<1>1. CASE c = "rtnetlink"
  <2> DEFINE a == RtLinks(Frames(g, "links"))
             b == RtAddresses(Frames(g, "addresses"))
             d == RtRoutes(Frames(g, "routes"))
             e == RtNeighbours(Frames(g, "neighbours"))
             parts == [k \in 1..Len(Names(c)) |-> Part(c, k, Frames(g, Names(c)[k]))]
             names == PartNames(c)
  <2>1. NamedIn(a, LinkNames)
    BY RtLinksNamed
  <2>2. /\ NamedIn(b, {"nft_address_count"})
        /\ NamedIn(d, {"nft_route_count"})
        /\ NamedIn(e, {"nft_neighbor_count"})
    BY RtCountsEach, OneEachNamed
  <2>3. Emit(c, g) = a \o b \o d \o e
    BY <1>1, RtParts DEF Emit
  <2>4. /\ DOMAIN names = 1..4
        /\ names[1] = LinkNames /\ names[2] = {"nft_address_count"}
        /\ names[3] = {"nft_route_count"} /\ names[4] = {"nft_neighbor_count"}
    BY <1>1 DEF PartNames
  <2>5. parts[1] = a /\ parts[2] = b /\ parts[3] = d /\ parts[4] = e
    BY <1>1 DEF Part, Names
  <2> HIDE DEF a, b, d, e, parts, names
  <2>6. \A s : HasSample(Emit(c, g), s) <=> \/ HasSample(a, s) \/ HasSample(b, s)
                                            \/ HasSample(d, s) \/ HasSample(e, s)
    BY <2>1, <2>2, <2>3, FourNamed
  <2>7. \A s : /\ HasSample(a, s) => s.name \in LinkNames
               /\ HasSample(b, s) => s.name \in {"nft_address_count"}
               /\ HasSample(d, s) => s.name \in {"nft_route_count"}
               /\ HasSample(e, s) => s.name \in {"nft_neighbor_count"}
    BY <2>1, <2>2, HasNamed
  <2>8. \A k : k \in 1..4 <=> k = 1 \/ k = 2 \/ k = 3 \/ k = 4
    OBVIOUS
  <2>9. Consists(Emit(c, g), parts, names)
    BY <2>4, <2>5, <2>6, <2>7, <2>8 DEF Consists
  <2> QED BY <2>9 DEF parts, names
<1>2. CASE c = "xfrm"
  <2> DEFINE a == XfrmStates(Frames(g, "sa"))
             b == XfrmPolicies(Frames(g, "policy"))
             d == XfrmSad(Frames(g, "sadinfo"))
             e == XfrmSpd(Frames(g, "spdinfo"))
             parts == [k \in 1..Len(Names(c)) |-> Part(c, k, Frames(g, Names(c)[k]))]
             names == PartNames(c)
  <2>1. NamedIn(a, {"nft_xfrm_sa_count"}) /\ NamedIn(b, {"nft_xfrm_sp_count"})
    BY XfrmCountsEach, OneEachNamed
  <2>2. /\ NamedIn(d, {"nft_xfrm_sad_hash_count", "nft_xfrm_sad_hash_max"})
        /\ NamedIn(e, {"nft_xfrm_spd_hash_count", "nft_xfrm_spd_hash_max"})
    BY XfrmHashNamed DEF XfrmSad, XfrmSpd
  <2>3. Emit(c, g) = a \o b \o d \o e
    BY <1>2, XfrmParts DEF Emit
  <2>4. /\ DOMAIN names = 1..4
        /\ names[1] = {"nft_xfrm_sa_count"} /\ names[2] = {"nft_xfrm_sp_count"}
        /\ names[3] = {"nft_xfrm_sad_hash_count", "nft_xfrm_sad_hash_max"}
        /\ names[4] = {"nft_xfrm_spd_hash_count", "nft_xfrm_spd_hash_max"}
    BY <1>2 DEF PartNames
  <2>5. parts[1] = a /\ parts[2] = b /\ parts[3] = d /\ parts[4] = e
    BY <1>2 DEF Part, Names
  <2> HIDE DEF a, b, d, e, parts, names
  <2>6. \A s : HasSample(Emit(c, g), s) <=> \/ HasSample(a, s) \/ HasSample(b, s)
                                            \/ HasSample(d, s) \/ HasSample(e, s)
    BY <2>1, <2>2, <2>3, FourNamed
  <2>7. \A s : /\ HasSample(a, s) => s.name \in {"nft_xfrm_sa_count"}
               /\ HasSample(b, s) => s.name \in {"nft_xfrm_sp_count"}
               /\ HasSample(d, s) => s.name \in {"nft_xfrm_sad_hash_count", "nft_xfrm_sad_hash_max"}
               /\ HasSample(e, s) => s.name \in {"nft_xfrm_spd_hash_count", "nft_xfrm_spd_hash_max"}
    BY <2>1, <2>2, HasNamed
  <2>8. \A k : k \in 1..4 <=> k = 1 \/ k = 2 \/ k = 3 \/ k = 4
    OBVIOUS
  <2>9. Consists(Emit(c, g), parts, names)
    BY <2>4, <2>5, <2>6, <2>7, <2>8 DEF Consists
  <2> QED BY <2>9 DEF parts, names
<1>3. CASE c = "conntrack"
  <2> DEFINE a == CtCounted(Frames(g, "cpus"))
             b == CtHeld(Frames(g, "entries"))
             parts == [k \in 1..Len(Names(c)) |-> Part(c, k, Frames(g, Names(c)[k]))]
             names == PartNames(c)
  <2>1. NamedIn(a, CtNames) /\ NamedIn(b, {"nft_conntrack_entries"})
    BY CtCountedNamed, CtHeldNamed
  <2>2. Emit(c, g) = a \o b
    BY <1>3, CtParts DEF Emit
  <2>3. DOMAIN names = 1..2 /\ names[1] = CtNames /\ names[2] = {"nft_conntrack_entries"}
    BY <1>3 DEF PartNames
  <2>4. parts[1] = a /\ parts[2] = b
    BY <1>3 DEF Part, Names
  <2> HIDE DEF a, b, parts, names
  <2>5. \A s : HasSample(Emit(c, g), s) <=> HasSample(a, s) \/ HasSample(b, s)
    <3>1. \A s : HasSample(a \o b, s) <=> HasSample(a, s) \/ HasSample(b, s)
      BY <2>1, JoinNamed, Zenon
    <3> QED BY <2>2, <3>1
  <2>6. \A s : /\ HasSample(a, s) => s.name \in CtNames
               /\ HasSample(b, s) => s.name \in {"nft_conntrack_entries"}
    BY <2>1, HasNamed
  <2>7. \A k : k \in 1..2 <=> k = 1 \/ k = 2
    OBVIOUS
  <2>8. Consists(Emit(c, g), parts, names)
    BY <2>3, <2>4, <2>5, <2>6, <2>7 DEF Consists
  <2> QED BY <2>8 DEF parts, names
<1> QED BY <1>1, <1>2, <1>3 DEF Parted

\* Frames of answers that hold sequences are a sequence.
LEMMA FramesSequence ==
  ASSUME NEW g, NEW n \in Nat, DOMAIN g = 1..n, \A i \in 1..n : \E S : g[i].frames \in Seq(S),
         NEW op
  PROVE  \E T : Frames(g, op) \in Seq(T)
<1> DEFINE all == [i \in 1..n |-> g[i].frames]
           seqs == [i \in 1..n |-> IF g[i].op = op THEN g[i].frames ELSE <<>>]
<1>1. PICK T : \A i \in 1..n : g[i].frames \in Seq(T)
  <2>1. \A i \in 1..n : all[i] = g[i].frames
    OBVIOUS
  <2> HIDE DEF all
  <2>2. \A i \in 1..n : \E S : all[i] \in Seq(S)
    BY <2>1
  <2>3. PICK T : \A i \in 1..n : all[i] \in Seq(T)
    BY <2>2, CommonElements
  <2> QED BY <2>1, <2>3
<1>2. seqs \in [1..n -> Seq(T)]
  BY <1>1
<1>3. Frames(g, op) = FlattenSeq(seqs)
  BY DEF Frames
<1> HIDE DEF seqs
<1>4. FlattenSeq(seqs) \in Seq(T)
  BY <1>2, FunctionIsSeq, FlattenType
<1> QED BY <1>3, <1>4

\* A real answer has frames in order.
LEMMA RealSequence ==
  ASSUME CollectInv, NEW r, NEW a, Real(who, begun, now, r, a)
  PROVE  (\E S : a.frames \in Seq(S)) /\ a.op = r.op
<1>1. \A e : NoAnswer(r, e).frames = <<>> /\ NoAnswer(r, e).op = r.op
  BY DEF NoAnswer
<1>2. \A t : Answer(who, t, r).op = r.op
  BY DEF Answer
<1>3. \A t \in begun..now : t \in 1..Len(Kernel[who])
  <2>1. Len(Kernel[who]) \in Nat
    BY KernelAssumption DEF CollectInv, Sequential
  <2> QED BY <2>1 DEF CollectInv
<1>4. who \in Collectors
  BY DEF CollectInv
<1>5. CASE \E t \in begun..now : a = Answer(who, t, r)
  <2>1. PICK t \in begun..now : a = Answer(who, t, r)
    BY <1>5
  <2>2. \E S : Answer(who, t, r).frames \in Seq(S)
    BY <1>3, <1>4, AnswerSequence
  <2> QED BY <1>2, <2>1, <2>2
<1>6. CASE a = NoAnswer(r, a.error)
  <2>1. a.frames = <<>> /\ a.op = r.op
    BY <1>1, <1>6
  <2>2. <<>> \in Seq({})
    OBVIOUS
  <2> QED BY <2>1, <2>2
<1>7. CASE a = LeftAnswer(r, a.frames) /\ \E S : a.frames \in Seq(S)
  <2>1. \A f : LeftAnswer(r, f).op = r.op
    BY DEF LeftAnswer, NoAnswer
  <2> QED BY <1>7, <2>1
<1> QED BY <1>5, <1>6, <1>7 DEF Real

\* So does an undisturbed collect(), and so did the one that succeeded.
LEMMA GotSequences ==
  ASSUME CollectInv, Succeeded, who \in Fixed, NEW op
  PROVE  /\ \E T : Frames(got, op) \in Seq(T)
         /\ \A t \in Instants : \E T : Frames(Undisturbed(who, t, Failures), op) \in Seq(T)
<1> DEFINE P == FixedPlan(who)
           n == Len(got)
<1>1. /\ n \in Nat /\ DOMAIN got = 1..n /\ DOMAIN P = 1..n
      /\ \A i \in 1..n : Real(who, begun, now, P[i], got[i])
  BY FixedAnswers
<1>2. \A t \in Instants : t \in 1..Len(Kernel[who])
  <2>1. Len(Kernel[who]) \in Nat
    BY KernelAssumption DEF CollectInv, Sequential
  <2> QED BY <2>1 DEF CollectInv, Instants
<1>3. \A r, e : NoAnswer(r, e).frames = <<>>
  BY DEF NoAnswer
<1>4. <<>> \in Seq({})
  OBVIOUS
<1>5. \A t \in Instants : \A r : \E S : Answer(who, t, r).frames \in Seq(S)
  BY <1>2, AnswerSequence DEF CollectInv
<1>6. ASSUME NEW i \in 1..n PROVE \E S : got[i].frames \in Seq(S)
  <2>1. \/ \E t \in Instants : got[i] = Answer(who, t, P[i])
        \/ \E S : got[i].frames \in Seq(S)
        \/ got[i] = NoAnswer(P[i], got[i].error)
    BY <1>1 DEF Real, Instants
  <2> HIDE DEF P
  <2>2. CASE \E t \in Instants : got[i] = Answer(who, t, P[i])
    BY <1>5, <2>2
  <2>3. CASE got[i] = NoAnswer(P[i], got[i].error)
    <3>1. got[i].frames = <<>>
      BY <1>3, <2>3
    <3> QED BY <1>4, <3>1
  <2> QED BY <2>1, <2>2, <2>3
<1>7. \E T : Frames(got, op) \in Seq(T)
  BY <1>1, <1>6, FramesSequence
<1>8. ASSUME NEW t \in Instants
      PROVE  \E T : Frames(Undisturbed(who, t, Failures), op) \in Seq(T)
  <2> DEFINE u == Undisturbed(who, t, Failures)
  <2>1. \A answers : Plan(who, answers) = P
    BY PlanFixed
  <2> HIDE DEF P
  <2>2. u = [i \in 1..n |-> Replied(who, t, Failures, P[i])]
    BY <1>1, <2>1, UndisturbedFixed
  <2> HIDE DEF u
  <2>3. ASSUME NEW i \in 1..n PROVE \E S : u[i].frames \in Seq(S)
    <3>1. u[i] = Replied(who, t, Failures, P[i])
      BY <2>2
    <3>2. \/ u[i] = Answer(who, t, P[i])
          \/ \E e : u[i] = NoAnswer(P[i], e)
          \/ \E j \in 1..n : u[i] = got[j]
      BY <3>1, PickedGot DEF Replied
    <3>3. CASE u[i] = Answer(who, t, P[i])
      BY <1>5, <3>3
    <3>4. CASE \E e : u[i] = NoAnswer(P[i], e)
      <4>1. u[i].frames = <<>>
        BY <1>3, <3>4
      <4> QED BY <1>4, <4>1
    <3> QED BY <1>6, <3>2, <3>3, <3>4
  <2>4. DOMAIN u = 1..n
    BY <2>2
  <2>5. \E T : Frames(u, op) \in Seq(T)
    BY <1>1, <2>3, <2>4, FramesSequence
  <2> QED BY <2>5 DEF u
<1> QED BY <1>7, <1>8

\* Of a body that consists of parts, each part is that of an instant.
LEMMA PartedReal ==
  ASSUME CollectInv, Succeeded, who \in Parted
  PROVE  /\ \A s : HasSample(body, s) => \E t \in Instants : HasSample(At(t, Failures), s)
         /\ \A s : (\A t \in Instants : HasSeries(At(t, Failures), s)) => HasSeries(body, s)
<1> DEFINE U(t) == Undisturbed(who, t, Failures)
           n == Len(Names(who))
           real == [t \in Instants |-> Emit(who, U(t))]
           names == PartNames(who)
           parts == [k \in 1..n |-> Part(who, k, Frames(got, Names(who)[k]))]
           partsAt == [t \in Instants |->
                          [k \in 1..n |-> Part(who, k, Frames(U(t), Names(who)[k]))]]
<1>1. who \in Fixed
  BY DEF Parted, Fixed, Independent
<1>2. Consists(Emit(who, got), parts, names)
  <2>1. \A op : \E T : Frames(got, op) \in Seq(T)
    BY <1>1, GotSequences
  <2> QED BY <2>1, BodyConsists
<1>3. ASSUME NEW t \in Instants PROVE Consists(real[t], partsAt[t], names)
  <2>1. \A op : \E T : Frames(U(t), op) \in Seq(T)
    BY <1>1, GotSequences
  <2> DEFINE u == U(t)
             there == [k \in 1..n |-> Part(who, k, Frames(u, Names(who)[k]))]
  <2>2. Consists(Emit(who, u), there, names)
    <3> HIDE DEF u
    <3>1. \A op : \E T : Frames(u, op) \in Seq(T)
      BY <2>1 DEF u
    <3> QED BY <3>1, BodyConsists
  <2>3. real[t] = Emit(who, u) /\ partsAt[t] = there
    OBVIOUS
  <2> QED BY <2>2, <2>3
<1>4. body = Emit(who, got) /\ begun \in Instants
  BY DEF CollectInv, Instants
<1>5. n = Len(got)
  BY <1>1, FixedAnswers, PlanNames DEF Asks
<1>6. DOMAIN names = 1..n /\ Disjoint(names)
  BY PartNamesDisjoint
<1>7. ASSUME NEW k \in DOMAIN names PROVE \E t \in Instants : partsAt[t][k] = parts[k]
  <2>1. k \in 1..n /\ k \in 1..Len(got)
    BY <1>5, <1>6
  <2>2. PICK t \in Instants : Frames(U(t), Names(who)[k]) = Frames(got, Names(who)[k])
    BY <1>1, <2>1, SameFrames
  <2>3. partsAt[t][k] = parts[k]
    BY <2>1, <2>2
  <2> QED BY <2>3
<1>8. \A t \in Instants : real[t] = At(t, Failures)
  BY DEF At
<1> HIDE DEF real, names, parts, partsAt, n, U
<1>9. Reflects(body, Instants, real)
  <2>1. Consists(body, parts, names) /\ Instants # {}
    BY <1>2, <1>4
  <2>2. \A t \in Instants : Consists(real[t], partsAt[t], names)
    BY <1>3
  <2>3. \A k \in DOMAIN names : \E t \in Instants : partsAt[t][k] = parts[k]
    BY <1>7
  <2> QED BY <2>1, <2>2, <2>3, <1>6, PartsReal, Zenon
<1> QED BY <1>8, <1>9 DEF Reflects

\* The others have one source of metrics, and their body is that of an instant.
Whole == Independent \ Parted

\* What they make of the frames of one request.
Source(c) == IF c = "ethtool" THEN "stats" ELSE Names(c)[1]

\* The same frames give the same samples.
LEMMA WholeEmit ==
  ASSUME NEW c \in Whole, NEW g, NEW u, Frames(g, Source(c)) = Frames(u, Source(c))
  PROVE  Emit(c, g) = Emit(c, u)
<1>1. c = "ethtool" => Emit(c, g) = Emit(c, u)
  BY DEF Emit, EthtoolEmit, Source, Each, MapSeq
<1>2. c = "conntrack_expect" => Emit(c, g) = Emit(c, u)
  BY DEF Emit, ExpectEmit, Source, Names, Where
<1>3. c = "softnet" => Emit(c, g) = Emit(c, u)
  BY DEF Emit, SoftnetEmit, Source, Names, Each, MapSeq
<1>4. c = "softirq" => Emit(c, g) = Emit(c, u)
  BY DEF Emit, SoftirqEmit, Source, Names, Each, MapSeq
<1>5. c = "irq" => Emit(c, g) = Emit(c, u)
  BY DEF Emit, IrqEmit, Source, Names, Each, MapSeq
<1>6. c = "sockstat" => Emit(c, g) = Emit(c, u)
  BY DEF Emit, SockstatEmit, Source, Names, Each, MapSeq
<1> QED BY <1>1, <1>2, <1>3, <1>4, <1>5, <1>6 DEF Whole, Independent, Parted

\* Hence the body is that of one instant.
LEMMA WholeReal ==
  ASSUME CollectInv, Succeeded, who \in Whole
  PROVE  \E t \in Instants : body = At(t, Failures)
<1>1. who \in Fixed
  BY DEF Whole, Fixed
<1>2. \E k \in 1..Len(got) : Names(who)[k] = Source(who)
  <2>1. Len(got) = Len(Names(who))
    BY <1>1, FixedAnswers, PlanNames DEF Asks
  <2>2. CASE who = "ethtool"
    BY <2>1, <2>2 DEF Names, Source
  <2>3. CASE who # "ethtool"
    <3>1. Len(Names(who)) = 1
      BY <2>3 DEF Names, Whole, Independent, Parted
    <3> QED BY <2>1, <2>3, <3>1 DEF Source
  <2> QED BY <2>2, <2>3
<1>3. PICK t \in Instants :
         Frames(Undisturbed(who, t, Failures), Source(who)) = Frames(got, Source(who))
  BY <1>1, <1>2, SameFrames
<1>4. Emit(who, Undisturbed(who, t, Failures)) = Emit(who, got)
  BY <1>3, WholeEmit
<1> QED BY <1>4 DEF At, CollectInv

\* Both kinds.
LEMMA IndependentReal ==
  ASSUME CollectInv, Succeeded, who \in Independent
  PROVE  /\ \A s : HasSample(body, s) => \E t \in Instants : HasSample(At(t, Failures), s)
         /\ \A s : (\A t \in Instants : HasSeries(At(t, Failures), s)) => HasSeries(body, s)
<1>1. CASE who \in Parted
  BY <1>1, PartedReal
<1>2. CASE who \in Whole
  BY <1>2, WholeReal
<1> QED BY <1>1, <1>2 DEF Whole

\* SampleReal for every kernel and these collectors: while the kernel changes
\* between their requests, each of their samples is one it had at an instant, or
\* one made of the frames that a request got of what was left on its socket.
THEOREM SampleRealHolds == Spec => [](who \in Independent => SampleReal)
<1>1. CollectInv => (who \in Independent => SampleReal)
  <2> SUFFICES ASSUME CollectInv, who \in Independent, Succeeded, NEW i \in DOMAIN body
               PROVE  \E t \in Instants : HasSample(At(t, Failures), body[i])
    BY DEF SampleReal
  <2>1. HasSample(body, body[i])
    BY DEF HasSample
  <2> QED BY <2>1, IndependentReal
<1> QED BY <1>1, CollectHolds, PTL

\* StableReported for every kernel and these collectors: no series that is there
\* all through a collect() is missing, whatever comes and goes and whatever
\* failure of another request is tolerated; but for what is read by a request
\* that got what was left on its socket.
THEOREM StableReportedHolds == Spec => [](who \in Independent => StableReported)
<1>1. CollectInv => (who \in Independent => StableReported)
  <2> SUFFICES ASSUME CollectInv, who \in Independent PROVE StableReported
    OBVIOUS
  <2>1. begun \in Instants
    BY DEF CollectInv, Instants
  <2> SUFFICES ASSUME Succeeded, NEW i \in DOMAIN At(begun, Failures),
                      \A t \in Instants : HasSeries(At(t, Failures), At(begun, Failures)[i])
               PROVE  HasSeries(body, At(begun, Failures)[i])
    BY <2>1 DEF StableReported
  <2> QED BY IndependentReal
<1> QED BY <1>1, CollectHolds, PTL

-----------------------------------------------------------------------------
(* Samples no two of which are of one series.                              *)

OncePerSeries(s) ==
    /\ \E T : s \in Seq(T)
    /\ \A i, j \in 1..Len(s) : Series(s[i]) = Series(s[j]) => i = j

\* No series is in both.
Apart(s, t) == \A i \in 1..Len(s) : \A j \in 1..Len(t) : Series(s[i]) # Series(t[j])

\* Such sequences, apart from each other, can be joined.
LEMMA FlattenOnce ==
  ASSUME NEW n \in Nat, NEW seqs, seqs = [i \in 1..n |-> seqs[i]],
         \A i \in 1..n : OncePerSeries(seqs[i]),
         \A i, j \in 1..n : i # j => Apart(seqs[i], seqs[j])
  PROVE  OncePerSeries(FlattenSeq(seqs))
<1> DEFINE flat == FlattenSeq(seqs)
<1>1. PICK T : \A i \in 1..n : seqs[i] \in Seq(T)
  BY CommonElements DEF OncePerSeries
<1>2. seqs \in [1..n -> Seq(T)]
  BY <1>1
<1>3. flat \in Seq(T) /\ ComesFrom(flat, seqs, n)
  BY <1>2, FlattenFrom
<1> HIDE DEF flat
<1>4. PICK start \in [1..n -> Nat] :
         \A k \in 1..Len(flat) : \E i \in 1..n : \E j \in 1..Len(seqs[i]) :
            k = start[i] + j /\ flat[k] = seqs[i][j]
  BY <1>3 DEF ComesFrom
<1>5. ASSUME NEW k \in 1..Len(flat), NEW l \in 1..Len(flat), Series(flat[k]) = Series(flat[l])
      PROVE  k = l
  <2>1. PICK i \in 1..n : \E j \in 1..Len(seqs[i]) : k = start[i] + j /\ flat[k] = seqs[i][j]
    BY <1>4
  <2>2. PICK j \in 1..Len(seqs[i]) : k = start[i] + j /\ flat[k] = seqs[i][j]
    BY <2>1
  <2>3. PICK p \in 1..n : \E q \in 1..Len(seqs[p]) : l = start[p] + q /\ flat[l] = seqs[p][q]
    BY <1>4
  <2>4. PICK q \in 1..Len(seqs[p]) : l = start[p] + q /\ flat[l] = seqs[p][q]
    BY <2>3
  <2>5. i = p
    BY <1>5, <2>2, <2>4 DEF Apart
  <2>6. j = q
    BY <1>5, <2>2, <2>4, <2>5 DEF OncePerSeries
  <2> QED BY <2>2, <2>4, <2>5, <2>6
<1>6. OncePerSeries(flat)
  BY <1>3, <1>5, Zenon DEF OncePerSeries
<1> QED BY <1>6 DEF flat

\* Samples of one label set, each of a metric of its own.
Block(s, labels) ==
    /\ \E T : s \in Seq(T)
    /\ \A i \in 1..Len(s) : s[i].labels = labels
    /\ \A i, j \in 1..Len(s) : s[i].name = s[j].name => i = j

\* n blocks, no two of them with samples of the same labels.
Blocks(seqs, label, n) ==
    /\ seqs = [i \in 1..n |-> seqs[i]]
    /\ \A i \in 1..n : Block(seqs[i], label[i])
    /\ \A i, j \in 1..n : seqs[i] # <<>> /\ seqs[j] # <<>> /\ label[i] = label[j] => i = j

\* They can be joined.
LEMMA FlattenBlocks ==
  ASSUME NEW n \in Nat, NEW seqs, NEW label, Blocks(seqs, label, n)
  PROVE  OncePerSeries(FlattenSeq(seqs))
<1>1. ASSUME NEW i \in 1..n PROVE OncePerSeries(seqs[i])
  <2>1. Block(seqs[i], label[i])
    BY DEF Blocks
  <2> QED BY <2>1 DEF Block, OncePerSeries, Series
<1>2. ASSUME NEW i \in 1..n, NEW j \in 1..n, i # j PROVE Apart(seqs[i], seqs[j])
  <2>1. Block(seqs[i], label[i]) /\ Block(seqs[j], label[j])
    BY DEF Blocks
  <2>2. CASE seqs[i] = <<>> \/ seqs[j] = <<>>
    BY <2>2 DEF Apart
  <2>3. CASE label[i] # label[j]
    BY <2>1, <2>3 DEF Apart, Block, Series
  <2>4. seqs[i] # <<>> /\ seqs[j] # <<>> => label[i] # label[j]
    BY <1>2 DEF Blocks
  <2> QED BY <2>2, <2>3, <2>4
<1>3. seqs = [i \in 1..n |-> seqs[i]]
  BY DEF Blocks
<1> QED BY <1>1, <1>2, <1>3, FlattenOnce

\* One sample per label set of a metric.
LEMMA OneEachOnce ==
  ASSUME NEW s, NEW name, OneEach(s, name)
  PROVE  OncePerSeries(s)
BY DEF OneEach, OncePerSeries, Series

\* Sequences with different names can be joined.
LEMMA JoinOnce ==
  ASSUME NEW a, NEW b, NEW A, NEW B, NamedIn(a, A), NamedIn(b, B), A \cap B = {},
         OncePerSeries(a), OncePerSeries(b)
  PROVE  OncePerSeries(a \o b)
<1> DEFINE u == a \o b
<1>1. PICK S : a \in Seq(S)
  BY DEF NamedIn
<1>2. PICK R : b \in Seq(R)
  BY DEF NamedIn
<1> DEFINE T == S \cup R
<1>3. a \in Seq(T) /\ b \in Seq(T)
  BY <1>1, <1>2
<1>4. Joins(u, a, b, T)
  BY <1>3, JoinParts
<1> HIDE DEF T, u
<1>5. /\ u \in Seq(T) /\ Len(u) = Len(a) + Len(b)
      /\ Len(a) \in Nat /\ Len(b) \in Nat
      /\ \A i \in 1..Len(a) : u[i] = a[i]
      /\ \A i \in 1..Len(b) : u[Len(a) + i] = b[i]
  BY <1>3, <1>4 DEF Joins
<1>6. ASSUME NEW i \in 1..Len(u)
      PROVE  \/ i \in 1..Len(a) /\ u[i] = a[i]
             \/ \E j \in 1..Len(b) : i = Len(a) + j /\ u[i] = b[j]
  <2>1. CASE i \in 1..Len(a)
    BY <1>5, <2>1
  <2>2. CASE i \notin 1..Len(a)
    <3> DEFINE j == i - Len(a)
    <3>1. j \in 1..Len(b) /\ Len(a) + j = i
      BY <1>5, <2>2
    <3> HIDE DEF j
    <3>2. u[Len(a) + j] = b[j]
      BY <1>5, <3>1
    <3> QED BY <3>1, <3>2
  <2> QED BY <2>1, <2>2
<1>7. \A i \in 1..Len(a) : \A j \in 1..Len(b) : Series(a[i]) # Series(b[j])
  BY DEF NamedIn, Series
<1>8. ASSUME NEW i \in 1..Len(u), NEW j \in 1..Len(u), Series(u[i]) = Series(u[j])
      PROVE  i = j
  <2>1. CASE i \in 1..Len(a) /\ u[i] = a[i]
    <3>1. j \in 1..Len(a) /\ u[j] = a[j]
      BY <1>6, <1>7, <1>8, <2>1
    <3> QED BY <1>8, <2>1, <3>1 DEF OncePerSeries
  <2>2. CASE \E k \in 1..Len(b) : i = Len(a) + k /\ u[i] = b[k]
    <3>1. PICK k \in 1..Len(b) : i = Len(a) + k /\ u[i] = b[k]
      BY <2>2
    <3>2. ~(j \in 1..Len(a) /\ u[j] = a[j])
      BY <1>7, <1>8, <3>1
    <3>3. PICK l \in 1..Len(b) : j = Len(a) + l /\ u[j] = b[l]
      BY <1>6, <3>2
    <3>4. k = l
      BY <1>8, <3>1, <3>3 DEF OncePerSeries
    <3> QED BY <3>1, <3>3, <3>4
  <2> QED BY <1>6, <2>1, <2>2
<1>9. OncePerSeries(u)
  BY <1>5, <1>8, Zenon DEF OncePerSeries
<1> QED BY <1>9 DEF u

-----------------------------------------------------------------------------
(* What the kernel has once, a collect() is answered once.                 *)

\* Nothing is there twice in an answer without frames.
LEMMA NoneNamedOnce ==
  ASSUME NEW c, NEW op
  PROVE  NamedOnce(c, op, <<>>)
<1> DEFINE none == <<>>
<1>1. none \in Seq({}) /\ DOMAIN none = {} /\ Len(none) = 0 /\ none = <<>> /\ ToSet(none) = {}
  BY DEF ToSet
<1>2. Sequential(none)
  BY <1>1 DEF Sequential
<1> HIDE DEF none
<1>3. NamedOnce(c, op, none)
  BY <1>1, <1>2 DEF NamedOnce, Unique
<1> QED BY <1>3 DEF none

\* Nothing, or what the kernel had for an operation of c at some instant.
Had(c, op, frames) ==
    \/ frames = <<>>
    \/ \E t \in DOMAIN Kernel[c] : op \in DOMAIN Kernel[c][t]
          /\ \E arg \in DOMAIN Kernel[c][t][op] : frames = Kernel[c][t][op][arg]

\* That is what was answered, where nothing was left over.
LEMMA GotAnswered ==
  ASSUME CollectInv, Succeeded, Clean, who \in Fixed, NEW k \in 1..Len(got)
  PROVE  Had(who, Names(who)[k], got[k].frames)
<1> DEFINE P == FixedPlan(who)
           r == P[k]
<1>1. r.op = Names(who)[k]
  BY FixedAnswers, PlanNames DEF Asks
<1>2. Real(who, begun, now, r, got[k]) /\ got[k].error # "stale"
  BY FixedAnswers DEF Clean
<1> HIDE DEF P, r
<1>3. CASE got[k] = NoAnswer(r, got[k].error)
  <2>1. \A e : NoAnswer(r, e).frames = <<>>
    BY DEF NoAnswer
  <2> QED BY <1>3, <2>1 DEF Had
<1>4. CASE \E t \in begun..now : got[k] = Answer(who, t, r)
  <2>1. PICK t \in begun..now : got[k] = Answer(who, t, r)
    BY <1>4
  <2>2. t \in DOMAIN Kernel[who]
    BY KernelAssumption DEF CollectInv, Sequential
  <2>3. CASE r.op \in DOMAIN Kernel[who][t] /\ r.arg \in DOMAIN Kernel[who][t][r.op]
    <3>1. Answer(who, t, r).frames = Kernel[who][t][r.op][r.arg]
      BY <2>3 DEF Answer
    <3> QED BY <1>1, <2>1, <2>2, <2>3, <3>1 DEF Had
  <2>4. CASE ~(r.op \in DOMAIN Kernel[who][t] /\ r.arg \in DOMAIN Kernel[who][t][r.op])
    <3>1. Answer(who, t, r).frames = <<>>
      BY <2>4 DEF Answer
    <3> QED BY <2>1, <3>1 DEF Had
  <2> QED BY <2>3, <2>4
<1> QED BY <1>2, <1>3, <1>4 DEF Real

\* A sequence is a function on the numbers up to its length.
LEMMA SequenceBasics ==
  ASSUME NEW T, NEW s \in Seq(T)
  PROVE  Len(s) \in Nat /\ DOMAIN s = 1..Len(s)
OBVIOUS

\* One with an element is not empty.
LEMMA HasElement ==
  ASSUME NEW s, NEW i \in 1..Len(s)
  PROVE  s # <<>>
OBVIOUS

\* Nothing is a sequence.
LEMMA EmptySequence == \A T : <<>> \in Seq(T)
OBVIOUS

\* The frames for request k of a fixed plan are those of answer k alone.
LEMMA FramesOfAnswer ==
  ASSUME CollectInv, Succeeded, who \in Fixed, NEW k \in 1..Len(got)
  PROVE  Frames(got, Names(who)[k]) = got[k].frames
<1> DEFINE P == FixedPlan(who)
           n == Len(got)
           op == Names(who)[k]
           seqs == [i \in 1..n |-> IF got[i].op = op THEN got[i].frames ELSE <<>>]
<1>1. n \in Nat /\ DOMAIN got = 1..n /\ \A i \in 1..n : got[i].op = P[i].op
  BY FixedAnswers
<1>2. (\A i \in 1..n : P[i].op = op => i = k) /\ P[k].op = op
  BY <1>1, FixedAnswers, PlanNames DEF Distinct, Asks
<1>3. Frames(got, op) = FlattenSeq(seqs)
  BY <1>1 DEF Frames
<1>4. \E T : got[k].frames \in Seq(T)
  <2>1. Real(who, begun, now, P[k], got[k])
    BY FixedAnswers
  <2> QED BY <2>1, RealSequence
<1>5. PICK T : got[k].frames \in Seq(T)
  BY <1>4
<1> HIDE DEF P, op
<1>6. seqs[k] = got[k].frames /\ \A i \in 1..n : i # k => seqs[i] = <<>>
  BY <1>1, <1>2
<1>7. <<>> \in Seq(T)
  OBVIOUS
<1>8. seqs \in [1..n -> Seq(T)]
  BY <1>5, <1>6, <1>7
<1> HIDE DEF seqs, n
<1>9. FlattenSeq(seqs) = seqs[k]
  BY <1>1, <1>6, <1>8, FlattenOnly, Zenon DEF n
<1> QED BY <1>3, <1>6, <1>9 DEF op

\* What names the frames of the kernel is there once.
LEMMA HadNamedOnce ==
  ASSUME NEW c \in Collectors, NEW op, NEW frames, Had(c, op, frames)
  PROVE  NamedOnce(c, op, frames)
<1>1. CASE frames = <<>>
  BY <1>1, NoneNamedOnce
<1>2. CASE \E t \in DOMAIN Kernel[c] : op \in DOMAIN Kernel[c][t]
             /\ \E arg \in DOMAIN Kernel[c][t][op] : frames = Kernel[c][t][op][arg]
  <2>1. PICK t \in DOMAIN Kernel[c] : op \in DOMAIN Kernel[c][t]
             /\ \E arg \in DOMAIN Kernel[c][t][op] : frames = Kernel[c][t][op][arg]
    BY <1>2
  <2>2. PICK arg \in DOMAIN Kernel[c][t][op] : frames = Kernel[c][t][op][arg]
    BY <2>1
  <2>3. NamedOnce(c, op, Kernel[c][t][op][arg])
    BY <2>1, <2>2, NamingAssumption
  <2> QED BY <2>2, <2>3
<1> QED BY <1>1, <1>2 DEF Had

\* So what names the frames of an answer is there once.
LEMMA GotNamedOnce ==
  ASSUME CollectInv, Succeeded, Clean, who \in Fixed, NEW k \in 1..Len(got)
  PROVE  NamedOnce(who, Names(who)[k], Frames(got, Names(who)[k]))
<1>1. who \in Collectors
  BY DEF CollectInv
<1>2. NamedOnce(who, Names(who)[k], got[k].frames)
  BY <1>1, GotAnswered, HadNamedOnce
<1> QED BY <1>2, FramesOfAnswer

-----------------------------------------------------------------------------
(* Blocks.                                                                 *)

\* No samples are a block of any labels.
LEMMA NoneBlock ==
  ASSUME NEW labels
  PROVE  Block(<<>>, labels)
<1> DEFINE none == <<>>
<1>1. none \in Seq({}) /\ Len(none) = 0
  OBVIOUS
<1> HIDE DEF none
<1>2. Block(none, labels)
  BY <1>1 DEF Block
<1> QED BY <1>2 DEF none

\* One sample is a block.
LEMMA OneBlock ==
  ASSUME NEW x, NEW labels, x.labels = labels
  PROVE  Block(<<x>>, labels)
<1> DEFINE one == <<x>>
<1>1. one \in Seq({x}) /\ Len(one) = 1 /\ \A i \in 1..Len(one) : i = 1 /\ one[i] = x
  OBVIOUS
<1> HIDE DEF one
<1>2. Block(one, labels)
  BY <1>1 DEF Block
<1> QED BY <1>2 DEF one

\* n metrics of one label set, and x another of it.
AnotherOf(x, s, labels, n) ==
    /\ s = [i \in 1..n |-> s[i]]
    /\ \A i \in 1..n : s[i].labels = labels /\ s[i].name # x.name
    /\ \A i, j \in 1..n : s[i].name = s[j].name => i = j
    /\ x.labels = labels

\* Together they are a block.
LEMMA MoreBlock ==
  ASSUME NEW n \in Nat, NEW s, NEW labels, NEW x, AnotherOf(x, s, labels, n)
  PROVE  Block(s \o <<x>>, labels)
<1> DEFINE one == <<x>>
           T == {s[i] : i \in 1..n} \cup {x}
           u == s \o one
<1>1. s \in [1..n -> T]
  BY DEF AnotherOf
<1>2. one \in Seq(T) /\ Len(one) = 1 /\ one[1] = x
  OBVIOUS
<1> HIDE DEF T, one
<1>3. s \in Seq(T) /\ Len(s) = n
  BY <1>1, FunctionIsSeq
<1>4. Joins(u, s, one, T)
  BY <1>2, <1>3, JoinParts
<1> HIDE DEF u
<1>5. /\ u \in Seq(T) /\ Len(u) = n + 1 /\ u[n + 1] = x
      /\ \A i \in 1..n : u[i] = s[i]
  BY <1>2, <1>3, <1>4 DEF Joins
<1>6. \A i \in 1..Len(u) : i \in 1..n \/ i = n + 1
  BY <1>5
<1>7. \A i \in 1..Len(u) : u[i].labels = labels
  BY <1>5, <1>6 DEF AnotherOf
<1>8. \A i, j \in 1..Len(u) : u[i].name = u[j].name => i = j
  BY <1>5, <1>6 DEF AnotherOf
<1>9. Block(u, labels)
  BY <1>5, <1>7, <1>8, Zenon DEF Block
<1> QED BY <1>9 DEF u, one

-----------------------------------------------------------------------------
(* Collectors with a block for each frame.                                 *)

\* irq.rs: one number, one interrupt.
LEMMA IrqOnce ==
  ASSUME NEW T, NEW frames \in Seq(T), NamedOnce("irq", "interrupts", frames)
  PROVE  OncePerSeries(Each(frames, IrqSamples))
<1> DEFINE n == Len(frames)
           seqs == [i \in 1..n |-> IrqSamples(frames[i])]
           Labels(l) == [irq |-> l.id,
                         device |-> IF Len(l.columns) < 2 THEN "" ELSE l.columns[Len(l.columns)]]
           label == [i \in 1..n |-> Labels(frames[i])]
<1>1. n \in Nat /\ DOMAIN frames = 1..n
  OBVIOUS
<1>2. Each(frames, IrqSamples) = FlattenSeq(seqs)
  BY <1>1 DEF Each, MapSeq
<1>3. \A i, j \in 1..n :
         frames[i].numbered /\ frames[j].numbered /\ frames[i].id = frames[j].id => i = j
  BY <1>1 DEF NamedOnce, Unique
<1>4. ASSUME NEW l PROVE Block(IrqSamples(l), Labels(l)) /\ (IrqSamples(l) # <<>> => l.numbered)
  <2>1. CASE ~l.numbered \/ l.counts = <<>>
    BY <2>1, NoneBlock DEF IrqSamples
  <2>2. CASE l.numbered /\ l.counts # <<>>
    <3> DEFINE x == Counter("nft_irq_total", Labels(l), Saturating(l.counts, LAMBDA m : m))
    <3>1. IrqSamples(l) = <<x>> /\ x.labels = Labels(l)
      BY <2>2 DEF IrqSamples, Counter
    <3> HIDE DEF x, Labels
    <3> QED BY <2>2, <3>1, OneBlock
  <2> QED BY <2>1, <2>2
<1>5. \A i \in 1..n : Block(seqs[i], label[i])
  BY <1>4
<1>6. \A i, j \in 1..n : label[i] = label[j] => frames[i].id = frames[j].id
  <2>1. ASSUME NEW l, NEW m, Labels(l) = Labels(m) PROVE l.id = m.id
    <3>1. Labels(l).irq = l.id /\ Labels(m).irq = m.id
      OBVIOUS
    <3> QED BY <2>1, <3>1
  <2> HIDE DEF Labels
  <2> QED BY <2>1
<1>7. \A i, j \in 1..n : seqs[i] # <<>> /\ seqs[j] # <<>> /\ label[i] = label[j] => i = j
  BY <1>3, <1>4, <1>6
<1>8. seqs = [i \in 1..n |-> seqs[i]]
  OBVIOUS
<1> HIDE DEF seqs, label, n
<1>9. Blocks(seqs, label, n)
  BY <1>5, <1>7, <1>8 DEF Blocks
<1>10. OncePerSeries(FlattenSeq(seqs))
  BY <1>1, <1>9, FlattenBlocks
<1> QED BY <1>2, <1>10

\* softnet.rs: one line for each CPU.
LEMMA SoftnetOnce ==
  ASSUME NEW T, NEW frames \in Seq(T), NamedOnce("softnet", "softnet_stat", frames)
  PROVE  OncePerSeries(Each(frames, SoftnetSamples))
<1> DEFINE n == Len(frames)
           seqs == [i \in 1..n |-> SoftnetSamples(frames[i])]
           Labels(l) == [cpu |-> l[13]]
           label == [i \in 1..n |-> Labels(frames[i])]
<1>1. n \in Nat /\ DOMAIN frames = 1..n
  OBVIOUS
<1>2. Each(frames, SoftnetSamples) = FlattenSeq(seqs)
  BY <1>1 DEF Each, MapSeq
<1>3. \A i, j \in 1..n :
         ~(Len(frames[i]) < 13) /\ ~(Len(frames[j]) < 13) /\ frames[i][13] = frames[j][13] => i = j
  <2>1. \A i, j \in 1..n :
           Len(frames[i]) >= 13 /\ Len(frames[j]) >= 13 /\ frames[i][13] = frames[j][13] => i = j
    BY <1>1 DEF NamedOnce, Unique
  <2>2. \A i \in 1..n : ~(Len(frames[i]) < 13) => Len(frames[i]) >= 13
    OBVIOUS
  <2> QED BY <2>1, <2>2
<1>4. ASSUME NEW l
      PROVE  Block(SoftnetSamples(l), Labels(l)) /\ (SoftnetSamples(l) # <<>> => ~(Len(l) < 13))
  <2>1. CASE Len(l) < 13
    BY <2>1, NoneBlock DEF SoftnetSamples
  <2>2. CASE ~(Len(l) < 13)
    <3> DEFINE s == [i \in 1..5 |-> Counter(SoftnetColumns[i].name, Labels(l), l[SoftnetColumns[i].at])]
               x == Gauge("nft_softnet_backlog_length", Labels(l), l[12])
    <3>1. SoftnetSamples(l) = s \o <<x>>
      <4>1. DOMAIN SoftnetColumns = 1..5
        BY DEF SoftnetColumns
      <4> QED BY <2>2, <4>1 DEF SoftnetSamples, MapSeq
    <3>2. /\ \A i \in 1..5 : SoftnetColumns[i].name # "nft_softnet_backlog_length"
          /\ \A i, j \in 1..5 : SoftnetColumns[i].name = SoftnetColumns[j].name => i = j
      BY DEF SoftnetColumns
    <3>3. /\ x.labels = Labels(l) /\ x.name = "nft_softnet_backlog_length"
          /\ \A i \in 1..5 : s[i].labels = Labels(l) /\ s[i].name = SoftnetColumns[i].name
      BY DEF Counter, Gauge
    <3>4. s = [i \in 1..5 |-> s[i]]
      OBVIOUS
    <3> HIDE DEF s, x, Labels
    <3>5. Block(s \o <<x>>, Labels(l))
      <4>1. AnotherOf(x, s, Labels(l), 5)
        BY <3>2, <3>3, <3>4 DEF AnotherOf
      <4> QED BY <4>1, MoreBlock
    <3> QED BY <2>2, <3>1, <3>5
  <2> QED BY <2>1, <2>2
<1>5. \A i \in 1..n : Block(seqs[i], label[i])
  BY <1>4
<1>6. \A i, j \in 1..n : label[i] = label[j] => frames[i][13] = frames[j][13]
  <2>1. ASSUME NEW l, NEW m, Labels(l) = Labels(m) PROVE l[13] = m[13]
    <3>1. Labels(l).cpu = l[13] /\ Labels(m).cpu = m[13]
      OBVIOUS
    <3> QED BY <2>1, <3>1
  <2> HIDE DEF Labels
  <2> QED BY <2>1
<1>7. \A i, j \in 1..n : seqs[i] # <<>> /\ seqs[j] # <<>> /\ label[i] = label[j] => i = j
  BY <1>3, <1>4, <1>6
<1>8. seqs = [i \in 1..n |-> seqs[i]]
  OBVIOUS
<1> HIDE DEF seqs, label, n
<1>9. Blocks(seqs, label, n)
  BY <1>5, <1>7, <1>8 DEF Blocks
<1>10. OncePerSeries(FlattenSeq(seqs))
  BY <1>1, <1>9, FlattenBlocks
<1> QED BY <1>2, <1>10

-----------------------------------------------------------------------------
(* Collectors whose body consists of parts.                                *)

\* rt.rs: one link of a name.
LEMMA RtLinksOnce ==
  ASSUME NEW T, NEW frames \in Seq(T), NamedOnce("rtnetlink", "links", frames)
  PROVE  OncePerSeries(RtLinks(frames))
<1> DEFINE W == RtNamed(frames)
           n == Len(W)
           seqs == [i \in 1..n |-> LinkSamples(W[i])]
           Labels(f) == [device |-> f.name]
           label == [i \in 1..n |-> Labels(W[i])]
           named == {f \in T : "name" \in DOMAIN f}
<1>1. W \in Seq(T) /\ Filters(W, frames, named)
  BY RtFilters
<1>2. /\ \A i, j \in 1..Len(frames) :
            frames[i] \in named /\ frames[j] \in named /\ frames[i].name = frames[j].name => i = j
      /\ Len(frames) \in Nat
  BY DEF NamedOnce, Unique
<1> HIDE DEF W, named
<1>3. n \in Nat /\ DOMAIN W = 1..n
  BY <1>1
<1>4. RtLinks(frames) = FlattenSeq(seqs)
  BY <1>3 DEF RtLinks, Each, MapSeq, W
<1>5. \A k, l \in 1..n : k < l => W[k].name # W[l].name
  <2> SUFFICES ASSUME NEW k \in 1..n, NEW l \in 1..n, k < l PROVE W[k].name # W[l].name
    OBVIOUS
  <2>1. /\ \E i \in 1..Len(frames) : frames[i] \in named /\ W[k] = frames[i]
        /\ \E j \in 1..Len(frames) : frames[j] \in named /\ W[l] = frames[j]
    BY <1>1 DEF Filters
  <2>2. \E i, j \in 1..Len(frames) : i < j /\ W[k] = frames[i] /\ W[l] = frames[j]
    BY <1>1 DEF Filters
  <2>3. PICK i \in 1..Len(frames) : \E j \in 1..Len(frames) : i < j /\ W[k] = frames[i] /\ W[l] = frames[j]
    BY <2>2
  <2>4. PICK j \in 1..Len(frames) : i < j /\ W[k] = frames[i] /\ W[l] = frames[j]
    BY <2>3
  <2>5. frames[i] \in named /\ frames[j] \in named /\ i # j
    BY <1>2, <2>1, <2>4
  <2> QED BY <1>2, <2>4, <2>5
<1>6. ASSUME NEW f PROVE Block(LinkSamples(f), Labels(f))
  <2> DEFINE stats == LinkStats(f)
             s == [i \in 1..8 |-> Counter(LinkCounters[i].name, Labels(f), stats[LinkCounters[i].at])]
             x == Gauge("nft_link_up", Labels(f), Bit(LinkUp(f)))
  <2>1. LinkSamples(f) = s \o <<x>>
    <3>1. DOMAIN LinkCounters = 1..8
      BY DEF LinkCounters
    <3> QED BY <3>1 DEF LinkSamples, MapSeq
  <2>2. /\ \A i \in 1..8 : LinkCounters[i].name # "nft_link_up"
        /\ \A i, j \in 1..8 : LinkCounters[i].name = LinkCounters[j].name => i = j
    BY DEF LinkCounters
  <2>3. /\ x.labels = Labels(f) /\ x.name = "nft_link_up"
        /\ \A i \in 1..8 : s[i].labels = Labels(f) /\ s[i].name = LinkCounters[i].name
    BY DEF Counter, Gauge
  <2>4. s = [i \in 1..8 |-> s[i]]
    OBVIOUS
  <2> HIDE DEF s, x, Labels
  <2>5. Block(s \o <<x>>, Labels(f))
    <3>1. AnotherOf(x, s, Labels(f), 8)
      BY <2>2, <2>3, <2>4 DEF AnotherOf
    <3> QED BY <3>1, MoreBlock
  <2> QED BY <2>1, <2>5
<1>7. \A i \in 1..n : Block(seqs[i], label[i])
  BY <1>6
<1>8. \A i, j \in 1..n : label[i] = label[j] => W[i].name = W[j].name
  <2>1. ASSUME NEW l, NEW m, Labels(l) = Labels(m) PROVE l.name = m.name
    <3>1. Labels(l).device = l.name /\ Labels(m).device = m.name
      OBVIOUS
    <3> QED BY <2>1, <3>1
  <2> HIDE DEF Labels
  <2> QED BY <2>1
<1>9. \A i, j \in 1..n : label[i] = label[j] => i = j
  <2> SUFFICES ASSUME NEW i \in 1..n, NEW j \in 1..n, label[i] = label[j] PROVE i = j
    OBVIOUS
  <2>1. ~(i < j) /\ ~(j < i)
    BY <1>5, <1>8
  <2> HIDE DEF label
  <2> QED BY <1>3, <2>1
<1>10. seqs = [i \in 1..n |-> seqs[i]]
  OBVIOUS
<1> HIDE DEF seqs, label, n
<1>11. Blocks(seqs, label, n)
  BY <1>7, <1>9, <1>10 DEF Blocks
<1>12. OncePerSeries(FlattenSeq(seqs))
  BY <1>3, <1>11, FlattenBlocks
<1> QED BY <1>4, <1>12

\* xfrm.rs: a plain request has one answer at most.
LEMMA XfrmHashOnce ==
  ASSUME NEW T, NEW frames \in Seq(T), Len(frames) <= 1, NEW count, NEW max, count # max
  PROVE  OncePerSeries(XfrmHash(frames, count, max))
<1> DEFINE n == Len(frames)
           a(f) == Gauge(count, NoLabels, Attr(f, "count", 0))
           b(f) == Gauge(max, NoLabels, Attr(f, "max", 0))
           seqs == [i \in 1..n |-> <<a(frames[i]), b(frames[i])>>]
           label == [i \in 1..n |-> NoLabels]
<1>1. n \in Nat /\ DOMAIN frames = 1..n
  OBVIOUS
<1>2. XfrmHash(frames, count, max) = FlattenSeq(seqs)
  BY <1>1 DEF XfrmHash, Each, MapSeq
<1>3. ASSUME NEW f PROVE Block(<<a(f), b(f)>>, NoLabels)
  <2> DEFINE two == <<a(f), b(f)>>
  <2>1. /\ a(f).name = count /\ b(f).name = max
        /\ a(f).labels = NoLabels /\ b(f).labels = NoLabels
    BY DEF Gauge
  <2> HIDE DEF a, b
  <2>2. /\ two \in Seq({a(f), b(f)}) /\ Len(two) = 2 /\ two[1] = a(f) /\ two[2] = b(f)
        /\ \A i \in 1..Len(two) : i = 1 \/ i = 2
    OBVIOUS
  <2> HIDE DEF two
  <2>3. Block(two, NoLabels)
    BY <2>1, <2>2 DEF Block
  <2> QED BY <2>3 DEF two
<1>4. \A i \in 1..n : Block(seqs[i], label[i])
  BY <1>3
<1>5. \A i, j \in 1..n : i = j
  BY <1>1
<1>6. seqs = [i \in 1..n |-> seqs[i]]
  OBVIOUS
<1> HIDE DEF seqs, label, n
<1>7. Blocks(seqs, label, n)
  BY <1>4, <1>5, <1>6 DEF Blocks
<1>8. OncePerSeries(FlattenSeq(seqs))
  BY <1>1, <1>7, FlattenBlocks
<1> QED BY <1>2, <1>8

\* conntrack.rs: each of the counters once.
LEMMA CtCountedOnce ==
  ASSUME NEW frames
  PROVE  OncePerSeries(CtCounted(frames))
<1> DEFINE T == {CtCounters[i] : i \in 1..7}
           given == {c \in T : c.new => \E i \in DOMAIN frames : c.attr \in DOMAIN frames[i]}
           W == Sifted(CtCounters, given)
           s == [i \in DOMAIN W |-> Counter(W[i].name, NoLabels, CtSum(frames, W[i].attr))]
           S == {s[i] : i \in DOMAIN W}
<1>1. CtCounters \in Seq(T) /\ DOMAIN CtCounters = 1..7 /\ Len(CtCounters) = 7
  <2>1. DOMAIN CtCounters = 1..7 /\ CtCounters = [i \in 1..7 |-> CtCounters[i]]
    BY DEF CtCounters
  <2>2. CtCounters \in [1..7 -> T]
    BY <2>1
  <2> HIDE DEF T
  <2> QED BY <2>1, <2>2, FunctionIsSeq
<1>2. CtCounted(frames) = s
  <2>1. \A i \in 1..7 : CtCounters[i] \in given <=>
           (CtCounters[i].new => \E j \in DOMAIN frames : CtCounters[i].attr \in DOMAIN frames[j])
    OBVIOUS
  <2>2. W = FlattenSeq([i \in DOMAIN CtCounters |->
               IF CtCounters[i].new => \E j \in DOMAIN frames : CtCounters[i].attr \in DOMAIN frames[j]
               THEN <<CtCounters[i]>> ELSE <<>>])
    BY <1>1, <2>1 DEF Sifted
  <2> HIDE DEF W
  <2> QED BY <2>2 DEF CtCounted, MapSeq, Where
<1>3. \A i, j \in 1..7 : CtCounters[i].name = CtCounters[j].name => i = j
  BY DEF CtCounters
<1> HIDE DEF given
<1>4. W \in Seq(T) /\ Filters(W, CtCounters, given)
  BY <1>1, SiftedFilters
<1> HIDE DEF W, T
<1>5. Len(W) \in Nat /\ DOMAIN W = 1..Len(W)
  BY <1>4
<1>6. \A k, l \in 1..Len(W) : k < l => W[k].name # W[l].name
  <2> SUFFICES ASSUME NEW k \in 1..Len(W), NEW l \in 1..Len(W), k < l PROVE W[k].name # W[l].name
    OBVIOUS
  <2>1. \E i, j \in 1..7 : i < j /\ W[k] = CtCounters[i] /\ W[l] = CtCounters[j]
    BY <1>1, <1>4 DEF Filters
  <2> QED BY <1>3, <2>1
<1>7. s \in [1..Len(W) -> S] /\ \A i \in 1..Len(W) : s[i].name = W[i].name
  BY <1>5 DEF Counter
<1> HIDE DEF s, S
<1>8. s \in Seq(S) /\ Len(s) = Len(W)
  BY <1>5, <1>7, FunctionIsSeq
<1>9. ASSUME NEW i \in 1..Len(s), NEW j \in 1..Len(s), Series(s[i]) = Series(s[j]) PROVE i = j
  <2>1. W[i].name = W[j].name
    BY <1>7, <1>8, <1>9 DEF Series
  <2>2. ~(i < j) /\ ~(j < i)
    BY <1>6, <1>8, <2>1
  <2> QED BY <1>5, <1>8, <2>2
<1> QED BY <1>2, <1>8, <1>9 DEF OncePerSeries

\* One sample.
LEMMA OneOnce ==
  ASSUME NEW x
  PROVE  OncePerSeries(<<x>>)
<1> DEFINE one == <<x>>
<1>1. one \in Seq({x}) /\ Len(one) = 1
  OBVIOUS
<1> HIDE DEF one
<1>2. OncePerSeries(one)
  BY <1>1 DEF OncePerSeries
<1> QED BY <1>2 DEF one

\* Four parts.
LEMMA FourOnce ==
  ASSUME NEW a, NEW b, NEW c, NEW d, NEW A, NEW B, NEW C, NEW D,
         NamedIn(a, A), NamedIn(b, B), NamedIn(c, C), NamedIn(d, D),
         Disjoint(<<A, B, C, D>>),
         OncePerSeries(a), OncePerSeries(b), OncePerSeries(c), OncePerSeries(d)
  PROVE  OncePerSeries(a \o b \o c \o d)
<1> DEFINE u == a \o b
           v == u \o c
           E == A \cup B
           F == E \cup C
<1>1. /\ A \cap B = {} /\ A \cap C = {} /\ A \cap D = {}
      /\ B \cap C = {} /\ B \cap D = {} /\ C \cap D = {}
  BY DEF Disjoint
<1>2. E \cap C = {} /\ F \cap D = {}
  BY <1>1
<1>3. NamedIn(u, E) /\ OncePerSeries(u)
  BY <1>1, JoinNamed, JoinOnce
<1> HIDE DEF u, E
<1>4. NamedIn(v, F) /\ OncePerSeries(v)
  BY <1>2, <1>3, JoinNamed, JoinOnce
<1> HIDE DEF v, F
<1>5. OncePerSeries(v \o d)
  BY <1>2, <1>4, JoinOnce
<1> QED BY <1>5 DEF u, v

\* What a collector is answered to a request, by its name.
Given(op) == Frames(got, op)

\* A body of parts.
LEMMA PartedOnce ==
  ASSUME CollectInv, Succeeded, Clean, who \in Parted
  PROVE  OncePerSeries(body)
<1>1. body = Emit(who, got) /\ who \in Fixed
  BY DEF CollectInv, Parted, Fixed, Independent
<1>2. \A op : \E T : Given(op) \in Seq(T)
  BY <1>1, GotSequences DEF Given
<1>3. \A k \in 1..Len(Names(who)) : NamedOnce(who, Names(who)[k], Given(Names(who)[k]))
  <2>1. Len(Names(who)) = Len(got)
    BY <1>1, FixedAnswers, PlanNames DEF Asks
  <2> QED BY <1>1, <2>1, GotNamedOnce DEF Given
<1>4. Disjoint(PartNames(who))
  BY PartNamesDisjoint
<1>5. CASE who = "rtnetlink"
  <2> DEFINE a == RtLinks(Given("links"))
             b == RtAddresses(Given("addresses"))
             d == RtRoutes(Given("routes"))
             e == RtNeighbours(Given("neighbours"))
  <2>1. NamedOnce(who, "links", Given("links"))
    BY <1>3, <1>5 DEF Names
  <2>2. NamedIn(a, LinkNames) /\ OncePerSeries(a)
    BY <1>2, <1>5, <2>1, RtLinksNamed, RtLinksOnce
  <2>3. OneEach(b, "nft_address_count") /\ OneEach(d, "nft_route_count")
        /\ OneEach(e, "nft_neighbor_count")
    BY <1>2, RtCountsEach
  <2>4. Emit(who, got) = a \o b \o d \o e
    BY <1>5, RtParts DEF Emit, Given
  <2> HIDE DEF a, b, d, e
  <2>5. /\ NamedIn(b, {"nft_address_count"}) /\ OncePerSeries(b)
        /\ NamedIn(d, {"nft_route_count"}) /\ OncePerSeries(d)
        /\ NamedIn(e, {"nft_neighbor_count"}) /\ OncePerSeries(e)
    BY <2>3, OneEachNamed, OneEachOnce
  <2>6. Disjoint(<<LinkNames, {"nft_address_count"}, {"nft_route_count"}, {"nft_neighbor_count"}>>)
    BY <1>4, <1>5 DEF PartNames
  <2>7. OncePerSeries(a \o b \o d \o e)
    BY <2>2, <2>5, <2>6, FourOnce
  <2> QED BY <1>1, <2>4, <2>7
<1>6. CASE who = "xfrm"
  <2> DEFINE a == XfrmStates(Given("sa"))
             b == XfrmPolicies(Given("policy"))
             d == XfrmSad(Given("sadinfo"))
             e == XfrmSpd(Given("spdinfo"))
             D == {"nft_xfrm_sad_hash_count", "nft_xfrm_sad_hash_max"}
             E == {"nft_xfrm_spd_hash_count", "nft_xfrm_spd_hash_max"}
  <2>1. NamedOnce(who, "sadinfo", Given("sadinfo")) /\ NamedOnce(who, "spdinfo", Given("spdinfo"))
    BY <1>3, <1>6 DEF Names
  <2>2. Len(Given("sadinfo")) <= 1 /\ Len(Given("spdinfo")) <= 1
    BY <1>6, <2>1 DEF NamedOnce
  <2>3. OneEach(a, "nft_xfrm_sa_count") /\ OneEach(b, "nft_xfrm_sp_count")
    BY <1>2, XfrmCountsEach
  <2>4. NamedIn(d, D) /\ NamedIn(e, E)
    BY <1>2, XfrmHashNamed DEF XfrmSad, XfrmSpd
  <2>5. OncePerSeries(d) /\ OncePerSeries(e)
    BY <1>2, <2>2, XfrmHashOnce DEF XfrmSad, XfrmSpd
  <2>6. Emit(who, got) = a \o b \o d \o e
    BY <1>6, XfrmParts DEF Emit, Given
  <2>7. Disjoint(<<{"nft_xfrm_sa_count"}, {"nft_xfrm_sp_count"}, D, E>>)
    BY <1>4, <1>6 DEF PartNames
  <2> HIDE DEF a, b, d, e, D, E
  <2>8. /\ NamedIn(a, {"nft_xfrm_sa_count"}) /\ OncePerSeries(a)
        /\ NamedIn(b, {"nft_xfrm_sp_count"}) /\ OncePerSeries(b)
    BY <2>3, OneEachNamed, OneEachOnce
  <2>9. OncePerSeries(a \o b \o d \o e)
    BY <2>4, <2>5, <2>7, <2>8, FourOnce
  <2> QED BY <1>1, <2>6, <2>9
<1>7. CASE who = "conntrack"
  <2> DEFINE a == CtCounted(Given("cpus"))
             b == CtHeld(Given("entries"))
             B == {"nft_conntrack_entries"}
  <2>1. NamedIn(a, CtNames) /\ NamedIn(b, B)
    BY CtCountedNamed, CtHeldNamed
  <2>2. OncePerSeries(a) /\ OncePerSeries(b)
    BY CtCountedOnce, OneOnce DEF CtHeld
  <2>3. Emit(who, got) = a \o b
    BY <1>7, CtParts DEF Emit, Given
  <2>4. CtNames \cap B = {}
    <3> DEFINE names == PartNames(who)
    <3>1. DOMAIN names = 1..2 /\ names[1] = CtNames /\ names[2] = B
      BY <1>7 DEF PartNames
    <3> HIDE DEF names, B
    <3> QED BY <1>4, <3>1 DEF Disjoint, names
  <2> HIDE DEF a, b, B
  <2>5. OncePerSeries(a \o b)
    BY <2>1, <2>2, <2>4, JoinOnce
  <2> QED BY <1>1, <2>3, <2>5
<1> QED BY <1>5, <1>6, <1>7 DEF Parted

-----------------------------------------------------------------------------
(* Collectors of procfs with several samples for a line.                   *)

\* No samples.
LEMMA NoneOnce == OncePerSeries(<<>>)
<1> DEFINE none == <<>>
<1>1. none \in Seq({}) /\ Len(none) = 0
  OBVIOUS
<1> HIDE DEF none
<1>2. OncePerSeries(none)
  BY <1>1 DEF OncePerSeries
<1> QED BY <1>2 DEF none

\* softirq.rs: the rows below the header line.
SoftirqLines(lines) == Each(Tail(lines), LAMBDA line : SoftirqSamples(Head(lines), line))

\* One column for each CPU, one row for each kind.
LEMMA SoftirqOnce ==
  ASSUME NEW T, NEW frames \in Seq(T), NamedOnce("softirq", "softirqs", frames), frames # <<>>
  PROVE  OncePerSeries(SoftirqLines(frames))
<1> DEFINE lines == Tail(frames)
           n == Len(lines)
           header == Head(frames)
           Size(l) == Smaller(Len(header.cpus), Len(l.counts))
           seqs == [i \in 1..n |-> SoftirqSamples(header, lines[i])]
           known == DOMAIN SoftirqKinds
<1>1. /\ lines \in Seq(T) /\ n \in Nat /\ DOMAIN lines = 1..n /\ header = frames[1]
  BY EmptySeq, HeadTailProperties
<1>2. /\ Sequential(header.cpus)
      /\ \A i, j \in DOMAIN header.cpus : header.cpus[i] = header.cpus[j] => i = j
      /\ \A i, j \in DOMAIN lines : lines[i].row \in known /\ lines[j].row \in known
                                    /\ lines[i].row = lines[j].row => i = j
      /\ \A i \in DOMAIN lines : Sequential(lines[i].counts)
  BY <1>1 DEF NamedOnce, Unique
<1> HIDE DEF lines, header, known
<1>3. /\ \A i, j \in 1..Len(header.cpus) : header.cpus[i] = header.cpus[j] => i = j
      /\ Len(header.cpus) \in Nat
  <2>1. header.cpus \in Seq(ToSet(header.cpus))
    BY <1>2 DEF Sequential
  <2>2. DOMAIN header.cpus = 1..Len(header.cpus) /\ Len(header.cpus) \in Nat
    BY <2>1, SequenceBasics, Zenon
  <2> QED BY <1>2, <2>2
<1>4. \A i, j \in 1..n : lines[i].row \in known /\ lines[j].row \in known
                         /\ lines[i].row = lines[j].row => i = j
  BY <1>1, <1>2
<1>5. \A i \in 1..n : Len(lines[i].counts) \in Nat
  BY <1>1, <1>2 DEF Sequential
<1>6. SoftirqLines(frames) = FlattenSeq(seqs)
  BY <1>1 DEF SoftirqLines, Each, MapSeq, lines, header
<1>7. \A x, y \in known : SoftirqKinds[x] = SoftirqKinds[y] => x = y
  BY DEF SoftirqKinds, known
<1>8. ASSUME NEW i \in 1..n, lines[i].row \in known
      PROVE  /\ \E S : seqs[i] \in Seq(S)
             /\ Len(seqs[i]) = Size(lines[i]) /\ Size(lines[i]) \in Nat
             /\ Size(lines[i]) <= Len(header.cpus)
             /\ \A j \in 1..Len(seqs[i]) :
                   Series(seqs[i][j]) = <<"nft_softirq_total", [cpu |-> header.cpus[j],
                                                                kind |-> SoftirqKinds[lines[i].row]]>>
  <2> DEFINE m == Size(lines[i])
             s == [j \in 1..m |-> Counter("nft_softirq_total",
                                          [cpu |-> SoftirqCpu(header, j),
                                           kind |-> SoftirqKinds[lines[i].row]],
                                          lines[i].counts[j])]
             S == {s[j] : j \in 1..m}
  <2>1. m \in Nat /\ m <= Len(header.cpus)
    BY <1>3, <1>5 DEF Smaller
  <2>2. seqs[i] = s
    BY <1>8 DEF SoftirqSamples, known
  <2>3. s \in [1..m -> S]
    OBVIOUS
  <2>4. \A j \in 1..m : Series(s[j]) = <<"nft_softirq_total", [cpu |-> header.cpus[j],
                                                              kind |-> SoftirqKinds[lines[i].row]]>>
    BY DEF Series, Counter, SoftirqCpu
  <2> HIDE DEF s, S, seqs
  <2>5. s \in Seq(S) /\ Len(s) = m
    BY <2>1, <2>3, FunctionIsSeq
  <2> QED BY <2>1, <2>2, <2>4, <2>5
<1>9. ASSUME NEW i \in 1..n, lines[i].row \notin known PROVE seqs[i] = <<>>
  BY <1>9 DEF SoftirqSamples, known
<1>10. seqs = [i \in 1..n |-> seqs[i]]
  OBVIOUS
<1> DEFINE Label(x, y) == <<"nft_softirq_total", [cpu |-> x, kind |-> y]>>
<1>11. \A x, y, v, w : Label(x, y) = Label(v, w) => x = v /\ y = w
  <2> SUFFICES ASSUME NEW x, NEW y, NEW v, NEW w, Label(x, y) = Label(v, w) PROVE x = v /\ y = w
    OBVIOUS
  <2>1. Label(x, y)[2].cpu = x /\ Label(x, y)[2].kind = y /\ Label(v, w)[2].cpu = v /\ Label(v, w)[2].kind = w
    OBVIOUS
  <2> QED BY <2>1
<1>12. ASSUME NEW i \in 1..n, lines[i].row \in known, NEW j \in 1..Len(seqs[i])
       PROVE  Series(seqs[i][j]) = Label(header.cpus[j], SoftirqKinds[lines[i].row])
              /\ j \in 1..Len(header.cpus)
  BY <1>3, <1>8, <1>12
<1> HIDE DEF seqs, n, Size, Label
<1>13. ASSUME NEW i \in 1..n PROVE OncePerSeries(seqs[i])
  <2>1. CASE lines[i].row \notin known
    BY <1>9, <2>1, NoneOnce
  <2>2. CASE lines[i].row \in known
    <3>1. \E S : seqs[i] \in Seq(S)
      BY <1>8, <2>2
    <3>2. \A j, k \in 1..Len(seqs[i]) : Series(seqs[i][j]) = Series(seqs[i][k]) => j = k
      BY <1>3, <1>11, <1>12, <2>2
    <3> QED BY <3>1, <3>2 DEF OncePerSeries
  <2> QED BY <2>1, <2>2
<1>14. ASSUME NEW i \in 1..n, NEW j \in 1..n, i # j PROVE Apart(seqs[i], seqs[j])
  <2>1. CASE lines[i].row \notin known \/ lines[j].row \notin known
    <3>1. seqs[i] = <<>> \/ seqs[j] = <<>>
      BY <1>9, <2>1
    <3> QED BY <3>1 DEF Apart
  <2>2. CASE lines[i].row \in known /\ lines[j].row \in known
    <3>1. SoftirqKinds[lines[i].row] # SoftirqKinds[lines[j].row]
      BY <1>4, <1>7, <1>14, <2>2
    <3> QED BY <1>11, <1>12, <2>2, <3>1 DEF Apart
  <2> QED BY <2>1, <2>2
<1>15. OncePerSeries(FlattenSeq(seqs))
  BY <1>1, <1>10, <1>13, <1>14, FlattenOnce DEF n
<1> QED BY <1>6, <1>15 DEF lines, header

\* sockstat.rs: one row for each protocol, and one pair in it for each key.
LEMMA SockstatOnce ==
  ASSUME NEW T, NEW frames \in Seq(T), NamedOnce("sockstat", "sockstat", frames)
  PROVE  OncePerSeries(Each(frames, SockstatSamples))
<1> DEFINE n == Len(frames)
           seqs == [i \in 1..n |-> SockstatSamples(frames[i])]
           Label(x, y) == <<"nft_sockstat", [protocol |-> x, key |-> y]>>
<1>1. n \in Nat /\ DOMAIN frames = 1..n
  OBVIOUS
<1>2. Each(frames, SockstatSamples) = FlattenSeq(seqs)
  BY <1>1 DEF Each, MapSeq
<1>3. /\ \A i, j \in 1..n :
            frames[i].tagged /\ frames[j].tagged /\ frames[i].proto = frames[j].proto => i = j
      /\ \A i \in 1..n : frames[i].tagged =>
            Unique(frames[i].pairs, LAMBDA p : "value" \in DOMAIN p, LAMBDA p : p.key)
  BY <1>1 DEF NamedOnce, Unique
<1>4. \A x, y, v, w : Label(x, y) = Label(v, w) => x = v /\ y = w
  <2> SUFFICES ASSUME NEW x, NEW y, NEW v, NEW w, Label(x, y) = Label(v, w) PROVE x = v /\ y = w
    OBVIOUS
  <2>1. /\ Label(x, y)[2].protocol = x /\ Label(x, y)[2].key = y
        /\ Label(v, w)[2].protocol = v /\ Label(v, w)[2].key = w
    OBVIOUS
  <2> QED BY <2>1
<1>5. ASSUME NEW l, ~l.tagged PROVE SockstatSamples(l) = <<>>
  BY <1>5 DEF SockstatSamples
<1>6. ASSUME NEW l, l.tagged,
             Unique(l.pairs, LAMBDA p : "value" \in DOMAIN p, LAMBDA p : p.key)
      PROVE  /\ OncePerSeries(SockstatSamples(l))
             /\ \A k \in 1..Len(SockstatSamples(l)) :
                   \E y : Series(SockstatSamples(l)[k]) = Label(l.proto, y)
  <2> DEFINE S == ToSet(l.pairs)
             given == {p \in S : "value" \in DOMAIN p}
             W == Sifted(l.pairs, given)
             s == [k \in DOMAIN W |-> Gauge("nft_sockstat", [protocol |-> l.proto, key |-> W[k].key],
                                            W[k].value)]
             R == {s[k] : k \in DOMAIN W}
  <2>1. /\ l.pairs \in Seq(S)
        /\ \A i, j \in DOMAIN l.pairs :
              "value" \in DOMAIN l.pairs[i] /\ "value" \in DOMAIN l.pairs[j]
              /\ l.pairs[i].key = l.pairs[j].key => i = j
    BY <1>6 DEF Unique, Sequential
  <2> HIDE DEF S
  <2>2. DOMAIN l.pairs = 1..Len(l.pairs) /\ Len(l.pairs) \in Nat
    BY <2>1
  <2>3. SockstatSamples(l) = s
    <3>1. \A k \in DOMAIN l.pairs : l.pairs[k] \in S
      BY <2>1
    <3>2. W = FlattenSeq([k \in DOMAIN l.pairs |->
                             IF "value" \in DOMAIN l.pairs[k] THEN <<l.pairs[k]>> ELSE <<>>])
      BY <3>1 DEF Sifted
    <3> HIDE DEF W
    <3> QED BY <1>6, <3>2 DEF SockstatSamples, MapSeq, Where
  <2>4. W \in Seq(S) /\ Filters(W, l.pairs, given)
    BY <2>1, SiftedFilters
  <2> HIDE DEF W
  <2>5. Len(W) \in Nat /\ DOMAIN W = 1..Len(W)
    BY <2>4
  <2>6. \A k, m \in 1..Len(W) : k < m => W[k].key # W[m].key
    <3> SUFFICES ASSUME NEW k \in 1..Len(W), NEW m \in 1..Len(W), k < m PROVE W[k].key # W[m].key
      OBVIOUS
    <3>1. /\ \E i \in 1..Len(l.pairs) : l.pairs[i] \in given /\ W[k] = l.pairs[i]
          /\ \E j \in 1..Len(l.pairs) : l.pairs[j] \in given /\ W[m] = l.pairs[j]
      BY <2>4 DEF Filters
    <3>2. \E i, j \in 1..Len(l.pairs) : i < j /\ W[k] = l.pairs[i] /\ W[m] = l.pairs[j]
      BY <2>4 DEF Filters
    <3>3. PICK i \in 1..Len(l.pairs) : \E j \in 1..Len(l.pairs) :
             i < j /\ W[k] = l.pairs[i] /\ W[m] = l.pairs[j]
      BY <3>2
    <3>4. PICK j \in 1..Len(l.pairs) : i < j /\ W[k] = l.pairs[i] /\ W[m] = l.pairs[j]
      BY <3>3
    <3>5. "value" \in DOMAIN l.pairs[i] /\ "value" \in DOMAIN l.pairs[j] /\ i # j
      BY <2>2, <3>1, <3>4
    <3> QED BY <2>1, <2>2, <3>4, <3>5
  <2>7. s \in [1..Len(W) -> R]
    BY <2>5
  <2>8. \A k \in 1..Len(W) : Series(s[k]) = Label(l.proto, W[k].key)
    BY <2>5 DEF Series, Gauge
  <2> HIDE DEF s, R, Label
  <2>9. s \in Seq(R) /\ Len(s) = Len(W)
    BY <2>5, <2>7, FunctionIsSeq
  <2>10. ASSUME NEW k \in 1..Len(s), NEW m \in 1..Len(s), Series(s[k]) = Series(s[m]) PROVE k = m
    <3>1. W[k].key = W[m].key
      BY <1>4, <2>8, <2>9, <2>10
    <3>2. ~(k < m) /\ ~(m < k)
      BY <2>6, <2>9, <3>1
    <3> QED BY <2>5, <2>9, <3>2
  <2>11. OncePerSeries(s)
    BY <2>9, <2>10, Zenon DEF OncePerSeries
  <2> QED BY <2>3, <2>8, <2>9, <2>11
<1>7. \A i \in 1..n : seqs[i] = SockstatSamples(frames[i])
  OBVIOUS
<1>8. seqs = [i \in 1..n |-> seqs[i]]
  OBVIOUS
<1> HIDE DEF seqs, n, Label
<1>9. ASSUME NEW i \in 1..n PROVE OncePerSeries(seqs[i])
  BY <1>3, <1>5, <1>6, <1>7, NoneOnce
<1>10. ASSUME NEW i \in 1..n, NEW j \in 1..n, i # j PROVE Apart(seqs[i], seqs[j])
  <2>1. CASE ~frames[i].tagged \/ ~frames[j].tagged
    <3>1. seqs[i] = <<>> \/ seqs[j] = <<>>
      BY <1>5, <1>7, <2>1
    <3> QED BY <3>1 DEF Apart
  <2>2. CASE frames[i].tagged /\ frames[j].tagged
    <3>1. frames[i].proto # frames[j].proto
      BY <1>3, <1>10, <2>2
    <3>2. /\ \A k \in 1..Len(seqs[i]) : \E y : Series(seqs[i][k]) = Label(frames[i].proto, y)
          /\ \A k \in 1..Len(seqs[j]) : \E y : Series(seqs[j][k]) = Label(frames[j].proto, y)
      BY <1>3, <1>6, <1>7, <2>2
    <3> QED BY <1>4, <3>1, <3>2 DEF Apart
  <2> QED BY <2>1, <2>2
<1>11. OncePerSeries(FlattenSeq(seqs))
  BY <1>1, <1>8, <1>9, <1>10, FlattenOnce DEF n
<1> QED BY <1>2, <1>11

-----------------------------------------------------------------------------
(* ethtool.rs.                                                             *)

\* The statistics of a group are told apart by their index.
IndexedOnce(s, group) ==
    /\ \E T : s \in Seq(T)
    /\ \A i \in 1..Len(s) : s[i].group = group
    /\ \A i, j \in 1..Len(s) : s[i].index = s[j].index => i = j

\* The statistics of the kernel.
IndexesOnce(stats) ==
    /\ Sequential(stats)
    /\ \A i, j \in DOMAIN stats : stats[i].index = stats[j].index => i = j

\* Those of a group whose id the table has.
LEMMA EthtoolGroupOnce ==
  ASSUME NEW g, "id" \in DOMAIN g, g.id + 1 \in DOMAIN EthtoolGroups,
         IndexesOnce(g.stats)
  PROVE  IndexedOnce(EthtoolGroupStats(g), EthtoolGroups[g.id + 1])
<1> DEFINE group == EthtoolGroups[g.id + 1]
           S == ToSet(g.stats)
           given == {x \in S : x.value # StatUnset /\ x.index < EthtoolGroupSize[group]}
           W == Sifted(g.stats, given)
           s == [k \in DOMAIN W |-> [group |-> group, index |-> W[k].index, value |-> W[k].value]]
           R == {s[k] : k \in DOMAIN W}
<1>1. /\ g.stats \in Seq(S)
      /\ \A i, j \in DOMAIN g.stats : g.stats[i].index = g.stats[j].index => i = j
  BY DEF IndexesOnce, Sequential
<1> HIDE DEF S
<1>2. DOMAIN g.stats = 1..Len(g.stats) /\ Len(g.stats) \in Nat
  BY <1>1
<1>3. EthtoolGroupStats(g) = s
  <2>1. \A k \in DOMAIN g.stats : g.stats[k] \in S
    BY <1>1
  <2>2. W = FlattenSeq([k \in DOMAIN g.stats |->
               IF g.stats[k].value # StatUnset /\ g.stats[k].index < EthtoolGroupSize[group]
               THEN <<g.stats[k]>> ELSE <<>>])
    BY <2>1 DEF Sifted
  <2> HIDE DEF W, group
  <2>3. Attr(g, "id", 0) = g.id
    BY DEF Attr
  <2> QED BY <2>2, <2>3 DEF EthtoolGroupStats, MapSeq, Where, group
<1>4. W \in Seq(S) /\ Filters(W, g.stats, given)
  BY <1>1, SiftedFilters
<1> HIDE DEF W
<1>5. Len(W) \in Nat /\ DOMAIN W = 1..Len(W)
  BY <1>4
<1>6. \A k, m \in 1..Len(W) : k < m => W[k].index # W[m].index
  <2> SUFFICES ASSUME NEW k \in 1..Len(W), NEW m \in 1..Len(W), k < m PROVE W[k].index # W[m].index
    OBVIOUS
  <2>1. \E i, j \in 1..Len(g.stats) : i < j /\ W[k] = g.stats[i] /\ W[m] = g.stats[j]
    BY <1>4 DEF Filters
  <2>2. PICK i \in 1..Len(g.stats) : \E j \in 1..Len(g.stats) :
           i < j /\ W[k] = g.stats[i] /\ W[m] = g.stats[j]
    BY <2>1
  <2>3. PICK j \in 1..Len(g.stats) : i < j /\ W[k] = g.stats[i] /\ W[m] = g.stats[j]
    BY <2>2
  <2>4. i # j
    BY <1>2, <2>3
  <2> QED BY <1>1, <1>2, <2>3, <2>4
<1>7. s \in [1..Len(W) -> R]
  BY <1>5
<1>8. \A k \in 1..Len(W) : s[k].group = group /\ s[k].index = W[k].index
  BY <1>5
<1> HIDE DEF s, R, group
<1>9. s \in Seq(R) /\ Len(s) = Len(W)
  BY <1>5, <1>7, FunctionIsSeq
<1>10. ASSUME NEW k \in 1..Len(s), NEW m \in 1..Len(s), s[k].index = s[m].index PROVE k = m
  <2>1. ~(k < m) /\ ~(m < k)
    BY <1>6, <1>8, <1>9, <1>10
  <2> QED BY <1>5, <1>9, <2>1
<1>11. IndexedOnce(s, group)
  BY <1>8, <1>9, <1>10 DEF IndexedOnce
<1> QED BY <1>3, <1>11 DEF group

\* What labels a statistic.
EthtoolSeries(interface, group, stat) ==
    <<"nft_ethtool_stat", [interface |-> interface, group |-> group, stat |-> stat]>>

\* The labels tell them apart.
LEMMA EthtoolSeriesApart ==
  ASSUME NEW a, NEW b, NEW c, NEW x, NEW y, NEW z, EthtoolSeries(a, b, c) = EthtoolSeries(x, y, z)
  PROVE  a = x /\ b = y /\ c = z
<1>1. /\ EthtoolSeries(a, b, c)[2].interface = a /\ EthtoolSeries(a, b, c)[2].group = b
      /\ EthtoolSeries(a, b, c)[2].stat = c
      /\ EthtoolSeries(x, y, z)[2].interface = x /\ EthtoolSeries(x, y, z)[2].group = y
      /\ EthtoolSeries(x, y, z)[2].stat = z
  BY DEF EthtoolSeries
<1> QED BY <1>1

\* The groups that are exported have a name each.
LEMMA EthtoolGroupsApart ==
  ASSUME NEW x \in DOMAIN EthtoolGroups, NEW y \in DOMAIN EthtoolGroups,
         EthtoolGroups[x] = EthtoolGroups[y]
  PROVE  x = y
BY DEF EthtoolGroups

\* An interface with a name.
EthtoolKnown(f) == Attr(f, "interface", "") # ""

\* An interface whose groups, and their statistics, are there once.
EthtoolFrameNamed(f) ==
    /\ Sequential(f.groups)
    /\ \A i, j \in DOMAIN f.groups :
          "id" \in DOMAIN f.groups[i] /\ "id" \in DOMAIN f.groups[j]
          /\ f.groups[i].id = f.groups[j].id => i = j
    /\ \A k \in DOMAIN f.groups : "id" \in DOMAIN f.groups[k] =>
          f.groups[k].id \in Nat /\ IndexesOnce(f.groups[k].stats)

\* All the statistics of such an interface.
LEMMA EthtoolFrameOnce ==
  ASSUME NEW f, EthtoolKnown(f), EthtoolFrameNamed(f)
  PROVE  /\ OncePerSeries(EthtoolFrameSamples(f))
         /\ \A k \in 1..Len(EthtoolFrameSamples(f)) : \E y, z :
               Series(EthtoolFrameSamples(f)[k]) = EthtoolSeries(f.interface, y, z)
<1> DEFINE groups == f.groups
           n == Len(groups)
           inner == [k \in 1..n |-> EthtoolGroupStats(groups[k])]
           known == {k \in 1..n : "id" \in DOMAIN groups[k] /\ groups[k].id + 1 \in DOMAIN EthtoolGroups}
           label(k) == EthtoolGroups[groups[k].id + 1]
<1>1. /\ n \in Nat /\ DOMAIN groups = 1..n
      /\ \A i, j \in 1..n : "id" \in DOMAIN groups[i] /\ "id" \in DOMAIN groups[j]
                            /\ groups[i].id = groups[j].id => i = j
  <2>1. groups \in Seq(ToSet(groups))
    BY DEF EthtoolFrameNamed, Sequential
  <2>2. n \in Nat /\ DOMAIN groups = 1..n
    BY <2>1, SequenceBasics, Zenon
  <2> QED BY <2>2 DEF EthtoolFrameNamed
<1>2. \A k \in 1..n : "id" \in DOMAIN groups[k] =>
         groups[k].id \in Nat /\ IndexesOnce(groups[k].stats)
  BY <1>1 DEF EthtoolFrameNamed
<1>3. Each(groups, EthtoolGroupStats) = FlattenSeq(inner)
  BY <1>1 DEF Each, MapSeq
<1> HIDE DEF groups
<1>4. ASSUME NEW k \in known PROVE IndexedOnce(inner[k], label(k))
  <2>1. inner[k] = EthtoolGroupStats(groups[k])
    OBVIOUS
  <2>2. /\ "id" \in DOMAIN groups[k] /\ groups[k].id + 1 \in DOMAIN EthtoolGroups
        /\ IndexesOnce(groups[k].stats)
    BY <1>2
  <2> HIDE DEF inner
  <2> QED BY <2>1, <2>2, EthtoolGroupOnce
<1>5. ASSUME NEW k \in 1..n, k \notin known PROVE inner[k] = <<>>
  BY <1>5 DEF EthtoolGroupStats, Attr
<1>6. \A k, l \in known : label(k) = label(l) => k = l
  <2> SUFFICES ASSUME NEW k \in known, NEW l \in known, label(k) = label(l) PROVE k = l
    OBVIOUS
  <2>1. groups[k].id + 1 \in DOMAIN EthtoolGroups /\ groups[l].id + 1 \in DOMAIN EthtoolGroups
        /\ EthtoolGroups[groups[k].id + 1] = EthtoolGroups[groups[l].id + 1]
    OBVIOUS
  <2> DEFINE a == groups[k].id
             b == groups[l].id
  <2>2. a + 1 = b + 1
    BY <2>1, EthtoolGroupsApart
  <2>3. a \in Nat /\ b \in Nat
    BY <1>2
  <2>4. "id" \in DOMAIN groups[k] /\ "id" \in DOMAIN groups[l] /\ (a = b => k = l)
    BY <1>1
  <2> HIDE DEF a, b, known, label, inner, n
  <2>5. a = b
    BY <2>2, <2>3
  <2> QED BY <2>4, <2>5
<1>7. \A k \in 1..n : \E T : inner[k] \in Seq(T)
  <2> HIDE DEF inner, known
  <2> SUFFICES ASSUME NEW k \in 1..n PROVE \E T : inner[k] \in Seq(T)
    OBVIOUS
  <2>1. CASE k \in known
    BY <1>4, <2>1 DEF IndexedOnce
  <2>2. CASE k \notin known
    BY <1>5, <2>2, EmptySequence
  <2> QED BY <2>1, <2>2
<1>8. PICK T : \A k \in 1..n : inner[k] \in Seq(T)
  <2> HIDE DEF inner
  <2> QED BY <1>1, <1>7, CommonElements
<1>9. inner \in [1..n -> Seq(T)]
  BY <1>8
<1> DEFINE all == Each(groups, EthtoolGroupStats)
           s == [k \in DOMAIN all |-> Gauge("nft_ethtool_stat",
                    [interface |-> f.interface, group |-> all[k].group, stat |-> all[k].index],
                    all[k].value)]
           R == {s[k] : k \in DOMAIN all}
<1>10. EthtoolFrameSamples(f) = s
  BY DEF EthtoolFrameSamples, EthtoolKnown, MapSeq, groups
<1> HIDE DEF inner, known, label
<1>11. all \in Seq(T) /\ ComesFrom(all, inner, n)
  <2>1. FlattenSeq(inner) \in Seq(T) /\ ComesFrom(FlattenSeq(inner), inner, n)
    BY <1>1, <1>9, FlattenFrom
  <2> QED BY <1>3, <2>1
<1> HIDE DEF all
<1>12. Len(all) \in Nat /\ DOMAIN all = 1..Len(all)
  <2>1. all \in Seq(T)
    BY <1>11
  <2> HIDE DEF s, R
  <2> QED BY <2>1, SequenceBasics, Zenon
<1>13. \A k, m \in 1..Len(all) : all[k].group = all[m].group /\ all[k].index = all[m].index => k = m
  <2>1. PICK start \in [1..n -> Nat] :
           \A k \in 1..Len(all) : \E i \in 1..n : \E j \in 1..Len(inner[i]) :
              k = start[i] + j /\ all[k] = inner[i][j]
    BY <1>11 DEF ComesFrom
  <2> SUFFICES ASSUME NEW k \in 1..Len(all), NEW m \in 1..Len(all),
                      all[k].group = all[m].group, all[k].index = all[m].index
               PROVE  k = m
    OBVIOUS
  <2>2. PICK i \in 1..n : \E j \in 1..Len(inner[i]) : k = start[i] + j /\ all[k] = inner[i][j]
    BY <2>1
  <2>3. PICK j \in 1..Len(inner[i]) : k = start[i] + j /\ all[k] = inner[i][j]
    BY <2>2
  <2>4. PICK p \in 1..n : \E q \in 1..Len(inner[p]) : m = start[p] + q /\ all[m] = inner[p][q]
    BY <2>1
  <2>5. PICK q \in 1..Len(inner[p]) : m = start[p] + q /\ all[m] = inner[p][q]
    BY <2>4
  <2>6. i \in known /\ p \in known
    <3>1. inner[i] # <<>> /\ inner[p] # <<>>
      BY HasElement, Zenon
    <3> QED BY <1>5, <3>1
  <2>7. all[k].group = label(i) /\ all[m].group = label(p)
    BY <1>4, <2>3, <2>5, <2>6 DEF IndexedOnce
  <2>8. i = p
    BY <1>6, <2>6, <2>7
  <2>9. j = q
    BY <1>4, <2>3, <2>5, <2>6, <2>8 DEF IndexedOnce
  <2> QED BY <2>3, <2>5, <2>8, <2>9
<1>14. \A k \in 1..Len(all) : Series(s[k]) = EthtoolSeries(f.interface, all[k].group, all[k].index)
  BY <1>12 DEF Series, Gauge, EthtoolSeries
<1>15. s \in [1..Len(all) -> R]
  BY <1>12
<1> HIDE DEF s, R
<1>16. s \in Seq(R) /\ Len(s) = Len(all)
  BY <1>12, <1>15, FunctionIsSeq
<1>17. ASSUME NEW k \in 1..Len(s), NEW m \in 1..Len(s), Series(s[k]) = Series(s[m]) PROVE k = m
  <2>1. EthtoolSeries(f.interface, all[k].group, all[k].index)
        = EthtoolSeries(f.interface, all[m].group, all[m].index)
    BY <1>14, <1>16, <1>17
  <2>2. all[k].group = all[m].group /\ all[k].index = all[m].index
    <3> DEFINE group == all[k].group
               index == all[k].index
               other == all[m].group
               stat == all[m].index
    <3>1. EthtoolSeries(f.interface, group, index) = EthtoolSeries(f.interface, other, stat)
      BY <2>1
    <3> HIDE DEF group, index, other, stat
    <3>2. group = other /\ index = stat
      BY <3>1, EthtoolSeriesApart
    <3> QED BY <3>2 DEF group, index, other, stat
  <2> QED BY <1>13, <1>16, <2>2
<1>18. OncePerSeries(s)
  BY <1>16, <1>17, Zenon DEF OncePerSeries
<1> QED BY <1>10, <1>14, <1>16, <1>18

\* One frame for each interface.
LEMMA EthtoolOnce ==
  ASSUME NEW T, NEW frames \in Seq(T), NamedOnce("ethtool", "stats", frames)
  PROVE  OncePerSeries(Each(frames, EthtoolFrameSamples))
<1> DEFINE n == Len(frames)
           seqs == [i \in 1..n |-> EthtoolFrameSamples(frames[i])]
<1>1. n \in Nat /\ DOMAIN frames = 1..n
  OBVIOUS
<1>2. Each(frames, EthtoolFrameSamples) = FlattenSeq(seqs)
  BY <1>1 DEF Each, MapSeq
<1>3. /\ \A i, j \in 1..n : EthtoolKnown(frames[i]) /\ EthtoolKnown(frames[j])
                            /\ frames[i].interface = frames[j].interface => i = j
      /\ \A i \in 1..n : EthtoolKnown(frames[i]) => EthtoolFrameNamed(frames[i])
  BY <1>1 DEF NamedOnce, Unique, EthtoolFrameNamed, EthtoolKnown, IndexesOnce
<1>4. \A f : ~EthtoolKnown(f) => EthtoolFrameSamples(f) = <<>>
  BY DEF EthtoolFrameSamples, EthtoolKnown
<1>5. \A i \in 1..n : seqs[i] = EthtoolFrameSamples(frames[i])
  OBVIOUS
<1>6. seqs = [i \in 1..n |-> seqs[i]]
  OBVIOUS
<1>7. \A f : EthtoolKnown(f) /\ EthtoolFrameNamed(f) =>
         /\ OncePerSeries(EthtoolFrameSamples(f))
         /\ \A k \in 1..Len(EthtoolFrameSamples(f)) : \E y, z :
               Series(EthtoolFrameSamples(f)[k]) = EthtoolSeries(f.interface, y, z)
  BY EthtoolFrameOnce
<1> HIDE DEF seqs, n
<1>8. ASSUME NEW i \in 1..n PROVE OncePerSeries(seqs[i])
  BY <1>3, <1>4, <1>5, <1>7, NoneOnce
<1>9. ASSUME NEW i \in 1..n, NEW j \in 1..n, i # j PROVE Apart(seqs[i], seqs[j])
  <2>1. CASE ~EthtoolKnown(frames[i]) \/ ~EthtoolKnown(frames[j])
    <3>1. seqs[i] = <<>> \/ seqs[j] = <<>>
      BY <1>4, <1>5, <2>1
    <3> QED BY <3>1 DEF Apart
  <2>2. CASE EthtoolKnown(frames[i]) /\ EthtoolKnown(frames[j])
    <3>1. frames[i].interface # frames[j].interface
      BY <1>3, <1>9, <2>2
    <3>2. /\ \A k \in 1..Len(seqs[i]) : \E y, z :
                Series(seqs[i][k]) = EthtoolSeries(frames[i].interface, y, z)
          /\ \A k \in 1..Len(seqs[j]) : \E y, z :
                Series(seqs[j][k]) = EthtoolSeries(frames[j].interface, y, z)
      BY <1>3, <1>5, <1>7, <2>2
    <3>3. \A a, b, c, x, y, z : EthtoolSeries(a, b, c) = EthtoolSeries(x, y, z) => a = x
      BY EthtoolSeriesApart
    <3> QED BY <3>1, <3>2, <3>3 DEF Apart
  <2> QED BY <2>1, <2>2
<1>10. OncePerSeries(FlattenSeq(seqs))
  BY <1>1, <1>6, <1>8, <1>9, FlattenOnce DEF n
<1> QED BY <1>2, <1>10

-----------------------------------------------------------------------------
(* Collectors that sum over what falls into one bucket.                    *)

\* The members of K, each once.
Lists(listed, K, n) ==
    /\ n \in Nat /\ DOMAIN listed = 1..n
    /\ \A i \in 1..n : listed[i] \in K
    /\ \A i, j \in 1..n : listed[i] = listed[j] => i = j
    /\ \A k \in K : \E i \in 1..n : listed[i] = k

\* So are the keys of items listed.
LEMMA KeysListed ==
  ASSUME NEW S, NEW keys \in Seq(S), NEW K, K = {keys[i] : i \in DOMAIN keys}
  PROVE  Lists(SetToSeq(K), K, Cardinality(K))
<1>1. IsFiniteSet(K)
  BY KeysFinite
<1>2. /\ SetToSeq(K) \in [1..Cardinality(K) -> K] /\ Cardinality(K) \in Nat
      /\ \A i, j \in 1..Cardinality(K) : SetToSeq(K)[i] = SetToSeq(K)[j] => i = j
      /\ \A k \in K : \E i \in 1..Cardinality(K) : SetToSeq(K)[i] = k
  BY <1>1, SetListed
<1>3. DOMAIN SetToSeq(K) = 1..Cardinality(K) /\ \A i \in 1..Cardinality(K) : SetToSeq(K)[i] \in K
  BY <1>2
<1> QED BY <1>2, <1>3 DEF Lists

\* tc.rs: five metrics of a device and a kind.
LEMMA TcBlock ==
  ASSUME NEW labels, NEW qdiscs
  PROVE  Block(TcSamples(labels, qdiscs), labels)
<1> DEFINE s == TcSamples(labels, qdiscs)
           S == {s[i] : i \in 1..5}
<1>1. s = [i \in 1..5 |-> s[i]]
  BY DEF TcSamples
<1>2. \A i \in 1..5 : s[i].labels = labels
  BY DEF TcSamples, Counter, Gauge
<1>3. /\ s[1].name = "nft_tc_qdisc_bytes_total" /\ s[2].name = "nft_tc_qdisc_packets_total"
      /\ s[3].name = "nft_tc_qdisc_drops_total" /\ s[4].name = "nft_tc_qdisc_overlimits_total"
      /\ s[5].name = "nft_tc_qdisc_backlog_bytes"
  BY DEF TcSamples, Counter, Gauge
<1> HIDE DEF s
<1>4. s \in [1..5 -> S]
  BY <1>1
<1> HIDE DEF S
<1>5. s \in Seq(S) /\ Len(s) = 5
  BY <1>4, FunctionIsSeq
<1>6. \A i : i \in 1..5 <=> i = 1 \/ i = 2 \/ i = 3 \/ i = 4 \/ i = 5
  OBVIOUS
<1>7. \A i, j \in 1..5 : s[i].name = s[j].name => i = j
  BY <1>3, <1>6
<1>8. Block(s, labels)
  BY <1>2, <1>5, <1>7 DEF Block
<1> QED BY <1>8 DEF s

\* One bucket for each of them.
LEMMA TcOnce ==
  ASSUME NEW S, NEW got0, TcQdiscs(got0) \in Seq(S)
  PROVE  OncePerSeries(TcEmit(got0))
<1> DEFINE items == TcQdiscs(got0)
           Key(q) == [device |-> q.device, kind |-> q.kind]
           keys == [i \in DOMAIN items |-> Key(items[i])]
           K == {keys[i] : i \in DOMAIN keys}
           listed == SetToSeq(K)
           n == Cardinality(K)
           Same(k) == FlattenSeq([i \in DOMAIN items |-> IF Key(items[i]) = k THEN <<items[i]>> ELSE <<>>])
           seqs == [i \in 1..n |-> TcSamples(listed[i], Same(listed[i]))]
<1>1. K = {Key(items[i]) : i \in DOMAIN items}
  OBVIOUS
<1>2. TcEmit(got0) = FlattenSeq([i \in DOMAIN listed |-> TcSamples(listed[i], Same(listed[i]))])
  <2>1. TcEmit(got0) = Grouped(items, Key, TcSamples)
    BY DEF TcEmit
  <2> HIDE DEF items
  <2>2. Grouped(items, Key, TcSamples)
        = Each(listed, LAMBDA k : TcSamples(k, Where(items, LAMBDA x : Key(x) = k)))
    BY <1>1 DEF Grouped
  <2> HIDE DEF listed
  <2> QED BY <2>1, <2>2, Zenon DEF Each, MapSeq, Where
<1> HIDE DEF items
<1>3. Len(items) \in Nat /\ DOMAIN items = 1..Len(items)
  BY DEF items
<1>4. keys \in Seq(K)
  <2>1. keys \in [1..Len(items) -> K]
    BY <1>3
  <2> HIDE DEF keys, K
  <2> QED BY <1>3, <2>1, FunctionIsSeq
<1> HIDE DEF keys
<1>5. /\ n \in Nat /\ DOMAIN listed = 1..n
      /\ \A i, j \in 1..n : listed[i] = listed[j] => i = j
  <2>1. K = {keys[i] : i \in DOMAIN keys}
    OBVIOUS
  <2> HIDE DEF K
  <2>2. Lists(listed, K, n)
    BY <1>4, <2>1, KeysListed
  <2> HIDE DEF listed, n
  <2> QED BY <2>2 DEF Lists
<1>6. TcEmit(got0) = FlattenSeq(seqs)
  BY <1>2, <1>5
<1>7. \A i \in 1..n : Block(seqs[i], listed[i])
  BY TcBlock
<1>8. seqs = [i \in 1..n |-> seqs[i]]
  OBVIOUS
<1> HIDE DEF seqs, listed, n, K, Same, Key
<1>9. Blocks(seqs, listed, n)
  BY <1>5, <1>7, <1>8 DEF Blocks
<1>10. OncePerSeries(FlattenSeq(seqs))
  BY <1>5, <1>9, FlattenBlocks
<1> QED BY <1>6, <1>10

\* The qdiscs that count are a sequence.
LEMMA TcQdiscsSequence ==
  ASSUME NEW g, NEW T, Frames(g, "qdiscs") \in Seq(T)
  PROVE  \E S : TcQdiscs(g) \in Seq(S)
<1> DEFINE frames == Frames(g, "qdiscs")
           W == Sifted(frames, {f \in T : "basic" \in DOMAIN f})
           Qdisc(f) == [device |-> TcDevice(g, f.ifindex), kind |-> Attr(f, "kind", "unknown"),
                        bytes |-> f.basic.bytes, packets |-> f.basic.packets,
                        queue |-> Attr(f, "queue", [drops |-> 0, overlimits |-> 0, backlog |-> 0])]
           s == [i \in DOMAIN W |-> Qdisc(W[i])]
           S == {s[i] : i \in DOMAIN W}
<1>1. TcQdiscs(g) = s
  <2>1. \A i \in DOMAIN frames : frames[i] \in T
    OBVIOUS
  <2>2. W = FlattenSeq([i \in DOMAIN frames |-> IF "basic" \in DOMAIN frames[i] THEN <<frames[i]>> ELSE <<>>])
    BY <2>1 DEF Sifted
  <2> HIDE DEF W
  <2> QED BY <2>2 DEF TcQdiscs, MapSeq, Where
<1>2. W \in Seq(T)
  BY SiftedFilters
<1> HIDE DEF W
<1>3. Len(W) \in Nat /\ DOMAIN W = 1..Len(W)
  BY <1>2
<1> HIDE DEF Qdisc
<1>4. s \in [1..Len(W) -> S]
  BY <1>3
<1> HIDE DEF s, S
<1>5. s \in Seq(S)
  BY <1>3, <1>4, FunctionIsSeq
<1> QED BY <1>1, <1>5

\* sockdiag.rs: the states that a socket is in.
SockKnown == SockStates \cup {"other"}

\* The label is the state.
LEMMA SockLabel ==
  ASSUME NEW x \in SockKnown, NEW y \in SockKnown, Known(SockStates, x) = Known(SockStates, y)
  PROVE  x = y
<1>1. "other" \notin SockStates
  BY DEF SockStates
<1> QED BY <1>1 DEF SockKnown, Known

\* Three metrics of a protocol and a state.
LEMMA SockBlock ==
  ASSUME NEW key, NEW sockets
  PROVE  /\ Block(SockBucketSamples(key, sockets),
                  [protocol |-> key.protocol, state |-> Known(SockStates, key.state)])
         /\ NamedIn(SockBucketSamples(key, sockets),
                    {"nft_socket_count", "nft_socket_receive_queue_bytes", "nft_socket_send_queue_bytes"})
<1> DEFINE labels == [protocol |-> key.protocol, state |-> Known(SockStates, key.state)]
           s == SockBucketSamples(key, sockets)
           S == {s[i] : i \in 1..3}
           names == {"nft_socket_count", "nft_socket_receive_queue_bytes",
                     "nft_socket_send_queue_bytes"}
<1>1. s = [i \in 1..3 |-> s[i]]
  BY DEF SockBucketSamples
<1>2. \A i \in 1..3 : s[i].labels = labels
  BY DEF SockBucketSamples, Gauge
<1>3. /\ s[1].name = "nft_socket_count" /\ s[2].name = "nft_socket_receive_queue_bytes"
      /\ s[3].name = "nft_socket_send_queue_bytes"
  BY DEF SockBucketSamples, Gauge
<1> HIDE DEF s, labels
<1>4. s \in [1..3 -> S]
  BY <1>1
<1> HIDE DEF S
<1>5. s \in Seq(S) /\ Len(s) = 3
  BY <1>4, FunctionIsSeq
<1>6. \A i : i \in 1..3 <=> i = 1 \/ i = 2 \/ i = 3
  OBVIOUS
<1>7. \A i, j \in 1..3 : s[i].name = s[j].name => i = j
  BY <1>3, <1>6
<1>8. \A i \in 1..3 : s[i].name \in names
  BY <1>3, <1>6
<1> HIDE DEF names
<1>9. Block(s, labels)
  BY <1>2, <1>5, <1>7 DEF Block
<1>10. NamedIn(s, names)
  BY <1>5, <1>8 DEF NamedIn
<1> QED BY <1>9, <1>10 DEF s, labels, names

\* The sockets of one dump.
SockOf(d, frames) ==
    MapSeq(Where(frames, LAMBDA f : f # <<>>),
           LAMBDA f : [protocol |-> d.protocol, state |-> SockState(d.protocol, f.state),
                       rqueue |-> f.rqueue, wqueue |-> f.wqueue, attrs |-> f])

\* They are in states that have a label of their own.
LEMMA SockOfStates ==
  ASSUME NEW d, NEW T, NEW frames \in Seq(T),
         \A i \in DOMAIN frames : frames[i] # <<>> => frames[i].state \in SockKnown
  PROVE  /\ Len(SockOf(d, frames)) \in Nat /\ DOMAIN SockOf(d, frames) = 1..Len(SockOf(d, frames))
         /\ \E S : SockOf(d, frames) \in Seq(S)
         /\ \A i \in 1..Len(SockOf(d, frames)) : SockOf(d, frames)[i].state \in SockKnown
<1> DEFINE given == {f \in T : f # <<>>}
           W == Sifted(frames, given)
           s == [i \in DOMAIN W |->
                    [protocol |-> d.protocol, state |-> SockState(d.protocol, W[i].state),
                     rqueue |-> W[i].rqueue, wqueue |-> W[i].wqueue, attrs |-> W[i]]]
           S == {s[i] : i \in DOMAIN W}
<1>1. SockOf(d, frames) = s
  <2>1. \A i \in DOMAIN frames : frames[i] \in T
    OBVIOUS
  <2>2. W = FlattenSeq([i \in DOMAIN frames |-> IF frames[i] # <<>> THEN <<frames[i]>> ELSE <<>>])
    BY <2>1 DEF Sifted
  <2> HIDE DEF W
  <2> QED BY <2>2 DEF SockOf, MapSeq, Where
<1>2. W \in Seq(T) /\ Filters(W, frames, given)
  BY SiftedFilters
<1> HIDE DEF W
<1>3. Len(W) \in Nat /\ DOMAIN W = 1..Len(W)
  BY <1>2
<1>4. \A i \in 1..Len(W) : W[i].state \in SockKnown
  BY <1>2 DEF Filters
<1>5. \A x \in SockKnown : SockState(d.protocol, x) \in SockKnown
  BY DEF SockState, SockKnown, SockStates
<1>6. \A i \in 1..Len(W) : s[i].state \in SockKnown
  BY <1>3, <1>4, <1>5
<1>7. s \in [1..Len(W) -> S]
  BY <1>3
<1> HIDE DEF s, S
<1>8. s \in Seq(S) /\ Len(s) = Len(W) /\ DOMAIN s = 1..Len(W)
  BY <1>3, <1>7, FunctionIsSeq
<1> QED BY <1>1, <1>3, <1>6, <1>8

\* So are all of a collect().
LEMMA SocketsStates ==
  ASSUME NEW g, \A op : \E T : Frames(g, op) \in Seq(T),
         \A i \in 1..4 : NamedOnce("sock_diag", SockDumps[i].op, Frames(g, SockDumps[i].op))
  PROVE  \E S : SockSockets(g) \in Seq(S) /\ \A x \in S : x.state \in SockKnown
<1> DEFINE inner == [i \in 1..4 |-> SockOf(SockDumps[i], Frames(g, SockDumps[i].op))]
           S == UNION {ElementsOf(inner[i]) : i \in 1..4}
<1>1. SockSockets(g) = FlattenSeq(inner)
  <2>1. DOMAIN SockDumps = 1..4
    BY DEF SockDumps
  <2> QED BY <2>1 DEF SockSockets, Each, MapSeq, SockOf
<1>2. ASSUME NEW i \in 1..4
      PROVE  /\ \E T : inner[i] \in Seq(T)
             /\ \A j \in 1..Len(inner[i]) : inner[i][j].state \in SockKnown
  <2> DEFINE d == SockDumps[i]
             frames == Frames(g, d.op)
  <2>1. PICK T : frames \in Seq(T)
    OBVIOUS
  <2>2. \A j \in DOMAIN frames : frames[j] # <<>> => frames[j].state \in SockKnown
    BY DEF NamedOnce, SockKnown
  <2>3. inner[i] = SockOf(d, frames)
    OBVIOUS
  <2> HIDE DEF inner, d, frames
  <2> QED BY <2>1, <2>2, <2>3, SockOfStates
<1>3. inner = [i \in 1..4 |-> inner[i]]
  OBVIOUS
<1> HIDE DEF inner
<1>4. ASSUME NEW i \in 1..4 PROVE inner[i] \in Seq(S)
  <2>1. PICK T : inner[i] \in Seq(T)
    BY <1>2
  <2>2. inner[i] \in Seq(ElementsOf(inner[i]))
    BY <2>1, SeqOfElements
  <2>3. ElementsOf(inner[i]) \subseteq S
    OBVIOUS
  <2> HIDE DEF S
  <2> QED BY <2>2, <2>3
<1>5. \A x \in S : x.state \in SockKnown
  <2> SUFFICES ASSUME NEW i \in 1..4, NEW x \in ElementsOf(inner[i]) PROVE x.state \in SockKnown
    OBVIOUS
  <2>1. PICK j \in 1..Len(inner[i]) : x = inner[i][j]
    BY DEF ElementsOf
  <2> QED BY <1>2, <2>1
<1> HIDE DEF S
<1>6. inner \in [1..4 -> Seq(S)]
  BY <1>3, <1>4
<1>7. inner \in Seq(Seq(S))
  BY <1>6, FunctionIsSeq
<1>8. FlattenSeq(inner) \in Seq(S)
  BY <1>7, FlattenType
<1> QED BY <1>1, <1>5, <1>8

\* The parts of the body.
SockCounts(sockets) ==
    Grouped(sockets, LAMBDA s : [protocol |-> s.protocol, state |-> s.state], SockBucketSamples)
SockDrops(dropped) ==
    Grouped(dropped, LAMBDA s : s.protocol,
            LAMBDA p, same : <<Counter("nft_socket_drops_total", [protocol |-> p],
                                       TotalOf(same, LAMBDA s : s.attrs.drops))>>)
SockResent(sockets, dropped) ==
    IF SockRetransmits(sockets) > 0 \/ \E i \in DOMAIN dropped : dropped[i].protocol = "tcp"
    THEN <<Counter("nft_socket_retransmits_total", [protocol |-> "tcp"], SockRetransmits(sockets))>>
    ELSE <<>>

SockCountNames ==
    {"nft_socket_count", "nft_socket_receive_queue_bytes", "nft_socket_send_queue_bytes"}

\* One bucket for each protocol and state.
LEMMA SockCountsOnce ==
  ASSUME NEW S, NEW items \in Seq(S), \A x \in S : x.state \in SockKnown
  PROVE  OncePerSeries(SockCounts(items)) /\ NamedIn(SockCounts(items), SockCountNames)
<1> DEFINE Key(s) == [protocol |-> s.protocol, state |-> s.state]
           keys == [i \in DOMAIN items |-> Key(items[i])]
           K == {keys[i] : i \in DOMAIN keys}
           listed == SetToSeq(K)
           n == Cardinality(K)
           Same(k) == FlattenSeq([i \in DOMAIN items |-> IF Key(items[i]) = k THEN <<items[i]>> ELSE <<>>])
           Label(k) == [protocol |-> k.protocol, state |-> Known(SockStates, k.state)]
           seqs == [i \in 1..n |-> SockBucketSamples(listed[i], Same(listed[i]))]
           label == [i \in 1..n |-> Label(listed[i])]
<1>1. K = {Key(items[i]) : i \in DOMAIN items}
  OBVIOUS
<1>2. SockCounts(items)
      = FlattenSeq([i \in DOMAIN listed |-> SockBucketSamples(listed[i], Same(listed[i]))])
  <2>1. SockCounts(items) = Grouped(items, Key, SockBucketSamples)
    BY DEF SockCounts
  <2>2. Grouped(items, Key, SockBucketSamples)
        = Each(listed, LAMBDA k : SockBucketSamples(k, Where(items, LAMBDA x : Key(x) = k)))
    BY <1>1 DEF Grouped
  <2> HIDE DEF listed
  <2> QED BY <2>1, <2>2, Zenon DEF Each, MapSeq, Where
<1>3. Len(items) \in Nat /\ DOMAIN items = 1..Len(items) /\ \A i \in 1..Len(items) : items[i] \in S
  OBVIOUS
<1>4. keys \in Seq(K)
  <2>1. keys \in [1..Len(items) -> K]
    BY <1>3
  <2> HIDE DEF keys, K
  <2> QED BY <1>3, <2>1, FunctionIsSeq
<1>5. \A k \in K : k.state \in SockKnown /\ k = [protocol |-> k.protocol, state |-> k.state]
  <2>1. \A s \in S : Key(s).state \in SockKnown
                     /\ Key(s) = [protocol |-> Key(s).protocol, state |-> Key(s).state]
    OBVIOUS
  <2>2. \A k \in K : \E s \in S : k = Key(s)
    BY <1>1, <1>3
  <2> HIDE DEF K, Key
  <2> QED BY <2>1, <2>2
<1> HIDE DEF keys, K, Key
<1>6. /\ n \in Nat /\ DOMAIN listed = 1..n
      /\ \A i \in 1..n : listed[i] \in K
      /\ \A i, j \in 1..n : listed[i] = listed[j] => i = j
  <2>1. K = {keys[i] : i \in DOMAIN keys}
    BY DEF K
  <2>2. Lists(listed, K, n)
    BY <1>4, <2>1, KeysListed
  <2> HIDE DEF listed, n
  <2> QED BY <2>2 DEF Lists
<1>7. SockCounts(items) = FlattenSeq(seqs)
  BY <1>2, <1>6
<1>8. \A i \in 1..n : Block(seqs[i], label[i]) /\ NamedIn(seqs[i], SockCountNames)
  BY SockBlock DEF SockCountNames
<1>9. \A i, j \in 1..n : label[i] = label[j] => i = j
  <2> SUFFICES ASSUME NEW i \in 1..n, NEW j \in 1..n, label[i] = label[j] PROVE i = j
    OBVIOUS
  <2> DEFINE x == listed[i]
             y == listed[j]
  <2>1. x \in K /\ y \in K
    BY <1>6
  <2>2. Label(x) = Label(y)
    OBVIOUS
  <2>3. /\ Label(x).protocol = x.protocol /\ Label(x).state = Known(SockStates, x.state)
        /\ Label(y).protocol = y.protocol /\ Label(y).state = Known(SockStates, y.state)
    OBVIOUS
  <2> HIDE DEF x, y, Label
  <2>4. x.protocol = y.protocol /\ x.state = y.state
    BY <1>5, <2>1, <2>2, <2>3, SockLabel
  <2>5. x = y
    BY <1>5, <2>1, <2>4
  <2> QED BY <1>6, <2>5 DEF x, y
<1>10. seqs = [i \in 1..n |-> seqs[i]]
  OBVIOUS
<1> HIDE DEF seqs, listed, n, Same, Label, label
<1>11. Blocks(seqs, label, n)
  BY <1>8, <1>9, <1>10 DEF Blocks
<1>12. OncePerSeries(FlattenSeq(seqs))
  BY <1>6, <1>11, FlattenBlocks
<1>13. NamedIn(FlattenSeq(seqs), SockCountNames)
  BY <1>6, <1>8, <1>10, FlattenNamed
<1> QED BY <1>7, <1>12, <1>13

\* One sum for each protocol.
LEMMA SockDropsOnce ==
  ASSUME NEW S, NEW items \in Seq(S)
  PROVE  OncePerSeries(SockDrops(items)) /\ NamedIn(SockDrops(items), {"nft_socket_drops_total"})
<1> DEFINE keys == [i \in DOMAIN items |-> items[i].protocol]
           K == {keys[i] : i \in DOMAIN keys}
           listed == SetToSeq(K)
           n == Cardinality(K)
           Same(k) == FlattenSeq([i \in DOMAIN items |-> IF items[i].protocol = k THEN <<items[i]>> ELSE <<>>])
           Sum(k) == TotalOf(Same(k), LAMBDA s : s.attrs.drops)
           Drop(k) == Counter("nft_socket_drops_total", [protocol |-> k], Sum(k))
           seqs == [i \in 1..n |-> <<Drop(listed[i])>>]
           label == [i \in 1..n |-> [protocol |-> listed[i]]]
<1>1. K = {items[i].protocol : i \in DOMAIN items}
  OBVIOUS
<1>2. SockDrops(items) = FlattenSeq([i \in DOMAIN listed |-> <<Drop(listed[i])>>])
  BY <1>1 DEF SockDrops, Grouped, Each, MapSeq, Where
<1>3. Len(items) \in Nat /\ DOMAIN items = 1..Len(items)
  OBVIOUS
<1>4. keys \in Seq(K)
  <2>1. keys \in [1..Len(items) -> K]
    BY <1>3
  <2> HIDE DEF keys, K
  <2> QED BY <1>3, <2>1, FunctionIsSeq
<1> HIDE DEF keys
<1>5. /\ n \in Nat /\ DOMAIN listed = 1..n
      /\ \A i, j \in 1..n : listed[i] = listed[j] => i = j
  <2>1. K = {keys[i] : i \in DOMAIN keys}
    OBVIOUS
  <2> HIDE DEF K
  <2>2. Lists(listed, K, n)
    BY <1>4, <2>1, KeysListed
  <2> HIDE DEF listed, n
  <2> QED BY <2>2 DEF Lists
<1>6. SockDrops(items) = FlattenSeq(seqs)
  BY <1>2, <1>5
<1>7. \A k : Drop(k).labels = [protocol |-> k] /\ Drop(k).name = "nft_socket_drops_total"
  BY DEF Counter
<1> HIDE DEF K, Drop, Same, Sum
<1>8. \A k : NamedIn(<<Drop(k)>>, {"nft_socket_drops_total"})
  <2> SUFFICES ASSUME NEW k PROVE NamedIn(<<Drop(k)>>, {"nft_socket_drops_total"})
    OBVIOUS
  <2> DEFINE x == Drop(k)
             one == <<x>>
  <2>1. one \in Seq({x}) /\ \A i \in 1..Len(one) : one[i] = x
    OBVIOUS
  <2> HIDE DEF one
  <2>2. NamedIn(one, {"nft_socket_drops_total"})
    BY <1>7, <2>1 DEF NamedIn
  <2> QED BY <2>2 DEF one
<1>9. \A k : Block(<<Drop(k)>>, [protocol |-> k])
  BY <1>7, OneBlock
<1>10. \A i \in 1..n : Block(seqs[i], label[i]) /\ NamedIn(seqs[i], {"nft_socket_drops_total"})
  BY <1>8, <1>9
<1>11. \A i, j \in 1..n : label[i] = label[j] => i = j
  <2>1. \A i \in 1..n : label[i].protocol = listed[i]
    OBVIOUS
  <2> HIDE DEF label
  <2> QED BY <1>5, <2>1
<1>12. seqs = [i \in 1..n |-> seqs[i]]
  OBVIOUS
<1> HIDE DEF seqs, listed, n, label
<1>13. Blocks(seqs, label, n)
  BY <1>10, <1>11, <1>12 DEF Blocks
<1>14. OncePerSeries(FlattenSeq(seqs))
  BY <1>5, <1>13, FlattenBlocks
<1>15. NamedIn(FlattenSeq(seqs), {"nft_socket_drops_total"})
  BY <1>5, <1>10, <1>12, FlattenNamed
<1> QED BY <1>6, <1>14, <1>15

\* The retransmits are one sample at most.
LEMMA SockResentOnce ==
  ASSUME NEW sockets, NEW dropped
  PROVE  /\ OncePerSeries(SockResent(sockets, dropped))
         /\ NamedIn(SockResent(sockets, dropped), {"nft_socket_retransmits_total"})
<1> DEFINE x == Counter("nft_socket_retransmits_total", [protocol |-> "tcp"], SockRetransmits(sockets))
           one == <<x>>
           none == <<>>
           names == {"nft_socket_retransmits_total"}
<1>1. SockResent(sockets, dropped) = one \/ SockResent(sockets, dropped) = none
  BY DEF SockResent
<1>2. x.name = "nft_socket_retransmits_total"
  BY DEF Counter
<1> HIDE DEF x
<1>3. one \in Seq({x}) /\ \A i \in 1..Len(one) : one[i] = x
  OBVIOUS
<1>4. none \in Seq({}) /\ Len(none) = 0
  OBVIOUS
<1>5. OncePerSeries(one) /\ OncePerSeries(none)
  BY OneOnce, NoneOnce
<1> HIDE DEF one, none
<1>6. NamedIn(one, names) /\ NamedIn(none, names)
  BY <1>2, <1>3, <1>4 DEF NamedIn
<1> QED BY <1>1, <1>5, <1>6

\* The body of sockdiag.rs.
LEMMA SockOnce ==
  ASSUME NEW g, \A op : \E T : Frames(g, op) \in Seq(T),
         \A i \in 1..4 : NamedOnce("sock_diag", SockDumps[i].op, Frames(g, SockDumps[i].op))
  PROVE  OncePerSeries(SockEmit(g))
<1> DEFINE sockets == SockSockets(g)
           dropped == SockWithDrops(sockets)
           a == SockCounts(sockets)
           b == SockDrops(dropped)
           c == SockResent(sockets, dropped)
           B == {"nft_socket_drops_total"}
           C == {"nft_socket_retransmits_total"}
           AB == SockCountNames \cup B
<1>1. SockEmit(g) = a \o b \o c
  BY DEF SockEmit, SockCounts, SockDrops, SockResent, Grouped, Each, MapSeq, Where
<1>2. PICK S : sockets \in Seq(S) /\ \A x \in S : x.state \in SockKnown
  BY SocketsStates
<1> HIDE DEF sockets
<1>3. dropped \in Seq(S)
  <2> DEFINE given == {s \in S : "drops" \in DOMAIN s.attrs}
  <2>1. \A i \in DOMAIN sockets : sockets[i] \in S
    BY <1>2
  <2>2. dropped = Sifted(sockets, given)
    BY <2>1 DEF SockWithDrops, Where, Sifted
  <2> HIDE DEF given
  <2> QED BY <1>2, <2>2, SiftedFilters
<1> HIDE DEF dropped
<1>4. /\ OncePerSeries(a) /\ NamedIn(a, SockCountNames)
      /\ OncePerSeries(b) /\ NamedIn(b, B)
      /\ OncePerSeries(c) /\ NamedIn(c, C)
  BY <1>2, <1>3, SockCountsOnce, SockDropsOnce, SockResentOnce
<1>5. SockCountNames \cap B = {} /\ AB \cap C = {}
  BY DEF SockCountNames
<1> HIDE DEF a, b, c, B, C, AB
<1>6. OncePerSeries(a \o b) /\ NamedIn(a \o b, AB)
  BY <1>4, <1>5, JoinNamed, JoinOnce DEF AB
<1> DEFINE ab == a \o b
<1> HIDE DEF ab
<1>7. OncePerSeries(ab \o c)
  <2>1. OncePerSeries(ab) /\ NamedIn(ab, AB)
    BY <1>6 DEF ab
  <2> QED BY <1>4, <1>5, <2>1, JoinOnce
<1> QED BY <1>1, <1>7 DEF ab

-----------------------------------------------------------------------------
(* No body has a series twice.                                             *)

\* Chains, rules and objects of two tables of one name, in different families,
\* have the same labels: of nftables.rs nothing is said here.
Naming == Fixed \ {"nftables"}

\* The bodies that do not consist of parts.
LEMMA UnpartedOnce ==
  ASSUME CollectInv, Succeeded, Clean, who \in Naming \ Parted
  PROVE  OncePerSeries(body)
<1>1. body = Emit(who, got) /\ who \in Fixed
  BY DEF CollectInv, Naming
<1>2. \A op : \E T : Frames(got, op) \in Seq(T)
  BY <1>1, GotSequences
<1>3. \A k \in 1..Len(Names(who)) : NamedOnce(who, Names(who)[k], Frames(got, Names(who)[k]))
  <2>1. Len(Names(who)) = Len(got)
    BY <1>1, FixedAnswers, PlanNames DEF Asks
  <2> QED BY <1>1, <2>1, GotNamedOnce
<1>4. CASE who = "ethtool"
  <2>1. NamedOnce("ethtool", "stats", Frames(got, "stats"))
    BY <1>3, <1>4 DEF Names
  <2>2. Emit(who, got) = Each(Frames(got, "stats"), EthtoolFrameSamples)
    BY <1>4 DEF Emit, EthtoolEmit, Each, MapSeq
  <2> QED BY <1>1, <1>2, <2>1, <2>2, EthtoolOnce
<1>5. CASE who = "conntrack_expect"
  <2>1. \E x : Emit(who, got) = <<x>>
    BY <1>5 DEF Emit, ExpectEmit
  <2> QED BY <1>1, <2>1, OneOnce
<1>6. CASE who = "softnet"
  <2>1. NamedOnce("softnet", "softnet_stat", Frames(got, "softnet_stat"))
    BY <1>3, <1>6 DEF Names
  <2>2. Emit(who, got) = Each(Frames(got, "softnet_stat"), SoftnetSamples)
    BY <1>6 DEF Emit, SoftnetEmit, Each, MapSeq
  <2> QED BY <1>1, <1>2, <2>1, <2>2, SoftnetOnce
<1>7. CASE who = "softirq"
  <2> DEFINE frames == Frames(got, "softirqs")
  <2>1. NamedOnce("softirq", "softirqs", frames)
    BY <1>3, <1>7 DEF Names
  <2>2. Emit(who, got) = SoftirqEmit(got)
    BY <1>7 DEF Emit
  <2>3. CASE frames = <<>>
    <3>1. Emit(who, got) = <<>>
      BY <2>2, <2>3 DEF SoftirqEmit
    <3> QED BY <1>1, <3>1, NoneOnce
  <2>4. CASE frames # <<>>
    <3>1. Emit(who, got) = SoftirqLines(frames)
      BY <2>2, <2>4 DEF SoftirqEmit, SoftirqLines, Each, MapSeq
    <3>2. OncePerSeries(SoftirqLines(frames))
      <4> HIDE DEF frames
      <4>1. \E T : frames \in Seq(T)
        BY <1>2 DEF frames
      <4> QED BY <2>1, <2>4, <4>1, SoftirqOnce
    <3> QED BY <1>1, <3>1, <3>2
  <2> QED BY <2>3, <2>4
<1>8. CASE who = "irq"
  <2>1. NamedOnce("irq", "interrupts", Frames(got, "interrupts"))
    BY <1>3, <1>8 DEF Names
  <2>2. Emit(who, got) = Each(Frames(got, "interrupts"), IrqSamples)
    BY <1>8 DEF Emit, IrqEmit, Each, MapSeq
  <2> QED BY <1>1, <1>2, <2>1, <2>2, IrqOnce
<1>9. CASE who = "sockstat"
  <2>1. NamedOnce("sockstat", "sockstat", Frames(got, "sockstat"))
    BY <1>3, <1>9 DEF Names
  <2>2. Emit(who, got) = Each(Frames(got, "sockstat"), SockstatSamples)
    BY <1>9 DEF Emit, SockstatEmit, Each, MapSeq
  <2> QED BY <1>1, <1>2, <2>1, <2>2, SockstatOnce
<1>10. CASE who = "traffic_control"
  <2>1. \E S : TcQdiscs(got) \in Seq(S)
    BY <1>2, TcQdiscsSequence
  <2>2. Emit(who, got) = TcEmit(got)
    BY <1>10 DEF Emit
  <2> QED BY <1>1, <2>1, <2>2, TcOnce
<1>11. CASE who = "sock_diag"
  <2>1. \A k \in 1..4 : Names(who)[k] = SockDumps[k].op
    BY <1>11 DEF Names, SockDumps
  <2>2. Len(Names(who)) = 4
    BY <1>11 DEF Names
  <2>3. \A k \in 1..4 : NamedOnce("sock_diag", SockDumps[k].op, Frames(got, SockDumps[k].op))
    BY <1>3, <1>11, <2>1, <2>2
  <2>4. Emit(who, got) = SockEmit(got)
    BY <1>11 DEF Emit
  <2> QED BY <1>1, <1>2, <2>3, <2>4, SockOnce
<1> QED BY <1>4, <1>5, <1>6, <1>7, <1>8, <1>9, <1>10, <1>11 DEF Naming, Fixed, Independent, Parted

\* SeriesDistinct for every kernel that has what it names once, and these
\* collectors: whatever the kernel has, and however it changes between their
\* requests, none of them reports a series twice of what the kernel answered.
THEOREM SeriesDistinctHolds == Spec => [](who \in Naming => SeriesDistinct)
<1>1. CollectInv => (who \in Naming => SeriesDistinct)
  <2> SUFFICES ASSUME CollectInv, who \in Naming, Succeeded, Clean,
                      NEW i \in DOMAIN body, NEW j \in DOMAIN body, i < j
               PROVE  Series(body[i]) # Series(body[j])
    BY DEF SeriesDistinct
  <2>1. OncePerSeries(body)
    BY PartedOnce, UnpartedOnce
  <2>2. DOMAIN body = 1..Len(body) /\ Len(body) \in Nat
    BY <2>1 DEF OncePerSeries
  <2>3. i # j
    BY <2>2
  <2> QED BY <2>1, <2>2, <2>3 DEF OncePerSeries
<1> QED BY <1>1, CollectHolds, PTL

-----------------------------------------------------------------------------
(* What is counted or cut off is accounted for.                            *)

\* What a sample adds to the sum of the metric, or to the count of its series.
Weight(x, name, what) == IF x.name # name THEN 0 ELSE IF what = "sum" THEN x.value ELSE 1

\* The samples together add n.
Amount(samples, name, what, n) ==
    /\ \E T : samples \in Seq(T)
    /\ \A i \in 1..Len(samples) : Weight(samples[i], name, what) \in Nat
    /\ Total([i \in 1..Len(samples) |-> Weight(samples[i], name, what)]) = n

\* What s adds is what it weighs with the weights w of the samples in T.
Weighing(s, T, name, what, w) ==
    /\ s \in Seq(T)
    /\ \A i \in 1..Len(s) : w[s[i]] = Weight(s[i], name, what)
    /\ Weighed(s, w) = Total([i \in 1..Len(s) |-> Weight(s[i], name, what)])

\* Weights as a function, for the lemmas on weighed sequences.
LEMMA AmountWeighed ==
  ASSUME NEW s, NEW S, s \in Seq(S), NEW T, ElementsOf(s) \subseteq T, NEW name, NEW what,
         NEW w, w = [x \in T |-> Weight(x, name, what)]
  PROVE  Weighing(s, T, name, what, w)
<1>1. s \in Seq(ElementsOf(s))
  BY SeqOfElements
<1>2. Len(s) \in Nat /\ \A i \in 1..Len(s) : s[i] \in T
  BY DEF ElementsOf
<1>3. \A i \in 1..Len(s) : w[s[i]] = Weight(s[i], name, what)
  BY <1>2
<1>4. [i \in 1..Len(s) |-> w[s[i]]] = [i \in 1..Len(s) |-> Weight(s[i], name, what)]
  BY <1>3
<1>5. s \in Seq(T)
  <2> DEFINE E == ElementsOf(s)
  <2>1. s \in Seq(E) /\ E \subseteq T
    BY <1>1
  <2> HIDE DEF E
  <2> QED BY <2>1
<1> QED BY <1>3, <1>4, <1>5, Zenon DEF Weighed, Weighing

\* What two parts add.
LEMMA AmountJoin ==
  ASSUME NEW s, NEW t, NEW name, NEW what, NEW m, NEW n,
         Amount(s, name, what, m), Amount(t, name, what, n)
  PROVE  Amount(s \o t, name, what, m + n)
<1> DEFINE u == s \o t
           T == {x \in ElementsOf(s) \cup ElementsOf(t) : Weight(x, name, what) \in Nat}
           w == [x \in T |-> Weight(x, name, what)]
<1>1. PICK S1 : s \in Seq(S1)
  BY DEF Amount
<1>2. PICK S2 : t \in Seq(S2)
  BY DEF Amount
<1>3. ElementsOf(s) \subseteq T /\ ElementsOf(t) \subseteq T
  BY DEF Amount, ElementsOf
<1>4. w \in [T -> Nat] /\ w = [x \in T |-> Weight(x, name, what)]
  OBVIOUS
<1> HIDE DEF T, w
<1>5. Weighing(s, T, name, what, w)
  BY <1>1, <1>3, <1>4, AmountWeighed
<1>6. Weighing(t, T, name, what, w)
  BY <1>2, <1>3, <1>4, AmountWeighed
<1>7. s \in Seq(T) /\ t \in Seq(T)
  BY <1>5, <1>6 DEF Weighing
<1>8. Weighed(s, w) = m /\ Weighed(t, w) = n
  BY <1>5, <1>6, Zenon DEF Amount, Weighing
<1>9. Weighed(s \o t, w) = Weighed(s, w) + Weighed(t, w)
  BY <1>4, <1>7, WeighedJoin
<1>10. u \in Seq(T)
  BY <1>7
<1> HIDE DEF u
<1>11. ElementsOf(u) \subseteq T /\ \A i \in 1..Len(u) : u[i] \in T
  BY <1>10 DEF ElementsOf
<1>12. Weighing(u, T, name, what, w)
  BY <1>4, <1>10, <1>11, AmountWeighed
<1>13. \A i \in 1..Len(u) : Weight(u[i], name, what) \in Nat
  BY <1>4, <1>11, <1>12 DEF Weighing
<1>14. Total([i \in 1..Len(u) |-> Weight(u[i], name, what)]) = m + n
  BY <1>8, <1>9, <1>12, Zenon DEF u, Weighing
<1>15. Amount(u, name, what, m + n)
  BY <1>10, <1>13, <1>14 DEF Amount
<1> QED BY <1>15 DEF u

\* What several parts add.
LEMMA AmountFlatten ==
  ASSUME NEW n \in Nat, NEW seqs, seqs = [i \in 1..n |-> seqs[i]], NEW v, NEW name, NEW what,
         \A i \in 1..n : Amount(seqs[i], name, what, v[i])
  PROVE  Amount(FlattenSeq(seqs), name, what, FirstTotal(v, n))
<1> DEFINE T == {x \in UNION {ElementsOf(seqs[i]) : i \in 1..n} : Weight(x, name, what) \in Nat}
           w == [x \in T |-> Weight(x, name, what)]
           u == FlattenSeq(seqs)
<1>1. ASSUME NEW i \in 1..n
      PROVE  seqs[i] \in Seq(T) /\ Weighed(seqs[i], w) = v[i]
  <2> DEFINE s == seqs[i]
  <2>1. PICK S : s \in Seq(S)
    BY DEF Amount
  <2>2. \A k \in 1..Len(s) : Weight(s[k], name, what) \in Nat
    BY DEF Amount
  <2>3. ElementsOf(s) \subseteq T
    BY <2>2 DEF ElementsOf
  <2>4. Total([k \in 1..Len(s) |-> Weight(s[k], name, what)]) = v[i]
    BY DEF Amount
  <2> HIDE DEF s, T
  <2>5. w = [x \in T |-> Weight(x, name, what)]
    OBVIOUS
  <2> HIDE DEF w
  <2>6. Weighing(s, T, name, what, w)
    BY <2>1, <2>3, <2>5, AmountWeighed
  <2> QED BY <2>4, <2>6, Zenon DEF s, Weighing
<1>2. w \in [T -> Nat] /\ w = [x \in T |-> Weight(x, name, what)]
  OBVIOUS
<1> HIDE DEF T, w
<1>3. seqs \in Seq(Seq(T)) /\ Len(seqs) = n
  <2>1. seqs \in [1..n -> Seq(T)]
    BY <1>1
  <2> QED BY <2>1, FunctionIsSeq
<1>4. /\ u \in Seq(T)
      /\ \A i \in 1..n : EachWeighs(seqs, w)[i] = Weighed(seqs[i], w)
      /\ Weighed(u, w) = FirstTotal(EachWeighs(seqs, w), n)
  BY <1>2, <1>3, WeighedFlatten, ZenonT(40)
<1>5. FirstTotal(EachWeighs(seqs, w), n) = FirstTotal(v, n)
  BY <1>1, <1>4, TotalAlike
<1> HIDE DEF u
<1>6. ElementsOf(u) \subseteq T /\ \A i \in 1..Len(u) : u[i] \in T
  BY <1>4 DEF ElementsOf
<1>7. Weighing(u, T, name, what, w)
  BY <1>2, <1>4, <1>6, AmountWeighed
<1>8. \A i \in 1..Len(u) : Weight(u[i], name, what) \in Nat
  BY <1>2, <1>6, <1>7 DEF Weighing
<1>9. Total([i \in 1..Len(u) |-> Weight(u[i], name, what)]) = FirstTotal(v, n)
  BY <1>4, <1>5, <1>7, Zenon DEF Weighing
<1>10. Amount(u, name, what, FirstTotal(v, n))
  BY <1>4, <1>8, <1>9 DEF Amount
<1> QED BY <1>10 DEF u

\* A sequence of samples of other metrics adds nothing.
LEMMA AmountNone ==
  ASSUME NEW samples, NEW names, NamedIn(samples, names), NEW name, name \notin names, NEW what
  PROVE  Amount(samples, name, what, 0)
<1> DEFINE v == [i \in 1..Len(samples) |-> Weight(samples[i], name, what)]
<1>1. PICK T : samples \in Seq(T)
  BY DEF NamedIn
<1>2. Len(samples) \in Nat
  BY <1>1, SequenceBasics
<1>3. \A i \in 1..Len(samples) : Weight(samples[i], name, what) = 0
  BY DEF NamedIn, Weight
<1>4. \A i \in 1..Len(samples) : v[i] = 0
  BY <1>3
<1>5. v = [i \in 1..Len(samples) |-> v[i]]
  OBVIOUS
<1>6. v \in Seq(Nat) /\ Len(v) = Len(samples)
  <2>1. v \in [1..Len(samples) -> Nat]
    BY <1>3
  <2> HIDE DEF v
  <2> QED BY <1>2, <2>1, FunctionIsSeq
<1> HIDE DEF v
<1>7. Total(v) = FirstTotal(v, Len(samples))
  BY <1>6, TotalFirsts
<1>8. FirstTotal(v, Len(samples)) = 0
  BY <1>2, <1>4, TotalZero
<1> QED BY <1>1, <1>3, <1>7, <1>8 DEF Amount, v

\* What one sample adds.
LEMMA AmountOne ==
  ASSUME NEW x, NEW name, NEW what, Weight(x, name, what) \in Nat
  PROVE  Amount(<<x>>, name, what, Weight(x, name, what))
<1> DEFINE n == Weight(x, name, what)
           w == [y \in {x} |-> n]
<1>1. [i \in 1..Len(<<x>>) |-> Weight(<<x>>[i], name, what)] = [i \in 1..Len(<<x>>) |-> w[<<x>>[i]]]
  OBVIOUS
<1>2. w[x] = n
  OBVIOUS
<1> HIDE DEF n, w
<1>3. Weighed(<<x>>, w) = n
  BY <1>2, WeighedOne DEF n
<1>4. Total([i \in 1..Len(<<x>>) |-> Weight(<<x>>[i], name, what)]) = n
  BY <1>1, <1>3, Zenon DEF Weighed
<1>5. <<x>> \in Seq({x}) /\ \A i \in 1..Len(<<x>>) : <<x>>[i] = x
  OBVIOUS
<1> QED BY <1>4, <1>5 DEF Amount, n

Named(samples, name) == Where(samples, LAMBDA s : s.name = name)
Summed(samples, name) == TotalOf(Named(samples, name), LAMBDA s : s.value)

\* They are all of this metric and add n.
Adding(kept, name, what, n) ==
    \E T : \E w \in [T -> Nat] :
       /\ kept \in Seq(T)
       /\ \A i \in 1..Len(kept) : kept[i].name = name /\ w[kept[i]] = Weight(kept[i], name, what)
       /\ Weighed(kept, w) = n

\* The samples of a metric are the only ones with a weight.
LEMMA AmountNamed ==
  ASSUME NEW samples, NEW name, NEW what, NEW n, Amount(samples, name, what, n)
  PROVE  Adding(Named(samples, name), name, what, n)
<1> DEFINE T == {x \in ElementsOf(samples) : Weight(x, name, what) \in Nat}
           w == [x \in T |-> Weight(x, name, what)]
           P == {x \in T : x.name = name}
           kept == Sifted(samples, P)
<1>1. PICK S : samples \in Seq(S)
  BY DEF Amount
<1>2. ElementsOf(samples) \subseteq T
  BY DEF Amount, ElementsOf
<1>3. w \in [T -> Nat] /\ w = [x \in T |-> Weight(x, name, what)]
  OBVIOUS
<1>4. \A x \in T : x \in P <=> x.name = name
  OBVIOUS
<1> HIDE DEF T, w
<1>5. Weighing(samples, T, name, what, w)
  BY <1>1, <1>2, <1>3, AmountWeighed
<1>6. samples \in Seq(T) /\ Weighed(samples, w) = n
  BY <1>5, Zenon DEF Weighing, Amount
<1>7. Named(samples, name) = kept
  <2>1. \A i \in DOMAIN samples : samples[i] \in T
    BY <1>6
  <2>2. kept = FlattenSeq([i \in DOMAIN samples |->
                             IF samples[i].name = name THEN <<samples[i]>> ELSE <<>>])
    BY <1>4, <2>1 DEF Sifted
  <2> HIDE DEF kept
  <2> QED BY <2>2 DEF Named, Where
<1>8. Filters(kept, samples, P)
  BY <1>6, SiftedFilters
<1>9. kept \in Seq(T) /\ Weighed(kept, w) = Weighed(samples, Within(w, P))
  BY <1>3, <1>6, WeighedSifted
<1>10. Within(w, P) = w
  <2>1. \A x \in T : (IF x \in P THEN w[x] ELSE 0) = w[x]
    BY <1>3, <1>4 DEF Weight
  <2>2. DOMAIN w = T
    BY <1>3
  <2>3. Within(w, P) = [x \in T |-> w[x]]
    BY <2>1, <2>2 DEF Within
  <2> QED BY <1>3, <2>3
<1>11. \A i \in 1..Len(kept) : kept[i] \in P /\ kept[i] \in T
  BY <1>8, <1>9 DEF Filters
<1>12. \A i \in 1..Len(kept) : kept[i].name = name /\ w[kept[i]] = Weight(kept[i], name, what)
  BY <1>3, <1>4, <1>11
<1> HIDE DEF kept
<1>13. Weighed(kept, w) = n
  BY <1>6, <1>9, <1>10
<1>14. Adding(kept, name, what, n)
  BY <1>3, <1>9, <1>12, <1>13, Zenon DEF Adding
<1> QED BY <1>7, <1>14

\* The sum of the metric.
LEMMA AmountSum ==
  ASSUME NEW samples, NEW name, NEW n, Amount(samples, name, "sum", n)
  PROVE  Summed(samples, name) = n
<1> DEFINE kept == Named(samples, name)
<1> HIDE DEF kept
<1>1. Adding(kept, name, "sum", n)
  BY AmountNamed DEF kept
<1>2. PICK T : \E w \in [T -> Nat] :
            /\ kept \in Seq(T)
            /\ \A i \in 1..Len(kept) : kept[i].name = name
                                       /\ w[kept[i]] = Weight(kept[i], name, "sum")
            /\ Weighed(kept, w) = n
  BY <1>1, Zenon DEF Adding
<1>3. PICK w \in [T -> Nat] :
            /\ kept \in Seq(T)
            /\ \A i \in 1..Len(kept) : kept[i].name = name
                                       /\ w[kept[i]] = Weight(kept[i], name, "sum")
            /\ Weighed(kept, w) = n
  BY <1>2, Zenon
<1>4. DOMAIN kept = 1..Len(kept)
  BY <1>3, SequenceBasics
<1>5. \A i \in 1..Len(kept) : w[kept[i]] = kept[i].value
  BY <1>3 DEF Weight
<1>6. [i \in 1..Len(kept) |-> w[kept[i]]] = [i \in DOMAIN kept |-> kept[i].value]
  BY <1>4, <1>5
<1>7. Summed(samples, name) = Total([i \in DOMAIN kept |-> kept[i].value])
  BY DEF Summed, TotalOf, MapSeq, kept
<1>8. Weighed(kept, w) = Total([i \in 1..Len(kept) |-> w[kept[i]]])
  BY DEF Weighed
<1> QED BY <1>3, <1>6, <1>7, <1>8, Zenon

\* The number of its series.
LEMMA AmountCount ==
  ASSUME NEW samples, NEW name, NEW n, Amount(samples, name, "count", n)
  PROVE  Len(Named(samples, name)) = n
<1> DEFINE kept == Named(samples, name)
<1> HIDE DEF kept
<1>1. Adding(kept, name, "count", n)
  BY AmountNamed DEF kept
<1>2. PICK T : \E w \in [T -> Nat] :
            /\ kept \in Seq(T)
            /\ \A i \in 1..Len(kept) : kept[i].name = name
                                       /\ w[kept[i]] = Weight(kept[i], name, "count")
            /\ Weighed(kept, w) = n
  BY <1>1, Zenon DEF Adding
<1>3. PICK w \in [T -> Nat] :
            /\ kept \in Seq(T)
            /\ \A i \in 1..Len(kept) : kept[i].name = name
                                       /\ w[kept[i]] = Weight(kept[i], name, "count")
            /\ Weighed(kept, w) = n
  BY <1>2, Zenon
<1>4. \A i \in 1..Len(kept) : w[kept[i]] = 1
  BY <1>3 DEF Weight
<1>5. Weighed(kept, w) = Len(kept)
  BY <1>3, <1>4, WeighedLength
<1> QED BY <1>3, <1>5 DEF kept

\* The counts of keys add up to their number.
LEMMA CountsAmount ==
  ASSUME NEW S, NEW keys \in Seq(S), NEW name
  PROVE  Amount(Counts(keys, name), name, "sum", Len(keys))
<1> DEFINE D == {keys[i] : i \in DOMAIN keys}
           listed == SetToSeq(D)
           m == Cardinality(D)
           K == [x \in S |-> x]
           one == [x \in S |-> 1]
           Same(k) == Sifted(keys, Keyed(S, K, k))
           v == [i \in 1..m |-> Weighed(Same(listed[i]), one)]
           e == [i \in 1..m |-> Gauge(name, listed[i], Len(Same(listed[i])))]
           seqs == [i \in 1..m |-> <<e[i]>>]
<1>1. Len(keys) \in Nat /\ DOMAIN keys = 1..Len(keys) /\ \A i \in 1..Len(keys) : keys[i] \in S
  OBVIOUS
<1>2. Lists(listed, D, m)
  BY KeysListed
<1> HIDE DEF m
<1>3. /\ m \in Nat /\ DOMAIN listed = 1..m
      /\ \A i, j \in 1..m : listed[i] = listed[j] => i = j
      /\ \A x \in D : \E j \in 1..m : listed[j] = x
  BY <1>2 DEF Lists
<1>4. \A i \in 1..Len(keys) : \E j \in 1..m : listed[j] = K[keys[i]]
  BY <1>1, <1>3
<1>5. Counts(keys, name) = FlattenSeq(seqs)
  <2> DEFINE Kept(k) == FlattenSeq([j \in DOMAIN keys |-> IF keys[j] = k THEN <<keys[j]>> ELSE <<>>])
  <2>1. Counts(keys, name)
        = FlattenSeq([i \in DOMAIN listed |-> <<Gauge(name, listed[i], Len(Kept(listed[i])))>>])
    BY DEF Counts, Tally, Grouped, Each, MapSeq, Where
  <2>2. ASSUME NEW k PROVE Kept(k) = Same(k)
    <3>1. \A j \in DOMAIN keys : keys[j] \in Keyed(S, K, k) <=> keys[j] = k
      BY <1>1 DEF Keyed
    <3> QED BY <3>1 DEF Sifted
  <2>3. \A i \in 1..m : <<Gauge(name, listed[i], Len(Kept(listed[i])))>> = <<e[i]>>
    BY <2>2
  <2>4. [i \in DOMAIN listed |-> <<Gauge(name, listed[i], Len(Kept(listed[i])))>>] = seqs
    BY <1>3, <2>3
  <2> QED BY <2>1, <2>4
<1>6. one \in [S -> Nat] /\ \A x \in S : one[x] = 1
  OBVIOUS
<1> HIDE DEF one, K
<1>7. ASSUME NEW k PROVE Same(k) \in Seq(S) /\ Len(Same(k)) = Weighed(Same(k), one)
  <2> DEFINE s == Same(k)
  <2>1. s \in Seq(S)
    BY SiftedFilters
  <2> HIDE DEF s
  <2>2. \A i \in 1..Len(s) : one[s[i]] = 1
    BY <1>6, <2>1
  <2>3. Weighed(s, one) = Len(s)
    BY <1>6, <2>1, <2>2, WeighedLength
  <2> QED BY <2>1, <2>3 DEF s
<1> HIDE DEF listed, D
<1>8. /\ \A j \in 1..m : Weighed(Same(listed[j]), one) \in Nat
      /\ FirstTotal(v, m) = Weighed(keys, one)
  <2>1. Shares(S, keys, one, K, listed, m)
    BY <1>3, <1>4, <1>6, WeighedBuckets
  <2> QED BY <2>1, Zenon DEF Shares
<1> HIDE DEF Same
<1>9. Weighed(keys, one) = Len(keys)
  BY <1>1, <1>6, WeighedLength
<1>10. ASSUME NEW i \in 1..m PROVE Amount(seqs[i], name, "sum", v[i])
  <2>1. e[i].name = name /\ e[i].value = v[i]
    BY <1>7 DEF Gauge
  <2>2. Weight(e[i], name, "sum") = v[i]
    BY <2>1 DEF Weight
  <2>3. v[i] \in Nat /\ seqs[i] = <<e[i]>>
    BY <1>8
  <2> HIDE DEF e, v, seqs
  <2>4. Amount(<<e[i]>>, name, "sum", v[i])
    BY <2>2, <2>3, AmountOne
  <2> QED BY <2>3, <2>4
<1>11. seqs = [i \in 1..m |-> seqs[i]]
  OBVIOUS
<1> HIDE DEF seqs, v
<1>12. Amount(FlattenSeq(seqs), name, "sum", FirstTotal(v, m))
  BY <1>3, <1>10, <1>11, AmountFlatten
<1> QED BY <1>5, <1>8, <1>9, <1>12

-----------------------------------------------------------------------------
(* An undisturbed collect().                                               *)

\* The collectors of NothingLost that make the same requests whatever the
\* answers, each for all that the kernel has.
Accounting == {"nftables", "sock_diag", "traffic_control", "rtnetlink", "conntrack_expect"}

\* The requests have no argument.
General(P) == \A i \in 1..Len(P) : P[i].arg = NoArg

\* A request has the argument it was made with.
LEMMA RequestArgs ==
  ASSUME NEW op, NEW n
  PROVE  /\ Dump(op, n).arg = NoArg /\ OnFresh(Dump(op, n)).arg = NoArg
         /\ OnFresh(Single(op)).arg = NoArg
BY DEF Dump, DumpFor, Single, OnFresh, Request

\* None of theirs has any.
LEMMA AccountingArgs ==
  ASSUME NEW c \in Accounting
  PROVE  General(FixedPlan(c))
<1>1. c = "conntrack_expect" => General(FixedPlan(c))
  BY RequestArgs DEF Plan, FixedPlan, ExpectPlan, General
<1>2. c = "rtnetlink" => General(FixedPlan(c))
  BY RequestArgs DEF Plan, FixedPlan, RtPlan, General
<1>3. c = "traffic_control" => General(FixedPlan(c))
  BY RequestArgs DEF Plan, FixedPlan, TcPlan, General
<1>4. c = "sock_diag" => General(FixedPlan(c))
  BY RequestArgs DEF Plan, FixedPlan, SockPlan, SockDumps, General
<1>5. c = "nftables" => General(FixedPlan(c))
  BY RequestArgs, NftPlanNames DEF Plan, FixedPlan, NftPlan, NftFresh, MapSeq, General
<1> QED BY <1>1, <1>2, <1>3, <1>4, <1>5 DEF Accounting

\* A request that failed is among the failures.
LEMMA FailureFound ==
  ASSUME CollectInv, NEW k \in 1..Len(got), DOMAIN got = 1..Len(got), got[k].error # "none"
  PROVE  \E i \in 1..Len(Failures) : Failures[i] = got[k]
<1>1. PICK T : got \in Seq(T)
  BY DEF CollectInv
<1> DEFINE bad == {a \in T : a.error # "none"}
<1>2. Failures = Sifted(got, bad)
  BY <1>1, SMTT(20) DEF Failures, Where, Sifted
<1>3. Filters(Failures, got, bad)
  BY <1>1, <1>2, SiftedFilters
<1>4. got[k] \in bad
  BY <1>1
<1> QED BY <1>3, <1>4 DEF Filters

\* When no request failed and the kernel did not change, the frames for a
\* request are all that it has.
LEMMA AllAnswered ==
  ASSUME CollectInv, Succeeded, begun = now, Failures = <<>>, who \in Accounting,
         NEW k \in 1..Len(Names(who))
  PROVE  Frames(got, Names(who)[k]) = AllFrames(Names(who)[k])
<1> DEFINE P == FixedPlan(who)
           op == Names(who)[k]
<1>1. who \in Fixed /\ who # "ipvs"
  BY DEF Accounting, Fixed, Independent
<1>2. Len(got) = Len(Names(who)) /\ DOMAIN got = 1..Len(got) /\ Len(got) \in Nat
  BY <1>1, FixedAnswers, PlanNames DEF Asks
<1>3. /\ Real(who, begun, now, P[k], got[k])
      /\ P[k].op = op /\ P[k].arg = NoArg
  BY <1>1, <1>2, FixedAnswers, PlanNames, AccountingArgs DEF Asks, General
<1>4. got[k].error = "none"
  BY <1>2, FailureFound, HasElement
<1> HIDE DEF P
<1>5. got[k] = Answer(who, now, P[k])
  <2>1. now \in Nat
    BY DEF CollectInv
  <2>2. \E t \in now..now : got[k] = Answer(who, t, P[k])
    BY <1>3, <1>4 DEF Real
  <2> QED BY <2>1, <2>2
<1>6. Frames(got, op) = got[k].frames
  BY <1>1, <1>2, FramesOfAnswer
<1>7. CASE op \notin DOMAIN Kernel[who][now]
  <2>1. got[k].frames = <<>>
    BY <1>3, <1>5, <1>7 DEF Answer
  <2> QED BY <1>6, <1>7, <2>1 DEF AllFrames, AllFramesFor, KernelFrames
<1>8. CASE op \in DOMAIN Kernel[who][now]
  <2>1. NoArg \in DOMAIN Kernel[who][now][op]
    BY <1>1, <1>3, <1>4, <1>5, <1>8 DEF Answer
  <2>2. got[k].frames = Kernel[who][now][op][NoArg]
    BY <1>3, <1>5, <1>8, <2>1 DEF Answer
  <2> QED BY <1>6, <1>8, <2>1, <2>2 DEF AllFrames, AllFramesFor, KernelFrames, Attr
<1> QED BY <1>7, <1>8

\* Without a failure nothing was left over.
LEMMA NoneLeftOver ==
  ASSUME CollectInv, Failures = <<>>
  PROVE  Clean
<1> SUFFICES ASSUME NEW k \in DOMAIN got, got[k].error = "stale" PROVE FALSE
  BY DEF Clean
<1>1. k \in 1..Len(got)
  BY DEF CollectInv
<1> QED BY <1>1, FailureFound, HasElement

\* They are a sequence, and the kernel says what is in them.
LEMMA AllReadable ==
  ASSUME CollectInv, Succeeded, begun = now, Failures = <<>>, who \in Accounting,
         NEW k \in 1..Len(Names(who))
  PROVE  /\ \E T : AllFrames(Names(who)[k]) \in Seq(T)
         /\ \A i \in 1..Len(AllFrames(Names(who)[k])) :
                Readable(who, Names(who)[k], AllFrames(Names(who)[k])[i])
<1> DEFINE op == Names(who)[k]
           frames == AllFrames(op)
<1>1. who \in Fixed /\ Len(got) = Len(Names(who))
  BY FixedAnswers, PlanNames DEF Accounting, Fixed, Independent, Asks
<1>2. frames = got[k].frames
  BY <1>1, AllAnswered, FramesOfAnswer
<1>3. Had(who, op, frames)
  BY <1>1, <1>2, GotAnswered, NoneLeftOver
<1>4. who \in Collectors
  BY DEF CollectInv
<1> HIDE DEF op, frames
<1>5. CASE frames = <<>>
  <2>1. frames \in Seq({})
    BY <1>5
  <2>2. \A i \in 1..Len(frames) : FALSE
    BY <1>5
  <2> QED BY <2>1, <2>2 DEF frames, op
<1>6. CASE frames # <<>>
  <2>1. PICK t \in DOMAIN Kernel[who] : op \in DOMAIN Kernel[who][t]
               /\ \E arg \in DOMAIN Kernel[who][t][op] : frames = Kernel[who][t][op][arg]
    BY <1>3, <1>6 DEF Had
  <2>2. PICK arg \in DOMAIN Kernel[who][t][op] : frames = Kernel[who][t][op][arg]
    BY <2>1
  <2>3. \E T : frames \in Seq(T)
    BY <1>4, <2>1, <2>2, KernelAssumption DEF Sequential
  <2>4. DOMAIN frames = 1..Len(frames)
    BY <2>3
  <2>5. \A i \in 1..Len(frames) : Readable(who, op, frames[i])
    BY <1>4, <2>1, <2>2, <2>4, FrameAssumption
  <2> QED BY <2>3, <2>5 DEF frames, op
<1> QED BY <1>5, <1>6

\* conntrack_expect.rs: one sample counts the expectations, up to the cap.
LEMMA ExpectAccounted ==
  ASSUME CollectInv, Succeeded, begun = now, Failures = <<>>, who = "conntrack_expect"
  PROVE  SumOf("nft_conntrack_expectations") = Smaller(Len(WholeFrames("expect")), ExpectCap)
<1> DEFINE name == "nft_conntrack_expectations"
           frames == AllFrames("expect")
           n == Smaller(Len(WholeFrames("expect")), ExpectCap)
           x == Gauge(name, NoLabels, n)
<1>1. Names(who) = <<"expect">> /\ who \in Accounting
  BY DEF Names, Accounting
<1>2. Frames(got, "expect") = frames /\ \E T : frames \in Seq(T)
  <2>1. 1 \in 1..Len(Names(who)) /\ Names(who)[1] = "expect"
    BY <1>1
  <2> QED BY <1>1, <2>1, AllAnswered, AllReadable
<1>3. body = <<x>>
  <2>1. body = ExpectEmit(got)
    BY DEF CollectInv, Emit
  <2> QED BY <1>2, <2>1 DEF ExpectEmit, WholeFrames
<1>4. n \in Nat
  <2>1. PICK T : frames \in Seq(T)
    BY <1>2
  <2>2. WholeFrames("expect") = RtWholeOf(frames)
    BY DEF WholeFrames, RtWholeOf
  <2> HIDE DEF frames
  <2>3. RtWholeOf(frames) \in Seq(T)
    BY <2>1, RtFilters
  <2>4. Len(RtWholeOf(frames)) \in Nat
    BY <2>3
  <2> QED BY <2>2, <2>4, ExpectCapAssumption DEF Smaller
<1>5. Weight(x, name, "sum") = n
  BY DEF Weight, Gauge
<1> HIDE DEF n, x
<1>6. Amount(<<x>>, name, "sum", n)
  BY <1>4, <1>5, AmountOne
<1>7. Summed(body, name) = n
  BY <1>3, <1>6, AmountSum
<1>8. SumOf(name) = Summed(body, name)
  BY DEF SumOf, Summed, Named
<1> QED BY <1>7, <1>8 DEF n

\* What four parts add.
LEMMA AmountFour ==
  ASSUME NEW a, NEW b, NEW c, NEW d, NEW name, NEW what,
         NEW k \in Nat, NEW l \in Nat, NEW m \in Nat, NEW n \in Nat,
         Amount(a, name, what, k), Amount(b, name, what, l),
         Amount(c, name, what, m), Amount(d, name, what, n)
  PROVE  Amount(a \o b \o c \o d, name, what, k + l + m + n)
<1>1. Amount(a \o b, name, what, k + l)
  BY AmountJoin
<1> DEFINE ab == a \o b
<1> HIDE DEF ab
<1>2. Amount(ab \o c, name, what, (k + l) + m)
  BY <1>1, AmountJoin DEF ab
<1> DEFINE abc == ab \o c
<1> HIDE DEF abc
<1>3. Amount(abc \o d, name, what, ((k + l) + m) + n)
  BY <1>2, AmountJoin DEF abc
<1> QED BY <1>3 DEF abc, ab

\* The counts of rt.rs add up to what is counted.
LEMMA RtCountsAmount ==
  ASSUME NEW T, NEW frames \in Seq(T)
  PROVE  /\ Amount(RtAddresses(frames), "nft_address_count", "sum", Len(RtWholeOf(frames)))
         /\ Amount(RtRoutes(frames), "nft_route_count", "sum", Len(RtWholeOf(frames)))
         /\ Amount(RtNeighbours(frames), "nft_neighbor_count", "sum",
                   Len(RtUnbridged(RtWholeOf(frames))))
         /\ Len(RtWholeOf(frames)) \in Nat /\ Len(RtUnbridged(RtWholeOf(frames))) \in Nat
<1> DEFINE W == RtWholeOf(frames)
           V == RtUnbridged(W)
<1>1. W \in Seq(T) /\ V \in Seq(T)
  BY RtFilters
<1> HIDE DEF W, V
<1>2. \A s \in Seq(T) : Len(s) \in Nat /\ DOMAIN s = 1..Len(s)
  OBVIOUS
<1>3. Amount(RtAddresses(frames), "nft_address_count", "sum", Len(W))
  <2> DEFINE keys == [i \in DOMAIN W |-> [family |-> RtFamily(W[i].family)]]
             S == {keys[i] : i \in DOMAIN W}
  <2>1. keys \in [1..Len(W) -> S]
    BY <1>1, <1>2
  <2>2. RtAddresses(frames) = Counts(keys, "nft_address_count")
    BY DEF RtAddresses, MapSeq, W
  <2> HIDE DEF keys, S
  <2>3. keys \in Seq(S) /\ Len(keys) = Len(W)
    BY <1>1, <1>2, <2>1, SMTT(20)
  <2>4. Amount(Counts(keys, "nft_address_count"), "nft_address_count", "sum", Len(keys))
    BY <2>3, CountsAmount
  <2> QED BY <2>2, <2>3, <2>4
<1>4. Amount(RtRoutes(frames), "nft_route_count", "sum", Len(W))
  <2> DEFINE keys == [i \in DOMAIN W |-> RtRouteKey(W[i])]
             S == {keys[i] : i \in DOMAIN W}
  <2>1. keys \in [1..Len(W) -> S]
    BY <1>1, <1>2
  <2>2. RtRoutes(frames) = Counts(keys, "nft_route_count")
    BY DEF RtRoutes, MapSeq, W
  <2> HIDE DEF keys, S
  <2>3. keys \in Seq(S) /\ Len(keys) = Len(W)
    BY <1>1, <1>2, <2>1, SMTT(20)
  <2>4. Amount(Counts(keys, "nft_route_count"), "nft_route_count", "sum", Len(keys))
    BY <2>3, CountsAmount
  <2> QED BY <2>2, <2>3, <2>4
<1>5. Amount(RtNeighbours(frames), "nft_neighbor_count", "sum", Len(V))
  <2> DEFINE keys == [i \in DOMAIN V |-> RtNeighKey(V[i])]
             S == {keys[i] : i \in DOMAIN V}
  <2>1. keys \in [1..Len(V) -> S]
    BY <1>1, <1>2
  <2>2. RtNeighbours(frames) = Counts(keys, "nft_neighbor_count")
    BY DEF RtNeighbours, MapSeq, W, V
  <2> HIDE DEF keys, S
  <2>3. keys \in Seq(S) /\ Len(keys) = Len(V)
    BY <1>1, <1>2, <2>1
  <2>4. Amount(Counts(keys, "nft_neighbor_count"), "nft_neighbor_count", "sum", Len(keys))
    BY <2>3, CountsAmount
  <2> QED BY <2>2, <2>3, <2>4
<1> QED BY <1>1, <1>2, <1>3, <1>4, <1>5 DEF V, W

\* rt.rs: every address, route and neighbour is in one count.
LEMMA RtAccounted ==
  ASSUME CollectInv, Succeeded, begun = now, Failures = <<>>, who = "rtnetlink"
  PROVE  /\ SumOf("nft_address_count") = Len(WholeFrames("addresses"))
         /\ SumOf("nft_route_count") = Len(WholeFrames("routes"))
         /\ SumOf("nft_neighbor_count")
                = Len(Where(WholeFrames("neighbours"), LAMBDA f : f.family # "bridge"))
<1> DEFINE F(op) == AllFrames(op)
           a == RtLinks(F("links"))
           b == RtAddresses(F("addresses"))
           c == RtRoutes(F("routes"))
           d == RtNeighbours(F("neighbours"))
<1>1. Names(who) = <<"links", "addresses", "routes", "neighbours">> /\ who \in Accounting
  BY DEF Names, Accounting
<1>2. \A k \in 1..4 : /\ Frames(got, Names(who)[k]) = F(Names(who)[k])
                      /\ \E T : F(Names(who)[k]) \in Seq(T)
  BY <1>1, AllAnswered, AllReadable
<1>3. /\ Names(who)[1] = "links" /\ Names(who)[2] = "addresses"
      /\ Names(who)[3] = "routes" /\ Names(who)[4] = "neighbours"
  BY <1>1
<1>4. body = a \o b \o c \o d
  <2>1. body = RtEmit(got)
    BY DEF CollectInv, Emit
  <2>2. /\ Frames(got, "links") = F("links") /\ Frames(got, "addresses") = F("addresses")
        /\ Frames(got, "routes") = F("routes")
        /\ Frames(got, "neighbours") = F("neighbours")
    BY <1>2, <1>3
  <2>3. RtEmit(got) = RtLinks(Frames(got, "links")) \o RtAddresses(Frames(got, "addresses"))
                     \o RtRoutes(Frames(got, "routes")) \o RtNeighbours(Frames(got, "neighbours"))
    BY RtParts
  <2> HIDE DEF F
  <2> QED BY <2>1, <2>2, <2>3
<1>5. PICK T1 : F("links") \in Seq(T1)
  BY <1>2, <1>3
<1>6. PICK T2 : F("addresses") \in Seq(T2)
  BY <1>2, <1>3
<1>7. PICK T3 : F("routes") \in Seq(T3)
  BY <1>2, <1>3
<1>8. PICK T4 : F("neighbours") \in Seq(T4)
  BY <1>2, <1>3
<1> DEFINE k == Len(RtWholeOf(F("addresses")))
           m == Len(RtWholeOf(F("routes")))
           n == Len(RtUnbridged(RtWholeOf(F("neighbours"))))
<1>9. /\ Amount(b, "nft_address_count", "sum", k) /\ k \in Nat
      /\ NamedIn(b, {"nft_address_count"})
  BY <1>6, RtCountsAmount, RtCountsEach, OneEachNamed
<1>10. /\ Amount(c, "nft_route_count", "sum", m) /\ m \in Nat
       /\ NamedIn(c, {"nft_route_count"})
  BY <1>7, RtCountsAmount, RtCountsEach, OneEachNamed
<1>11. /\ Amount(d, "nft_neighbor_count", "sum", n) /\ n \in Nat
       /\ NamedIn(d, {"nft_neighbor_count"})
  BY <1>8, RtCountsAmount, RtCountsEach, OneEachNamed
<1>12. NamedIn(a, LinkNames)
  BY <1>5, RtLinksNamed
<1>13. /\ "nft_address_count" \notin LinkNames /\ "nft_route_count" \notin LinkNames
       /\ "nft_neighbor_count" \notin LinkNames
  BY DEF LinkNames, LinkCounters
<1>14. /\ WholeFrames("addresses") = RtWholeOf(F("addresses"))
       /\ WholeFrames("routes") = RtWholeOf(F("routes"))
       /\ Where(WholeFrames("neighbours"), LAMBDA f : f.family # "bridge")
             = RtUnbridged(RtWholeOf(F("neighbours")))
  BY DEF WholeFrames, RtWholeOf, RtUnbridged
<1> HIDE DEF F, a, b, c, d, k, m, n
<1>15. Summed(body, "nft_address_count") = k
  <2> DEFINE name == "nft_address_count"
  <2>1. name \notin {"nft_route_count"} /\ name \notin {"nft_neighbor_count"} /\ name \notin LinkNames
    BY <1>13
  <2> HIDE DEF name
  <2>2. Amount(a, name, "sum", 0) /\ Amount(c, name, "sum", 0) /\ Amount(d, name, "sum", 0)
    BY <1>10, <1>11, <1>12, <2>1, AmountNone
  <2>3. Amount(body, name, "sum", 0 + k + 0 + 0)
    BY <1>4, <1>9, <2>2, AmountFour DEF name
  <2>4. 0 + k + 0 + 0 = k
    BY <1>9
  <2> QED BY <2>3, <2>4, AmountSum DEF name
<1>16. Summed(body, "nft_route_count") = m
  <2> DEFINE name == "nft_route_count"
  <2>1. name \notin {"nft_address_count"} /\ name \notin {"nft_neighbor_count"} /\ name \notin LinkNames
    BY <1>13
  <2> HIDE DEF name
  <2>2. Amount(a, name, "sum", 0) /\ Amount(b, name, "sum", 0) /\ Amount(d, name, "sum", 0)
    BY <1>9, <1>11, <1>12, <2>1, AmountNone
  <2>3. Amount(body, name, "sum", 0 + 0 + m + 0)
    BY <1>4, <1>10, <2>2, AmountFour DEF name
  <2>4. 0 + 0 + m + 0 = m
    BY <1>10
  <2> QED BY <2>3, <2>4, AmountSum DEF name
<1>17. Summed(body, "nft_neighbor_count") = n
  <2> DEFINE name == "nft_neighbor_count"
  <2>1. name \notin {"nft_route_count"} /\ name \notin {"nft_address_count"} /\ name \notin LinkNames
    BY <1>13
  <2> HIDE DEF name
  <2>2. Amount(a, name, "sum", 0) /\ Amount(b, name, "sum", 0) /\ Amount(c, name, "sum", 0)
    BY <1>9, <1>10, <1>12, <2>1, AmountNone
  <2>3. Amount(body, name, "sum", 0 + 0 + 0 + n)
    BY <1>4, <1>11, <2>2, AmountFour DEF name
  <2>4. 0 + 0 + 0 + n = n
    BY <1>11
  <2> QED BY <2>3, <2>4, AmountSum DEF name
<1>18. \A name : SumOf(name) = Summed(body, name)
  BY DEF SumOf, Summed, Named
<1>19. /\ k = Len(WholeFrames("addresses")) /\ m = Len(WholeFrames("routes"))
       /\ n = Len(Where(WholeFrames("neighbours"), LAMBDA f : f.family # "bridge"))
  BY <1>14 DEF k, m, n, F
<1> QED BY <1>15, <1>16, <1>17, <1>18, <1>19

\* What the samples add of which the first alone is of the metric.
LEMMA AmountHead ==
  ASSUME NEW S, NEW s \in Seq(S), Len(s) > 0, NEW name, NEW what, Weight(s[1], name, what) \in Nat,
         \A i \in 2..Len(s) : s[i].name # name
  PROVE  Amount(s, name, what, Weight(s[1], name, what))
<1> DEFINE one == <<s[1]>>
           rest == [i \in 1..(Len(s) - 1) |-> s[i + 1]]
           names == {rest[i].name : i \in 1..(Len(s) - 1)}
           n == Weight(s[1], name, what)
<1>1. Len(s) \in Nat /\ Len(s) - 1 \in Nat /\ \A i \in 1..Len(s) : s[i] \in S
  OBVIOUS
<1>2. rest \in Seq(S) /\ Len(rest) = Len(s) - 1
  <2>1. rest \in [1..(Len(s) - 1) -> S]
    BY <1>1
  <2> HIDE DEF rest
  <2> QED BY <1>1, <2>1, FunctionIsSeq
<1>3. one \in Seq(S) /\ Len(one) = 1 /\ one[1] = s[1]
  BY <1>1
<1>4. \A i \in 1..(Len(s) - 1) : rest[i] = s[i + 1]
  OBVIOUS
<1>5. Amount(one, name, what, n)
  BY AmountOne
<1> HIDE DEF one, rest, n
<1>6. name \notin names
  BY <1>1, <1>4
<1>7. NamedIn(rest, names)
  BY <1>2 DEF NamedIn
<1> HIDE DEF names
<1>8. Amount(rest, name, what, 0)
  BY <1>6, <1>7, AmountNone
<1>9. Joins(one \o rest, one, rest, S)
  BY <1>2, <1>3, JoinParts
<1> DEFINE u == one \o rest
<1> HIDE DEF u
<1>10. /\ u \in Seq(S) /\ Len(u) = 1 + (Len(s) - 1)
       /\ u[1] = s[1] /\ \A i \in 1..(Len(s) - 1) : u[1 + i] = rest[i]
  BY <1>2, <1>3, <1>9 DEF Joins, u
<1>11. \A i \in 1..Len(s) : u[i] = s[i]
  <2> SUFFICES ASSUME NEW i \in 1..Len(s) PROVE u[i] = s[i]
    OBVIOUS
  <2>1. CASE i = 1
    BY <1>10, <2>1
  <2>2. CASE i # 1
    <3>1. i - 1 \in 1..(Len(s) - 1) /\ 1 + (i - 1) = i /\ (i - 1) + 1 = i
      BY <1>1, <2>2
    <3>2. u[1 + (i - 1)] = rest[i - 1] /\ rest[i - 1] = s[(i - 1) + 1]
      BY <1>4, <1>10, <3>1
    <3> QED BY <3>1, <3>2
  <2> QED BY <2>1, <2>2
<1>12. u = s
  <2>1. Len(u) = Len(s)
    BY <1>1, <1>10
  <2>2. u = [i \in 1..Len(u) |-> u[i]] /\ s = [i \in 1..Len(s) |-> s[i]]
    BY <1>10
  <2> QED BY <1>11, <2>1, <2>2
<1>13. Amount(u, name, what, n + 0)
  BY <1>5, <1>8, AmountJoin DEF u
<1>14. n + 0 = n
  BY DEF n
<1> QED BY <1>12, <1>13, <1>14 DEF n

\* The weight of the elements with key k.
Share(S, items, w, K, k) == Weighed(Sifted(items, Keyed(S, K, k)), w)

\* When each bucket adds what its items weigh, they all add what all items do.
LEMMA AmountBuckets ==
  ASSUME NEW S, NEW items \in Seq(S), NEW w \in [S -> Nat], NEW K, NEW listed, NEW m,
         Lists(listed, {K[items[i]] : i \in 1..Len(items)}, m),
         NEW seqs, seqs = [i \in 1..m |-> seqs[i]], NEW name, NEW what,
         \A i \in 1..m : Share(S, items, w, K, listed[i]) \in Nat
                         => Amount(seqs[i], name, what, Share(S, items, w, K, listed[i]))
  PROVE  Amount(FlattenSeq(seqs), name, what, Weighed(items, w))
<1> DEFINE v == [i \in 1..m |-> Share(S, items, w, K, listed[i])]
<1>1. /\ m \in Nat /\ DOMAIN listed = 1..m
      /\ \A i, j \in 1..m : listed[i] = listed[j] => i = j
      /\ \A i \in 1..Len(items) : \E j \in 1..m : listed[j] = K[items[i]]
  BY DEF Lists
<1>2. Shares(S, items, w, K, listed, m)
  BY <1>1, WeighedBuckets
<1>3. /\ \A i \in 1..m : Share(S, items, w, K, listed[i]) \in Nat
      /\ FirstTotal(v, m) = Weighed(items, w)
  BY <1>2, Zenon DEF Shares, Share
<1>4. \A i \in 1..m : Amount(seqs[i], name, what, v[i])
  BY <1>3
<1> HIDE DEF v
<1>5. Amount(FlattenSeq(seqs), name, what, FirstTotal(v, m))
  BY <1>1, <1>4, AmountFlatten
<1> QED BY <1>3, <1>5

\* A function on the numbers up to n is a sequence of the elements it has.
LEMMA TupleIsSeq ==
  ASSUME NEW n \in Nat, NEW s, s = [i \in 1..n |-> s[i]]
  PROVE  s \in Seq({s[i] : i \in 1..n}) /\ Len(s) = n
<1> DEFINE T == {s[i] : i \in 1..n}
<1>1. s \in [1..n -> T]
  OBVIOUS
<1> HIDE DEF T
<1>2. s \in Seq(T) /\ Len(s) = n
  BY <1>1, FunctionIsSeq
<1> QED BY <1>2 DEF T

\* What the buckets of traffic control add for the bytes.
LEMMA TcBucketAmount ==
  ASSUME NEW S, NEW same \in Seq(S), NEW b \in [S -> Nat], \A x \in S : b[x] = x.bytes,
         Weighed(same, b) <= SumMax, Weighed(same, b) \in Nat, NEW labels
  PROVE  Amount(TcSamples(labels, same), "nft_tc_qdisc_bytes_total", "sum", Weighed(same, b))
<1> DEFINE name == "nft_tc_qdisc_bytes_total"
           s == TcSamples(labels, same)
           T == {s[i] : i \in 1..5}
           n == Weighed(same, b)
<1>1. s = [i \in 1..5 |-> s[i]]
  BY DEF TcSamples
<1>2. /\ s[2].name # name /\ s[3].name # name /\ s[4].name # name /\ s[5].name # name
  BY DEF TcSamples, Counter, Gauge
<1>3. Saturating(same, LAMBDA q : q.bytes) = n
  <2>1. DOMAIN same = 1..Len(same) /\ \A i \in 1..Len(same) : b[same[i]] = same[i].bytes
    OBVIOUS
  <2>2. [i \in DOMAIN same |-> same[i].bytes] = [i \in 1..Len(same) |-> b[same[i]]]
    BY <2>1
  <2>3. TotalOf(same, LAMBDA q : q.bytes) = n
    BY <2>2 DEF TotalOf, MapSeq, Weighed
  <2>4. n < SumMax \/ n = SumMax
    BY SumMaxAssumption
  <2>5. Saturating(same, LAMBDA q : q.bytes) = Smaller(n, SumMax)
    BY <2>3 DEF Saturating
  <2> QED BY <2>4, <2>5 DEF Smaller
<1>4. s[1].name = name /\ s[1].value = n
  <2>1. s[1] = Counter(name, labels, Saturating(same, LAMBDA q : q.bytes))
    BY DEF TcSamples
  <2> HIDE DEF s, n
  <2> QED BY <1>3, <2>1 DEF Counter
<1> HIDE DEF s, n
<1>5. s \in Seq(T) /\ Len(s) = 5
  BY <1>1, TupleIsSeq
<1>6. Weight(s[1], name, "sum") = n
  BY <1>4 DEF Weight
<1>7. n \in Nat
  BY DEF n
<1> HIDE DEF T
<1>8. \A i \in 2..Len(s) : s[i].name # name
  <2>1. \A i \in 2..5 : i = 2 \/ i = 3 \/ i = 4 \/ i = 5
    OBVIOUS
  <2> QED BY <1>2, <1>5, <2>1
<1>9. Amount(s, name, "sum", n)
  <2>1. Len(s) > 0
    BY <1>5
  <2>2. Weight(s[1], name, "sum") \in Nat
    BY <1>6, <1>7
  <2>3. Amount(s, name, "sum", Weight(s[1], name, "sum"))
    BY <1>5, <1>8, <2>1, <2>2, AmountHead, Zenon
  <2> QED BY <1>6, <2>3, Zenon
<1> QED BY <1>9 DEF s, n

\* Those of the sockets, for their number.
LEMMA SockBucketAmount ==
  ASSUME NEW S, NEW same \in Seq(S), NEW key
  PROVE  Amount(SockBucketSamples(key, same), "nft_socket_count", "sum", Len(same))
<1> DEFINE name == "nft_socket_count"
           s == SockBucketSamples(key, same)
           T == {s[i] : i \in 1..3}
           n == Len(same)
<1>1. s = [i \in 1..3 |-> s[i]]
  BY DEF SockBucketSamples
<1>2. s[2].name # name /\ s[3].name # name
  BY DEF SockBucketSamples, Gauge
<1>3. s[1].name = name /\ s[1].value = n
  BY DEF SockBucketSamples, Gauge
<1>4. n \in Nat
  OBVIOUS
<1> HIDE DEF s, n
<1>5. s \in Seq(T) /\ Len(s) = 3
  <2>1. s \in [1..3 -> T]
    BY <1>1
  <2> HIDE DEF T
  <2> QED BY <2>1, FunctionIsSeq
<1>6. Weight(s[1], name, "sum") = n
  BY <1>3 DEF Weight
<1> HIDE DEF T
<1>7. \A i \in 2..Len(s) : s[i].name # name
  <2>1. \A i \in 2..3 : i = 2 \/ i = 3
    OBVIOUS
  <2> QED BY <1>2, <1>5, <2>1
<1>8. Amount(s, name, "sum", n)
  BY <1>4, <1>5, <1>6, <1>7, AmountHead
<1> QED BY <1>8 DEF s, n

\* Every socket is in one bucket.
LEMMA SockCountsAmount ==
  ASSUME NEW S, NEW items \in Seq(S)
  PROVE  Amount(SockCounts(items), "nft_socket_count", "sum", Len(items))
<1> DEFINE Key(s) == [protocol |-> s.protocol, state |-> s.state]
           K == [x \in S |-> Key(x)]
           keys == [i \in 1..Len(items) |-> K[items[i]]]
           D == {K[items[i]] : i \in 1..Len(items)}
           listed == SetToSeq(D)
           m == Cardinality(D)
           one == [x \in S |-> 1]
           Same(k) == Sifted(items, Keyed(S, K, k))
           seqs == [i \in 1..m |-> SockBucketSamples(listed[i], Same(listed[i]))]
<1>1. Len(items) \in Nat /\ DOMAIN items = 1..Len(items) /\ \A i \in 1..Len(items) : items[i] \in S
  OBVIOUS
<1>2. Lists(listed, D, m)
  <2>1. keys \in [1..Len(items) -> D]
    OBVIOUS
  <2>2. D = {keys[i] : i \in 1..Len(items)}
    OBVIOUS
  <2> HIDE DEF keys, D
  <2>3. keys \in Seq(D) /\ DOMAIN keys = 1..Len(items)
    BY <1>1, <2>1, FunctionIsSeq
  <2> QED BY <2>2, <2>3, KeysListed
<1>3. SockCounts(items) = FlattenSeq(seqs)
  <2> DEFINE Kept(k) == FlattenSeq([i \in DOMAIN items |-> IF Key(items[i]) = k THEN <<items[i]>> ELSE <<>>])
  <2>1. D = {Key(items[i]) : i \in DOMAIN items}
    BY <1>1
  <2>2. SockCounts(items) = Grouped(items, Key, SockBucketSamples)
    BY DEF SockCounts
  <2>3. Grouped(items, Key, SockBucketSamples)
        = Each(listed, LAMBDA k : SockBucketSamples(k, Where(items, LAMBDA x : Key(x) = k)))
    BY <2>1 DEF Grouped
  <2>4. ASSUME NEW k PROVE Kept(k) = Same(k)
    <3>1. \A j \in DOMAIN items : items[j] \in Keyed(S, K, k) <=> Key(items[j]) = k
      BY <1>1 DEF Keyed
    <3> HIDE DEF Key, K
    <3> QED BY <3>1 DEF Sifted
  <2>5. DOMAIN listed = 1..m
    BY <1>2 DEF Lists
  <2> HIDE DEF listed, m
  <2>6. SockCounts(items)
        = FlattenSeq([i \in DOMAIN listed |-> SockBucketSamples(listed[i], Kept(listed[i]))])
    BY <2>2, <2>3, Zenon DEF Each, MapSeq, Where
  <2> HIDE DEF Kept, Same
  <2>7. \A i \in 1..m : SockBucketSamples(listed[i], Kept(listed[i]))
                        = SockBucketSamples(listed[i], Same(listed[i]))
    BY <2>4
  <2> QED BY <2>5, <2>6, <2>7
<1>4. one \in [S -> Nat] /\ \A x \in S : one[x] = 1
  OBVIOUS
<1> HIDE DEF one, K, listed, m
<1>5. ASSUME NEW i \in 1..m
      PROVE  Amount(seqs[i], "nft_socket_count", "sum", Share(S, items, one, K, listed[i]))
  <2> DEFINE s == Same(listed[i])
  <2>1. s \in Seq(S)
    BY SiftedFilters
  <2>2. seqs[i] = SockBucketSamples(listed[i], s)
    OBVIOUS
  <2>3. Share(S, items, one, K, listed[i]) = Weighed(s, one)
    BY DEF Share
  <2> HIDE DEF s, seqs
  <2>4. \A j \in 1..Len(s) : one[s[j]] = 1
    BY <1>4, <2>1
  <2>5. Weighed(s, one) = Len(s)
    BY <1>4, <2>1, <2>4, WeighedLength
  <2> QED BY <2>1, <2>2, <2>3, <2>5, SockBucketAmount
<1>6. seqs = [i \in 1..m |-> seqs[i]]
  OBVIOUS
<1> HIDE DEF seqs
<1>7. Amount(FlattenSeq(seqs), "nft_socket_count", "sum", Weighed(items, one))
  BY <1>2, <1>4, <1>5, <1>6, AmountBuckets
<1>8. Weighed(items, one) = Len(items)
  BY <1>1, <1>4, WeighedLength
<1> QED BY <1>3, <1>7, <1>8

\* What is kept of a sequence weighs no more than all of it.
LEMMA ShareLess ==
  ASSUME NEW S, NEW items \in Seq(S), NEW w \in [S -> Nat], NEW P
  PROVE  /\ Sifted(items, P) \in Seq(S)
         /\ Weighed(Sifted(items, P), w) \in Nat /\ Weighed(items, w) \in Nat
         /\ Weighed(Sifted(items, P), w) <= Weighed(items, w)
<1> DEFINE u == Within(w, P)
           s == Sifted(items, P)
<1>1. s \in Seq(S) /\ u \in [S -> Nat] /\ Weighed(s, w) = Weighed(items, u)
  BY WeighedSifted
<1>2. \A x \in S : u[x] <= w[x]
  BY DEF Within
<1> HIDE DEF u, s
<1>3. Weighed(items, u) <= Weighed(items, w)
  BY <1>1, <1>2, WeighedLess
<1>4. Weighed(items, u) \in Nat /\ Weighed(items, w) \in Nat
  BY <1>1, WeightsType
<1> QED BY <1>1, <1>3, <1>4 DEF s

\* The bytes of the disciplines, short of the largest number.
LEMMA TcItemsAmount ==
  ASSUME NEW S, NEW g, TcQdiscs(g) \in Seq(S), NEW b \in [S -> Nat], \A x \in S : b[x] = x.bytes,
         Weighed(TcQdiscs(g), b) <= SumMax
  PROVE  Amount(TcEmit(g), "nft_tc_qdisc_bytes_total", "sum", Weighed(TcQdiscs(g), b))
<1> DEFINE items == TcQdiscs(g)
           Key(q) == [device |-> q.device, kind |-> q.kind]
           K == [x \in S |-> Key(x)]
           keys == [i \in 1..Len(items) |-> K[items[i]]]
           D == {K[items[i]] : i \in 1..Len(items)}
           listed == SetToSeq(D)
           m == Cardinality(D)
           Same(k) == Sifted(items, Keyed(S, K, k))
           seqs == [i \in 1..m |-> TcSamples(listed[i], Same(listed[i]))]
<1>1. /\ items \in Seq(S) /\ Len(items) \in Nat /\ DOMAIN items = 1..Len(items)
      /\ \A i \in 1..Len(items) : items[i] \in S
  OBVIOUS
<1>2. Lists(listed, D, m)
  <2>1. keys \in [1..Len(items) -> D]
    OBVIOUS
  <2>2. D = {keys[i] : i \in 1..Len(items)}
    OBVIOUS
  <2> HIDE DEF keys, D
  <2>3. keys \in Seq(D) /\ DOMAIN keys = 1..Len(items)
    BY <1>1, <2>1, FunctionIsSeq
  <2> QED BY <2>2, <2>3, KeysListed
<1>3. TcEmit(g) = FlattenSeq(seqs)
  <2> DEFINE Kept(k) == FlattenSeq([i \in DOMAIN items |-> IF Key(items[i]) = k THEN <<items[i]>> ELSE <<>>])
  <2>1. D = {Key(items[i]) : i \in DOMAIN items}
    BY <1>1
  <2>2. TcEmit(g) = Grouped(items, Key, TcSamples)
    BY DEF TcEmit
  <2>3. Grouped(items, Key, TcSamples)
        = Each(listed, LAMBDA k : TcSamples(k, Where(items, LAMBDA x : Key(x) = k)))
    BY <2>1 DEF Grouped
  <2>4. ASSUME NEW k PROVE Kept(k) = Same(k)
    <3>1. \A j \in DOMAIN items : items[j] \in Keyed(S, K, k) <=> Key(items[j]) = k
      BY <1>1 DEF Keyed
    <3> HIDE DEF Key, K, items
    <3> QED BY <3>1 DEF Sifted
  <2>5. DOMAIN listed = 1..m
    BY <1>2 DEF Lists
  <2> HIDE DEF listed, m
  <2>6. TcEmit(g) = FlattenSeq([i \in DOMAIN listed |-> TcSamples(listed[i], Kept(listed[i]))])
    BY <2>2, <2>3, Zenon DEF Each, MapSeq, Where
  <2> HIDE DEF Kept, Same
  <2>7. \A i \in 1..m : TcSamples(listed[i], Kept(listed[i])) = TcSamples(listed[i], Same(listed[i]))
    BY <2>4
  <2> QED BY <2>5, <2>6, <2>7
<1> HIDE DEF K, listed, m
<1>4. ASSUME NEW i \in 1..m
      PROVE  Amount(seqs[i], "nft_tc_qdisc_bytes_total", "sum", Share(S, items, b, K, listed[i]))
  <2> DEFINE s == Same(listed[i])
  <2>1. seqs[i] = TcSamples(listed[i], s) /\ Share(S, items, b, K, listed[i]) = Weighed(s, b)
    BY DEF Share
  <2> HIDE DEF items, seqs
  <2>2. /\ s \in Seq(S) /\ Weighed(s, b) \in Nat /\ Weighed(items, b) \in Nat
        /\ Weighed(s, b) <= Weighed(items, b)
    BY <1>1, ShareLess
  <2> HIDE DEF s
  <2>3. Weighed(items, b) <= SumMax
    BY DEF items
  <2>4. Weighed(s, b) <= SumMax
    BY <2>2, <2>3, SumMaxAssumption
  <2>5. Amount(TcSamples(listed[i], s), "nft_tc_qdisc_bytes_total", "sum", Weighed(s, b))
    BY <2>2, <2>4, TcBucketAmount
  <2> QED BY <2>1, <2>5
<1>5. seqs = [i \in 1..m |-> seqs[i]]
  OBVIOUS
<1> HIDE DEF seqs, items
<1>6. Amount(FlattenSeq(seqs), "nft_tc_qdisc_bytes_total", "sum", Weighed(items, b))
  BY <1>1, <1>2, <1>4, <1>5, AmountBuckets
<1> QED BY <1>3, <1>6 DEF items

\* The bytes of a frame: those of its discipline, if it has any.
TcBytes(f) == IF "basic" \in DOMAIN f THEN f.basic.bytes ELSE 0

\* The bytes of the disciplines are those of the frames.
LEMMA TcQdiscsAmount ==
  ASSUME NEW g, NEW T, NEW frames \in Seq(T), Frames(g, "qdiscs") = frames,
         \A i \in 1..Len(frames) : TcBytes(frames[i]) \in Nat
  PROVE  \E S : \E b \in [S -> Nat] :
            /\ TcQdiscs(g) \in Seq(S)
            /\ \A x \in S : b[x] = x.bytes
            /\ Weighed(TcQdiscs(g), b) = TotalOf(frames, TcBytes)
<1> DEFINE E == ElementsOf(frames)
           w == [f \in E |-> TcBytes(f)]
           P == {f \in E : "basic" \in DOMAIN f}
           W == Sifted(frames, P)
           Qdisc(f) == [device |-> TcDevice(g, f.ifindex), kind |-> Attr(f, "kind", "unknown"),
                        bytes |-> f.basic.bytes, packets |-> f.basic.packets,
                        queue |-> Attr(f, "queue", [drops |-> 0, overlimits |-> 0, backlog |-> 0])]
           s == [i \in DOMAIN W |-> Qdisc(W[i])]
           S == {Qdisc(f) : f \in P}
           b == [x \in S |-> x.bytes]
<1>1. frames \in Seq(E)
  BY SeqOfElements
<1>2. DOMAIN frames = 1..Len(frames) /\ \A i \in 1..Len(frames) : frames[i] \in E
  BY DEF ElementsOf
<1>3. w \in [E -> Nat]
  BY DEF ElementsOf
<1>4. \A f \in P : Qdisc(f).bytes = w[f] /\ w[f] \in Nat
  BY <1>3 DEF TcBytes
<1>5. TcQdiscs(g) = s
  <2>1. W = FlattenSeq([i \in DOMAIN frames |-> IF "basic" \in DOMAIN frames[i] THEN <<frames[i]>> ELSE <<>>])
    BY <1>2 DEF Sifted
  <2> HIDE DEF W
  <2> QED BY <2>1 DEF TcQdiscs, MapSeq, Where
<1>6. b \in [S -> Nat]
  <2>1. \A x \in S : x.bytes \in Nat
    BY <1>4
  <2> HIDE DEF S
  <2> QED BY <2>1
<1>7. Within(w, P) = w
  <2>1. \A f \in E : (IF f \in P THEN w[f] ELSE 0) = w[f]
    BY DEF TcBytes
  <2>2. DOMAIN w = E
    BY <1>3
  <2> HIDE DEF P
  <2>3. Within(w, P) = [f \in E |-> w[f]]
    BY <2>1, <2>2 DEF Within
  <2> QED BY <1>3, <2>3
<1>8. TotalOf(frames, TcBytes) = Weighed(frames, w)
  <2>1. [i \in DOMAIN frames |-> TcBytes(frames[i])] = [i \in 1..Len(frames) |-> w[frames[i]]]
    BY <1>2
  <2> QED BY <2>1 DEF TotalOf, MapSeq, Weighed
<1>9. /\ W \in Seq(E) /\ Filters(W, frames, P)
      /\ Weighed(W, w) = Weighed(frames, w)
  <2> HIDE DEF w, P, E
  <2> QED BY <1>1, <1>3, <1>7, SiftedFilters, WeighedSifted, SMTT(20)
<1>10. Len(W) \in Nat /\ DOMAIN W = 1..Len(W) /\ \A i \in 1..Len(W) : W[i] \in P
  <2> HIDE DEF W, E, w
  <2>1. Len(W) \in Nat /\ DOMAIN W = 1..Len(W)
    BY <1>9, SequenceBasics
  <2>2. \A i \in 1..Len(W) : \E j \in 1..Len(frames) : frames[j] \in P /\ W[i] = frames[j]
    BY <1>9, Zenon DEF Filters
  <2> HIDE DEF P
  <2> QED BY <2>1, <2>2
<1>11. \A x \in S : b[x] = x.bytes
  OBVIOUS
<1> HIDE DEF W
<1>12. \A i \in 1..Len(W) : s[i] \in S /\ b[s[i]] = w[W[i]]
  <2> HIDE DEF w, P, Qdisc
  <2>1. \A i \in 1..Len(W) : s[i] = Qdisc(W[i]) /\ Qdisc(W[i]) \in S
    BY <1>10
  <2> HIDE DEF S, s, b
  <2> QED BY <1>4, <1>10, <1>11, <2>1
<1>13. s \in Seq(S) /\ Len(s) = Len(W)
  <2>1. s \in [1..Len(W) -> S]
    BY <1>10, <1>12
  <2> HIDE DEF s, S
  <2> QED BY <1>10, <2>1, FunctionIsSeq
<1> HIDE DEF s, S, b, w, E, P, Qdisc
<1>14. Weighed(W, w) = Weighed(s, b)
  <2>1. \A i \in 1..Len(W) : w[W[i]] = b[s[i]]
    BY <1>12
  <2>2. [i \in 1..Len(W) |-> w[W[i]]] = [i \in 1..Len(s) |-> b[s[i]]]
    BY <1>13, <2>1
  <2> QED BY <2>2, Zenon DEF Weighed
<1> QED BY <1>5, <1>6, <1>8, <1>9, <1>11, <1>13, <1>14

\* tc.rs: every byte sent is in one bucket.
LEMMA TcAccounted ==
  ASSUME CollectInv, Succeeded, begun = now, Failures = <<>>, who = "traffic_control",
         TotalOf(AllFrames("qdiscs"), TcBytes) <= SumMax
  PROVE  SumOf("nft_tc_qdisc_bytes_total") = TotalOf(AllFrames("qdiscs"), TcBytes)
<1> DEFINE name == "nft_tc_qdisc_bytes_total"
           frames == AllFrames("qdiscs")
           n == TotalOf(frames, TcBytes)
<1>1. Names(who) = <<"links", "qdiscs">> /\ who \in Accounting
  BY DEF Names, Accounting
<1>2. 2 \in 1..Len(Names(who)) /\ Names(who)[2] = "qdiscs"
  BY <1>1
<1>3. /\ Frames(got, "qdiscs") = frames
      /\ \E T : frames \in Seq(T)
      /\ \A i \in 1..Len(frames) : Readable(who, "qdiscs", frames[i])
  BY <1>1, <1>2, AllAnswered, AllReadable
<1>4. PICK T : frames \in Seq(T)
  BY <1>3
<1>5. \A i \in 1..Len(frames) : TcBytes(frames[i]) \in Nat
  BY <1>3 DEF Readable, TcBytes
<1> HIDE DEF frames
<1>6. PICK S : \E b \in [S -> Nat] :
            /\ TcQdiscs(got) \in Seq(S)
            /\ \A x \in S : b[x] = x.bytes
            /\ Weighed(TcQdiscs(got), b) = n
  BY <1>3, <1>4, <1>5, TcQdiscsAmount
<1>7. PICK b \in [S -> Nat] :
            /\ TcQdiscs(got) \in Seq(S)
            /\ \A x \in S : b[x] = x.bytes
            /\ Weighed(TcQdiscs(got), b) = n
  BY <1>6
<1>8. n <= SumMax
  BY DEF frames
<1> HIDE DEF n
<1>9. Amount(TcEmit(got), name, "sum", n)
  BY <1>7, <1>8, TcItemsAmount
<1>10. body = TcEmit(got)
  BY DEF CollectInv, Emit
<1>11. Summed(body, name) = n
  BY <1>9, <1>10, AmountSum
<1>12. SumOf(name) = Summed(body, name)
  BY DEF SumOf, Summed, Named
<1> QED BY <1>11, <1>12 DEF n, frames

\* Sequences joined are as long as they are together.
LEMMA LengthFlatten ==
  ASSUME NEW n \in Nat, NEW seqs, seqs = [i \in 1..n |-> seqs[i]], NEW v,
         \A i \in 1..n : (\E T : seqs[i] \in Seq(T)) /\ Len(seqs[i]) = v[i]
  PROVE  /\ \E T : FlattenSeq(seqs) \in Seq(T)
         /\ Len(FlattenSeq(seqs)) = FirstTotal(v, n)
<1> DEFINE S == UNION {ElementsOf(seqs[i]) : i \in 1..n}
           one == [x \in S |-> 1]
           u == FlattenSeq(seqs)
<1>1. one \in [S -> Nat] /\ \A x \in S : one[x] = 1
  OBVIOUS
<1>2. ASSUME NEW i \in 1..n PROVE seqs[i] \in Seq(S)
  <2>1. PICK T : seqs[i] \in Seq(T)
    OBVIOUS
  <2>2. seqs[i] \in Seq(ElementsOf(seqs[i]))
    BY <2>1, SeqOfElements
  <2>3. ElementsOf(seqs[i]) \subseteq S
    OBVIOUS
  <2> HIDE DEF S
  <2> QED BY <2>2, <2>3
<1> HIDE DEF S, one
<1>3. seqs \in Seq(Seq(S)) /\ Len(seqs) = n
  <2>1. seqs \in [1..n -> Seq(S)]
    BY <1>2
  <2> QED BY <2>1, FunctionIsSeq
<1>4. /\ u \in Seq(S)
      /\ \A i \in 1..n : EachWeighs(seqs, one)[i] = Weighed(seqs[i], one)
      /\ Weighed(u, one) = FirstTotal(EachWeighs(seqs, one), n)
  BY <1>1, <1>3, WeighedFlatten, ZenonT(40)
<1>5. \A s \in Seq(S) : \A i \in 1..Len(s) : one[s[i]] = 1
  <2>1. \A s \in Seq(S) : \A i \in 1..Len(s) : s[i] \in S
    OBVIOUS
  <2> QED BY <1>1, <2>1
<1>6. \A i \in 1..n : EachWeighs(seqs, one)[i] = v[i]
  <2> SUFFICES ASSUME NEW i \in 1..n PROVE EachWeighs(seqs, one)[i] = v[i]
    OBVIOUS
  <2> DEFINE s == seqs[i]
  <2>1. s \in Seq(S) /\ Len(s) = v[i]
    BY <1>2
  <2> HIDE DEF s
  <2>2. Weighed(s, one) = Len(s)
    BY <1>1, <1>5, <2>1, WeighedLength
  <2> QED BY <1>4, <2>1, <2>2 DEF s
<1>7. FirstTotal(EachWeighs(seqs, one), n) = FirstTotal(v, n)
  BY <1>6, TotalAlike
<1> HIDE DEF u
<1>8. Weighed(u, one) = Len(u)
  BY <1>1, <1>4, <1>5, WeighedLength
<1> QED BY <1>4, <1>7, <1>8 DEF u

\* The sockets of a dump are its frames, short ones apart.
LEMMA SockOfLength ==
  ASSUME NEW d, NEW T, NEW frames \in Seq(T)
  PROVE  (\E S : SockOf(d, frames) \in Seq(S)) /\ Len(SockOf(d, frames)) = Len(RtWholeOf(frames))
<1> DEFINE W == RtWholeOf(frames)
           s == [i \in DOMAIN W |->
                    [protocol |-> d.protocol, state |-> SockState(d.protocol, W[i].state),
                     rqueue |-> W[i].rqueue, wqueue |-> W[i].wqueue, attrs |-> W[i]]]
<1>1. SockOf(d, frames) = s
  BY DEF SockOf, MapSeq, RtWholeOf, Where
<1>2. W \in Seq(T)
  BY RtFilters
<1> HIDE DEF W
<1>3. Len(W) \in Nat /\ DOMAIN W = 1..Len(W)
  BY <1>2
<1>4. s = [i \in 1..Len(W) |-> s[i]]
  BY <1>3
<1> HIDE DEF s
<1>5. s \in Seq({s[i] : i \in 1..Len(W)}) /\ Len(s) = Len(W)
  BY <1>3, <1>4, TupleIsSeq
<1> QED BY <1>1, <1>5 DEF W

\* The drops and retransmits have metrics of their own.
LEMMA SockOthersNamed ==
  ASSUME NEW S, NEW sockets \in Seq(S)
  PROVE  /\ NamedIn(SockDrops(SockWithDrops(sockets)), {"nft_socket_drops_total"})
         /\ NamedIn(SockResent(sockets, SockWithDrops(sockets)), {"nft_socket_retransmits_total"})
<1> DEFINE dropped == SockWithDrops(sockets)
           given == {s \in S : "drops" \in DOMAIN s.attrs}
<1>1. \A i \in DOMAIN sockets : sockets[i] \in S
  OBVIOUS
<1>2. dropped = Sifted(sockets, given)
  BY <1>1 DEF SockWithDrops, Where, Sifted
<1> HIDE DEF given, dropped
<1>3. dropped \in Seq(S)
  BY <1>2, SiftedFilters
<1>4. NamedIn(SockDrops(dropped), {"nft_socket_drops_total"})
  BY <1>3, SockDropsOnce
<1>5. NamedIn(SockResent(sockets, dropped), {"nft_socket_retransmits_total"})
  BY SockResentOnce
<1> QED BY <1>4, <1>5 DEF dropped

\* sockdiag.rs: every socket is in one bucket.
LEMMA SockAccounted ==
  ASSUME CollectInv, Succeeded, begun = now, Failures = <<>>, who = "sock_diag"
  PROVE  SumOf("nft_socket_count") = TotalOf(SockDumps, LAMBDA d : Len(WholeFrames(d.op)))
<1> DEFINE name == "nft_socket_count"
           F(i) == AllFrames(SockDumps[i].op)
           inner == [i \in 1..4 |-> SockOf(SockDumps[i], F(i))]
           v == [i \in 1..4 |-> Len(RtWholeOf(F(i)))]
           sockets == SockSockets(got)
           a == SockCounts(sockets)
           b == SockDrops(SockWithDrops(sockets))
           c == SockResent(sockets, SockWithDrops(sockets))
<1>1. /\ who \in Accounting /\ Len(Names(who)) = 4
      /\ \A k \in 1..4 : Names(who)[k] = SockDumps[k].op
  BY DEF Names, Accounting, SockDumps
<1>2. \A k \in 1..4 : Frames(got, SockDumps[k].op) = F(k) /\ \E T : F(k) \in Seq(T)
  <2> SUFFICES ASSUME NEW k \in 1..4
               PROVE  Frames(got, SockDumps[k].op) = F(k) /\ \E T : F(k) \in Seq(T)
    OBVIOUS
  <2>1. k \in 1..Len(Names(who)) /\ Names(who)[k] = SockDumps[k].op
    BY <1>1
  <2> QED BY <1>1, <2>1, AllAnswered, AllReadable
<1>3. DOMAIN SockDumps = 1..4
  BY DEF SockDumps
<1>4. sockets = FlattenSeq(inner)
  <2>1. sockets = FlattenSeq([i \in 1..4 |-> SockOf(SockDumps[i], Frames(got, SockDumps[i].op))])
    BY <1>3 DEF SockSockets, Each, MapSeq, SockOf
  <2>2. \A i \in 1..4 : SockOf(SockDumps[i], Frames(got, SockDumps[i].op)) = inner[i]
    BY <1>2
  <2>3. [i \in 1..4 |-> SockOf(SockDumps[i], Frames(got, SockDumps[i].op))] = inner
    BY <2>2
  <2> QED BY <2>1, <2>3
<1>5. body = a \o b \o c
  <2>1. SockEmit(got) = a \o b \o c
    BY DEF SockEmit, SockCounts, SockDrops, SockResent, Grouped, Each, MapSeq, Where
  <2>2. body = SockEmit(got)
    BY DEF CollectInv, Emit
  <2> QED BY <2>1, <2>2
<1> HIDE DEF F, sockets
<1>6. \A i \in 1..4 : (\E T : inner[i] \in Seq(T)) /\ Len(inner[i]) = v[i]
  BY <1>2, SockOfLength
<1>7. \A i \in 1..4 : v[i] \in Nat
  <2> SUFFICES ASSUME NEW i \in 1..4 PROVE Len(RtWholeOf(F(i))) \in Nat
    OBVIOUS
  <2>1. PICK T : F(i) \in Seq(T)
    BY <1>2
  <2>2. RtWholeOf(F(i)) \in Seq(T)
    BY <2>1, RtFilters
  <2> QED BY <2>2, SequenceBasics
<1>8. TotalOf(SockDumps, LAMBDA d : Len(WholeFrames(d.op))) = Total(v)
  <2>1. \A i \in 1..4 : Len(WholeFrames(SockDumps[i].op)) = v[i]
    BY DEF WholeFrames, RtWholeOf, F
  <2>2. [i \in DOMAIN SockDumps |-> Len(WholeFrames(SockDumps[i].op))] = v
    BY <1>3, <2>1
  <2> QED BY <2>2 DEF TotalOf, MapSeq
<1>9. inner = [i \in 1..4 |-> inner[i]] /\ v = [i \in 1..4 |-> v[i]]
  OBVIOUS
<1> HIDE DEF inner, v
<1>10. (\E T : sockets \in Seq(T)) /\ Len(sockets) = FirstTotal(v, 4)
  BY <1>4, <1>6, <1>9, LengthFlatten, ZenonT(40)
<1>11. PICK T : sockets \in Seq(T)
  BY <1>10
<1>12. v \in Seq(Nat) /\ Len(v) = 4
  <2>1. v \in [1..4 -> Nat]
    BY <1>7, <1>9
  <2> QED BY <2>1, FunctionIsSeq
<1>13. Total(v) = FirstTotal(v, 4) /\ Total(v) \in Nat
  BY <1>12, TotalFirsts
<1> DEFINE n == Total(v)
<1>14. Amount(a, name, "sum", n)
  <2>1. Amount(a, name, "sum", Len(sockets))
    BY <1>11, SockCountsAmount
  <2> QED BY <1>10, <1>13, <2>1
<1>15. /\ NamedIn(b, {"nft_socket_drops_total"}) /\ name \notin {"nft_socket_drops_total"}
       /\ NamedIn(c, {"nft_socket_retransmits_total"}) /\ name \notin {"nft_socket_retransmits_total"}
  BY <1>11, SockOthersNamed
<1> HIDE DEF a, b, c, n, name
<1>16. Amount(b, name, "sum", 0) /\ Amount(c, name, "sum", 0)
  BY <1>15, AmountNone
<1>17. Amount(a \o b, name, "sum", n + 0)
  BY <1>14, <1>16, AmountJoin
<1> DEFINE ab == a \o b
<1> HIDE DEF ab
<1>18. Amount(ab \o c, name, "sum", (n + 0) + 0)
  BY <1>16, <1>17, AmountJoin DEF ab
<1>19. (n + 0) + 0 = n
  BY <1>13 DEF n
<1>20. Amount(body, name, "sum", n)
  BY <1>5, <1>18, <1>19 DEF ab
<1>21. Summed(body, name) = n
  BY <1>20, AmountSum
<1>22. SumOf(name) = Summed(body, name)
  BY DEF SumOf, Summed, Named
<1> QED BY <1>8, <1>21, <1>22 DEF n, name

\* The comments of a rule, and its counters.
NftRecords(f) == Attr(f, "userdata", <<>>)
NftExprs(f) == Attr(f, "exprs", <<>>)
NftCounters(f) == Where(NftExprs(f), LAMBDA e : Attr(e, "name", "") = "counter")

\* A rule is reported, once, when it counts.
LEMMA NftRuleCountable ==
  ASSUME NEW f, NEW R, NEW E, NftRecords(f) \in Seq(R), NftExprs(f) \in Seq(E)
  PROVE  /\ \E T : NftRule(f) \in Seq(T)
         /\ Len(NftRule(f)) = IF Countable(f) THEN 1 ELSE 0
<1> DEFINE records == NftRecords(f)
           exprs == NftExprs(f)
           P == {r \in R : r.type = 0 /\ r.text # ""}
           Q == {e \in E : Attr(e, "name", "") = "counter"}
           C == NftCounters(f)
           Both(e) == {"bytes", "packets"} \subseteq DOMAIN e
           Commented == \E i \in 1..Len(records) : records[i] \in P
           First(i) == exprs[i] \in Q /\ \A j \in 1..Len(exprs) : exprs[j] \in Q => i <= j
<1>1. /\ DOMAIN records = 1..Len(records) /\ \A i \in 1..Len(records) : records[i] \in R
      /\ DOMAIN exprs = 1..Len(exprs) /\ Len(exprs) \in Nat
      /\ \A i \in 1..Len(exprs) : exprs[i] \in E
  OBVIOUS
<1>2. Countable(f) <=> Commented /\ \E i \in 1..Len(exprs) : First(i) /\ Both(exprs[i])
  <2>1. Countable(f) <=>
          /\ \E i \in DOMAIN records : records[i].type = 0 /\ records[i].text # ""
          /\ \E i \in DOMAIN exprs :
                /\ Attr(exprs[i], "name", "") = "counter" /\ Both(exprs[i])
                /\ \A j \in DOMAIN exprs : Attr(exprs[j], "name", "") = "counter" => i <= j
    BY DEF Countable, NftRecords, NftExprs
  <2> HIDE DEF records, exprs, Both
  <2> QED BY <1>1, <2>1
<1>3. NftComments(f) = Sifted(records, P)
  <2>1. NftComments(f) = Where(records, LAMBDA r : r.type = 0 /\ r.text # "")
    BY DEF NftComments, NftRecords
  <2> HIDE DEF records
  <2> QED BY <1>1, <2>1 DEF Where, Sifted
<1>4. C = Sifted(exprs, Q)
  <2> HIDE DEF exprs
  <2>1. C = Where(exprs, LAMBDA e : Attr(e, "name", "") = "counter")
    BY DEF NftCounters, exprs
  <2> HIDE DEF C
  <2> QED BY <1>1, <2>1 DEF Where, Sifted
<1>5. NftRule(f) = IF NftComments(f) = <<>> \/ C = <<>> \/ ~Both(C[1]) THEN <<>>
                   ELSE <<[labels |-> [table |-> Attr(f, "table", ""), chain |-> Attr(f, "chain", ""),
                                       comment |-> NftComments(f)[1].text],
                           bytes |-> C[1].bytes, packets |-> C[1].packets]>>
  BY DEF NftRule, NftCounters, NftExprs
<1> HIDE DEF records, exprs, P, Q, C
<1>6. NftComments(f) # <<>> <=> Commented
  <2>1. Sifted(records, P) \in Seq(R) /\ Filters(Sifted(records, P), records, P)
    BY SiftedFilters DEF records
  <2> DEFINE k == Sifted(records, P)
  <2> HIDE DEF k
  <2>2. Commented => k # <<>>
    BY <2>1, HasElement DEF Filters, k
  <2>3. k # <<>> => 1 \in 1..Len(k)
    BY <2>1 DEF k
  <2>4. k # <<>> => Commented
    BY <2>1, <2>3 DEF Filters, k
  <2> QED BY <1>3, <2>2, <2>4 DEF k
<1>7. C # <<>> => \E i \in 1..Len(exprs) : First(i)
  <2> SUFFICES ASSUME C # <<>> PROVE \E i \in 1..Len(exprs) : First(i)
    OBVIOUS
  <2>1. C \in Seq(E) /\ Filters(C, exprs, Q)
    BY <1>4, SiftedFilters DEF exprs
  <2>2. 1 \in 1..Len(C)
    BY <2>1
  <2> DEFINE I == {i \in 1..Len(exprs) : exprs[i] \in Q}
  <2>3. I \in SUBSET Nat
    BY <1>1 DEF exprs
  <2>4. \E i \in 1..Len(exprs) : exprs[i] \in Q
    BY <2>1, <2>2, Zenon DEF Filters
  <2>5. I # {}
    BY <2>4
  <2>6. \E i \in I : \A j \in I : i <= j
    BY <2>3, <2>5, LeastNumber
  <2> QED BY <2>6
<1>8. \A i \in 1..Len(exprs) : First(i) => C # <<>> /\ C[1] = exprs[i]
  BY <1>4, SiftedFirst DEF exprs
<1>9. Countable(f) <=> NftComments(f) # <<>> /\ C # <<>> /\ Both(C[1])
  <2> HIDE DEF Both, First, Commented
  <2> QED BY <1>2, <1>6, <1>7, <1>8
<1> HIDE DEF Both
<1>10. CASE Countable(f)
  <2>1. \E x : NftRule(f) = <<x>>
    BY <1>5, <1>9, <1>10
  <2>2. PICK x : NftRule(f) = <<x>>
    BY <2>1
  <2>3. <<x>> \in Seq({x}) /\ Len(<<x>>) = 1
    OBVIOUS
  <2> QED BY <1>10, <2>2, <2>3
<1>11. CASE ~Countable(f)
  <2>1. NftRule(f) = <<>>
    BY <1>5, <1>9, <1>11
  <2>2. <<>> \in Seq({}) /\ Len(<<>>) = 0
    OBVIOUS
  <2> QED BY <1>11, <2>1, <2>2
<1> QED BY <1>10, <1>11

\* As many rules are reported as count.
LEMMA NftRulesLength ==
  ASSUME NEW g, NEW T, NEW frames \in Seq(T), Frames(g, "rules") = frames,
         \A i \in 1..Len(frames) : /\ Sequential(NftRecords(frames[i]))
                                   /\ Sequential(NftExprs(frames[i]))
  PROVE  /\ \E S : NftRules(g) \in Seq(S)
         /\ Len(NftRules(g)) = Len(Where(frames, Countable))
         /\ Len(NftRules(g)) \in Nat
<1> DEFINE n == Len(frames)
           seqs == [i \in 1..n |-> NftRule(frames[i])]
           ones == [i \in 1..n |-> IF Countable(frames[i]) THEN <<frames[i]>> ELSE <<>>]
           v == [i \in 1..n |-> IF Countable(frames[i]) THEN 1 ELSE 0]
<1>1. n \in Nat /\ DOMAIN frames = 1..n
  BY SequenceBasics
<1>2. NftRules(g) = FlattenSeq(seqs)
  BY <1>1 DEF NftRules, Each, MapSeq
<1>3. Where(frames, Countable) = FlattenSeq(ones)
  BY <1>1 DEF Where
<1>4. \A i \in 1..n : (\E S : seqs[i] \in Seq(S)) /\ Len(seqs[i]) = v[i]
  BY NftRuleCountable DEF Sequential
<1>5. \A i \in 1..n : (\E S : ones[i] \in Seq(S)) /\ Len(ones[i]) = v[i]
  <2> SUFFICES ASSUME NEW i \in 1..n
               PROVE  (\E S : ones[i] \in Seq(S)) /\ Len(ones[i]) = v[i]
    OBVIOUS
  <2> DEFINE x == frames[i]
  <2>1. <<x>> \in Seq({x}) /\ Len(<<x>>) = 1 /\ <<>> \in Seq({x}) /\ Len(<<>>) = 0
    OBVIOUS
  <2>2. CASE Countable(x)
    BY <2>1, <2>2
  <2>3. CASE ~Countable(x)
    BY <2>1, <2>3
  <2> QED BY <2>2, <2>3
<1>6. seqs = [i \in 1..n |-> seqs[i]] /\ ones = [i \in 1..n |-> ones[i]]
  OBVIOUS
<1>7. \A i \in 1..n : v[i] \in Nat
  OBVIOUS
<1> HIDE DEF seqs, ones, v, n
<1>8. (\E S : FlattenSeq(seqs) \in Seq(S)) /\ Len(FlattenSeq(seqs)) = FirstTotal(v, n)
  BY <1>1, <1>4, <1>6, LengthFlatten
<1>9. Len(FlattenSeq(ones)) = FirstTotal(v, n)
  BY <1>1, <1>5, <1>6, LengthFlatten
<1>10. FirstTotal(v, n) \in Nat
  BY <1>1, <1>7, FirstTotalType
<1> QED BY <1>2, <1>3, <1>8, <1>9, <1>10

\* The first ones, up to the cap.
LEMMA TakeLength ==
  ASSUME NEW S, NEW s \in Seq(S), NEW n \in Nat
  PROVE  Take(s, n) \in Seq(S) /\ Len(Take(s, n)) = Smaller(n, Len(s))
<1> DEFINE m == Smaller(n, Len(s))
<1>1. m \in Nat /\ m <= Len(s)
  BY DEF Smaller
<1>2. Take(s, n) = SubSeq(s, 1, m)
  BY DEF Take
<1> HIDE DEF m
<1>3. SubSeq(s, 1, m) \in Seq(S) /\ Len(SubSeq(s, 1, m)) = m
  BY <1>1
<1> QED BY <1>2, <1>3 DEF m

\* The metrics of rules, and of all else.
NftRuleNames == {"nft_rule_counter_bytes_total", "nft_rule_counter_packets_total"}
NftPlain ==
    {"nft_table_info", "nft_chain_info", "nft_named_counter_bytes_total",
     "nft_named_counter_packets_total", "nft_set_elements", "nft_named_quota_bytes_total",
     "nft_named_quota_consumed_bytes_total", "nft_named_quota_depleted", "nft_named_limit_rate",
     "nft_named_limit_burst", "nft_ruleset_generation", "nft_flowtable_info"}

\* Samples are named as each of them is.
LEMMA TupleNamed ==
  ASSUME NEW n \in Nat, NEW s, s = [i \in 1..n |-> s[i]], NEW names,
         \A i \in 1..n : s[i].name \in names
  PROVE  NamedIn(s, names)
<1>1. s \in Seq({s[i] : i \in 1..n}) /\ Len(s) = n
  BY TupleIsSeq
<1>2. \E T : s \in Seq(T)
  BY <1>1
<1>3. \A i \in 1..Len(s) : s[i].name \in names
  BY <1>1
<1> QED BY <1>2, <1>3, Zenon DEF NamedIn

\* So is a single one.
LEMMA OneNamed ==
  ASSUME NEW x, NEW names, x.name \in names
  PROVE  NamedIn(<<x>>, names)
<1> DEFINE s == <<x>>
<1>1. s = [i \in 1..1 |-> s[i]] /\ s[1] = x /\ \A i \in 1..1 : i = 1
  OBVIOUS
<1> HIDE DEF s
<1>2. \A i \in 1..1 : s[i].name \in names
  BY <1>1
<1>3. NamedIn(s, names)
  BY <1>1, <1>2, TupleNamed
<1> QED BY <1>3 DEF s

\* What is made of each object has one of these names.
LEMMA NftObjectsNamed ==
  ASSUME NEW f
  PROVE  /\ NamedIn(NftTableInfo(f), NftPlain) /\ NamedIn(NftChainInfo(f), NftPlain)
         /\ NamedIn(NftCounterSamples(f), NftPlain) /\ NamedIn(NftSetSamples(f), NftPlain)
         /\ NamedIn(NftQuotaSamples(f), NftPlain) /\ NamedIn(NftLimitSamples(f), NftPlain)
         /\ NamedIn(NftFlowtableInfo(f), NftPlain)
<1>1. ASSUME NEW name \in NftPlain, NEW labels, NEW value
      PROVE  NamedIn(<<Gauge(name, labels, value)>>, NftPlain)
  <2> DEFINE x == Gauge(name, labels, value)
  <2>1. x.name = name
    BY DEF Gauge
  <2> HIDE DEF x
  <2>2. NamedIn(<<x>>, NftPlain)
    BY <2>1, OneNamed
  <2> QED BY <2>2 DEF x
<1>2. /\ "nft_table_info" \in NftPlain /\ "nft_chain_info" \in NftPlain
      /\ "nft_set_elements" \in NftPlain /\ "nft_flowtable_info" \in NftPlain
  BY DEF NftPlain
<1>3. NamedIn(NftTableInfo(f), NftPlain)
  BY <1>1, <1>2, Zenon DEF NftTableInfo
<1>4. NamedIn(NftChainInfo(f), NftPlain)
  BY <1>1, <1>2, Zenon DEF NftChainInfo
<1>5. NamedIn(NftFlowtableInfo(f), NftPlain)
  BY <1>1, <1>2, Zenon DEF NftFlowtableInfo
<1>6. NamedIn(NftSetSamples(f), NftPlain)
  <2>1. NamedIn(<<>>, NftPlain)
    BY DEF NamedIn
  <2>2. CASE Attr(f, "anonymous", FALSE)
    BY <2>1, <2>2, Zenon DEF NftSetSamples
  <2>3. CASE ~Attr(f, "anonymous", FALSE)
    BY <1>1, <1>2, <2>3, Zenon DEF NftSetSamples
  <2> QED BY <2>2, <2>3
<1>7. NamedIn(NftCounterSamples(f), NftPlain)
  <2> DEFINE s == NftCounterSamples(f)
  <2>1. s = [i \in 1..2 |-> s[i]]
    BY DEF NftCounterSamples
  <2>2. s[1].name = "nft_named_counter_bytes_total" /\ s[2].name = "nft_named_counter_packets_total"
    BY DEF NftCounterSamples, Counter
  <2> HIDE DEF s
  <2>3. \A i \in 1..2 : i = 1 \/ i = 2
    OBVIOUS
  <2>4. \A i \in 1..2 : s[i].name \in NftPlain
    BY <2>2, <2>3 DEF NftPlain
  <2>5. NamedIn(s, NftPlain)
    BY <2>1, <2>4, TupleNamed
  <2> QED BY <2>5 DEF s
<1>8. NamedIn(NftLimitSamples(f), NftPlain)
  <2> DEFINE s == NftLimitSamples(f)
  <2>1. s = [i \in 1..2 |-> s[i]]
    BY DEF NftLimitSamples
  <2>2. s[1].name = "nft_named_limit_rate" /\ s[2].name = "nft_named_limit_burst"
    BY DEF NftLimitSamples, Gauge
  <2> HIDE DEF s
  <2>3. \A i \in 1..2 : i = 1 \/ i = 2
    OBVIOUS
  <2>4. \A i \in 1..2 : s[i].name \in NftPlain
    BY <2>2, <2>3 DEF NftPlain
  <2>5. NamedIn(s, NftPlain)
    BY <2>1, <2>4, TupleNamed
  <2> QED BY <2>5 DEF s
<1>9. NamedIn(NftQuotaSamples(f), NftPlain)
  <2> DEFINE s == NftQuotaSamples(f)
  <2>1. s = [i \in 1..3 |-> s[i]]
    BY DEF NftQuotaSamples
  <2>2. /\ s[1].name = "nft_named_quota_bytes_total"
        /\ s[2].name = "nft_named_quota_consumed_bytes_total"
        /\ s[3].name = "nft_named_quota_depleted"
    BY DEF NftQuotaSamples, Gauge
  <2> HIDE DEF s
  <2>3. \A i \in 1..3 : i = 1 \/ i = 2 \/ i = 3
    OBVIOUS
  <2>4. \A i \in 1..3 : s[i].name \in NftPlain
    BY <2>2, <2>3 DEF NftPlain
  <2>5. NamedIn(s, NftPlain)
    BY <2>1, <2>4, TupleNamed
  <2> QED BY <2>5 DEF s
<1> QED BY <1>3, <1>4, <1>5, <1>6, <1>7, <1>8, <1>9

\* Objects are what is kept of the frames.
LEMMA NftListed ==
  ASSUME NEW g, NEW op, NEW type, NEW T, Frames(g, op) \in Seq(T)
  PROVE  NftNamed(g, op) \in Seq(T) /\ NftObjects(g, op, type) \in Seq(T)
<1> DEFINE frames == Frames(g, op)
           N == NftNamed(g, op)
           P == {f \in T : Attr(f, "name", "") # ""}
           Q == {f \in T : Attr(f, "type", "unspec") = type}
<1>1. \A s \in Seq(T) : \A i \in DOMAIN s : s[i] \in T
  OBVIOUS
<1>2. N = Sifted(frames, P)
  <2>1. N = Where(frames, LAMBDA f : Attr(f, "name", "") # "")
    BY DEF NftNamed
  <2> HIDE DEF frames, N
  <2>2. \A i \in DOMAIN frames : frames[i] \in P <=> Attr(frames[i], "name", "") # ""
    BY <1>1 DEF frames
  <2> HIDE DEF P
  <2> QED BY <2>1, <2>2 DEF Where, Sifted
<1>3. N \in Seq(T)
  <2> HIDE DEF N, P
  <2> QED BY <1>2, SiftedFilters
<1>4. NftObjects(g, op, type) = Sifted(N, Q)
  <2>1. NftObjects(g, op, type) = Where(N, LAMBDA f : Attr(f, "type", "unspec") = type)
    BY DEF NftObjects
  <2> HIDE DEF N
  <2>2. \A i \in DOMAIN N : N[i] \in Q <=> Attr(N[i], "type", "unspec") = type
    BY <1>1, <1>3
  <2> HIDE DEF Q
  <2> QED BY <2>1, <2>2 DEF Where, Sifted
<1> HIDE DEF N, Q
<1> QED BY <1>3, <1>4, SiftedFilters DEF N

\* So has what is made of several.
LEMMA NftEachNamed ==
  ASSUME NEW T, NEW s \in Seq(T)
  PROVE  /\ NamedIn(Each(s, NftTableInfo), NftPlain)
         /\ NamedIn(Each(s, NftChainInfo), NftPlain)
         /\ NamedIn(Each(s, NftCounterSamples), NftPlain)
         /\ NamedIn(Each(s, NftSetSamples), NftPlain)
         /\ NamedIn(Each(s, NftQuotaSamples), NftPlain)
         /\ NamedIn(Each(s, NftLimitSamples), NftPlain)
         /\ NamedIn(Each(s, NftFlowtableInfo), NftPlain)
<1>1. Len(s) \in Nat /\ DOMAIN s = 1..Len(s)
  BY SequenceBasics
<1>2. NamedIn(Each(s, NftTableInfo), NftPlain)
  <2> DEFINE seqs == [i \in 1..Len(s) |-> NftTableInfo(s[i])]
  <2>1. Each(s, NftTableInfo) = FlattenSeq(seqs)
    BY <1>1 DEF Each, MapSeq
  <2>2. \A i \in 1..Len(s) : NamedIn(seqs[i], NftPlain)
    BY NftObjectsNamed
  <2>3. seqs = [i \in 1..Len(s) |-> seqs[i]]
    OBVIOUS
  <2> HIDE DEF seqs
  <2> QED BY <1>1, <2>1, <2>2, <2>3, FlattenNamed
<1>3. NamedIn(Each(s, NftChainInfo), NftPlain)
  <2> DEFINE seqs == [i \in 1..Len(s) |-> NftChainInfo(s[i])]
  <2>1. Each(s, NftChainInfo) = FlattenSeq(seqs)
    BY <1>1 DEF Each, MapSeq
  <2>2. \A i \in 1..Len(s) : NamedIn(seqs[i], NftPlain)
    BY NftObjectsNamed
  <2>3. seqs = [i \in 1..Len(s) |-> seqs[i]]
    OBVIOUS
  <2> HIDE DEF seqs
  <2> QED BY <1>1, <2>1, <2>2, <2>3, FlattenNamed
<1>4. NamedIn(Each(s, NftCounterSamples), NftPlain)
  <2> DEFINE seqs == [i \in 1..Len(s) |-> NftCounterSamples(s[i])]
  <2>1. Each(s, NftCounterSamples) = FlattenSeq(seqs)
    BY <1>1 DEF Each, MapSeq
  <2>2. \A i \in 1..Len(s) : NamedIn(seqs[i], NftPlain)
    BY NftObjectsNamed
  <2>3. seqs = [i \in 1..Len(s) |-> seqs[i]]
    OBVIOUS
  <2> HIDE DEF seqs
  <2> QED BY <1>1, <2>1, <2>2, <2>3, FlattenNamed
<1>5. NamedIn(Each(s, NftSetSamples), NftPlain)
  <2> DEFINE seqs == [i \in 1..Len(s) |-> NftSetSamples(s[i])]
  <2>1. Each(s, NftSetSamples) = FlattenSeq(seqs)
    BY <1>1 DEF Each, MapSeq
  <2>2. \A i \in 1..Len(s) : NamedIn(seqs[i], NftPlain)
    BY NftObjectsNamed
  <2>3. seqs = [i \in 1..Len(s) |-> seqs[i]]
    OBVIOUS
  <2> HIDE DEF seqs
  <2> QED BY <1>1, <2>1, <2>2, <2>3, FlattenNamed
<1>6. NamedIn(Each(s, NftQuotaSamples), NftPlain)
  <2> DEFINE seqs == [i \in 1..Len(s) |-> NftQuotaSamples(s[i])]
  <2>1. Each(s, NftQuotaSamples) = FlattenSeq(seqs)
    BY <1>1 DEF Each, MapSeq
  <2>2. \A i \in 1..Len(s) : NamedIn(seqs[i], NftPlain)
    BY NftObjectsNamed
  <2>3. seqs = [i \in 1..Len(s) |-> seqs[i]]
    OBVIOUS
  <2> HIDE DEF seqs
  <2> QED BY <1>1, <2>1, <2>2, <2>3, FlattenNamed
<1>7. NamedIn(Each(s, NftLimitSamples), NftPlain)
  <2> DEFINE seqs == [i \in 1..Len(s) |-> NftLimitSamples(s[i])]
  <2>1. Each(s, NftLimitSamples) = FlattenSeq(seqs)
    BY <1>1 DEF Each, MapSeq
  <2>2. \A i \in 1..Len(s) : NamedIn(seqs[i], NftPlain)
    BY NftObjectsNamed
  <2>3. seqs = [i \in 1..Len(s) |-> seqs[i]]
    OBVIOUS
  <2> HIDE DEF seqs
  <2> QED BY <1>1, <2>1, <2>2, <2>3, FlattenNamed
<1>8. NamedIn(Each(s, NftFlowtableInfo), NftPlain)
  <2> DEFINE seqs == [i \in 1..Len(s) |-> NftFlowtableInfo(s[i])]
  <2>1. Each(s, NftFlowtableInfo) = FlattenSeq(seqs)
    BY <1>1 DEF Each, MapSeq
  <2>2. \A i \in 1..Len(s) : NamedIn(seqs[i], NftPlain)
    BY NftObjectsNamed
  <2>3. seqs = [i \in 1..Len(s) |-> seqs[i]]
    OBVIOUS
  <2> HIDE DEF seqs
  <2> QED BY <1>1, <2>1, <2>2, <2>3, FlattenNamed
<1> QED BY <1>2, <1>3, <1>4, <1>5, <1>6, <1>7, <1>8

\* Each rule has one series for the bytes, and none of other metrics.
LEMMA NftRuleOnce ==
  ASSUME NEW r
  PROVE  /\ Amount(NftRuleSamples(r), "nft_rule_counter_bytes_total", "count", 1)
         /\ NamedIn(NftRuleSamples(r), NftRuleNames)
<1> DEFINE name == "nft_rule_counter_bytes_total"
           s == NftRuleSamples(r)
<1>1. s = [i \in 1..2 |-> s[i]]
  BY DEF NftRuleSamples
<1>2. s[1].name = name /\ s[2].name = "nft_rule_counter_packets_total" /\ s[2].name # name
  BY DEF NftRuleSamples, Counter
<1>3. Weight(s[1], name, "count") = 1
  BY <1>2 DEF Weight
<1> HIDE DEF s
<1>4. \A i \in 1..2 : i = 1 \/ i = 2
  OBVIOUS
<1>5. \A i \in 1..2 : s[i].name \in NftRuleNames
  BY <1>2, <1>4 DEF NftRuleNames
<1>6. NamedIn(s, NftRuleNames)
  BY <1>1, <1>5, TupleNamed
<1> DEFINE T == {s[i] : i \in 1..2}
<1>7. s \in Seq(T) /\ Len(s) = 2
  BY <1>1, TupleIsSeq
<1> HIDE DEF T
<1>8. \A i \in 2..Len(s) : s[i].name # name
  <2>1. \A i \in 2..2 : i = 2
    OBVIOUS
  <2> QED BY <1>2, <1>7, <2>1
<1>9. Len(s) > 0 /\ Weight(s[1], name, "count") \in Nat
  BY <1>3, <1>7
<1>10. Amount(s, name, "count", Weight(s[1], name, "count"))
  BY <1>7, <1>8, <1>9, AmountHead, Zenon
<1>11. Amount(s, name, "count", 1)
  BY <1>3, <1>10, Zenon
<1> QED BY <1>6, <1>11 DEF s

\* So there are as many series as rules.
LEMMA NftRulesAmount ==
  ASSUME NEW T, NEW rules \in Seq(T)
  PROVE  /\ Amount(Each(rules, NftRuleSamples), "nft_rule_counter_bytes_total", "count", Len(rules))
         /\ NamedIn(Each(rules, NftRuleSamples), NftRuleNames)
<1> DEFINE name == "nft_rule_counter_bytes_total"
           n == Len(rules)
           seqs == [i \in 1..n |-> NftRuleSamples(rules[i])]
           one == [x \in T |-> 1]
           v == [i \in 1..n |-> one[rules[i]]]
<1>1. n \in Nat /\ DOMAIN rules = 1..n /\ \A i \in 1..n : rules[i] \in T
  OBVIOUS
<1>2. Each(rules, NftRuleSamples) = FlattenSeq(seqs)
  BY <1>1 DEF Each, MapSeq
<1>3. \A i \in 1..n : v[i] = 1
  BY <1>1
<1>4. \A i \in 1..n : Amount(seqs[i], name, "count", 1) /\ NamedIn(seqs[i], NftRuleNames)
  BY NftRuleOnce
<1>5. seqs = [i \in 1..n |-> seqs[i]] /\ v \in [1..n -> Nat]
  BY <1>3
<1>6. Weighed(rules, one) = Total(v)
  BY DEF Weighed
<1>7. one \in [T -> Nat] /\ \A i \in 1..n : one[rules[i]] = 1
  BY <1>1
<1> HIDE DEF one
<1>8. Weighed(rules, one) = Len(rules)
  BY <1>7, WeighedLength
<1> HIDE DEF seqs, v, n
<1>9. v \in Seq(Nat) /\ Len(v) = n
  BY <1>1, <1>5, FunctionIsSeq
<1>10. Total(v) = FirstTotal(v, n)
  BY <1>9, TotalFirsts
<1>11. \A i \in 1..n : Amount(seqs[i], name, "count", v[i])
  BY <1>3, <1>4
<1> HIDE DEF name
<1>12. Amount(FlattenSeq(seqs), name, "count", FirstTotal(v, n))
  BY <1>1, <1>5, <1>11, AmountFlatten
<1>13. NamedIn(FlattenSeq(seqs), NftRuleNames)
  BY <1>1, <1>4, <1>5, FlattenNamed
<1>14. Amount(FlattenSeq(seqs), name, "count", n)
  BY <1>6, <1>8, <1>10, <1>12 DEF n
<1> QED BY <1>2, <1>13, <1>14 DEF n, name

\* The rules beyond the cap are what the overflow tells.
LEMMA NftOverflowAmount ==
  ASSUME NEW rules, Len(rules) \in Nat
  PROVE  LET d == Len(rules) - Smaller(RuleCounterMaxSeries, Len(rules))
         IN  /\ d \in Nat
             /\ Amount(NftOverflow(rules), "nft_scrape_collector_error_total", "sum", d)
             /\ NamedIn(NftOverflow(rules), {"nft_scrape_collector_error_total"})
<1> DEFINE name == "nft_scrape_collector_error_total"
           L == Len(rules)
           cap == RuleCounterMaxSeries
           d == L - Smaller(cap, L)
           x == Counter(name, [collector |-> "nftables", reason |-> "cardinality_overflow"], d)
<1>1. L \in Nat /\ cap \in Nat
  BY RuleCapAssumption
<1>2. d \in Nat /\ (L > cap <=> d # 0) /\ (L > cap => d = L - cap)
  <2> HIDE DEF L, cap
  <2> QED BY <1>1 DEF Smaller
<1>3. NftOverflow(rules) = IF d = 0 THEN <<>> ELSE <<x>>
  <2>1. CASE L > cap
    BY <1>2, <2>1 DEF NftOverflow
  <2>2. CASE ~(L > cap)
    BY <1>2, <2>2 DEF NftOverflow
  <2> QED BY <2>1, <2>2
<1>4. x.name = name /\ Weight(x, name, "sum") = d
  BY DEF Weight, Counter
<1> HIDE DEF x, d, L, cap
<1>5. CASE d = 0
  <2> DEFINE none == <<>>
  <2>1. NamedIn(<<>>, {name}) /\ NamedIn(<<>>, {})
    BY DEF NamedIn
  <2>2. Amount(<<>>, name, "sum", 0)
    <3>1. name \notin {}
      OBVIOUS
    <3> QED BY <2>1, <3>1, AmountNone
  <2> QED BY <1>2, <1>3, <1>5, <2>1, <2>2 DEF d, L, cap
<1>6. CASE d # 0
  <2>1. Amount(<<x>>, name, "sum", d)
    BY <1>2, <1>4, AmountOne
  <2>2. NamedIn(<<x>>, {name})
    BY <1>4, OneNamed
  <2> QED BY <1>2, <1>3, <1>6, <2>1, <2>2 DEF d, L, cap
<1> QED BY <1>5, <1>6

\* Samples of other metrics add nothing to what there is.
LEMMA AmountPlain ==
  ASSUME NEW s, NEW t, NEW names, NEW name, NEW what, NEW n \in Nat, Amount(s, name, what, n),
         NamedIn(t, names), name \notin names
  PROVE  Amount(s \o t, name, what, n) /\ Amount(t \o s, name, what, n)
<1>1. Amount(t, name, what, 0)
  BY AmountNone
<1>2. Amount(s \o t, name, what, n + 0) /\ Amount(t \o s, name, what, 0 + n)
  BY <1>1, AmountJoin
<1>3. n + 0 = n /\ 0 + n = n
  OBVIOUS
<1> QED BY <1>2, <1>3

\* Six parts of other metrics do not either.
LEMMA AmountTail ==
  ASSUME NEW s, NEW names, NEW name, NEW what, NEW n \in Nat, Amount(s, name, what, n),
         name \notin names, NEW a, NEW b, NEW c, NEW d, NEW e, NEW f,
         NamedIn(a, names), NamedIn(b, names), NamedIn(c, names), NamedIn(d, names),
         NamedIn(e, names), NamedIn(f, names)
  PROVE  Amount(s \o a \o b \o c \o d \o e \o f, name, what, n)
<1> DEFINE s1 == s \o a
           s2 == s1 \o b
           s3 == s2 \o c
           s4 == s3 \o d
           s5 == s4 \o e
<1>1. Amount(s1, name, what, n)
  BY AmountPlain
<1> HIDE DEF s1
<1>2. Amount(s2, name, what, n)
  BY <1>1, AmountPlain
<1> HIDE DEF s2
<1>3. Amount(s3, name, what, n)
  BY <1>2, AmountPlain
<1> HIDE DEF s3
<1>4. Amount(s4, name, what, n)
  BY <1>3, AmountPlain
<1> HIDE DEF s4
<1>5. Amount(s5, name, what, n)
  BY <1>4, AmountPlain
<1> HIDE DEF s5
<1>6. Amount(s5 \o f, name, what, n)
  BY <1>5, AmountPlain
<1> QED BY <1>6 DEF s1, s2, s3, s4, s5

\* nftables.rs: every rule that counts is reported or is in the overflow.
LEMMA NftAccounted ==
  ASSUME CollectInv, Succeeded, begun = now, Failures = <<>>, who = "nftables"
  PROVE  CountOf("nft_rule_counter_bytes_total") + SumOf("nft_scrape_collector_error_total")
         = Len(Where(AllFrames("rules"), Countable))
<1> DEFINE bytes == "nft_rule_counter_bytes_total"
           error == "nft_scrape_collector_error_total"
           frames == AllFrames("rules")
           rules == NftRules(got)
           L == Len(rules)
           taken == Take(rules, RuleCounterMaxSeries)
           k == Len(taken)
           lost == L - k
           p == Each(NftNamed(got, "tables"), NftTableInfo)
           q == Each(NftNamed(got, "chains"), NftChainInfo)
           r == Each(taken, NftRuleSamples)
           o == NftOverflow(rules)
           a == Each(NftObjects(got, "counters", "counter"), NftCounterSamples)
           b == Each(NftNamed(got, "sets"), NftSetSamples)
           c == Each(NftObjects(got, "quotas", "quota"), NftQuotaSamples)
           d == Each(NftObjects(got, "limits", "limit"), NftLimitSamples)
           e == <<Gauge("nft_ruleset_generation", NoLabels, NftGeneration(got))>>
           f == Each(NftNamed(got, "flowtables"), NftFlowtableInfo)
<1>1. /\ who \in Accounting /\ Len(Names(who)) = 9
      /\ Names(who)[1] = "tables" /\ Names(who)[2] = "chains" /\ Names(who)[3] = "rules"
      /\ Names(who)[4] = "counters" /\ Names(who)[5] = "sets" /\ Names(who)[6] = "quotas"
      /\ Names(who)[7] = "limits" /\ Names(who)[9] = "flowtables"
  BY DEF Names, Accounting
<1>2. \A i \in 1..9 : /\ \E T : Frames(got, Names(who)[i]) \in Seq(T)
                      /\ Frames(got, Names(who)[i]) = AllFrames(Names(who)[i])
                      /\ \A j \in 1..Len(AllFrames(Names(who)[i])) :
                             Readable(who, Names(who)[i], AllFrames(Names(who)[i])[j])
  <2> SUFFICES ASSUME NEW i \in 1..9
               PROVE  /\ \E T : Frames(got, Names(who)[i]) \in Seq(T)
                      /\ Frames(got, Names(who)[i]) = AllFrames(Names(who)[i])
                      /\ \A j \in 1..Len(AllFrames(Names(who)[i])) :
                             Readable(who, Names(who)[i], AllFrames(Names(who)[i])[j])
    OBVIOUS
  <2>1. i \in 1..Len(Names(who))
    BY <1>1
  <2> QED BY <1>1, <2>1, AllAnswered, AllReadable
<1>3. /\ \E T : Frames(got, "tables") \in Seq(T)
      /\ \E T : Frames(got, "chains") \in Seq(T)
      /\ \E T : Frames(got, "counters") \in Seq(T)
      /\ \E T : Frames(got, "sets") \in Seq(T)
      /\ \E T : Frames(got, "quotas") \in Seq(T)
      /\ \E T : Frames(got, "limits") \in Seq(T)
      /\ \E T : Frames(got, "flowtables") \in Seq(T)
  BY <1>1, <1>2
<1>4. /\ Frames(got, "rules") = frames /\ \E T : frames \in Seq(T)
      /\ \A j \in 1..Len(frames) : Readable(who, "rules", frames[j])
  BY <1>1, <1>2
<1>5. body = p \o q \o r \o o \o a \o b \o c \o d \o e \o f
  <2>1. body = NftEmit(got)
    BY DEF CollectInv, Emit
  <2> QED BY <2>1, Zenon DEF NftEmit
<1>6. /\ NamedIn(p, NftPlain) /\ NamedIn(q, NftPlain) /\ NamedIn(a, NftPlain) /\ NamedIn(b, NftPlain)
      /\ NamedIn(c, NftPlain) /\ NamedIn(d, NftPlain) /\ NamedIn(f, NftPlain)
  BY <1>3, NftListed, NftEachNamed
<1>7. NamedIn(e, NftPlain)
  <2> DEFINE x == Gauge("nft_ruleset_generation", NoLabels, NftGeneration(got))
  <2>1. x.name \in NftPlain
    BY DEF Gauge, NftPlain
  <2> HIDE DEF x
  <2> QED BY <2>1, OneNamed DEF x
<1>8. /\ \E S : rules \in Seq(S)
      /\ L = Len(Where(frames, Countable))
      /\ L \in Nat
  <2>1. \A j \in 1..Len(frames) : /\ Sequential(NftRecords(frames[j]))
                                  /\ Sequential(NftExprs(frames[j]))
    BY <1>4 DEF Readable, NftRecords, NftExprs
  <2> HIDE DEF frames
  <2>2. PICK T : frames \in Seq(T)
    BY <1>4
  <2> QED BY <1>4, <2>1, <2>2, NftRulesLength
<1>9. PICK S : rules \in Seq(S)
  BY <1>8
<1>10. taken \in Seq(S) /\ k = Smaller(RuleCounterMaxSeries, L) /\ k \in Nat
  <2>1. taken \in Seq(S) /\ k = Smaller(RuleCounterMaxSeries, L)
    BY <1>9, RuleCapAssumption, TakeLength
  <2> QED BY <1>8, <2>1, RuleCapAssumption DEF Smaller
<1>11. Amount(r, bytes, "count", k) /\ NamedIn(r, NftRuleNames)
  BY <1>10, NftRulesAmount
<1>12. lost \in Nat /\ Amount(o, error, "sum", lost) /\ NamedIn(o, {error})
  BY <1>8, <1>10, NftOverflowAmount
<1>13. /\ bytes \notin NftPlain /\ bytes \notin {error}
       /\ error \notin NftPlain /\ error \notin NftRuleNames
  BY DEF NftPlain, NftRuleNames
<1>14. k + lost = L
  BY <1>8, <1>10
<1> HIDE DEF p, q, r, o, a, b, c, d, e, f, k, lost, L, taken, rules, frames, bytes, error
<1> DEFINE pq == p \o q
           pqr == pq \o r
           pqro == pqr \o o
<1>15. NamedIn(pq, NftPlain)
  <2>1. NamedIn(pq, NftPlain \cup NftPlain)
    BY <1>6, JoinNamed
  <2>2. NftPlain \cup NftPlain = NftPlain
    OBVIOUS
  <2> QED BY <2>1, <2>2
<1> HIDE DEF pq
<1>16. Amount(pqr, bytes, "count", k)
  BY <1>10, <1>11, <1>13, <1>15, AmountPlain
<1>17. Amount(pqr, error, "sum", 0)
  <2>1. NamedIn(pqr, NftPlain \cup NftRuleNames)
    BY <1>11, <1>15, JoinNamed
  <2>2. error \notin NftPlain \cup NftRuleNames
    BY <1>13
  <2> HIDE DEF pqr
  <2> QED BY <2>1, <2>2, AmountNone
<1> HIDE DEF pqr
<1>18. Amount(pqro, bytes, "count", k)
  BY <1>10, <1>12, <1>13, <1>16, AmountPlain
<1>19. Amount(pqro, error, "sum", lost)
  <2>1. Amount(pqro, error, "sum", 0 + lost)
    BY <1>12, <1>17, AmountJoin
  <2>2. 0 + lost = lost
    BY <1>12
  <2> QED BY <2>1, <2>2
<1>20. body = pqro \o a \o b \o c \o d \o e \o f
  BY <1>5 DEF pq, pqr, pqro
<1> HIDE DEF pqro
<1>21. Amount(body, bytes, "count", k)
  BY <1>6, <1>7, <1>10, <1>13, <1>18, <1>20, AmountTail
<1>22. Amount(body, error, "sum", lost)
  BY <1>6, <1>7, <1>12, <1>13, <1>19, <1>20, AmountTail
<1>23. Len(Named(body, bytes)) = k /\ Summed(body, error) = lost
  BY <1>21, <1>22, AmountCount, AmountSum
<1>24. CountOf(bytes) = Len(Named(body, bytes)) /\ SumOf(error) = Summed(body, error)
  BY DEF CountOf, SumOf, Summed, Named
<1> QED BY <1>8, <1>14, <1>23, <1>24 DEF L, frames, bytes, error

-----------------------------------------------------------------------------
(* WireGuard and IPVS: what the second request lists is asked for in turn. *)

Staged == {"wireguard", "ipvs"}
Lister(c) == IF c = "wireguard" THEN "links" ELSE "services"
Member(c) == IF c = "wireguard" THEN "device" ELSE "dests"

\* What is asked for of the frames that are listed.
Members(c, frames) ==
    IF c = "wireguard" THEN WgListed(frames)
    ELSE MapSeq(Take(MapSeq(frames, IpvsService), IpvsMaxServices), IpvsKey)

\* A sequence with two elements in front of it.
LEMMA TwoInFront ==
  ASSUME NEW r, NEW q, NEW n \in Nat, NEW tail, tail = [i \in 1..n |-> tail[i]], NEW P,
         P = <<r, q>> \o tail
  PROVE  /\ Len(P) = 2 + n /\ P[1] = r /\ P[2] = q
         /\ \A i \in 1..n : P[i + 2] = tail[i]
<1> DEFINE front == <<r, q>>
           T == {tail[i] : i \in 1..n} \cup {r, q}
<1>1. front \in Seq(T) /\ Len(front) = 2 /\ front[1] = r /\ front[2] = q
  OBVIOUS
<1>2. tail \in Seq(T) /\ Len(tail) = n
  <2>1. \A i \in 1..n : tail[i] \in T
    OBVIOUS
  <2> HIDE DEF T
  <2>2. tail \in [1..n -> T]
    BY <2>1
  <2> QED BY <2>2, FunctionIsSeq
<1> HIDE DEF front, T
<1>3. Joins(front \o tail, front, tail, T)
  BY <1>1, <1>2, JoinParts
<1> DEFINE u == front \o tail
<1> HIDE DEF u
<1>4. /\ Len(u) = 2 + n /\ u[1] = r /\ u[2] = q
      /\ \A i \in 1..n : u[2 + i] = tail[i]
  BY <1>1, <1>2, <1>3 DEF Joins, u
<1>5. u = P
  BY DEF u, front
<1> QED BY <1>4, <1>5

\* What is asked for is a sequence.
LEMMA MembersSequence ==
  ASSUME NEW c \in Staged, NEW T, NEW frames \in Seq(T)
  PROVE  \E S : Members(c, frames) \in Seq(S)
<1>1. Len(frames) \in Nat /\ DOMAIN frames = 1..Len(frames) /\ \A i \in DOMAIN frames : frames[i] \in T
  OBVIOUS
<1>2. CASE c = "wireguard"
  <2> DEFINE P == {f \in T : "wireguard" \in Attr(f, "kinds", {}) /\ "name" \in DOMAIN f}
             W == Sifted(frames, P)
             s == [i \in DOMAIN W |-> W[i].name]
  <2>1. \A i \in DOMAIN frames :
           frames[i] \in P <=> "wireguard" \in Attr(frames[i], "kinds", {}) /\ "name" \in DOMAIN frames[i]
    BY <1>1
  <2>2. W \in Seq(T)
    BY SiftedFilters
  <2> HIDE DEF P
  <2>3. WgListed(frames) = s
    BY <2>1 DEF WgListed, Where, MapSeq, Sifted
  <2> HIDE DEF W
  <2>4. DOMAIN W = 1..Len(W) /\ Len(W) \in Nat
    BY <2>2
  <2>5. s = [i \in 1..Len(W) |-> s[i]]
    BY <2>4
  <2> HIDE DEF s
  <2>6. s \in Seq({s[i] : i \in 1..Len(W)})
    BY <2>4, <2>5, TupleIsSeq
  <2> QED BY <1>2, <2>3, <2>6 DEF Members
<1>3. CASE c = "ipvs"
  <2> DEFINE m == MapSeq(frames, IpvsService)
             W == Take(m, IpvsMaxServices)
             s == [i \in DOMAIN W |-> IpvsKey(W[i])]
             S == {m[i] : i \in 1..Len(frames)}
  <2>1. m = [i \in 1..Len(frames) |-> m[i]]
    BY <1>1 DEF MapSeq
  <2> HIDE DEF m
  <2>2. m \in Seq(S) /\ Len(m) = Len(frames)
    BY <1>1, <2>1, TupleIsSeq
  <2> HIDE DEF S
  <2>3. W \in Seq(S)
    BY <2>2, IpvsCapAssumption, TakeLength
  <2>4. Members(c, frames) = s
    BY <1>3 DEF Members, MapSeq, m
  <2> HIDE DEF W
  <2>5. DOMAIN W = 1..Len(W) /\ Len(W) \in Nat
    BY <2>3
  <2>6. s = [i \in 1..Len(W) |-> s[i]]
    BY <2>5
  <2> HIDE DEF s
  <2>7. s \in Seq({s[i] : i \in 1..Len(W)})
    BY <2>5, <2>6, TupleIsSeq
  <2> QED BY <2>4, <2>7
<1> QED BY <1>2, <1>3 DEF Staged

\* The plan asks for all of it, after the family and the list.
AsksInTurn(P, c, args) ==
    /\ Len(P) = 2 + Len(args)
    /\ P[1].op = "resolve" /\ P[2].op = Lister(c) /\ P[2].arg = NoArg
    /\ \A i \in 1..Len(args) : P[i + 2].op = Member(c) /\ P[i + 2].arg = args[i]

LEMMA StagedPlan ==
  ASSUME NEW c \in Staged, NEW g, NEW T, Members(c, Frames(g, Lister(c))) \in Seq(T)
  PROVE  AsksInTurn(Plan(c, g), c, Members(c, Frames(g, Lister(c))))
<1> DEFINE args == Members(c, Frames(g, Lister(c)))
           n == Len(args)
<1>1. n \in Nat /\ DOMAIN args = 1..n
  BY SequenceBasics
<1>2. /\ Resolve.op = "resolve"
      /\ \A op, k : Dump(op, k).op = op /\ Dump(op, k).arg = NoArg
      /\ \A op, k : OnFresh(Dump(op, k)).op = op /\ OnFresh(Dump(op, k)).arg = NoArg
      /\ \A op, a, k : DumpFor(op, a, k).op = op /\ DumpFor(op, a, k).arg = a
  BY DEF Resolve, Single, Dump, DumpFor, OnFresh, Request
<1>3. CASE c = "wireguard"
  <2> DEFINE tail == [i \in 1..n |-> DumpFor("device", args[i], MaxDumpRestarts)]
             q == OnFresh(Dump("links", MaxDumpRestarts))
  <2>1. args = WgInterfaces(g)
    BY <1>3 DEF WgInterfaces, Members, Lister
  <2>2. Plan(c, g) = <<Resolve, q>> \o MapSeq(args, LAMBDA name : DumpFor("device", name, MaxDumpRestarts))
    BY <1>3, <2>1 DEF Plan, WgPlan
  <2> HIDE DEF args
  <2>3. Plan(c, g) = <<Resolve, q>> \o tail
    BY <1>1, <2>2 DEF MapSeq
  <2>4. tail = [i \in 1..n |-> tail[i]] /\ \A i \in 1..n : tail[i].op = "device" /\ tail[i].arg = args[i]
    BY <1>2
  <2>5. q.op = "links" /\ q.arg = NoArg
    BY <1>2
  <2> HIDE DEF tail, n, q
  <2>6. /\ Len(Plan(c, g)) = 2 + n /\ Plan(c, g)[1] = Resolve /\ Plan(c, g)[2] = q
        /\ \A i \in 1..n : Plan(c, g)[i + 2] = tail[i]
    BY <1>1, <2>3, <2>4, TwoInFront
  <2>7. Lister(c) = "links" /\ Member(c) = "device"
    BY <1>3 DEF Lister, Member
  <2> QED BY <1>2, <2>4, <2>5, <2>6, <2>7 DEF AsksInTurn, n, args
<1>4. CASE c = "ipvs"
  <2> DEFINE services == IpvsServices(g)
             tail == [i \in 1..n |-> DumpFor("dests", args[i], 1)]
             q == Dump("services", MaxDumpRestarts)
  <2>1. args = MapSeq(services, IpvsKey)
    BY <1>4 DEF IpvsServices, Members, Lister
  <2>2. Plan(c, g) = <<Resolve, q>> \o MapSeq(services, LAMBDA svc : DumpFor("dests", IpvsKey(svc), 1))
    BY <1>4 DEF Plan, IpvsPlan
  <2> HIDE DEF args, services
  <2>3. DOMAIN services = 1..n /\ \A i \in 1..n : args[i] = IpvsKey(services[i])
    BY <1>1, <2>1 DEF MapSeq
  <2>4. MapSeq(services, LAMBDA svc : DumpFor("dests", IpvsKey(svc), 1)) = tail
    BY <2>3 DEF MapSeq
  <2>5. tail = [i \in 1..n |-> tail[i]] /\ \A i \in 1..n : tail[i].op = "dests" /\ tail[i].arg = args[i]
    BY <1>2
  <2>6. q.op = "services" /\ q.arg = NoArg
    BY <1>2
  <2>7. Plan(c, g) = <<Resolve, q>> \o tail
    BY <2>2, <2>4
  <2> HIDE DEF tail, n, q
  <2>8. /\ Len(Plan(c, g)) = 2 + n /\ Plan(c, g)[1] = Resolve /\ Plan(c, g)[2] = q
        /\ \A i \in 1..n : Plan(c, g)[i + 2] = tail[i]
    BY <1>1, <2>5, <2>7, TwoInFront
  <2>9. Lister(c) = "services" /\ Member(c) = "dests"
    BY <1>4 DEF Lister, Member
  <2> QED BY <1>2, <2>5, <2>6, <2>8, <2>9 DEF AsksInTurn, n, args
<1> QED BY <1>3, <1>4 DEF Staged

\* The answers were given to these requests, each in turn.
AnsweredInTurn(c, args) ==
    /\ Len(got) = 2 + Len(args) /\ Len(args) \in Nat /\ DOMAIN args = 1..Len(args)
    /\ got[1].op = "resolve" /\ got[2].op = Lister(c)
    /\ \E r : r.op = Lister(c) /\ r.arg = NoArg /\ Real(c, begun, now, r, got[2])
    /\ \A i \in 1..Len(args) :
          /\ got[i + 2].op = Member(c)
          /\ \E r : r.op = Member(c) /\ r.arg = args[i] /\ Real(c, begun, now, r, got[i + 2])

\* Of two staged collectors the three names differ.
LEMMA StagedNames ==
  ASSUME NEW c \in Staged
  PROVE  Lister(c) # "resolve" /\ Member(c) # Lister(c) /\ Member(c) # "resolve"
BY DEF Staged, Lister, Member

\* The frames of the list are those of the second answer.
LEMMA ListerFrames ==
  ASSUME NEW c \in Staged, NEW g, NEW T, g \in Seq(T), Len(g) >= 2,
         \A i \in 1..Len(g) : \E S : g[i].frames \in Seq(S),
         \A i \in 1..Len(g) : g[i].op = Lister(c) <=> i = 2
  PROVE  Frames(g, Lister(c)) = g[2].frames
<1> DEFINE n == Len(g)
           op == Lister(c)
           seqs == [i \in 1..n |-> IF g[i].op = op THEN g[i].frames ELSE <<>>]
<1>1. n \in Nat /\ DOMAIN g = 1..n /\ 2 \in 1..n
  OBVIOUS
<1>2. Frames(g, op) = FlattenSeq(seqs)
  BY <1>1 DEF Frames
<1> HIDE DEF op
<1>3. PICK S : g[2].frames \in Seq(S)
  BY <1>1
<1>4. seqs[2] = g[2].frames /\ \A i \in 1..n : i # 2 => seqs[i] = <<>>
  BY <1>1 DEF op
<1>5. <<>> \in Seq(S)
  OBVIOUS
<1>6. seqs \in [1..n -> Seq(S)]
  BY <1>3, <1>4, <1>5
<1> HIDE DEF seqs, n
<1>7. FlattenSeq(seqs) = seqs[2]
  BY <1>1, <1>4, <1>6, FlattenOnly, Zenon
<1> QED BY <1>2, <1>4, <1>7 DEF op

\* Those of a collect() that is over.
LEMMA StagedGot ==
  ASSUME CollectInv, Succeeded, who \in Staged
  PROVE  /\ AnsweredInTurn(who, Members(who, got[2].frames))
         /\ Frames(got, Lister(who)) = got[2].frames
<1> DEFINE n == Len(got)
           Pre(i) == SubSeq(got, 1, i - 1)
           op == Lister(who)
           ArgsOf(g) == Members(who, Frames(g, op))
<1>1. PICK T : got \in Seq(T)
  BY DEF CollectInv
<1>2. /\ n \in Nat /\ DOMAIN got = 1..n /\ n = Len(Plan(who, got))
      /\ \A i \in 1..n : Real(who, begun, now, Requested(who, got, i), got[i])
      /\ \A i \in 1..n : Len(Plan(who, Pre(i))) > i - 1
  <2>1. n \in Nat /\ DOMAIN got = 1..n
    BY <1>1
  <2>2. n = Len(Plan(who, got))
    BY DEF CollectInv
  <2>3. \A i \in 1..n : Real(who, begun, now, Requested(who, got, i), got[i])
    BY DEF CollectInv
  <2>4. \A i \in 1..n : Len(Plan(who, Pre(i))) > i - 1
    BY DEF CollectInv
  <2> QED BY <2>1, <2>2, <2>3, <2>4
<1>3. \A i \in 1..n : (\E S : got[i].frames \in Seq(S)) /\ got[i].op = Requested(who, got, i).op
  BY <1>2, RealSequence
<1>4. \A i \in 1..n : /\ Pre(i) \in Seq(T) /\ Len(Pre(i)) = i - 1 /\ i - 1 \in Nat
                      /\ \A j \in 1..(i - 1) : Pre(i)[j] = got[j] /\ j \in 1..n
  BY <1>1, <1>2
<1> HIDE DEF Pre
<1>5. ASSUME NEW g, NEW k \in Nat, g \in Seq(T), Len(g) = k,
             \A j \in 1..k : g[j] = got[j] /\ j \in 1..n
      PROVE  (\E S : ArgsOf(g) \in Seq(S)) /\ AsksInTurn(Plan(who, g), who, ArgsOf(g))
  <2>1. DOMAIN g = 1..k
    BY <1>5
  <2>2. \A j \in 1..k : \E S : g[j].frames \in Seq(S)
    BY <1>3, <1>5
  <2>3. PICK S : Frames(g, op) \in Seq(S)
    BY <2>1, <2>2, FramesSequence
  <2>4. \E U : ArgsOf(g) \in Seq(U)
    BY <2>3, MembersSequence
  <2>5. PICK U : ArgsOf(g) \in Seq(U)
    BY <2>4
  <2>6. AsksInTurn(Plan(who, g), who, ArgsOf(g))
    BY <2>5, StagedPlan
  <2> QED BY <2>4, <2>6
<1>6. \A i \in 1..n : /\ \E S : ArgsOf(Pre(i)) \in Seq(S)
                      /\ AsksInTurn(Plan(who, Pre(i)), who, ArgsOf(Pre(i)))
  BY <1>4, <1>5
<1>7. (\E S : ArgsOf(got) \in Seq(S)) /\ AsksInTurn(Plan(who, got), who, ArgsOf(got))
  <2>1. \A j \in 1..n : got[j] = got[j] /\ j \in 1..n
    OBVIOUS
  <2> QED BY <1>1, <1>2, <1>5, <2>1
<1> HIDE DEF ArgsOf
<1>8. n = 2 + Len(ArgsOf(got)) /\ Len(ArgsOf(got)) \in Nat /\ DOMAIN ArgsOf(got) = 1..Len(ArgsOf(got))
  <2>1. Len(ArgsOf(got)) \in Nat /\ DOMAIN ArgsOf(got) = 1..Len(ArgsOf(got))
    BY <1>7, SequenceBasics
  <2> QED BY <1>2, <1>7, <2>1 DEF AsksInTurn
<1>9. \A i \in 1..n : Requested(who, got, i) = Plan(who, Pre(i))[i]
  BY DEF Requested, Pre
<1>10. ASSUME NEW i \in 1..n, i > 2
       PROVE  LET r == Requested(who, got, i)
              IN  /\ r.op = Member(who) /\ r.arg = ArgsOf(Pre(i))[i - 2]
                  /\ i - 2 \in 1..Len(ArgsOf(Pre(i)))
  <2>1. Len(ArgsOf(Pre(i))) \in Nat
    BY <1>6, SequenceBasics
  <2>2. Len(Plan(who, Pre(i))) = 2 + Len(ArgsOf(Pre(i))) /\ Len(Plan(who, Pre(i))) > i - 1
    BY <1>2, <1>6 DEF AsksInTurn
  <2>3. i - 2 \in 1..Len(ArgsOf(Pre(i))) /\ (i - 2) + 2 = i
    BY <1>2, <1>10, <2>1, <2>2
  <2>4. \A k \in 1..Len(ArgsOf(Pre(i))) : /\ Plan(who, Pre(i))[k + 2].op = Member(who)
                                          /\ Plan(who, Pre(i))[k + 2].arg = ArgsOf(Pre(i))[k]
    BY <1>6 DEF AsksInTurn
  <2>5. /\ Plan(who, Pre(i))[i].op = Member(who)
        /\ Plan(who, Pre(i))[i].arg = ArgsOf(Pre(i))[i - 2]
    BY <2>3, <2>4
  <2> QED BY <1>9, <2>3, <2>5
<1>11. /\ 1 \in 1..n /\ 2 \in 1..n
       /\ Requested(who, got, 1).op = "resolve"
       /\ Requested(who, got, 2).op = op /\ Requested(who, got, 2).arg = NoArg
  <2>1. 1 \in 1..n /\ 2 \in 1..n
    BY <1>8
  <2> QED BY <1>6, <1>9, <2>1 DEF AsksInTurn
<1>12. \A i \in 1..n : got[i].op = op <=> i = 2
  <2> SUFFICES ASSUME NEW i \in 1..n PROVE got[i].op = op <=> i = 2
    OBVIOUS
  <2>1. CASE i > 2
    <3>1. got[i].op = Member(who)
      BY <1>3, <1>10, <2>1
    <3>2. Member(who) # op
      BY StagedNames
    <3> QED BY <1>2, <2>1, <3>1, <3>2
  <2>2. CASE i = 2
    BY <1>3, <1>11, <2>2
  <2>3. CASE i = 1
    <3>1. got[i].op = "resolve"
      BY <1>3, <1>11, <2>3
    <3>2. op # "resolve"
      BY StagedNames
    <3> QED BY <2>3, <3>1, <3>2
  <2> QED BY <1>2, <2>1, <2>2, <2>3
<1>13. Frames(got, op) = got[2].frames
  <2>1. n >= 2
    BY <1>8
  <2> QED BY <1>1, <1>3, <1>12, <2>1, ListerFrames
<1>14. ASSUME NEW i \in 1..n, i > 2 PROVE ArgsOf(Pre(i)) = ArgsOf(got)
  <2> DEFINE g == Pre(i)
  <2>1. i \in Nat /\ i - 1 >= 2
    BY <1>2, <1>14
  <2>2. g \in Seq(T) /\ Len(g) = i - 1 /\ i - 1 >= 2 /\ \A j \in 1..(i - 1) : g[j] = got[j] /\ j \in 1..n
    BY <1>4, <2>1
  <2> HIDE DEF g
  <2>3. \A j \in 1..Len(g) : (\E S : g[j].frames \in Seq(S)) /\ (g[j].op = op <=> j = 2)
    BY <1>3, <1>12, <2>2
  <2>4. Frames(g, op) = g[2].frames
    BY <2>2, <2>3, ListerFrames
  <2>5. g[2] = got[2]
    <3>1. 2 \in 1..(i - 1)
      BY <1>2, <1>14
    <3> QED BY <2>2, <3>1
  <2> QED BY <1>13, <2>4, <2>5 DEF ArgsOf, g
<1> DEFINE args == ArgsOf(got)
           m == Len(args)
<1>15. ASSUME NEW i \in 1..m
       PROVE  /\ got[i + 2].op = Member(who)
              /\ \E r : r.op = Member(who) /\ r.arg = args[i] /\ Real(who, begun, now, r, got[i + 2])
  <2> DEFINE r == Requested(who, got, i + 2)
  <2>1. i + 2 \in 1..n /\ i + 2 > 2 /\ (i + 2) - 2 = i
    BY <1>8
  <2>2. r.op = Member(who) /\ r.arg = ArgsOf(Pre(i + 2))[(i + 2) - 2]
    BY <1>10, <2>1
  <2>3. r.arg = args[i]
    BY <1>14, <2>1, <2>2
  <2>4. Real(who, begun, now, r, got[i + 2]) /\ got[i + 2].op = r.op
    BY <1>2, <1>3, <2>1
  <2> HIDE DEF r
  <2> QED BY <2>2, <2>3, <2>4
<1>16. got[1].op = "resolve" /\ got[2].op = op
  BY <1>3, <1>11
<1>17. \E r : r.op = op /\ r.arg = NoArg /\ Real(who, begun, now, r, got[2])
  BY <1>2, <1>11
<1>18. args = Members(who, got[2].frames)
  BY <1>13 DEF ArgsOf
<1> HIDE DEF args
<1>19. AnsweredInTurn(who, args)
  BY <1>8, <1>15, <1>16, <1>17 DEF AnsweredInTurn, args
<1> QED BY <1>13, <1>18, <1>19

\* A real answer, when none failed and the kernel is where it was.
LEMMA RealNow ==
  ASSUME CollectInv, begun = now, NEW r, NEW a, Real(who, begun, now, r, a), a.error = "none"
  PROVE  a.frames = AllFramesFor(r.op, r.arg)
<1>1. now \in Nat
  BY DEF CollectInv
<1>2. a = Answer(who, now, r)
  <2>1. \E t \in now..now : a = Answer(who, t, r)
    BY DEF Real
  <2> QED BY <1>1, <2>1
<1>3. CASE r.op \in DOMAIN Kernel[who][now] /\ r.arg \in DOMAIN Kernel[who][now][r.op]
  <2>1. a.frames = Kernel[who][now][r.op][r.arg]
    BY <1>2, <1>3 DEF Answer
  <2> QED BY <1>3, <2>1 DEF AllFramesFor, KernelFrames, Attr
<1>4. CASE ~(r.op \in DOMAIN Kernel[who][now] /\ r.arg \in DOMAIN Kernel[who][now][r.op])
  <2>1. a.frames = <<>>
    BY <1>2, <1>4 DEF Answer
  <2> QED BY <1>4, <2>1 DEF AllFramesFor, KernelFrames, Attr
<1> QED BY <1>3, <1>4

\* Nothing failed.
LEMMA NoneFailed ==
  ASSUME CollectInv, Failures = <<>>, NEW k \in 1..Len(got), DOMAIN got = 1..Len(got)
  PROVE  got[k].error = "none"
BY FailureFound, HasElement

\* What was listed then is all that there is, and so is what was asked for.
LEMMA StagedAnswers ==
  ASSUME CollectInv, Succeeded, begun = now, Failures = <<>>, who \in Staged
  PROVE  LET args == Members(who, AllFrames(Lister(who)))
         IN  /\ Frames(got, Lister(who)) = AllFrames(Lister(who))
             /\ AnsweredInTurn(who, args)
             /\ \A i \in 1..Len(args) : got[i + 2].frames = AllFramesFor(Member(who), args[i])
<1> DEFINE args == Members(who, got[2].frames)
<1>1. AnsweredInTurn(who, args) /\ Frames(got, Lister(who)) = got[2].frames
  BY StagedGot
<1> HIDE DEF args
<1>2. /\ Len(got) = 2 + Len(args) /\ Len(args) \in Nat
      /\ \E r : r.op = Lister(who) /\ r.arg = NoArg /\ Real(who, begun, now, r, got[2])
      /\ \A i \in 1..Len(args) :
            \E r : r.op = Member(who) /\ r.arg = args[i] /\ Real(who, begun, now, r, got[i + 2])
  BY <1>1 DEF AnsweredInTurn
<1>3. DOMAIN got = 1..Len(got)
  BY SequenceBasics DEF CollectInv
<1>4. \A k \in 1..Len(got) : got[k].error = "none"
  BY <1>3, NoneFailed
<1>5. got[2].frames = AllFrames(Lister(who))
  <2>1. PICK r : r.op = Lister(who) /\ r.arg = NoArg /\ Real(who, begun, now, r, got[2])
    BY <1>2
  <2>2. 2 \in 1..Len(got)
    BY <1>2
  <2> QED BY <1>4, <2>1, <2>2, RealNow DEF AllFrames
<1>6. ASSUME NEW i \in 1..Len(args)
      PROVE  got[i + 2].frames = AllFramesFor(Member(who), args[i])
  <2>1. PICK r : r.op = Member(who) /\ r.arg = args[i] /\ Real(who, begun, now, r, got[i + 2])
    BY <1>2
  <2>2. i + 2 \in 1..Len(got)
    BY <1>2
  <2> QED BY <1>4, <2>1, <2>2, RealNow
<1>7. args = Members(who, AllFrames(Lister(who)))
  BY <1>5 DEF args
<1> QED BY <1>1, <1>5, <1>6, <1>7

\* The answers to the requests made in turn are those after the second.
LEMMA LaterOnes ==
  ASSUME NEW T, NEW g \in Seq(T), NEW n \in Nat, Len(g) = 2 + n, NEW P, g[1] \notin P, g[2] \notin P,
         \A i \in 1..n : g[i + 2] \in P
  PROVE  Sifted(g, P) = [i \in 1..n |-> g[i + 2]]
<1> DEFINE seqs == [i \in 1..Len(g) |-> IF g[i] \in P THEN <<g[i]>> ELSE <<>>]
           e == [i \in 1..n |-> g[i + 2]]
           ones == [i \in 1..n |-> <<e[i]>>]
<1>1. DOMAIN g = 1..Len(g) /\ 1 \in 1..Len(g) /\ 2 \in 1..Len(g)
      /\ \A i \in 1..n : i + 2 \in 1..Len(g) /\ g[i + 2] \in T
  OBVIOUS
<1>2. Sifted(g, P) = FlattenSeq(seqs)
  BY <1>1 DEF Sifted
<1>3. \A i \in 1..Len(g) : seqs[i] \in Seq(T)
  BY <1>1
<1>4. seqs \in [1..Len(g) -> Seq(T)] /\ e \in [1..n -> T]
  BY <1>1, <1>3
<1>5. /\ seqs[1] = <<>> /\ seqs[2] = <<>>
      /\ \A i \in 1..n : seqs[i + 2] = ones[i]
  BY <1>1
<1>6. ones = [i \in 1..n |-> <<e[i]>>] /\ DOMAIN ones = 1..n
  OBVIOUS
<1> HIDE DEF seqs, ones, e
<1>7. seqs \in Seq(Seq(T)) /\ Len(seqs) = 2 + n
  BY <1>4
<1> DEFINE rest == Tail(seqs)
           last == Tail(rest)
<1>8. /\ rest \in Seq(Seq(T)) /\ Len(rest) = 1 + n /\ \A i \in 1..(1 + n) : rest[i] = seqs[i + 1]
      /\ seqs # <<>>
  BY <1>7
<1>9. FlattenSeq(seqs) = seqs[1] \o FlattenSeq(rest)
  BY <1>7, <1>8, FlattenFirst
<1> HIDE DEF rest
<1>10. /\ last \in Seq(Seq(T)) /\ Len(last) = n /\ \A i \in 1..n : last[i] = rest[i + 1]
       /\ rest # <<>>
  BY <1>8
<1>11. FlattenSeq(rest) = rest[1] \o FlattenSeq(last)
  BY <1>8, <1>10, FlattenFirst
<1> HIDE DEF last
<1>12. rest[1] = <<>>
  BY <1>5, <1>8
<1>13. \A i \in 1..n : last[i] = ones[i]
  <2> SUFFICES ASSUME NEW i \in 1..n PROVE last[i] = ones[i]
    OBVIOUS
  <2>1. i + 1 \in 1..(1 + n) /\ (i + 1) + 1 = i + 2
    OBVIOUS
  <2> QED BY <1>5, <1>8, <1>10, <2>1
<1>14. last = ones
  <2>1. last = [i \in 1..n |-> last[i]]
    BY <1>10
  <2> QED BY <1>6, <1>13, <2>1
<1>15. FlattenSeq(ones) = e
  BY <1>4, <1>6, FlattenSingles
<1>16. FlattenSeq(last) \in Seq(T)
  BY <1>10, FlattenType
<1> DEFINE u == FlattenSeq(last)
<1> HIDE DEF u
<1>17. <<>> \o u = u
  BY <1>16 DEF u
<1>18. FlattenSeq(seqs) = u
  BY <1>5, <1>9, <1>11, <1>12, <1>17 DEF u
<1> QED BY <1>2, <1>14, <1>15, <1>18 DEF u, e

\* Parts with one series each have as many as there are parts.
LEMMA OnesAmount ==
  ASSUME NEW n \in Nat, NEW seqs, seqs = [i \in 1..n |-> seqs[i]], NEW name,
         \A i \in 1..n : Amount(seqs[i], name, "count", 1)
  PROVE  Amount(FlattenSeq(seqs), name, "count", n)
<1> DEFINE s == [i \in 1..n |-> i]
           one == [x \in 1..n |-> 1]
           v == [i \in 1..n |-> one[s[i]]]
<1>1. s \in Seq(1..n) /\ Len(s) = n
  <2>1. s \in [1..n -> 1..n]
    OBVIOUS
  <2> HIDE DEF s
  <2> QED BY <2>1, FunctionIsSeq
<1>2. one \in [1..n -> Nat] /\ \A i \in 1..Len(s) : one[s[i]] = 1
  BY <1>1
<1>3. Weighed(s, one) = Total(v)
  BY <1>1 DEF Weighed
<1>4. \A i \in 1..n : v[i] = 1
  BY <1>1, <1>2
<1>5. v = [i \in 1..n |-> v[i]] /\ v \in [1..n -> Nat]
  BY <1>4
<1> HIDE DEF s, one, v
<1>6. Weighed(s, one) = n
  BY <1>1, <1>2, WeighedLength
<1>7. v \in Seq(Nat) /\ Len(v) = n
  BY <1>5, FunctionIsSeq
<1>8. Total(v) = FirstTotal(v, n)
  BY <1>7, TotalFirsts
<1>9. \A i \in 1..n : Amount(seqs[i], name, "count", v[i])
  BY <1>4
<1>10. Amount(FlattenSeq(seqs), name, "count", FirstTotal(v, n))
  BY <1>9, AmountFlatten
<1> QED BY <1>3, <1>6, <1>8, <1>10

\* The answers to the requests named op.
AnswersTo(g, op) == Where(g, LAMBDA a : a.op = op)

\* Those to the requests for what was listed.
LEMMA TurnAnswers ==
  ASSUME CollectInv, NEW c \in Staged, NEW args, AnsweredInTurn(c, args)
  PROVE  AnswersTo(got, Member(c)) = [i \in 1..Len(args) |-> got[i + 2]]
<1> DEFINE op == Member(c)
           n == Len(args)
<1>1. PICK T : got \in Seq(T)
  BY DEF CollectInv
<1>2. /\ n \in Nat /\ Len(got) = 2 + n /\ got[1].op = "resolve" /\ got[2].op = Lister(c)
      /\ \A i \in 1..n : got[i + 2].op = op
  BY DEF AnsweredInTurn
<1>3. got[1].op # op /\ got[2].op # op
  BY <1>2, StagedNames
<1> HIDE DEF op, n
<1> DEFINE P == {a \in T : a.op = op}
<1>4. DOMAIN got = 1..Len(got) /\ \A i \in 1..Len(got) : got[i] \in T
  BY <1>1
<1>5. \A i \in DOMAIN got : got[i] \in P <=> got[i].op = op
  BY <1>4
<1>6. 1 \in DOMAIN got /\ 2 \in DOMAIN got /\ \A i \in 1..n : i + 2 \in DOMAIN got
  BY <1>2, <1>4
<1>7. got[1] \notin P /\ got[2] \notin P /\ \A i \in 1..n : got[i + 2] \in P
  BY <1>2, <1>3, <1>5, <1>6
<1>8. AnswersTo(got, op) = Sifted(got, P)
  BY <1>5 DEF AnswersTo, Where, Sifted
<1> HIDE DEF P
<1>9. Sifted(got, P) = [i \in 1..n |-> got[i + 2]]
  BY <1>1, <1>2, <1>7, LaterOnes, ZenonT(40)
<1> QED BY <1>8, <1>9 DEF op, n

\* The collector finds the key of a service, but for a mark of IPv6.
LEMMA IpvsKeyFound ==
  ASSUME NEW f, Readable("ipvs", "services", f), Guessed(f)
  PROVE  IpvsKey(IpvsService(f)) = KeyOf(f)
<1> DEFINE svc == IpvsService(f)
<1>1. /\ "af" \in DOMAIN f
      /\ IF "fwmark" \in DOMAIN f THEN f.fwmark # ""
         ELSE /\ {"proto", "addr", "port"} \subseteq DOMAIN f
              /\ f.af \in {"inet", "inet6"} /\ f.proto \in {"tcp", "udp", "sctp"}
              /\ f.addr.inet6 # ""
  BY DEF Readable
<1>2. CASE "fwmark" \in DOMAIN f
  <2>1. Attr(f, "fwmark", "") = f.fwmark /\ f.fwmark # "" /\ f.af = "inet"
    BY <1>1, <1>2 DEF Attr, Guessed
  <2>2. svc.marked /\ ~svc.colon /\ svc.port = f.fwmark
    BY <2>1, Zenon DEF IpvsService
  <2>3. IpvsFamily(svc) = "inet"
    BY <2>2 DEF IpvsFamily
  <2> HIDE DEF svc
  <2>4. IpvsKey(svc) = [af |-> "inet", fwmark |-> f.fwmark]
    BY <2>2, <2>3 DEF IpvsKey
  <2>5. KeyOf(f) = [af |-> "inet", fwmark |-> f.fwmark]
    BY <1>2, <2>1 DEF KeyOf
  <2> QED BY <2>4, <2>5 DEF svc
<1>3. CASE "fwmark" \notin DOMAIN f
  <2>1. /\ Attr(f, "fwmark", "") = "" /\ Attr(f, "af", "inet") = f.af
        /\ Attr(f, "proto", "unknown") = f.proto /\ Attr(f, "addr", NoAddress) = f.addr
        /\ Attr(f, "port", "0") = f.port
    BY <1>1, <1>3 DEF Attr
  <2>2. /\ svc.marked = FALSE /\ svc.port = f.port /\ svc.proto = f.proto
        /\ svc.vip = IpvsAddress(f.af, f.addr) /\ svc.colon = (f.af = "inet6" /\ f.addr.inet6 # "")
    BY <1>1, <1>3, <2>1 DEF IpvsService
  <2>3. svc.vip = f.addr[f.af]
    BY <1>1, <1>3, <2>2 DEF IpvsAddress
  <2>4. IpvsFamily(svc) = f.af
    BY <1>1, <1>3, <2>2 DEF IpvsFamily
  <2> HIDE DEF svc
  <2>5. IpvsKey(svc) = [af |-> f.af, proto |-> f.proto, vip |-> f.addr[f.af], port |-> f.port]
    BY <2>2, <2>3, <2>4 DEF IpvsKey
  <2>6. KeyOf(f) = [af |-> f.af, proto |-> f.proto, vip |-> f.addr[f.af], port |-> f.port]
    BY <1>3 DEF KeyOf
  <2> QED BY <2>5, <2>6 DEF svc
<1> QED BY <1>2, <1>3

\* One series of weights for each destination, none for a service.
LEMMA IpvsSamplesAmount ==
  ASSUME NEW svc, NEW dest
  PROVE  /\ Amount(IpvsDestSamples(svc, dest), "nft_ipvs_dest_weight", "count", 1)
         /\ Amount(IpvsServiceSamples(svc), "nft_ipvs_dest_weight", "count", 0)
<1> DEFINE name == "nft_ipvs_dest_weight"
           s == IpvsDestSamples(svc, dest)
           t == IpvsServiceSamples(svc)
           others == {"nft_ipvs_connections_total", "nft_ipvs_connections_rate"}
<1>1. s = [i \in 1..2 |-> s[i]] /\ t = [i \in 1..2 |-> t[i]]
  BY DEF IpvsDestSamples, IpvsServiceSamples
<1>2. s[1].name = name /\ s[2].name # name
  BY DEF IpvsDestSamples, Gauge, Counter
<1>3. t[1].name \in others /\ t[2].name \in others
  BY DEF IpvsServiceSamples, Gauge, Counter
<1>4. name \notin others
  OBVIOUS
<1>5. Weight(s[1], name, "count") = 1
  BY <1>2 DEF Weight
<1> HIDE DEF s, t, others
<1>6. \A i \in 1..2 : i = 1 \/ i = 2
  OBVIOUS
<1> DEFINE T == {s[i] : i \in 1..2}
<1>7. s \in Seq(T) /\ Len(s) = 2
  BY <1>1, TupleIsSeq
<1> HIDE DEF T
<1>8. \A i \in 2..Len(s) : s[i].name # name
  <2>1. \A i \in 2..2 : i = 2
    OBVIOUS
  <2> QED BY <1>2, <1>7, <2>1
<1>9. Len(s) > 0 /\ Weight(s[1], name, "count") \in Nat
  BY <1>5, <1>7
<1>10. Amount(s, name, "count", Weight(s[1], name, "count"))
  BY <1>7, <1>8, <1>9, AmountHead, Zenon
<1>11. Amount(s, name, "count", 1)
  BY <1>5, <1>10, Zenon
<1>12. NamedIn(t, others)
  <2>1. \A i \in 1..2 : t[i].name \in others
    BY <1>3, <1>6
  <2> QED BY <1>1, <2>1, TupleNamed
<1>13. Amount(t, name, "count", 0)
  BY <1>4, <1>12, AmountNone
<1> QED BY <1>11, <1>13 DEF s, t

\* The series of the destinations of a service.
IpvsDests(svc, frames) ==
    Each(Take(frames, IpvsMaxDests), LAMBDA f : IpvsDestSamples(svc, IpvsDest(f, svc)))

\* The series of a service: as many weights as it has destinations, up to the cap.
LEMMA IpvsServiceAmount ==
  ASSUME NEW svc, NEW T, NEW frames \in Seq(T)
  PROVE  Amount(IpvsServiceSamples(svc) \o IpvsDests(svc, frames), "nft_ipvs_dest_weight", "count",
                Smaller(IpvsMaxDests, Len(frames)))
<1> DEFINE taken == Take(frames, IpvsMaxDests)
           n == Smaller(IpvsMaxDests, Len(frames))
           seqs == [i \in 1..n |-> IpvsDestSamples(svc, IpvsDest(taken[i], svc))]
           dests == IpvsDests(svc, frames)
           name == "nft_ipvs_dest_weight"
<1>1. taken \in Seq(T) /\ Len(taken) = n
  BY IpvsCapAssumption, TakeLength
<1>2. dests = Each(taken, LAMBDA f : IpvsDestSamples(svc, IpvsDest(f, svc)))
  BY Zenon DEF IpvsDests
<1> HIDE DEF taken
<1>3. n \in Nat
  BY IpvsCapAssumption, SequenceBasics DEF Smaller
<1> HIDE DEF n
<1>4. DOMAIN taken = 1..n
  BY <1>1
<1>5. dests = FlattenSeq(seqs)
  BY <1>2, <1>4 DEF Each, MapSeq
<1>6. \A i \in 1..n : Amount(seqs[i], name, "count", 1)
  BY IpvsSamplesAmount
<1>7. seqs = [i \in 1..n |-> seqs[i]]
  OBVIOUS
<1> HIDE DEF seqs
<1>8. Amount(FlattenSeq(seqs), name, "count", n)
  BY <1>3, <1>6, <1>7, OnesAmount
<1>9. Amount(IpvsServiceSamples(svc), name, "count", 0)
  BY IpvsSamplesAmount
<1> HIDE DEF name
<1>10. Amount(IpvsServiceSamples(svc) \o FlattenSeq(seqs), name, "count", 0 + n)
  BY <1>8, <1>9, AmountJoin
<1>11. 0 + n = n
  BY <1>3
<1> QED BY <1>5, <1>10, <1>11 DEF taken, n, name

\* What the kernel has at any instant is a sequence it says how to read, with
\* what names it once.
LEMMA FramesAt ==
  ASSUME NEW c \in Collectors, NEW t \in DOMAIN Kernel[c], NEW op, NEW arg
  PROVE  /\ KernelFrames(c, t, op, arg) \in Seq(ToSet(KernelFrames(c, t, op, arg)))
         /\ NamedOnce(c, op, KernelFrames(c, t, op, arg))
         /\ \A i \in 1..Len(KernelFrames(c, t, op, arg)) :
                Readable(c, op, KernelFrames(c, t, op, arg)[i])
<1> DEFINE frames == KernelFrames(c, t, op, arg)
<1>1. CASE op \in DOMAIN Kernel[c][t] /\ arg \in DOMAIN Kernel[c][t][op]
  <2>1. frames = Kernel[c][t][op][arg]
    BY <1>1 DEF KernelFrames, Attr
  <2> HIDE DEF frames
  <2>2. frames \in Seq(ToSet(frames))
    BY <1>1, <2>1, KernelAssumption DEF Sequential
  <2>3. \A i \in DOMAIN frames : Readable(c, op, frames[i])
    BY <1>1, <2>1, FrameAssumption
  <2>4. DOMAIN frames = 1..Len(frames)
    BY <2>2
  <2>5. NamedOnce(c, op, frames)
    BY <1>1, <2>1, NamingAssumption
  <2> QED BY <2>2, <2>3, <2>4, <2>5 DEF frames
<1>2. CASE ~(op \in DOMAIN Kernel[c][t] /\ arg \in DOMAIN Kernel[c][t][op])
  <2>1. frames = <<>>
    BY <1>2 DEF KernelFrames, Attr
  <2> HIDE DEF frames
  <2>2. frames \in Seq(ToSet(frames)) /\ \A i \in 1..Len(frames) : FALSE
    BY <2>1, EmptySequence
  <2>3. NamedOnce(c, op, frames)
    BY <2>1, NoneNamedOnce
  <2> QED BY <2>2, <2>3 DEF frames
<1> QED BY <1>1, <1>2

\* So is what it has now for a request.
LEMMA KernelReadable ==
  ASSUME CollectInv, NEW op, NEW arg
  PROVE  /\ AllFramesFor(op, arg) \in Seq(ToSet(AllFramesFor(op, arg)))
         /\ \A i \in 1..Len(AllFramesFor(op, arg)) : Readable(who, op, AllFramesFor(op, arg)[i])
<1>1. who \in Collectors /\ now \in DOMAIN Kernel[who]
  BY KernelAssumption DEF CollectInv, Sequential
<1> QED BY <1>1, FramesAt DEF AllFramesFor

\* ipvs.rs: every destination of the services up to the cap, up to its own cap.
LEMMA IpvsAccounted ==
  ASSUME CollectInv, Succeeded, begun = now, Failures = <<>>, who = "ipvs",
         \A i \in DOMAIN Take(AllFrames("services"), IpvsMaxServices) :
             Guessed(Take(AllFrames("services"), IpvsMaxServices)[i])
  PROVE  CountOf("nft_ipvs_dest_weight")
         = TotalOf(Take(AllFrames("services"), IpvsMaxServices),
                   LAMBDA f : Smaller(Len(AllFramesFor("dests", KeyOf(f))), IpvsMaxDests))
<1> DEFINE name == "nft_ipvs_dest_weight"
           frames == AllFrames("services")
           taken == Take(frames, IpvsMaxServices)
           m == Len(taken)
           args == Members(who, frames)
           all == MapSeq(frames, IpvsService)
           services == Take(all, IpvsMaxServices)
           v == [i \in 1..m |-> Smaller(IpvsMaxDests, Len(AllFramesFor("dests", KeyOf(taken[i]))))]
           answers == AnswersTo(got, "dests")
           seqs == [i \in 1..m |-> IpvsServiceSamples(services[i]) \o IpvsDests(services[i], answers[i].frames)]
<1>1. who \in Staged /\ Lister(who) = "services" /\ Member(who) = "dests"
  BY DEF Staged, Lister, Member
<1>2. /\ Frames(got, "services") = frames
      /\ AnsweredInTurn(who, args)
      /\ \A i \in 1..Len(args) : got[i + 2].frames = AllFramesFor("dests", args[i])
  BY <1>1, StagedAnswers
<1>3. PICK T : frames \in Seq(T)
  BY KernelReadable DEF AllFrames
<1>4. \A i \in 1..Len(frames) : Readable("ipvs", "services", frames[i])
  BY KernelReadable DEF AllFrames
<1>5. services = IpvsServices(got) /\ args = MapSeq(services, IpvsKey)
  BY <1>2 DEF IpvsServices, Members
<1>6. Len(frames) \in Nat /\ DOMAIN frames = 1..Len(frames)
  BY <1>3, SequenceBasics
<1> HIDE DEF frames
<1>7. /\ taken \in Seq(T) /\ m = Smaller(IpvsMaxServices, Len(frames))
      /\ m \in Nat /\ m <= Len(frames)
      /\ taken = SubSeq(frames, 1, m)
  <2>1. taken \in Seq(T) /\ m = Smaller(IpvsMaxServices, Len(frames))
    BY <1>3, IpvsCapAssumption, TakeLength
  <2>2. taken = SubSeq(frames, 1, Smaller(IpvsMaxServices, Len(frames)))
    BY DEF Take
  <2> HIDE DEF taken
  <2> QED BY <1>6, <2>1, <2>2, IpvsCapAssumption DEF Smaller
<1> HIDE DEF taken
<1>8. DOMAIN taken = 1..m /\ \A i \in 1..m : taken[i] = frames[i] /\ i \in 1..Len(frames)
  BY <1>3, <1>6, <1>7
<1>9. all = [i \in 1..Len(frames) |-> all[i]] /\ \A i \in 1..Len(frames) : all[i] = IpvsService(frames[i])
  BY <1>6 DEF MapSeq
<1>10. PICK A : all \in Seq(A) /\ Len(all) = Len(frames)
  <2> HIDE DEF all
  <2>1. all \in Seq({all[i] : i \in 1..Len(frames)}) /\ Len(all) = Len(frames)
    BY <1>6, <1>9, TupleIsSeq
  <2> QED BY <2>1
<1> HIDE DEF all
<1>11. services = SubSeq(all, 1, m)
  BY <1>7, <1>10 DEF Take
<1> HIDE DEF services
<1>12. DOMAIN services = 1..m /\ \A i \in 1..m : services[i] = IpvsService(taken[i])
  <2> HIDE DEF m
  <2>1. DOMAIN services = 1..m /\ \A i \in 1..m : services[i] = all[i] /\ i \in 1..Len(frames)
    BY <1>7, <1>10, <1>11
  <2> QED BY <1>8, <1>9, <2>1
<1>13. \A i \in 1..m : IpvsKey(services[i]) = KeyOf(taken[i])
  <2> SUFFICES ASSUME NEW i \in 1..m PROVE IpvsKey(services[i]) = KeyOf(taken[i])
    OBVIOUS
  <2>1. Guessed(taken[i])
    BY <1>8 DEF taken, frames
  <2>2. Readable("ipvs", "services", taken[i])
    BY <1>4, <1>8
  <2>3. IpvsKey(IpvsService(taken[i])) = KeyOf(taken[i])
    BY <2>1, <2>2, IpvsKeyFound
  <2> QED BY <1>12, <2>3
<1> HIDE DEF args
<1>14. Len(args) = m /\ \A i \in 1..m : args[i] = KeyOf(taken[i])
  <2>1. Len(args) \in Nat /\ DOMAIN args = 1..Len(args)
    BY <1>2 DEF AnsweredInTurn
  <2>2. args = [i \in 1..m |-> IpvsKey(services[i])]
    BY <1>5, <1>12 DEF MapSeq
  <2> HIDE DEF m
  <2>3. DOMAIN args = 1..m
    BY <2>2
  <2>4. Len(args) = m
    BY <1>7, <2>1, <2>3
  <2> QED BY <1>13, <2>2, <2>4
<1> HIDE DEF m
<1>15. answers = [i \in 1..m |-> got[i + 2]]
  BY <1>1, <1>2, <1>14, TurnAnswers
<1>16. \A i \in 1..m : answers[i].frames = AllFramesFor("dests", KeyOf(taken[i]))
  <2> HIDE DEF answers
  <2> QED BY <1>2, <1>14, <1>15
<1>17. body = FlattenSeq(seqs)
  <2>1. body = IpvsEmit(got)
    BY DEF CollectInv, Emit
  <2>2. IpvsEmit(got)
        = FlattenSeq([i \in DOMAIN IpvsServices(got) |->
                        IpvsServiceSamples(IpvsServices(got)[i])
                        \o IpvsDests(IpvsServices(got)[i], AnswersTo(got, "dests")[i].frames)])
    BY Zenon DEF IpvsEmit, IpvsDests, AnswersTo
  <2> QED BY <1>5, <1>12, <2>1, <2>2
<1> HIDE DEF answers
<1>18. ASSUME NEW i \in 1..m PROVE Amount(seqs[i], name, "count", v[i]) /\ v[i] \in Nat
  <2> DEFINE fs == AllFramesFor("dests", KeyOf(taken[i]))
             svc == services[i]
  <2>1. fs \in Seq(ToSet(fs))
    BY KernelReadable
  <2> HIDE DEF fs
  <2>2. answers[i].frames = fs
    BY <1>16 DEF fs
  <2>3. seqs[i] = IpvsServiceSamples(svc) \o IpvsDests(svc, fs)
    BY <2>2
  <2>4. v[i] = Smaller(IpvsMaxDests, Len(fs))
    BY DEF fs
  <2> HIDE DEF seqs, v, svc, name
  <2>5. Amount(IpvsServiceSamples(svc) \o IpvsDests(svc, fs), name, "count",
               Smaller(IpvsMaxDests, Len(fs)))
    BY <2>1, IpvsServiceAmount DEF name
  <2>6. Len(fs) \in Nat
    BY <2>1
  <2>7. Smaller(IpvsMaxDests, Len(fs)) \in Nat
    BY <2>6, IpvsCapAssumption DEF Smaller
  <2> QED BY <2>3, <2>4, <2>5, <2>7, Zenon
<1>19. seqs = [i \in 1..m |-> seqs[i]] /\ v = [i \in 1..m |-> v[i]]
  OBVIOUS
<1>20. TotalOf(taken, LAMBDA f : Smaller(Len(AllFramesFor("dests", KeyOf(f))), IpvsMaxDests)) = Total(v)
  <2>1. \A i \in 1..m : Smaller(Len(AllFramesFor("dests", KeyOf(taken[i]))), IpvsMaxDests) = v[i]
    <3> SUFFICES ASSUME NEW i \in 1..m
                 PROVE  Smaller(Len(AllFramesFor("dests", KeyOf(taken[i]))), IpvsMaxDests) = v[i]
      OBVIOUS
    <3> DEFINE L == Len(AllFramesFor("dests", KeyOf(taken[i])))
    <3>1. L \in Nat
      BY KernelReadable, SequenceBasics
    <3>2. v[i] = Smaller(IpvsMaxDests, L)
      OBVIOUS
    <3> HIDE DEF L, v
    <3>3. Smaller(IpvsMaxDests, L) = Smaller(L, IpvsMaxDests)
      BY <3>1, IpvsCapAssumption DEF Smaller
    <3> QED BY <3>2, <3>3 DEF L
  <2> HIDE DEF v
  <2>2. [i \in DOMAIN taken |-> Smaller(Len(AllFramesFor("dests", KeyOf(taken[i]))), IpvsMaxDests)] = v
    BY <1>8, <1>19, <2>1
  <2> QED BY <2>2 DEF TotalOf, MapSeq
<1> HIDE DEF seqs, v, name
<1>21. Amount(FlattenSeq(seqs), name, "count", FirstTotal(v, m))
  BY <1>7, <1>18, <1>19, AmountFlatten
<1>22. FirstTotal(v, m) = Total(v)
  <2>1. v \in [1..m -> Nat]
    BY <1>18, <1>19
  <2>2. v \in Seq(Nat) /\ Len(v) = m
    BY <1>7, <2>1, FunctionIsSeq
  <2> QED BY <2>2, TotalFirsts
<1>23. Len(Named(body, name)) = Total(v)
  BY <1>17, <1>21, <1>22, AmountCount
<1>24. CountOf(name) = Len(Named(body, name))
  BY DEF CountOf, Named
<1> QED BY <1>20, <1>23, <1>24 DEF name, taken, frames

\* The only element of s that is in P.
LEMMA SiftedOnly ==
  ASSUME NEW T, NEW s \in Seq(T), NEW k \in 1..Len(s), NEW P, s[k] \in P,
         \A i \in 1..Len(s) : i # k => s[i] \notin P
  PROVE  Sifted(s, P) = <<s[k]>>
<1> DEFINE n == Len(s)
           seqs == [i \in 1..n |-> IF s[i] \in P THEN <<s[i]>> ELSE <<>>]
<1>1. n \in Nat /\ DOMAIN s = 1..n /\ \A i \in 1..n : s[i] \in T
  OBVIOUS
<1>2. Sifted(s, P) = FlattenSeq(seqs)
  BY <1>1 DEF Sifted
<1>3. seqs \in [1..n -> Seq(T)]
  <2>1. \A i \in 1..n : <<s[i]>> \in Seq(T) /\ <<>> \in Seq(T)
    BY <1>1
  <2> QED BY <2>1
<1>4. seqs[k] = <<s[k]>> /\ \A i \in 1..n : i # k => seqs[i] = <<>>
  OBVIOUS
<1> HIDE DEF seqs, n
<1>5. FlattenSeq(seqs) = seqs[k]
  <2>1. k \in 1..n
    BY DEF n
  <2> QED BY <1>1, <1>3, <1>4, <2>1, FlattenOnly, Zenon
<1> QED BY <1>2, <1>4, <1>5

\* The sequence s has each element of K once.
OnceEach(s, K) ==
    /\ K = {s[i] : i \in 1..Len(s)}
    /\ \A i, j \in 1..Len(s) : s[i] = s[j] => i = j

\* Listed once each, in whatever order, the elements of s weigh what s does.
LEMMA WeighedListed ==
  ASSUME NEW T, NEW s \in Seq(T), NEW w \in [T -> Nat],
         NEW K, OnceEach(s, K), NEW listed, NEW m, Lists(listed, K, m),
         NEW y, y = [j \in 1..m |-> w[listed[j]]]
  PROVE  FirstTotal(y, m) = Weighed(s, w)
<1> DEFINE id == [x \in T |-> x]
           Held(j) == Weighed(Sifted(s, Keyed(T, id, listed[j])), w)
           x == [j \in 1..m |-> Held(j)]
<1>1. /\ m \in Nat /\ DOMAIN listed = 1..m
      /\ \A j \in 1..m : listed[j] \in K
      /\ \A i, j \in 1..m : listed[i] = listed[j] => i = j
      /\ \A k \in K : \E j \in 1..m : listed[j] = k
  BY DEF Lists
<1>2. /\ Len(s) \in Nat /\ \A i \in 1..Len(s) : s[i] \in T /\ id[s[i]] = s[i] /\ s[i] \in K
      /\ \A k \in K : \E i \in 1..Len(s) : k = s[i]
      /\ \A i, j \in 1..Len(s) : s[i] = s[j] => i = j
  BY DEF OnceEach
<1>3. \A z \in T : id[z] = z
  OBVIOUS
<1> HIDE DEF id
<1>4. \A i \in 1..Len(s) : \E j \in 1..m : listed[j] = id[s[i]]
  BY <1>1, <1>2
<1>5. Shares(T, s, w, id, listed, m)
  BY <1>1, <1>4, WeighedBuckets
<1>6. FirstTotal(x, m) = Weighed(s, w)
  BY <1>5, Zenon DEF Shares
<1>7. ASSUME NEW j \in 1..m PROVE x[j] = y[j]
  <2> DEFINE P == Keyed(T, id, listed[j])
  <2>1. PICK k \in 1..Len(s) : listed[j] = s[k]
    BY <1>1, <1>2
  <2>2. \A z \in T : z \in P <=> z = s[k]
    BY <1>3, <2>1 DEF Keyed
  <2> HIDE DEF P
  <2>3. s[k] \in P /\ \A i \in 1..Len(s) : i # k => s[i] \notin P
    BY <1>2, <2>2, SMTT(60)
  <2>4. Sifted(s, P) = <<s[k]>>
    BY <2>3, SiftedOnly
  <2>5. w[s[k]] \in Nat
    BY <1>2
  <2>6. Weighed(<<s[k]>>, w) = w[s[k]]
    BY <2>5, WeighedOne
  <2>7. x[j] = Weighed(Sifted(s, P), w) /\ y[j] = w[listed[j]]
    BY DEF P
  <2> QED BY <2>1, <2>4, <2>6, <2>7
<1> HIDE DEF x
<1>8. FirstTotal(x, m) = FirstTotal(y, m)
  BY <1>7, TotalAlike, ZenonT(40)
<1> QED BY <1>6, <1>8

\* Nothing is left out of s when all of it is in P.
LEMMA SiftedAll ==
  ASSUME NEW T, NEW s \in Seq(T), NEW P, \A i \in 1..Len(s) : s[i] \in P
  PROVE  Sifted(s, P) = s
<1> DEFINE n == Len(s)
           ones == [i \in 1..n |-> <<s[i]>>]
<1>1. n \in Nat /\ DOMAIN s = 1..n /\ s \in [1..n -> T]
  OBVIOUS
<1>2. [i \in DOMAIN s |-> IF s[i] \in P THEN <<s[i]>> ELSE <<>>] = ones
  BY <1>1
<1> HIDE DEF n
<1>3. FlattenSeq(ones) = s
  BY <1>1, FlattenSingles
<1> QED BY <1>2, <1>3 DEF Sifted

\* wireguard.rs: the peers in a frame that have a key, and how many there are in
\* the frames of a device.
PeersOf(f) == Where(Attr(f, "peers", <<>>), LAMBDA p : "key" \in DOMAIN p)
PeersIn(frames) == TotalOf(frames, LAMBDA f : Len(PeersOf(f)))

\* Each of them is parsed.
LEMMA WgPeersLength ==
  ASSUME NEW f, Readable("wireguard", "device", f)
  PROVE  /\ \E T : WgPeers(f) \in Seq(T)
         /\ Len(WgPeers(f)) = Len(PeersOf(f)) /\ Len(PeersOf(f)) \in Nat
<1> DEFINE all == Attr(f, "peers", <<>>)
           T == ToSet(all)
           P == {p \in T : "key" \in DOMAIN p}
           kept == PeersOf(f)
           n == Len(kept)
           parsed == WgPeers(f)
<1>1. all \in Seq(T)
  BY DEF Readable, Sequential
<1>2. \A i \in DOMAIN all : all[i] \in P <=> "key" \in DOMAIN all[i]
  <2>1. \A i \in DOMAIN all : all[i] \in T
    BY <1>1
  <2> QED BY <2>1
<1> HIDE DEF P, all, T
<1>3. kept = Sifted(all, P)
  BY <1>2 DEF PeersOf, Where, Sifted, all
<1>4. kept \in Seq(T)
  BY <1>1, <1>3, SiftedPlaces
<1>5. DOMAIN parsed = DOMAIN kept /\ parsed = [i \in DOMAIN kept |-> parsed[i]]
  BY DEF WgPeers, MapSeq, PeersOf
<1> HIDE DEF kept, parsed
<1>6. n \in Nat /\ DOMAIN kept = 1..n
  BY <1>4
<1>7. parsed = [i \in 1..n |-> parsed[i]]
  BY <1>5, <1>6
<1> HIDE DEF n
<1>8. parsed \in Seq({parsed[i] : i \in 1..n}) /\ Len(parsed) = n
  BY <1>6, <1>7, TupleIsSeq
<1> QED BY <1>6, <1>8 DEF n, kept, parsed

\* merge_device_frames loses none, however many frames they are split over.
LEMMA WgMergedPeers ==
  ASSUME NEW T, NEW frames \in Seq(T),
         \A i \in 1..Len(frames) : Readable("wireguard", "device", frames[i])
  PROVE  /\ PeersIn(frames) \in Nat
         /\ frames = <<>> => WgMerged(frames) = <<>> /\ PeersIn(frames) = 0
         /\ frames # <<>> =>
               \E dev : /\ WgMerged(frames) = <<dev>>
                        /\ \E S : dev.peers \in Seq(S)
                        /\ Len(dev.peers) = PeersIn(frames)
<1> DEFINE n == Len(frames)
           Bearing == {f \in T : Attr(f, "name", "") # ""}
           parsed == MapSeq(frames, WgDevice)
           seqs == [i \in 1..n |-> WgPeers(frames[i])]
           v == [i \in 1..n |-> Len(PeersOf(frames[i]))]
           all == WgAllPeers(parsed)
<1>1. n \in Nat /\ DOMAIN frames = 1..n /\ \A i \in 1..n : frames[i] \in T
  OBVIOUS
<1>2. \A i \in 1..n : Attr(frames[i], "name", "") # ""
  BY DEF Readable
<1>3. Where(frames, LAMBDA f : Attr(f, "name", "") # "") = frames
  <2>1. \A i \in 1..n : frames[i] \in Bearing
    BY <1>1, <1>2
  <2>2. Where(frames, LAMBDA f : Attr(f, "name", "") # "") = Sifted(frames, Bearing)
    <3>1. \A i \in DOMAIN frames : frames[i] \in Bearing <=> Attr(frames[i], "name", "") # ""
      BY <1>1
    <3> HIDE DEF Bearing
    <3> QED BY <3>1 DEF Where, Sifted
  <2> HIDE DEF Bearing
  <2> QED BY <2>1, <2>2, SiftedAll
<1>4. /\ \A i \in 1..n : (\E S : seqs[i] \in Seq(S)) /\ Len(seqs[i]) = v[i] /\ v[i] \in Nat
      /\ seqs = [i \in 1..n |-> seqs[i]] /\ v = [i \in 1..n |-> v[i]]
  BY WgPeersLength
<1>5. all = FlattenSeq(seqs)
  <2>1. DOMAIN parsed = 1..n /\ \A i \in 1..n : parsed[i].peers = WgPeers(frames[i])
    BY <1>1 DEF MapSeq, WgDevice
  <2> HIDE DEF parsed
  <2>2. [i \in DOMAIN parsed |-> parsed[i].peers] = seqs
    BY <2>1
  <2> QED BY <2>2 DEF WgAllPeers, Each, MapSeq
<1>6. PeersIn(frames) = Total(v)
  <2>1. [i \in DOMAIN frames |-> Len(PeersOf(frames[i]))] = v
    BY <1>1
  <2> QED BY <2>1 DEF PeersIn, TotalOf, MapSeq
<1>7. n = 0 => v = <<>>
  OBVIOUS
<1>8. frames = <<>> <=> n = 0
  OBVIOUS
<1>9. frames # <<>> =>
         \E dev : WgMerged(frames) = <<dev>> /\ dev.peers = all
  <2>1. frames # <<>> => parsed # <<>>
    <3>1. DOMAIN parsed = 1..n
      BY <1>1 DEF MapSeq
    <3> HIDE DEF parsed
    <3>2. frames # <<>> => 1 \in 1..n
      BY <1>1, <1>8
    <3>3. 1 \notin DOMAIN <<>>
      OBVIOUS
    <3> QED BY <3>1, <3>2, <3>3
  <2> DEFINE dev == [name |-> parsed[1].name,
                     port |-> WgFirstSet(MapSeq(parsed, LAMBDA d : d.port)),
                     fwmark |-> WgFirstSet(MapSeq(parsed, LAMBDA d : d.fwmark)),
                     peers |-> WgAllPeers(parsed)]
  <2>2. dev.peers = all
    OBVIOUS
  <2>3. WgMerged(frames) = IF parsed = <<>> THEN <<>> ELSE <<dev>>
    BY <1>3, Zenon DEF WgMerged
  <2> HIDE DEF parsed, dev, all
  <2> QED BY <2>1, <2>2, <2>3
<1>10. frames = <<>> => WgMerged(frames) = <<>>
  <2>1. frames = <<>> => parsed = <<>>
    BY DEF MapSeq
  <2> DEFINE dev == [name |-> parsed[1].name,
                     port |-> WgFirstSet(MapSeq(parsed, LAMBDA d : d.port)),
                     fwmark |-> WgFirstSet(MapSeq(parsed, LAMBDA d : d.fwmark)),
                     peers |-> WgAllPeers(parsed)]
  <2>2. WgMerged(frames) = IF parsed = <<>> THEN <<>> ELSE <<dev>>
    BY <1>3, Zenon DEF WgMerged
  <2> HIDE DEF parsed, dev
  <2> QED BY <2>1, <2>2
<1> HIDE DEF n, parsed, seqs, v, all
<1>11. (\E S : all \in Seq(S)) /\ Len(all) = FirstTotal(v, n)
  BY <1>1, <1>4, <1>5, LengthFlatten
<1>12. v \in Seq(Nat) /\ Len(v) = n
  <2>1. v \in [1..n -> Nat]
    BY <1>4
  <2> QED BY <1>1, <2>1, FunctionIsSeq
<1>13. Total(v) = FirstTotal(v, n) /\ Total(v) \in Nat
  BY <1>12, TotalFirsts
<1>14. frames = <<>> => Total(v) = 0
  BY <1>7, <1>8, TotalEmpty
<1> QED BY <1>6, <1>9, <1>10, <1>11, <1>13, <1>14

\* push_device_metrics: one series of bytes received for each peer.
LEMMA WgPeerAmount ==
  ASSUME NEW name, NEW p
  PROVE  /\ Amount(WgPeerSamples(name, p), "nft_wireguard_peer_receive_bytes_total", "count", 1)
         /\ NamedIn(WgPeerSamples(name, p),
                    {"nft_wireguard_peer_receive_bytes_total", "nft_wireguard_peer_transmit_bytes_total",
                     "nft_wireguard_peer_last_handshake_seconds",
                     "nft_wireguard_peer_persistent_keepalive_seconds"})
<1> DEFINE metric == "nft_wireguard_peer_receive_bytes_total"
           s == WgPeerSamples(name, p)
           names == {"nft_wireguard_peer_receive_bytes_total", "nft_wireguard_peer_transmit_bytes_total",
                     "nft_wireguard_peer_last_handshake_seconds",
                     "nft_wireguard_peer_persistent_keepalive_seconds"}
           T == {s[i] : i \in 1..4}
<1>1. s = [i \in 1..4 |-> s[i]]
  BY DEF WgPeerSamples
<1>2. s[1].name = metric /\ s[2].name # metric /\ s[3].name # metric /\ s[4].name # metric
  BY DEF WgPeerSamples, Gauge, Counter
<1>3. s[1].name \in names /\ s[2].name \in names /\ s[3].name \in names /\ s[4].name \in names
  BY DEF WgPeerSamples, Gauge, Counter
<1>4. Weight(s[1], metric, "count") = 1
  BY <1>2 DEF Weight
<1> HIDE DEF s, T, names, metric
<1>5. s \in Seq(T) /\ Len(s) = 4
  BY <1>1, TupleIsSeq DEF T
<1>6. \A i \in 1..4 : i = 1 \/ i = 2 \/ i = 3 \/ i = 4
  OBVIOUS
<1>7. \A i \in 2..Len(s) : s[i].name # metric
  <2>1. \A i \in 2..4 : i = 2 \/ i = 3 \/ i = 4
    OBVIOUS
  <2> QED BY <1>2, <1>5, <2>1
<1>8. Len(s) > 0 /\ Weight(s[1], metric, "count") \in Nat
  BY <1>4, <1>5
<1>9. Amount(s, metric, "count", Weight(s[1], metric, "count"))
  BY <1>5, <1>7, <1>8, AmountHead, Zenon
<1>10. NamedIn(s, names)
  <2>1. \A i \in 1..4 : s[i].name \in names
    BY <1>3, <1>6
  <2> QED BY <1>1, <2>1, TupleNamed
<1>11. Amount(s, metric, "count", 1)
  BY <1>4, <1>9, Zenon
<1> QED BY <1>10, <1>11 DEF s, names, metric

\* The series of a device before those of its peers.
WgHeader(dev) ==
    LET labels == [interface |-> dev.name]
    IN  <<Gauge("nft_wireguard_device_info", labels, 1),
          Gauge("nft_wireguard_device_listen_port", labels, dev.port),
          Gauge("nft_wireguard_device_fwmark", labels, dev.fwmark),
          Gauge("nft_wireguard_device_peer_count", labels, Len(dev.peers))>>

\* The last of them is the number of its peers.
LEMMA WgHeaderAmount ==
  ASSUME NEW dev, Len(dev.peers) \in Nat
  PROVE  /\ Amount(WgHeader(dev), "nft_wireguard_device_peer_count", "sum", Len(dev.peers))
         /\ Amount(WgHeader(dev), "nft_wireguard_peer_receive_bytes_total", "count", 0)
<1> DEFINE metric == "nft_wireguard_device_peer_count"
           names == {"nft_wireguard_device_info", "nft_wireguard_device_listen_port",
                     "nft_wireguard_device_fwmark"}
           labels == [interface |-> dev.name]
           a == Gauge("nft_wireguard_device_info", labels, 1)
           b == Gauge("nft_wireguard_device_listen_port", labels, dev.port)
           c == Gauge("nft_wireguard_device_fwmark", labels, dev.fwmark)
           d == Gauge("nft_wireguard_device_peer_count", labels, Len(dev.peers))
           s == <<a, b, c>>
           h == WgHeader(dev)
           n == Len(dev.peers)
<1>1. a.name \in names /\ b.name \in names /\ c.name \in names
  BY DEF Gauge
<1>2. d.name = metric /\ d.value = n
  BY DEF Gauge
<1>3. metric \notin names /\ "nft_wireguard_peer_receive_bytes_total" \notin names \cup {metric}
  OBVIOUS
<1>4. h = <<a, b, c, d>>
  BY DEF WgHeader
<1> HIDE DEF a, b, c, d, n, names
<1>5. h = s \o <<d>>
  BY <1>4
<1>6. NamedIn(s, names)
  <2>1. s = [i \in 1..3 |-> s[i]] /\ s[1] = a /\ s[2] = b /\ s[3] = c
    OBVIOUS
  <2>2. \A i \in 1..3 : i = 1 \/ i = 2 \/ i = 3
    OBVIOUS
  <2> HIDE DEF s
  <2>3. \A i \in 1..3 : s[i].name \in names
    BY <1>1, <2>1, <2>2
  <2> QED BY <2>1, <2>3, TupleNamed
<1>7. NamedIn(<<d>>, {metric})
  BY <1>2, OneNamed
<1>8. Weight(d, metric, "sum") = n
  BY <1>2 DEF Weight
<1>9. n \in Nat
  BY DEF n
<1> HIDE DEF h, s, metric
<1>10. Amount(<<d>>, metric, "sum", Weight(d, metric, "sum"))
  BY <1>8, <1>9, AmountOne
<1>11. Amount(s, metric, "sum", 0)
  BY <1>3, <1>6, AmountNone
<1>12. Amount(s \o <<d>>, metric, "sum", 0 + n)
  BY <1>8, <1>10, <1>11, AmountJoin
<1>13. 0 + n = n
  BY <1>9
<1>14. NamedIn(s \o <<d>>, names \cup {metric})
  BY <1>6, <1>7, JoinNamed
<1>15. Amount(s \o <<d>>, "nft_wireguard_peer_receive_bytes_total", "count", 0)
  BY <1>3, <1>14, AmountNone
<1> QED BY <1>5, <1>12, <1>13, <1>15 DEF h, n, metric

\* The peers of a device are counted, and reported up to the cap.
LEMMA WgDeviceAmount ==
  ASSUME NEW dev, NEW S, dev.peers \in Seq(S)
  PROVE  /\ Amount(WgDeviceSamples(dev), "nft_wireguard_device_peer_count", "sum", Len(dev.peers))
         /\ Amount(WgDeviceSamples(dev), "nft_wireguard_peer_receive_bytes_total", "count",
                   Smaller(WgMaxPeers, Len(dev.peers)))
<1> DEFINE peers == dev.peers
           taken == Take(peers, WgMaxPeers)
           n == Smaller(WgMaxPeers, Len(peers))
           seqs == [i \in 1..n |-> WgPeerSamples(dev.name, taken[i])]
           rest == FlattenSeq(seqs)
           count == "nft_wireguard_device_peer_count"
           bytes == "nft_wireguard_peer_receive_bytes_total"
           names == {"nft_wireguard_peer_receive_bytes_total", "nft_wireguard_peer_transmit_bytes_total",
                     "nft_wireguard_peer_last_handshake_seconds",
                     "nft_wireguard_peer_persistent_keepalive_seconds"}
<1>1. Len(peers) \in Nat
  BY SequenceBasics
<1>2. taken \in Seq(S) /\ Len(taken) = n
  BY WgCapAssumption, TakeLength
<1>3. n \in Nat
  BY <1>1, WgCapAssumption DEF Smaller
<1>4. count \notin names
  OBVIOUS
<1>5. WgDeviceSamples(dev) = WgHeader(dev) \o Each(taken, LAMBDA p : WgPeerSamples(dev.name, p))
  BY Zenon DEF WgDeviceSamples, WgHeader
<1> HIDE DEF taken, n, names
<1>6. DOMAIN taken = 1..n
  BY <1>2
<1>7. Each(taken, LAMBDA p : WgPeerSamples(dev.name, p)) = rest
  BY <1>6 DEF Each, MapSeq
<1>8. /\ \A i \in 1..n : Amount(seqs[i], bytes, "count", 1) /\ NamedIn(seqs[i], names)
      /\ seqs = [i \in 1..n |-> seqs[i]]
  BY WgPeerAmount DEF names
<1> HIDE DEF seqs, bytes, count
<1>9. Amount(rest, bytes, "count", n)
  BY <1>3, <1>8, OnesAmount
<1>10. NamedIn(rest, names)
  BY <1>3, <1>8, FlattenNamed
<1> HIDE DEF rest
<1>11. Amount(rest, count, "sum", 0)
  BY <1>4, <1>10, AmountNone
<1>12. Amount(WgHeader(dev), count, "sum", Len(peers)) /\ Amount(WgHeader(dev), bytes, "count", 0)
  BY <1>1, WgHeaderAmount DEF count, bytes
<1> DEFINE l == Len(peers)
<1> HIDE DEF l, peers
<1>13. Amount(WgHeader(dev) \o rest, count, "sum", l + 0)
  BY <1>11, <1>12, AmountJoin DEF l
<1>14. Amount(WgHeader(dev) \o rest, bytes, "count", 0 + n)
  BY <1>9, <1>12, AmountJoin
<1>15. l + 0 = l /\ 0 + n = n
  BY <1>1, <1>3 DEF l
<1> QED BY <1>5, <1>7, <1>13, <1>14, <1>15 DEF l, n, peers, count, bytes

\* The series of a device, of the frames it is split over.
WgReported(frames) == Each(WgMerged(frames), WgDeviceSamples)

LEMMA WgReportedAmount ==
  ASSUME NEW T, NEW frames \in Seq(T),
         \A i \in 1..Len(frames) : Readable("wireguard", "device", frames[i])
  PROVE  /\ Amount(WgReported(frames), "nft_wireguard_device_peer_count", "sum", PeersIn(frames))
         /\ Amount(WgReported(frames), "nft_wireguard_peer_receive_bytes_total", "count",
                   Smaller(PeersIn(frames), WgMaxPeers))
         /\ PeersIn(frames) \in Nat
<1> DEFINE count == "nft_wireguard_device_peer_count"
           bytes == "nft_wireguard_peer_receive_bytes_total"
           n == PeersIn(frames)
<1>1. n \in Nat
  BY WgMergedPeers
<1>2. CASE frames = <<>>
  <2>1. WgMerged(frames) = <<>> /\ n = 0
    BY <1>2, WgMergedPeers
  <2>2. WgReported(frames) = <<>>
    <3>1. MapSeq(<<>>, WgDeviceSamples) = <<>>
      BY DEF MapSeq
    <3> QED BY <2>1, <3>1, FlattenEmpty, Zenon DEF WgReported, Each
  <2>3. NamedIn(<<>>, {})
    <3>1. \A i \in 1..Len(<<>>) : FALSE
      OBVIOUS
    <3> QED BY <3>1, EmptySequence DEF NamedIn
  <2>4. count \notin {} /\ bytes \notin {}
    OBVIOUS
  <2> HIDE DEF count, bytes
  <2> DEFINE none == <<>>
             names == {}
  <2> HIDE DEF none, names
  <2>5. Amount(none, count, "sum", 0) /\ Amount(none, bytes, "count", 0)
    <3>1. NamedIn(none, names) /\ count \notin names /\ bytes \notin names
      BY <2>3, <2>4 DEF none, names
    <3>2. Amount(none, count, "sum", 0)
      BY <3>1, AmountNone
    <3>3. Amount(none, bytes, "count", 0)
      BY <3>1, AmountNone
    <3> QED BY <3>2, <3>3
  <2>6. Smaller(0, WgMaxPeers) = 0
    BY WgCapAssumption DEF Smaller
  <2> HIDE DEF n
  <2> QED BY <1>1, <2>1, <2>2, <2>5, <2>6 DEF n, count, bytes, none
<1>3. CASE frames # <<>>
  <2>1. PICK dev : WgMerged(frames) = <<dev>> /\ (\E S : dev.peers \in Seq(S)) /\ Len(dev.peers) = n
    BY <1>3, WgMergedPeers
  <2>2. PICK S : dev.peers \in Seq(S)
    BY <2>1
  <2>3. /\ Amount(WgDeviceSamples(dev), count, "sum", n)
        /\ Amount(WgDeviceSamples(dev), bytes, "count", Smaller(WgMaxPeers, n))
    BY <2>1, <2>2, WgDeviceAmount
  <2>4. Smaller(WgMaxPeers, n) = Smaller(n, WgMaxPeers)
    BY <1>1, WgCapAssumption DEF Smaller
  <2>5. WgReported(frames) = WgDeviceSamples(dev)
    <3>1. MapSeq(<<dev>>, WgDeviceSamples) = <<WgDeviceSamples(dev)>>
      BY DEF MapSeq
    <3>2. \E U : WgDeviceSamples(dev) \in Seq(U)
      BY <2>3 DEF Amount
    <3> DEFINE x == WgDeviceSamples(dev)
    <3> HIDE DEF x
    <3>3. FlattenSeq(<<x>>) = x
      <4>1. PICK U : x \in Seq(U)
        BY <3>2 DEF x
      <4> DEFINE one == <<x>>
      <4>2. one \in [1..1 -> Seq(U)] /\ one[1] = x /\ 1 \in 1..1 /\ \A i \in 1..1 : i = 1
        BY <4>1
      <4> HIDE DEF one
      <4>3. FlattenSeq(one) = one[1]
        BY <4>2, FlattenOnly
      <4> QED BY <4>2, <4>3 DEF one
    <3> QED BY <2>1, <3>1, <3>3, Zenon DEF WgReported, Each, x
  <2> QED BY <1>1, <2>3, <2>4, <2>5
<1> QED BY <1>2, <1>3

\* Each part adds what the element of s that it is of weighs.
AddsItsOwn(seqs, s, w, name, what) ==
    /\ seqs = [i \in 1..Len(s) |-> seqs[i]]
    /\ \A i \in 1..Len(s) : Amount(seqs[i], name, what, w[s[i]])

\* Parts that each add what the element of s adds that they are made of add,
\* together, what the elements do in whatever order they are listed.
LEMMA AmountListed ==
  ASSUME NEW T, NEW s \in Seq(T), NEW w \in [T -> Nat],
         NEW K, OnceEach(s, K), NEW listed, NEW m, Lists(listed, K, m),
         NEW seqs, NEW name, NEW what, AddsItsOwn(seqs, s, w, name, what),
         NEW v, v = [j \in 1..m |-> w[listed[j]]]
  PROVE  Amount(FlattenSeq(seqs), name, what, FirstTotal(v, m))
<1> DEFINE n == Len(s)
<1>1. n \in Nat
  OBVIOUS
<1>2. /\ \A i \in 1..n : Weights(s, w)[i] = w[s[i]]
      /\ Weighed(s, w) = FirstTotal(Weights(s, w), n)
  BY WeightsType
<1>3. \A i \in 1..n : Amount(seqs[i], name, what, Weights(s, w)[i])
  BY <1>2 DEF AddsItsOwn
<1>4. Amount(FlattenSeq(seqs), name, what, FirstTotal(Weights(s, w), n))
  BY <1>1, <1>3, AmountFlatten DEF AddsItsOwn
<1>5. FirstTotal(v, m) = Weighed(s, w)
  BY WeighedListed
<1> QED BY <1>2, <1>4, <1>5

\* What the operator Peers of Collect counts.
LEMMA PeersFound ==
  ASSUME NEW name
  PROVE  Peers(name) = PeersIn(AllFramesFor("device", name))
BY DEF Peers, PeersIn, PeersOf, TotalOf, MapSeq

\* The interfaces that are listed are the devices, each of them once.
LEMMA DevicesListed ==
  ASSUME CollectInv, who = "wireguard"
  PROVE  LET items == WgListed(AllFrames("links"))
         IN  /\ items \in Seq(Devices(now))
             /\ {items[i] : i \in 1..Len(items)} = Devices(now)
             /\ \A i, j \in 1..Len(items) : items[i] = items[j] => i = j
<1> DEFINE items == WgListed(AllFrames("links"))
           frames == AllFrames("links")
           T == ToSet(frames)
           P == {f \in T : "wireguard" \in Attr(f, "kinds", {}) /\ "name" \in DOMAIN f}
           kept == Sifted(frames, P)
           n == Len(kept)
<1>1. who \in Collectors /\ now \in DOMAIN Kernel[who]
  BY KernelAssumption DEF CollectInv, Sequential
<1>2. items = WgListed(KernelFrames("wireguard", now, "links", NoArg))
  BY DEF AllFrames, AllFramesFor
<1>3. ToSet(items) = Devices(now) /\ \A i, j \in DOMAIN items : items[i] = items[j] => i = j
  BY <1>1, <1>2, DeviceAssumption
<1>4. frames \in Seq(T)
  BY KernelReadable DEF AllFrames
<1>5. \A i \in DOMAIN frames :
         frames[i] \in P <=> "wireguard" \in Attr(frames[i], "kinds", {}) /\ "name" \in DOMAIN frames[i]
  <2>1. \A i \in DOMAIN frames : frames[i] \in T
    BY <1>4
  <2> QED BY <2>1
<1> HIDE DEF P, T
<1>6. kept = Where(frames, LAMBDA f : "wireguard" \in Attr(f, "kinds", {}) /\ "name" \in DOMAIN f)
  BY <1>5 DEF Where, Sifted
<1>7. kept \in Seq(T)
  BY <1>4, SiftedPlaces
<1>8. DOMAIN items = DOMAIN kept /\ items = [i \in DOMAIN items |-> items[i]]
  BY <1>6 DEF WgListed, MapSeq
<1> HIDE DEF kept, items
<1>9. n \in Nat /\ DOMAIN items = 1..n
  BY <1>7, <1>8
<1> HIDE DEF n
<1>10. items \in Seq({items[i] : i \in 1..n}) /\ Len(items) = n
  BY <1>8, <1>9, TupleIsSeq
<1>11. {items[i] : i \in 1..n} = Devices(now)
  BY <1>3, <1>9 DEF ToSet
<1> QED BY <1>3, <1>9, <1>10, <1>11 DEF items

\* wireguard.rs: every peer of every device is counted, and reported up to the
\* cap of its device.
LEMMA WgAccounted ==
  ASSUME CollectInv, Succeeded, begun = now, Failures = <<>>, who = "wireguard"
  PROVE  /\ SumOf("nft_wireguard_device_peer_count") = TotalOf(SetToSeq(Devices(now)), Peers)
         /\ CountOf("nft_wireguard_peer_receive_bytes_total")
            = TotalOf(SetToSeq(Devices(now)), LAMBDA n : Smaller(Peers(n), WgMaxPeers))
<1> DEFINE count == "nft_wireguard_device_peer_count"
           bytes == "nft_wireguard_peer_receive_bytes_total"
           names == Devices(now)
           items == WgListed(AllFrames("links"))
           m == Len(items)
           F(x) == AllFramesFor("device", x)
           p == [x \in names |-> PeersIn(F(x))]
           q == [x \in names |-> Smaller(PeersIn(F(x)), WgMaxPeers)]
           seqs == [i \in 1..m |-> WgReported(F(items[i]))]
           listed == SetToSeq(names)
           l == Cardinality(names)
<1>1. /\ items \in Seq(names) /\ {items[i] : i \in 1..m} = names
      /\ \A i, j \in 1..m : items[i] = items[j] => i = j
  BY DevicesListed
<1>2. who \in Staged /\ Lister(who) = "links" /\ Member(who) = "device"
      /\ Members(who, AllFrames("links")) = items
  BY DEF Staged, Lister, Member, Members
<1> HIDE DEF items
<1>3. AnsweredInTurn(who, items) /\ \A i \in 1..m : got[i + 2].frames = F(items[i])
  BY <1>2, StagedAnswers
<1> HIDE DEF names
<1>4. m \in Nat /\ DOMAIN items = 1..m /\ \A i \in 1..m : items[i] \in names
  BY <1>1
<1>5. ASSUME NEW x
      PROVE  /\ Amount(WgReported(F(x)), count, "sum", PeersIn(F(x)))
             /\ Amount(WgReported(F(x)), bytes, "count", Smaller(PeersIn(F(x)), WgMaxPeers))
             /\ PeersIn(F(x)) \in Nat /\ Smaller(PeersIn(F(x)), WgMaxPeers) \in Nat
  <2>1. F(x) \in Seq(ToSet(F(x))) /\ \A i \in 1..Len(F(x)) : Readable("wireguard", "device", F(x)[i])
    BY KernelReadable
  <2> HIDE DEF F
  <2>2. /\ Amount(WgReported(F(x)), count, "sum", PeersIn(F(x)))
        /\ Amount(WgReported(F(x)), bytes, "count", Smaller(PeersIn(F(x)), WgMaxPeers))
        /\ PeersIn(F(x)) \in Nat
    BY <2>1, WgReportedAmount
  <2> QED BY <2>2, WgCapAssumption DEF Smaller
<1> HIDE DEF F
<1>6. p \in [names -> Nat] /\ q \in [names -> Nat]
  BY <1>5
<1>7. /\ \A i \in 1..m : p[items[i]] = PeersIn(F(items[i]))
      /\ \A i \in 1..m : q[items[i]] = Smaller(PeersIn(F(items[i])), WgMaxPeers)
  BY <1>4
<1>8. body = FlattenSeq(seqs)
  <2>1. body = WgEmit(got)
    BY DEF CollectInv, Emit
  <2>2. AnswersTo(got, "device") = [i \in 1..m |-> got[i + 2]]
    BY <1>2, <1>3, TurnAnswers
  <2> DEFINE answers == AnswersTo(got, "device")
  <2>3. WgEmit(got) = FlattenSeq([i \in DOMAIN answers |-> WgReported(answers[i].frames)])
    BY Zenon DEF WgEmit, WgReported, AnswersTo, Each, MapSeq
  <2> HIDE DEF answers
  <2>4. DOMAIN answers = 1..m /\ \A i \in 1..m : answers[i].frames = F(items[i])
    BY <1>3, <2>2 DEF answers
  <2>5. [i \in DOMAIN answers |-> WgReported(answers[i].frames)] = seqs
    BY <2>4
  <2> QED BY <2>1, <2>3, <2>5
<1>9. /\ \A i \in 1..m : Amount(seqs[i], count, "sum", p[items[i]])
      /\ \A i \in 1..m : Amount(seqs[i], bytes, "count", q[items[i]])
      /\ seqs = [i \in 1..m |-> seqs[i]]
  <2>1. \A i \in 1..m : seqs[i] = WgReported(F(items[i]))
    OBVIOUS
  <2>2. seqs = [i \in 1..m |-> seqs[i]]
    OBVIOUS
  <2> HIDE DEF seqs, p, q, count, bytes
  <2> QED BY <1>5, <1>7, <2>1, <2>2
<1> HIDE DEF seqs, count, bytes
<1> DEFINE v == [j \in 1..l |-> p[listed[j]]]
           u == [j \in 1..l |-> q[listed[j]]]
<1>10. Lists(listed, names, l)
  BY <1>1, <1>4, KeysListed
<1>11. TotalOf(listed, Peers) = FirstTotal(v, l)
  <2>1. DOMAIN listed = 1..l /\ \A j \in 1..l : listed[j] \in names
    BY <1>10 DEF Lists
  <2> HIDE DEF listed, l
  <2>2. \A j \in 1..l : Peers(listed[j]) = p[listed[j]]
    BY <2>1, PeersFound DEF F
  <2> HIDE DEF p
  <2>3. [j \in DOMAIN listed |-> Peers(listed[j])] = v /\ [j \in 1..l |-> v[j]] = v
    BY <2>1, <2>2
  <2> HIDE DEF v
  <2> QED BY <2>3 DEF TotalOf, MapSeq, FirstTotal
<1>12. TotalOf(listed, LAMBDA n : Smaller(Peers(n), WgMaxPeers)) = FirstTotal(u, l)
  <2>1. DOMAIN listed = 1..l /\ \A j \in 1..l : listed[j] \in names
    BY <1>10 DEF Lists
  <2> HIDE DEF listed, l
  <2>2. \A j \in 1..l : Smaller(Peers(listed[j]), WgMaxPeers) = q[listed[j]]
    BY <2>1, PeersFound DEF F
  <2> HIDE DEF q
  <2>3. [j \in DOMAIN listed |-> Smaller(Peers(listed[j]), WgMaxPeers)] = u /\ [j \in 1..l |-> u[j]] = u
    BY <2>1, <2>2
  <2> HIDE DEF u
  <2> QED BY <2>3 DEF TotalOf, MapSeq, FirstTotal
<1> HIDE DEF p, q, listed, l
<1>13. v = [j \in 1..l |-> p[listed[j]]] /\ u = [j \in 1..l |-> q[listed[j]]]
  OBVIOUS
<1> HIDE DEF v, u
<1>14. OnceEach(items, names)
  BY <1>1 DEF OnceEach
<1>15. AddsItsOwn(seqs, items, p, count, "sum") /\ AddsItsOwn(seqs, items, q, bytes, "count")
  BY <1>9 DEF AddsItsOwn
<1>16. items \in Seq(names)
  BY <1>1
<1> HIDE DEF m
<1>17. Amount(FlattenSeq(seqs), count, "sum", FirstTotal(v, l))
  BY <1>6, <1>10, <1>13, <1>14, <1>15, <1>16, AmountListed
<1>18. Amount(FlattenSeq(seqs), bytes, "count", FirstTotal(u, l))
  BY <1>6, <1>10, <1>13, <1>14, <1>15, <1>16, AmountListed
<1> DEFINE a == FirstTotal(v, l)
           b == FirstTotal(u, l)
<1> HIDE DEF a, b
<1>19. Summed(body, count) = a
  BY <1>8, <1>17, AmountSum DEF a
<1>20. Len(Named(body, bytes)) = b
  BY <1>8, <1>18, AmountCount DEF b
<1>21. SumOf(count) = Summed(body, count) /\ CountOf(bytes) = Len(Named(body, bytes))
  BY DEF SumOf, CountOf, Summed, Named
<1> QED BY <1>11, <1>12, <1>19, <1>20, <1>21 DEF a, b, listed, names, count, bytes

\* When nothing failed and the kernel did not change meanwhile, all that it
\* had is in the report, whatever and however much that is: no rule, peer,
\* destination, socket, address, route, neighbour, expectation or byte is lost
\* between the frames and the samples, whether the requests are fixed or depend
\* on the answers.
THEOREM NothingLostHolds == Spec => []NothingLost
<1>1. ASSUME CollectInv PROVE NothingLost
  <2> SUFFICES ASSUME Succeeded, begun = now, Failures = <<>> PROVE NothingLost
    BY DEF NothingLost
  <2>1. CASE who = "nftables"
    BY <1>1, <2>1, NftAccounted DEF NothingLost
  <2>2. CASE who = "sock_diag"
    BY <1>1, <2>2, SockAccounted, Zenon DEF NothingLost
  <2>3. CASE who = "traffic_control"
    BY <1>1, <2>3, TcAccounted, Zenon DEF NothingLost, TotalOf, MapSeq, TcBytes
  <2>4. CASE who = "rtnetlink"
    BY <1>1, <2>4, RtAccounted, Zenon DEF NothingLost
  <2>5. CASE who = "conntrack_expect"
    BY <1>1, <2>5, ExpectAccounted DEF NothingLost
  <2>6. CASE who = "wireguard"
    BY <1>1, <2>6, WgAccounted, Zenon DEF NothingLost
  <2>7. CASE who = "ipvs"
    BY <1>1, <2>7, IpvsAccounted, Zenon DEF NothingLost
  <2>8. CASE who \notin {"nftables", "sock_diag", "traffic_control", "rtnetlink", "conntrack_expect",
                          "wireguard", "ipvs"}
    BY <2>8 DEF NothingLost
  <2> QED BY <2>1, <2>2, <2>3, <2>4, <2>5, <2>6, <2>7, <2>8
<1> QED BY <1>1, CollectHolds, PTL

-----------------------------------------------------------------------------
(* Counters from one scrape to the next.                                   *)

\* A sample of joined sequences is one of some of them.
LEMMA HasFlattened ==
  ASSUME NEW n \in Nat, NEW seqs, seqs = [i \in 1..n |-> seqs[i]],
         \A i \in 1..n : \E T : seqs[i] \in Seq(T),
         NEW s, HasSample(FlattenSeq(seqs), s)
  PROVE  \E i \in 1..n : \E j \in 1..Len(seqs[i]) : seqs[i][j] = s
<1> DEFINE flat == FlattenSeq(seqs)
<1>1. PICK T : \A i \in 1..n : seqs[i] \in Seq(T)
  BY CommonElements
<1>2. seqs \in [1..n -> Seq(T)]
  BY <1>1
<1>3. flat \in Seq(T) /\ ComesFrom(flat, seqs, n)
  BY <1>2, FlattenFrom
<1>4. HasSample(flat, s)
  OBVIOUS
<1> HIDE DEF flat
<1>5. PICK k \in 1..Len(flat) : flat[k] = s
  BY <1>3, <1>4 DEF HasSample
<1>6. \E i \in 1..n : \E j \in 1..Len(seqs[i]) : flat[k] = seqs[i][j]
  BY <1>3 DEF ComesFrom
<1> QED BY <1>5, <1>6

\* The gauges of the collectors that read counters by one request.
Uncounted ==
    {"nft_link_up", "nft_address_count", "nft_route_count", "nft_neighbor_count",
     "nft_conntrack_entries", "nft_softnet_backlog_length"}
Level(s) == s.type = "gauge" /\ s.name \in Uncounted

\* What is read of a counter: s has this name, these labels and this value.
Reads(s, name, labels, value) ==
    Series(s) = <<name, labels>> /\ s.value = value

\* A counter has what it was made with, and a gauge is none.
LEMMA CounterReads ==
  ASSUME NEW name, NEW labels, NEW value
  PROVE  /\ Reads(Counter(name, labels, value), name, labels, value)
         /\ name \in Uncounted => Level(Gauge(name, labels, value))
BY DEF Reads, Counter, Gauge, Series, Level

\* A sequence of such gauges and of counters that are among c.
CountsAmong(u, c) ==
    /\ \E T : u \in Seq(T)
    /\ \A j \in 1..Len(u) : ~Level(u[j]) => u[j] \in c

\* n counters and a gauge after them.
LEMMA CountersAndGauge ==
  ASSUME NEW n \in Nat, NEW s, s = [i \in 1..n |-> s[i]], NEW x, Level(x)
  PROVE  CountsAmong(s \o <<x>>, {s[i] : i \in 1..n})
<1> DEFINE one == <<x>>
           T == {s[i] : i \in 1..n} \cup {x}
           u == s \o one
<1>1. s \in [1..n -> T]
  OBVIOUS
<1>2. one \in Seq(T) /\ Len(one) = 1 /\ one[1] = x
  OBVIOUS
<1> HIDE DEF T, one
<1>3. s \in Seq(T) /\ Len(s) = n
  BY <1>1, FunctionIsSeq
<1>4. Joins(u, s, one, T)
  BY <1>2, <1>3, JoinParts
<1> HIDE DEF u
<1>5. /\ u \in Seq(T) /\ Len(u) = n + 1 /\ u[n + 1] = x
      /\ \A i \in 1..n : u[i] = s[i]
  BY <1>2, <1>3, <1>4 DEF Joins
<1>6. \A j \in 1..Len(u) : ~Level(u[j]) => u[j] \in {s[i] : i \in 1..n}
  <2>1. \A j \in 1..Len(u) : j \in 1..n \/ j = n + 1
    BY <1>5
  <2> QED BY <1>5, <2>1
<1>7. CountsAmong(u, {s[i] : i \in 1..n})
  BY <1>5, <1>6, Zenon DEF CountsAmong
<1> QED BY <1>7 DEF u, one

\* Nothing has no counters.
LEMMA NoneCounts ==
  ASSUME NEW c
  PROVE  CountsAmong(<<>>, c)
<1> DEFINE none == <<>>
<1>1. none \in Seq({}) /\ Len(none) = 0
  OBVIOUS
<1> HIDE DEF none
<1>2. CountsAmong(none, c)
  BY <1>1 DEF CountsAmong
<1> QED BY <1>2 DEF none

\* A counter of joined sequences is one of some of them.
LEMMA FlattenCounts ==
  ASSUME NEW n \in Nat, NEW seqs, seqs = [i \in 1..n |-> seqs[i]], NEW c,
         \A i \in 1..n : CountsAmong(seqs[i], c[i]),
         NEW s, HasSample(FlattenSeq(seqs), s), ~Level(s)
  PROVE  \E i \in 1..n : s \in c[i]
<1>1. \A i \in 1..n : \E T : seqs[i] \in Seq(T)
  BY DEF CountsAmong
<1>2. PICK i \in 1..n : \E j \in 1..Len(seqs[i]) : seqs[i][j] = s
  BY <1>1, HasFlattened, SMTT(20)
<1> QED BY <1>2 DEF CountsAmong

-----------------------------------------------------------------------------
(* The counters of a body, and what frames they are read from.             *)

\* A counter of a link.
LinkCounted(frames, s) ==
    \E i \in 1..Len(frames), k \in 1..8 :
        /\ "name" \in DOMAIN frames[i]
        /\ Reads(s, LinkCounters[k].name, [device |-> frames[i].name],
                 LinkStats(frames[i])[LinkCounters[k].at])

\* Each counter of a part of links is one.
LEMMA LinksCounted ==
  ASSUME NEW T, NEW frames \in Seq(T), NEW s, HasSample(RtLinks(frames), s), ~Level(s)
  PROVE  LinkCounted(frames, s)
<1> DEFINE W == RtNamed(frames)
           n == Len(W)
           seqs == [i \in 1..n |-> LinkSamples(W[i])]
           named == {f \in T : "name" \in DOMAIN f}
           Labels(f) == [device |-> f.name]
           c(f) == [k \in 1..8 |-> Counter(LinkCounters[k].name, Labels(f), LinkStats(f)[LinkCounters[k].at])]
           x(f) == Gauge("nft_link_up", Labels(f), Bit(LinkUp(f)))
<1>1. W \in Seq(T) /\ Filters(W, frames, named)
  BY RtFilters
<1>2. ASSUME NEW f PROVE LinkSamples(f) = c(f) \o <<x(f)>>
  <2>1. DOMAIN LinkCounters = 1..8
    BY DEF LinkCounters
  <2> QED BY <2>1 DEF LinkSamples, MapSeq
<1>3. ASSUME NEW f, NEW k \in 1..8
      PROVE  Reads(c(f)[k], LinkCounters[k].name, Labels(f), LinkStats(f)[LinkCounters[k].at])
  BY CounterReads
<1>4. ASSUME NEW f PROVE Level(x(f)) /\ c(f) = [k \in 1..8 |-> c(f)[k]]
  <2>1. Level(x(f))
    BY CounterReads DEF Uncounted
  <2> QED BY <2>1
<1> HIDE DEF W, c, x, Labels
<1>5. n \in Nat /\ DOMAIN W = 1..n
  BY <1>1
<1>6. RtLinks(frames) = FlattenSeq(seqs)
  BY <1>5 DEF RtLinks, Each, MapSeq, W
<1> DEFINE mine == [i \in 1..n |-> {c(W[i])[k] : k \in 1..8}]
<1>7. ASSUME NEW i \in 1..n PROVE CountsAmong(seqs[i], mine[i])
  <2> DEFINE f == W[i]
             d == c(f)
             y == x(f)
  <2>1. d = [k \in 1..8 |-> d[k]] /\ Level(y) /\ seqs[i] = d \o <<y>>
    BY <1>2, <1>4
  <2>2. mine[i] = {d[k] : k \in 1..8}
    OBVIOUS
  <2> HIDE DEF seqs, mine, d, y
  <2>3. CountsAmong(d \o <<y>>, {d[k] : k \in 1..8})
    <3>1. d = [k \in 1..8 |-> d[k]] /\ Level(y) /\ 8 \in Nat
      BY <2>1
    <3> QED BY <3>1, CountersAndGauge
  <2> QED BY <2>1, <2>2, <2>3
<1>8. seqs = [i \in 1..n |-> seqs[i]]
  OBVIOUS
<1>9. PICK i \in 1..n : s \in mine[i]
  <2> HIDE DEF seqs, n, mine
  <2>1. n \in Nat /\ seqs = [i \in 1..n |-> seqs[i]] /\ \A i \in 1..n : CountsAmong(seqs[i], mine[i])
    BY <1>5, <1>7, <1>8
  <2>2. HasSample(FlattenSeq(seqs), s) /\ ~Level(s)
    BY <1>6
  <2> QED BY <2>1, <2>2, FlattenCounts, SMTT(40)
<1>10. PICK k \in 1..8 : s = c(W[i])[k]
  BY <1>9
<1>11. PICK l \in 1..Len(frames) : frames[l] \in named /\ W[i] = frames[l]
  BY <1>1 DEF Filters
<1>12. Reads(s, LinkCounters[k].name, Labels(frames[l]), LinkStats(frames[l])[LinkCounters[k].at])
  BY <1>3, <1>10, <1>11
<1> QED BY <1>11, <1>12 DEF LinkCounted, Labels

\* A counter of a CPU in softnet.rs.
CpuCounted(frames, s) ==
    \E i \in 1..Len(frames), k \in 1..5 :
        /\ Len(frames[i]) >= 13
        /\ Reads(s, SoftnetColumns[k].name, [cpu |-> frames[i][13]],
                 frames[i][SoftnetColumns[k].at])

\* Each counter of a body of softnet.rs is one.
LEMMA CpusCounted ==
  ASSUME NEW T, NEW frames \in Seq(T), NEW s, HasSample(Each(frames, SoftnetSamples), s),
         ~Level(s)
  PROVE  CpuCounted(frames, s)
<1> DEFINE n == Len(frames)
           seqs == [i \in 1..n |-> SoftnetSamples(frames[i])]
           Labels(l) == [cpu |-> l[13]]
           c(l) == [k \in 1..5 |-> Counter(SoftnetColumns[k].name, Labels(l), l[SoftnetColumns[k].at])]
           x(l) == Gauge("nft_softnet_backlog_length", Labels(l), l[12])
           none == <<>>
<1>1. n \in Nat /\ DOMAIN frames = 1..n /\ none \in Seq({}) /\ Len(none) = 0
  OBVIOUS
<1>2. ASSUME NEW l, ~(Len(l) < 13) PROVE SoftnetSamples(l) = c(l) \o <<x(l)>>
  <2>1. DOMAIN SoftnetColumns = 1..5
    BY DEF SoftnetColumns
  <2> QED BY <1>2, <2>1 DEF SoftnetSamples, MapSeq
<1>3. ASSUME NEW l, Len(l) < 13 PROVE SoftnetSamples(l) = none
  BY <1>3 DEF SoftnetSamples
<1>4. ASSUME NEW l, NEW k \in 1..5
      PROVE  Reads(c(l)[k], SoftnetColumns[k].name, Labels(l), l[SoftnetColumns[k].at])
  BY CounterReads
<1>5. ASSUME NEW l PROVE Level(x(l)) /\ c(l) = [k \in 1..5 |-> c(l)[k]]
  <2>1. Level(x(l))
    BY CounterReads DEF Uncounted
  <2> QED BY <2>1
<1> HIDE DEF c, x, Labels, none
<1>6. Each(frames, SoftnetSamples) = FlattenSeq(seqs)
  BY <1>1 DEF Each, MapSeq
<1> DEFINE mine == [i \in 1..n |-> IF Len(frames[i]) < 13 THEN {}
                                  ELSE {c(frames[i])[k] : k \in 1..5}]
<1>7. ASSUME NEW i \in 1..n PROVE CountsAmong(seqs[i], mine[i])
  <2> DEFINE l == frames[i]
             d == c(l)
             y == x(l)
  <2>1. CASE Len(l) < 13
    <3>1. seqs[i] = none
      BY <1>3, <2>1
    <3> HIDE DEF seqs, mine
    <3> QED BY <3>1, NoneCounts DEF none
  <2>2. CASE ~(Len(l) < 13)
    <3>1. d = [k \in 1..5 |-> d[k]] /\ Level(y) /\ seqs[i] = d \o <<y>>
      BY <1>2, <1>5, <2>2
    <3>2. mine[i] = {d[k] : k \in 1..5}
      BY <2>2
    <3> HIDE DEF seqs, mine, d, y
    <3>3. CountsAmong(d \o <<y>>, {d[k] : k \in 1..5})
      <4>1. d = [k \in 1..5 |-> d[k]] /\ Level(y) /\ 5 \in Nat
        BY <3>1
      <4> QED BY <4>1, CountersAndGauge
    <3> QED BY <3>1, <3>2, <3>3
  <2> QED BY <2>1, <2>2
<1>8. seqs = [i \in 1..n |-> seqs[i]]
  OBVIOUS
<1>9. PICK i \in 1..n : s \in mine[i]
  <2> HIDE DEF seqs, n, mine
  <2> QED BY <1>1, <1>6, <1>7, <1>8, FlattenCounts
<1>10. ~(Len(frames[i]) < 13) /\ s \in {c(frames[i])[k] : k \in 1..5}
  BY <1>9
<1>11. PICK k \in 1..5 : s = c(frames[i])[k]
  BY <1>10
<1>12. Reads(s, SoftnetColumns[k].name, Labels(frames[i]), frames[i][SoftnetColumns[k].at])
  BY <1>4, <1>11
<1>13. Len(frames[i]) >= 13
  BY <1>10
<1> QED BY <1>12, <1>13 DEF CpuCounted, Labels

\* A count of an interrupt.
IrqLabels(l) ==
    [irq |-> l.id, device |-> IF Len(l.columns) < 2 THEN "" ELSE l.columns[Len(l.columns)]]
IrqCounted(frames, s) ==
    \E i \in 1..Len(frames) :
        /\ frames[i].numbered
        /\ Reads(s, "nft_irq_total", IrqLabels(frames[i]), Smaller(Total(frames[i].counts), SumMax))

\* Each counter of a body of irq.rs is one.
LEMMA IrqsCounted ==
  ASSUME NEW T, NEW frames \in Seq(T), \A i \in 1..Len(frames) : frames[i].counts \in Seq(Nat),
         NEW s, HasSample(Each(frames, IrqSamples), s), ~Level(s)
  PROVE  IrqCounted(frames, s)
<1> DEFINE n == Len(frames)
           seqs == [i \in 1..n |-> IrqSamples(frames[i])]
           x(l) == Counter("nft_irq_total", IrqLabels(l), Saturating(l.counts, LAMBDA m : m))
           mine == [i \in 1..n |-> IF frames[i].numbered THEN {x(frames[i])} ELSE {}]
<1>1. n \in Nat /\ DOMAIN frames = 1..n
  OBVIOUS
<1>2. Each(frames, IrqSamples) = FlattenSeq(seqs)
  BY <1>1 DEF Each, MapSeq
<1>3. ASSUME NEW l PROVE IrqSamples(l) = IF ~l.numbered \/ l.counts = <<>> THEN <<>> ELSE <<x(l)>>
  BY DEF IrqSamples, IrqLabels
<1>4. ASSUME NEW i \in 1..n
      PROVE  Reads(x(frames[i]), "nft_irq_total", IrqLabels(frames[i]),
                   Smaller(Total(frames[i].counts), SumMax))
  <2> DEFINE c == frames[i].counts
  <2>1. c \in Seq(Nat)
    OBVIOUS
  <2>2. MapSeq(c, LAMBDA m : m) = c
    <3> HIDE DEF c
    <3> QED BY <2>1 DEF MapSeq
  <2>3. Saturating(c, LAMBDA m : m) = Smaller(Total(c), SumMax)
    <3> HIDE DEF c
    <3> QED BY <2>2 DEF Saturating, TotalOf
  <2> QED BY <2>3, CounterReads
<1> HIDE DEF x
<1>5. ASSUME NEW i \in 1..n PROVE CountsAmong(seqs[i], mine[i])
  <2> DEFINE l == frames[i]
             y == x(l)
  <2>1. CASE ~l.numbered \/ l.counts = <<>>
    <3>1. seqs[i] = <<>>
      BY <1>3, <2>1
    <3> HIDE DEF seqs, mine
    <3> QED BY <3>1, NoneCounts
  <2>2. CASE ~(~l.numbered \/ l.counts = <<>>)
    <3>1. seqs[i] = <<y>> /\ y \in mine[i]
      BY <1>3, <2>2
    <3> DEFINE one == <<y>>
    <3>2. one \in Seq({y}) /\ \A j \in 1..Len(one) : one[j] = y
      OBVIOUS
    <3> HIDE DEF seqs, mine, y, one
    <3>3. CountsAmong(one, mine[i])
      BY <3>1, <3>2 DEF CountsAmong
    <3> QED BY <3>1, <3>3 DEF one
  <2> QED BY <2>1, <2>2
<1>6. seqs = [i \in 1..n |-> seqs[i]]
  OBVIOUS
<1>7. PICK i \in 1..n : s \in mine[i]
  <2> HIDE DEF seqs, n, mine
  <2>1. HasSample(FlattenSeq(seqs), s)
    BY <1>2
  <2>2. n \in Nat /\ ~Level(s) /\ \A i \in 1..n : CountsAmong(seqs[i], mine[i])
    BY <1>1, <1>5
  <2> QED BY <1>6, <2>1, <2>2, FlattenCounts
<1>8. frames[i].numbered /\ s = x(frames[i])
  BY <1>7
<1>9. Reads(s, "nft_irq_total", IrqLabels(frames[i]), Smaller(Total(frames[i].counts), SumMax))
  BY <1>4, <1>8
<1> QED BY <1>8, <1>9 DEF IrqCounted

\* A count of a kind of softirq on a CPU.
SoftirqCounted(frames, s) ==
    \E i \in 2..Len(frames) : \E p \in 1..Len(frames[i].counts) :
        /\ frames[i].row \in DOMAIN SoftirqKinds
        /\ p \in 1..Len(frames[1].cpus)
        /\ Reads(s, "nft_softirq_total",
                 [cpu |-> frames[1].cpus[p], kind |-> SoftirqKinds[frames[i].row]],
                 frames[i].counts[p])

\* Each counter of a body of softirq.rs is one.
LEMMA SoftirqsCounted ==
  ASSUME NEW T, NEW frames \in Seq(T), frames # <<>>, NamedOnce("softirq", "softirqs", frames),
         NEW s, HasSample(SoftirqLines(frames), s), ~Level(s)
  PROVE  SoftirqCounted(frames, s)
<1> DEFINE lines == Tail(frames)
           n == Len(lines)
           header == Head(frames)
           Size(l) == Smaller(Len(header.cpus), Len(l.counts))
           x(l, p) == Counter("nft_softirq_total",
                              [cpu |-> SoftirqCpu(header, p), kind |-> SoftirqKinds[l.row]],
                              l.counts[p])
           seqs == [i \in 1..n |-> SoftirqSamples(header, lines[i])]
           mine == [i \in 1..n |-> IF lines[i].row \notin DOMAIN SoftirqKinds THEN {}
                                   ELSE {x(lines[i], p) : p \in 1..Size(lines[i])}]
<1>1. /\ lines \in Seq(T) /\ n \in Nat /\ DOMAIN lines = 1..n /\ header = frames[1]
      /\ Len(frames) = n + 1 /\ \A i \in 1..n : lines[i] = frames[i + 1]
  BY EmptySeq, HeadTailProperties
<1>2. /\ Sequential(header.cpus)
      /\ \A i \in 1..n : Sequential(lines[i].counts)
  BY <1>1 DEF NamedOnce, Unique
<1> HIDE DEF lines, header
<1>3. /\ Len(header.cpus) \in Nat
      /\ \A i \in 1..n : Len(lines[i].counts) \in Nat
  BY <1>2 DEF Sequential
<1>4. SoftirqLines(frames) = FlattenSeq(seqs)
  BY <1>1 DEF SoftirqLines, Each, MapSeq, lines, header
<1>5. ASSUME NEW l, NEW p
      PROVE  Reads(x(l, p), "nft_softirq_total",
                   [cpu |-> header.cpus[p], kind |-> SoftirqKinds[l.row]], l.counts[p])
  BY CounterReads DEF SoftirqCpu
<1>6. ASSUME NEW l
      PROVE  SoftirqSamples(header, l)
             = IF l.row \notin DOMAIN SoftirqKinds THEN <<>> ELSE [p \in 1..Size(l) |-> x(l, p)]
  BY DEF SoftirqSamples
<1> HIDE DEF x
<1>7. ASSUME NEW i \in 1..n PROVE CountsAmong(seqs[i], mine[i])
  <2> DEFINE l == lines[i]
             m == Size(l)
             c == [p \in 1..m |-> x(l, p)]
             S == {c[p] : p \in 1..m}
  <2>1. m \in Nat
    BY <1>3 DEF Smaller
  <2>2. CASE l.row \notin DOMAIN SoftirqKinds
    <3>1. seqs[i] = <<>>
      BY <1>6, <2>2
    <3> HIDE DEF seqs, mine
    <3> QED BY <3>1, NoneCounts
  <2>3. CASE l.row \in DOMAIN SoftirqKinds
    <3>1. seqs[i] = c
      BY <1>6, <2>3
    <3>2. mine[i] = S
      BY <2>3
    <3>3. c \in [1..m -> S]
      OBVIOUS
    <3> HIDE DEF seqs, mine, c, S, m
    <3>4. c \in Seq(S)
      BY <2>1, <3>3, FunctionIsSeq
    <3>5. CountsAmong(c, S)
      BY <3>4 DEF CountsAmong
    <3> QED BY <3>1, <3>2, <3>5
  <2> QED BY <2>2, <2>3
<1>8. seqs = [i \in 1..n |-> seqs[i]]
  OBVIOUS
<1>9. PICK i \in 1..n : s \in mine[i]
  <2> HIDE DEF seqs, mine
  <2>1. n \in Nat /\ ~Level(s) /\ HasSample(FlattenSeq(seqs), s)
    BY <1>1, <1>4
  <2> HIDE DEF n
  <2> QED BY <1>7, <1>8, <2>1, FlattenCounts
<1>10. lines[i].row \in DOMAIN SoftirqKinds /\ s \in {x(lines[i], p) : p \in 1..Size(lines[i])}
  BY <1>9
<1>11. PICK p \in 1..Size(lines[i]) : s = x(lines[i], p)
  BY <1>10
<1>12. p \in 1..Len(header.cpus) /\ p \in 1..Len(lines[i].counts)
  BY <1>3 DEF Smaller
<1>13. Reads(s, "nft_softirq_total", [cpu |-> header.cpus[p], kind |-> SoftirqKinds[lines[i].row]],
             lines[i].counts[p])
  BY <1>5, <1>11
<1> DEFINE j == i + 1
<1>14. j \in 2..Len(frames) /\ frames[j] = lines[i]
  BY <1>1
<1> HIDE DEF j
<1> QED BY <1>1, <1>10, <1>12, <1>13, <1>14 DEF SoftirqCounted

\* A sum over the CPUs in conntrack.rs.
CtSummed(frames, s) ==
    \E k \in 1..7 : Reads(s, CtCounters[k].name, NoLabels, CtSum(frames, CtCounters[k].attr))

\* Each counter of this part of its body is one.
LEMMA CtSumsCounted ==
  ASSUME NEW frames, NEW s, HasSample(CtCounted(frames), s)
  PROVE  CtSummed(frames, s)
<1> DEFINE T == {CtCounters[i] : i \in 1..7}
           given == {c \in T : c.new => \E i \in DOMAIN frames : c.attr \in DOMAIN frames[i]}
           W == Sifted(CtCounters, given)
           u == [i \in DOMAIN W |-> Counter(W[i].name, NoLabels, CtSum(frames, W[i].attr))]
<1>1. CtCounters \in Seq(T) /\ DOMAIN CtCounters = 1..7
  <2>1. DOMAIN CtCounters = 1..7 /\ CtCounters = [i \in 1..7 |-> CtCounters[i]]
    BY DEF CtCounters
  <2>2. CtCounters \in [1..7 -> T]
    BY <2>1
  <2> HIDE DEF T
  <2> QED BY <2>1, <2>2, FunctionIsSeq
<1>2. CtCounted(frames) = u
  <2>1. \A i \in 1..7 : CtCounters[i] \in given <=>
           (CtCounters[i].new => \E j \in DOMAIN frames : CtCounters[i].attr \in DOMAIN frames[j])
    OBVIOUS
  <2>2. W = FlattenSeq([i \in DOMAIN CtCounters |->
               IF CtCounters[i].new => \E j \in DOMAIN frames : CtCounters[i].attr \in DOMAIN frames[j]
               THEN <<CtCounters[i]>> ELSE <<>>])
    BY <1>1, <2>1 DEF Sifted
  <2> HIDE DEF W
  <2> QED BY <2>2 DEF CtCounted, MapSeq, Where
<1> HIDE DEF given
<1>3. W \in Seq(T)
  BY <1>1, SiftedFilters
<1> HIDE DEF W
<1>4. \A i \in DOMAIN W : W[i] \in T
  BY <1>3
<1>5. PICK i \in DOMAIN W : u[i] = s
  <2>1. DOMAIN u = DOMAIN W
    OBVIOUS
  <2> HIDE DEF u
  <2> QED BY <1>2, <2>1 DEF HasSample
<1>6. PICK k \in 1..7 : W[i] = CtCounters[k]
  BY <1>4
<1>7. s = Counter(CtCounters[k].name, NoLabels, CtSum(frames, CtCounters[k].attr))
  BY <1>5, <1>6
<1>8. Reads(s, CtCounters[k].name, NoLabels, CtSum(frames, CtCounters[k].attr))
  BY <1>7, CounterReads
<1> QED BY <1>8 DEF CtSummed

-----------------------------------------------------------------------------
(* What is read later is no less.                                          *)

\* Two samples read of one series have the same name and labels.
LEMMA SameRead ==
  ASSUME NEW s, NEW u, NEW name, NEW labels, NEW value, NEW name2, NEW labels2, NEW value2,
         Reads(s, name, labels, value), Reads(u, name2, labels2, value2), Series(s) = Series(u)
  PROVE  name = name2 /\ labels = labels2 /\ s.value = value /\ u.value = value2
BY DEF Reads

\* A link keeps its counters.
LEMMA LinkGrows ==
  ASSUME NEW S, NEW f \in Seq(S), NEW T, NEW g \in Seq(T), Advanced("rtnetlink", f, g),
         NEW s, NEW u, LinkCounted(f, s), LinkCounted(g, u), Series(s) = Series(u)
  PROVE  s.value <= u.value
<1> DEFINE L(name) == [device |-> name]
<1>1. PICK i \in 1..Len(f), k \in 1..8 :
         /\ "name" \in DOMAIN f[i]
         /\ Reads(s, LinkCounters[k].name, L(f[i].name), LinkStats(f[i])[LinkCounters[k].at])
  BY DEF LinkCounted
<1>2. PICK j \in 1..Len(g), l \in 1..8 :
         /\ "name" \in DOMAIN g[j]
         /\ Reads(u, LinkCounters[l].name, L(g[j].name), LinkStats(g[j])[LinkCounters[l].at])
  BY DEF LinkCounted
<1>3. /\ \A x, y \in 1..8 : LinkCounters[x].name = LinkCounters[y].name => x = y
      /\ \A x \in 1..8 : LinkCounters[x].at \in 1..8
  BY DEF LinkCounters
<1>4. \A x, y : L(x) = L(y) => x = y
  <2>1. \A x : L(x).device = x
    OBVIOUS
  <2> HIDE DEF L
  <2> QED BY <2>1
<1> HIDE DEF L
<1>5. /\ LinkCounters[k].name = LinkCounters[l].name /\ L(f[i].name) = L(g[j].name)
      /\ s.value = LinkStats(f[i])[LinkCounters[k].at]
      /\ u.value = LinkStats(g[j])[LinkCounters[l].at]
  BY <1>1, <1>2, SameRead
<1>6. k = l /\ f[i].name = g[j].name
  BY <1>3, <1>4, <1>5
<1>7. \A x \in 1..8 : LinkStats(f[i])[x] <= LinkStats(g[j])[x]
  <2>1. \A x \in DOMAIN f, y \in DOMAIN g :
           "name" \in DOMAIN f[x] /\ "name" \in DOMAIN g[y] /\ f[x].name = g[y].name
              => \A z \in 1..8 : LinkStats(f[x])[z] <= LinkStats(g[y])[z]
    BY DEF Advanced
  <2>2. i \in DOMAIN f /\ j \in DOMAIN g
    OBVIOUS
  <2> QED BY <1>1, <1>2, <1>6, <2>1, <2>2
<1> QED BY <1>3, <1>5, <1>6, <1>7

\* So does a CPU of softnet.rs, whatever line it is on.
LEMMA CpuGrows ==
  ASSUME NEW S, NEW f \in Seq(S), NEW T, NEW g \in Seq(T), Advanced("softnet", f, g),
         NEW s, NEW u, CpuCounted(f, s), CpuCounted(g, u), Series(s) = Series(u)
  PROVE  s.value <= u.value
<1> DEFINE L(cpu) == [cpu |-> cpu]
<1>1. PICK i \in 1..Len(f), k \in 1..5 :
         /\ Len(f[i]) >= 13
         /\ Reads(s, SoftnetColumns[k].name, L(f[i][13]), f[i][SoftnetColumns[k].at])
  BY DEF CpuCounted
<1>2. PICK j \in 1..Len(g), l \in 1..5 :
         /\ Len(g[j]) >= 13
         /\ Reads(u, SoftnetColumns[l].name, L(g[j][13]), g[j][SoftnetColumns[l].at])
  BY DEF CpuCounted
<1>3. \A x, y \in 1..5 : SoftnetColumns[x].name = SoftnetColumns[y].name => x = y
  BY DEF SoftnetColumns
<1>4. \A x, y : L(x) = L(y) => x = y
  <2>1. \A x : L(x).cpu = x
    OBVIOUS
  <2> HIDE DEF L
  <2> QED BY <2>1
<1> HIDE DEF L
<1>5. /\ SoftnetColumns[k].name = SoftnetColumns[l].name /\ L(f[i][13]) = L(g[j][13])
      /\ s.value = f[i][SoftnetColumns[k].at]
      /\ u.value = g[j][SoftnetColumns[l].at]
  BY <1>1, <1>2, SameRead
<1>6. k = l /\ f[i][13] = g[j][13]
  BY <1>3, <1>4, <1>5
<1>7. f[i][SoftnetColumns[k].at] <= g[j][SoftnetColumns[k].at]
  <2>1. \A x \in DOMAIN f, y \in DOMAIN g :
           Len(f[x]) >= 13 /\ Len(g[y]) >= 13 /\ f[x][13] = g[y][13]
              => \A z \in 1..5 : f[x][SoftnetColumns[z].at] <= g[y][SoftnetColumns[z].at]
    BY DEF Advanced
  <2>2. i \in DOMAIN f /\ j \in DOMAIN g
    OBVIOUS
  <2> QED BY <1>1, <1>2, <1>6, <2>1, <2>2
<1> QED BY <1>5, <1>6, <1>7

\* The lists of /proc/softirqs have their elements at these places.
LEMMA SoftirqLists ==
  ASSUME NEW T, NEW f \in Seq(T), NamedOnce("softirq", "softirqs", f), NEW i \in 2..Len(f)
  PROVE  /\ i \in DOMAIN f \ {1}
         /\ DOMAIN f[1].cpus = 1..Len(f[1].cpus)
         /\ DOMAIN f[i].counts = 1..Len(f[i].counts)
<1> DEFINE lines == Tail(f)
           k == i - 1
<1>1. f # <<>> /\ i \in DOMAIN f \ {1}
  OBVIOUS
<1>2. k \in DOMAIN lines /\ lines[k] = f[i]
  BY <1>1, EmptySeq, HeadTailProperties
<1>3. /\ Sequential(f[1].cpus)
      /\ \A j \in DOMAIN lines : Sequential(lines[j].counts)
  BY <1>1 DEF NamedOnce, Unique
<1> HIDE DEF lines, k
<1>4. Sequential(f[i].counts)
  BY <1>2, <1>3
<1>5. \A q : Sequential(q) => DOMAIN q = 1..Len(q)
  BY DEF Sequential
<1> QED BY <1>1, <1>3, <1>4, <1>5

\* So does a CPU of softirq.rs, whatever column it is in.
LEMMA SoftirqGrows ==
  ASSUME NEW S, NEW f \in Seq(S), NEW T, NEW g \in Seq(T), Advanced("softirq", f, g),
         NamedOnce("softirq", "softirqs", f), NamedOnce("softirq", "softirqs", g),
         NEW s, NEW u, SoftirqCounted(f, s), SoftirqCounted(g, u), Series(s) = Series(u)
  PROVE  s.value <= u.value
<1> DEFINE L(cpu, kind) == [cpu |-> cpu, kind |-> kind]
<1>1. PICK i \in 2..Len(f) : \E p \in 1..Len(f[i].counts) :
         /\ f[i].row \in DOMAIN SoftirqKinds
         /\ p \in 1..Len(f[1].cpus)
         /\ Reads(s, "nft_softirq_total", L(f[1].cpus[p], SoftirqKinds[f[i].row]), f[i].counts[p])
  BY DEF SoftirqCounted
<1>2. PICK p \in 1..Len(f[i].counts) :
         /\ f[i].row \in DOMAIN SoftirqKinds
         /\ p \in 1..Len(f[1].cpus)
         /\ Reads(s, "nft_softirq_total", L(f[1].cpus[p], SoftirqKinds[f[i].row]), f[i].counts[p])
  BY <1>1
<1>3. PICK j \in 2..Len(g) : \E q \in 1..Len(g[j].counts) :
         /\ g[j].row \in DOMAIN SoftirqKinds
         /\ q \in 1..Len(g[1].cpus)
         /\ Reads(u, "nft_softirq_total", L(g[1].cpus[q], SoftirqKinds[g[j].row]), g[j].counts[q])
  BY DEF SoftirqCounted
<1>4. PICK q \in 1..Len(g[j].counts) :
         /\ g[j].row \in DOMAIN SoftirqKinds
         /\ q \in 1..Len(g[1].cpus)
         /\ Reads(u, "nft_softirq_total", L(g[1].cpus[q], SoftirqKinds[g[j].row]), g[j].counts[q])
  BY <1>3
<1>5. \A x, y \in DOMAIN SoftirqKinds : SoftirqKinds[x] = SoftirqKinds[y] => x = y
  BY DEF SoftirqKinds
<1>6. \A x, y, v, w : L(x, y) = L(v, w) => x = v /\ y = w
  <2>1. \A x, y : L(x, y).cpu = x /\ L(x, y).kind = y
    OBVIOUS
  <2> HIDE DEF L
  <2> QED BY <2>1
<1> HIDE DEF L
<1>7. /\ L(f[1].cpus[p], SoftirqKinds[f[i].row]) = L(g[1].cpus[q], SoftirqKinds[g[j].row])
      /\ s.value = f[i].counts[p] /\ u.value = g[j].counts[q]
  BY <1>2, <1>4, SameRead
<1>8. f[1].cpus[p] = g[1].cpus[q] /\ f[i].row = g[j].row
  BY <1>2, <1>4, <1>5, <1>6, <1>7
<1>9. /\ p \in DOMAIN f[i].counts /\ p \in DOMAIN f[1].cpus /\ i \in DOMAIN f \ {1}
  BY <1>2, SoftirqLists
<1>10. /\ q \in DOMAIN g[j].counts /\ q \in DOMAIN g[1].cpus /\ j \in DOMAIN g \ {1}
  BY <1>4, SoftirqLists
<1>11. \A x \in DOMAIN f \ {1}, y \in DOMAIN g \ {1} :
          f[x].row = g[y].row =>
             \A v \in DOMAIN f[x].counts, w \in DOMAIN g[y].counts :
                /\ v \in DOMAIN f[1].cpus /\ w \in DOMAIN g[1].cpus
                /\ f[1].cpus[v] = g[1].cpus[w]
                => f[x].counts[v] <= g[y].counts[w]
  BY DEF Advanced
<1>12. f[i].counts[p] <= g[j].counts[q]
  BY <1>8, <1>9, <1>10, <1>11
<1> QED BY <1>7, <1>12

\* The sum of an interrupt grows when it does on each CPU.
LEMMA IrqGrows ==
  ASSUME NEW S, NEW f \in Seq(S), NEW T, NEW g \in Seq(T), Advanced("irq", f, g),
         \A i \in 1..Len(f) : f[i].counts \in Seq(Nat),
         \A i \in 1..Len(g) : g[i].counts \in Seq(Nat),
         NEW s, NEW u, IrqCounted(f, s), IrqCounted(g, u), Series(s) = Series(u)
  PROVE  s.value <= u.value
<1>1. PICK i \in 1..Len(f) :
         /\ f[i].numbered
         /\ Reads(s, "nft_irq_total", IrqLabels(f[i]), Smaller(Total(f[i].counts), SumMax))
  BY DEF IrqCounted
<1>2. PICK j \in 1..Len(g) :
         /\ g[j].numbered
         /\ Reads(u, "nft_irq_total", IrqLabels(g[j]), Smaller(Total(g[j].counts), SumMax))
  BY DEF IrqCounted
<1>3. \A x, y : IrqLabels(x) = IrqLabels(y) => x.id = y.id
  <2>1. \A x : IrqLabels(x).irq = x.id
    BY DEF IrqLabels
  <2> QED BY <2>1
<1> DEFINE a == f[i].counts
           b == g[j].counts
<1>4. /\ f[i].id = g[j].id
      /\ s.value = Smaller(Total(a), SumMax) /\ u.value = Smaller(Total(b), SumMax)
  BY <1>1, <1>2, <1>3, SameRead
<1>5. Onward(a, b)
  <2>1. \A x \in DOMAIN f, y \in DOMAIN g :
           f[x].numbered /\ g[y].numbered /\ f[x].id = g[y].id => Onward(f[x].counts, g[y].counts)
    BY DEF Advanced
  <2>2. i \in DOMAIN f /\ j \in DOMAIN g
    OBVIOUS
  <2> QED BY <1>1, <1>2, <1>4, <2>1, <2>2
<1>6. a \in Seq(Nat) /\ b \in Seq(Nat)
  OBVIOUS
<1> HIDE DEF a, b
<1>7. Len(a) <= Len(b) /\ \A k \in 1..Len(a) : a[k] <= b[k]
  BY <1>5, <1>6 DEF Onward
<1>8. Total(a) <= Total(b) /\ Total(a) \in Nat /\ Total(b) \in Nat
  BY <1>6, <1>7, TotalOnward, TotalFirsts
<1> QED BY <1>4, <1>8, SumMaxAssumption DEF Smaller

\* So does a sum over the CPUs, which are always the same ones in conntrack.rs.
LEMMA CtGrows ==
  ASSUME NEW S, NEW f \in Seq(S), NEW T, NEW g \in Seq(T), Advanced("conntrack", f, g),
         \A i \in 1..Len(f) : \A a \in DOMAIN f[i] : f[i][a] \in Nat,
         \A i \in 1..Len(g) : \A a \in DOMAIN g[i] : g[i][a] \in Nat,
         NEW s, NEW u, CtSummed(f, s), CtSummed(g, u), Series(s) = Series(u)
  PROVE  s.value <= u.value
<1>1. PICK k \in 1..7 : Reads(s, CtCounters[k].name, NoLabels, CtSum(f, CtCounters[k].attr))
  BY DEF CtSummed
<1>2. PICK l \in 1..7 : Reads(u, CtCounters[l].name, NoLabels, CtSum(g, CtCounters[l].attr))
  BY DEF CtSummed
<1>3. \A x, y \in 1..7 : CtCounters[x].name = CtCounters[y].name => x = y
  BY DEF CtCounters
<1>4. /\ CtCounters[k].name = CtCounters[l].name
      /\ s.value = CtSum(f, CtCounters[k].attr) /\ u.value = CtSum(g, CtCounters[l].attr)
  BY <1>1, <1>2, SameRead
<1>5. k = l
  BY <1>3, <1>4
<1> DEFINE a == CtCounters[k].attr
           n == Len(f)
           m == Len(g)
           v == [i \in 1..n |-> Attr(f[i], a, 0)]
           w == [i \in 1..m |-> Attr(g[i], a, 0)]
<1>6. /\ n \in Nat /\ DOMAIN f = 1..n
      /\ m \in Nat /\ DOMAIN g = 1..m
  OBVIOUS
<1>7. CtSum(f, a) = Total(v) /\ CtSum(g, a) = Total(w)
  BY <1>6 DEF CtSum, TotalOf, MapSeq
<1> HIDE DEF a, n, m
<1>8. 1..n \subseteq 1..m /\ \A i \in 1..n : Onward(f[i], g[i])
  BY <1>6 DEF Advanced
<1>9. /\ \A i \in 1..n : Attr(f[i], a, 0) \in Nat
      /\ \A i \in 1..m : Attr(g[i], a, 0) \in Nat
  BY DEF Attr, n, m
<1>10. \A i \in 1..n : Attr(f[i], a, 0) <= Attr(g[i], a, 0)
  <2> SUFFICES ASSUME NEW i \in 1..n PROVE Attr(f[i], a, 0) <= Attr(g[i], a, 0)
    OBVIOUS
  <2>1. i \in 1..m /\ Onward(f[i], g[i])
    BY <1>8
  <2>2. Attr(g[i], a, 0) \in Nat
    BY <1>9, <2>1
  <2>3. CASE a \in DOMAIN f[i]
    BY <2>1, <2>3 DEF Attr, Onward
  <2>4. CASE a \notin DOMAIN f[i]
    BY <2>2, <2>4 DEF Attr
  <2> QED BY <2>3, <2>4
<1>11. v \in Seq(Nat) /\ Len(v) = n
  <2>1. v \in [1..n -> Nat]
    BY <1>9
  <2> HIDE DEF v
  <2> QED BY <1>6, <2>1, FunctionIsSeq
<1>12. w \in Seq(Nat) /\ Len(w) = m
  <2>1. w \in [1..m -> Nat]
    BY <1>9
  <2> HIDE DEF w
  <2> QED BY <1>6, <2>1, FunctionIsSeq
<1>13. n <= m /\ \A i \in 1..n : v[i] <= w[i]
  BY <1>6, <1>8, <1>10
<1> HIDE DEF v, w
<1>14. Total(v) <= Total(w)
  BY <1>11, <1>12, <1>13, TotalOnward
<1> QED BY <1>4, <1>5, <1>7, <1>14 DEF a

-----------------------------------------------------------------------------
(* The rest of a body has no counters.                                     *)

\* A count of a key is a gauge.
LEMMA CountsGauges ==
  ASSUME NEW S, NEW keys \in Seq(S), NEW name \in Uncounted, NEW s, HasSample(Counts(keys, name), s)
  PROVE  Level(s)
<1> DEFINE D == {keys[i] : i \in DOMAIN keys}
           listed == SetToSeq(D)
           m == Cardinality(D)
           Count(k) == Len(FlattenSeq([j \in DOMAIN keys |->
                                          IF keys[j] = k THEN <<keys[j]>> ELSE <<>>]))
           e == [i \in 1..m |-> Gauge(name, listed[i], Count(listed[i]))]
           T == {e[i] : i \in 1..m}
<1>1. listed \in [1..m -> D] /\ m \in Nat
  <2>1. IsFiniteSet(D)
    BY KeysFinite
  <2> HIDE DEF D
  <2> QED BY <2>1, SetListed
<1>2. Counts(keys, name) = FlattenSeq([i \in 1..m |-> <<e[i]>>])
  <2>1. Counts(keys, name)
        = FlattenSeq([i \in DOMAIN listed |-> <<Gauge(name, listed[i], Count(listed[i]))>>])
    BY DEF Counts, Tally, Grouped, Each, MapSeq, Where
  <2>2. DOMAIN listed = 1..m
    BY <1>1
  <2>3. \A i \in 1..m : <<Gauge(name, listed[i], Count(listed[i]))>> = <<e[i]>>
    OBVIOUS
  <2>4. [i \in DOMAIN listed |-> <<Gauge(name, listed[i], Count(listed[i]))>>]
        = [i \in 1..m |-> <<e[i]>>]
    BY <2>2, <2>3
  <2> QED BY <2>1, <2>4
<1>3. e \in [1..m -> T]
  OBVIOUS
<1>4. \A i \in 1..m : Level(e[i])
  BY CounterReads
<1> HIDE DEF e, T, m
<1>5. FlattenSeq([i \in 1..m |-> <<e[i]>>]) = e
  BY <1>1, <1>3, FlattenSingles
<1>6. HasSample(e, s)
  BY <1>2, <1>5
<1> QED BY <1>3, <1>4, <1>6 DEF HasSample

\* So are those of addresses, routes and neighbours.
LEMMA RtGauges ==
  ASSUME NEW T, NEW frames \in Seq(T), NEW s,
         \/ HasSample(RtAddresses(frames), s) \/ HasSample(RtRoutes(frames), s)
         \/ HasSample(RtNeighbours(frames), s)
  PROVE  Level(s)
<1> DEFINE W == RtWholeOf(frames)
           V == RtUnbridged(W)
<1>1. W \in Seq(T) /\ V \in Seq(T)
  BY RtFilters
<1> HIDE DEF W, V
<1>2. \A q \in Seq(T) : Len(q) \in Nat /\ DOMAIN q = 1..Len(q)
  OBVIOUS
<1>3. ASSUME HasSample(RtAddresses(frames), s) PROVE Level(s)
  <2> DEFINE keys == [i \in DOMAIN W |-> [family |-> RtFamily(W[i].family)]]
             S == {keys[i] : i \in DOMAIN W}
  <2>1. keys \in [1..Len(W) -> S]
    BY <1>1, <1>2
  <2>2. RtAddresses(frames) = Counts(keys, "nft_address_count")
    BY DEF RtAddresses, MapSeq, W
  <2> HIDE DEF keys, S
  <2>3. keys \in Seq(S)
    BY <1>1, <1>2, <2>1, FunctionIsSeq
  <2> QED BY <1>3, <2>2, <2>3, CountsGauges DEF Uncounted
<1>4. ASSUME HasSample(RtRoutes(frames), s) PROVE Level(s)
  <2> DEFINE keys == [i \in DOMAIN W |-> RtRouteKey(W[i])]
             S == {keys[i] : i \in DOMAIN W}
  <2>1. keys \in [1..Len(W) -> S]
    BY <1>1, <1>2
  <2>2. RtRoutes(frames) = Counts(keys, "nft_route_count")
    BY DEF RtRoutes, MapSeq, W
  <2> HIDE DEF keys, S
  <2>3. keys \in Seq(S)
    BY <1>1, <1>2, <2>1, FunctionIsSeq
  <2> QED BY <1>4, <2>2, <2>3, CountsGauges DEF Uncounted
<1>5. ASSUME HasSample(RtNeighbours(frames), s) PROVE Level(s)
  <2> DEFINE keys == [i \in DOMAIN V |-> RtNeighKey(V[i])]
             S == {keys[i] : i \in DOMAIN V}
  <2>1. keys \in [1..Len(V) -> S]
    BY <1>1, <1>2
  <2>2. RtNeighbours(frames) = Counts(keys, "nft_neighbor_count")
    BY DEF RtNeighbours, MapSeq, W, V
  <2> HIDE DEF keys, S
  <2>3. keys \in Seq(S)
    BY <1>1, <1>2, <2>1, FunctionIsSeq
  <2> QED BY <1>5, <2>2, <2>3, CountsGauges DEF Uncounted
<1> QED BY <1>3, <1>4, <1>5

\* What a counter of c is read from.
CounterOf(c, frames, s) ==
    CASE c = "rtnetlink" -> LinkCounted(frames, s)
      [] c = "conntrack" -> CtSummed(frames, s)
      [] c = "softnet" -> CpuCounted(frames, s)
      [] c = "softirq" -> SoftirqCounted(frames, s)
      [] c = "irq" -> IrqCounted(frames, s)

\* All but those gauges of a body are read from the answers to one request.
LEMMA BodyCounters ==
  ASSUME CollectInv, Succeeded, Clean, who \in DOMAIN CountedBy, NEW s, HasSample(body, s),
         ~Level(s),
         \A i \in 1..Len(Frames(got, CountedBy[who])) :
             Readable(who, CountedBy[who], Frames(got, CountedBy[who])[i])
  PROVE  CounterOf(who, Frames(got, CountedBy[who]), s)
<1> DEFINE frames == Frames(got, CountedBy[who])
<1>1. who \in Fixed /\ body = Emit(who, got)
  BY DEF CollectInv, CountedBy, Fixed, Independent
<1>2. \A op : \E T : Frames(got, op) \in Seq(T)
  BY <1>1, GotSequences
<1>3. PICK T : frames \in Seq(T)
  BY <1>2
<1>4. CASE who = "rtnetlink"
  <2> DEFINE a == RtLinks(Frames(got, "links"))
             b == RtAddresses(Frames(got, "addresses"))
             d == RtRoutes(Frames(got, "routes"))
             e == RtNeighbours(Frames(got, "neighbours"))
  <2>1. NamedIn(a, LinkNames)
    BY <1>2, RtLinksNamed
  <2>2. /\ NamedIn(b, {"nft_address_count"})
        /\ NamedIn(d, {"nft_route_count"})
        /\ NamedIn(e, {"nft_neighbor_count"})
    BY <1>2, RtCountsEach, OneEachNamed
  <2>3. body = a \o b \o d \o e
    BY <1>1, <1>4, RtParts DEF Emit
  <2>4. ~HasSample(b, s) /\ ~HasSample(d, s) /\ ~HasSample(e, s)
    BY <1>2, RtGauges
  <2>5. frames = Frames(got, "links")
    BY <1>4 DEF CountedBy
  <2> HIDE DEF a, b, d, e
  <2>6. HasSample(a, s) \/ HasSample(b, s) \/ HasSample(d, s) \/ HasSample(e, s)
    BY <2>1, <2>2, <2>3, FourNamed
  <2>7. HasSample(RtLinks(frames), s)
    BY <2>4, <2>5, <2>6 DEF a
  <2> HIDE DEF frames
  <2>8. LinkCounted(frames, s)
    BY <1>3, <2>7, LinksCounted
  <2> QED BY <1>4, <2>8 DEF CounterOf, frames
<1>5. CASE who = "conntrack"
  <2> DEFINE a == CtCounted(Frames(got, "cpus"))
             b == CtHeld(Frames(got, "entries"))
             x == Gauge("nft_conntrack_entries", NoLabels,
                        TotalOf(Frames(got, "entries"), LAMBDA f : Attr(f, "entries", 0)))
  <2>1. NamedIn(a, CtNames) /\ NamedIn(b, {"nft_conntrack_entries"})
    BY CtCountedNamed, CtHeldNamed
  <2>2. body = a \o b
    BY <1>1, <1>5, CtParts DEF Emit
  <2>3. b = <<x>> /\ Level(x)
    BY CounterReads DEF CtHeld, Uncounted
  <2>4. frames = Frames(got, "cpus")
    BY <1>5 DEF CountedBy
  <2> HIDE DEF a, b, x
  <2>5. ~HasSample(b, s)
    BY <2>3 DEF HasSample
  <2>6. HasSample(a, s) \/ HasSample(b, s)
    BY <2>1, <2>2, JoinNamed
  <2>7. HasSample(CtCounted(frames), s)
    BY <2>4, <2>5, <2>6 DEF a
  <2> HIDE DEF frames
  <2>8. CtSummed(frames, s)
    BY <2>7, CtSumsCounted
  <2> QED BY <1>5, <2>8 DEF CounterOf, frames
<1>6. CASE who = "softnet"
  <2>1. HasSample(Each(frames, SoftnetSamples), s)
    BY <1>1, <1>6 DEF Emit, SoftnetEmit, CountedBy, Each, MapSeq
  <2> HIDE DEF frames
  <2>2. CpuCounted(frames, s)
    BY <1>3, <2>1, CpusCounted
  <2> QED BY <1>6, <2>2 DEF CounterOf, frames
<1>7. CASE who = "softirq"
  <2>1. frames = Frames(got, "softirqs") /\ body = SoftirqEmit(got)
    BY <1>1, <1>7 DEF Emit, CountedBy
  <2>2. NamedOnce("softirq", "softirqs", frames)
    <3>1. Len(Names(who)) = Len(got) /\ Len(Names(who)) = 1 /\ Names(who)[1] = "softirqs"
      BY <1>1, <1>7, FixedAnswers, PlanNames DEF Asks, Names
    <3> QED BY <1>1, <1>7, <2>1, <3>1, GotNamedOnce
  <2>3. frames # <<>>
    <3>1. ASSUME frames = <<>> PROVE FALSE
      <4>1. body = <<>>
        BY <2>1, <3>1 DEF SoftirqEmit
      <4> QED BY <4>1 DEF HasSample
    <3> QED BY <3>1
  <2>4. HasSample(SoftirqLines(frames), s)
    BY <2>1, <2>3 DEF SoftirqEmit, SoftirqLines, Each, MapSeq
  <2> HIDE DEF frames
  <2>5. SoftirqCounted(frames, s)
    BY <1>3, <2>2, <2>3, <2>4, SoftirqsCounted
  <2> QED BY <1>7, <2>5 DEF CounterOf, frames
<1>8. CASE who = "irq"
  <2>1. HasSample(Each(frames, IrqSamples), s)
    BY <1>1, <1>8 DEF Emit, IrqEmit, CountedBy, Each, MapSeq
  <2>2. CountedBy[who] = "interrupts"
    BY <1>8 DEF CountedBy
  <2>3. \A i \in 1..Len(frames) : Readable("irq", "interrupts", frames[i])
    BY <1>8, <2>2
  <2> HIDE DEF frames
  <2>4. \A i \in 1..Len(frames) : frames[i].counts \in Seq(Nat)
    BY <2>3 DEF Readable
  <2>5. IrqCounted(frames, s)
    BY <1>3, <2>1, <2>4, IrqsCounted
  <2> QED BY <1>8, <2>5 DEF CounterOf, frames
<1> QED BY <1>4, <1>5, <1>6, <1>7, <1>8 DEF CountedBy

\* From one instant to a later one no counter goes back, if the kernel's do not.
LEMMA CountersOnward ==
  ASSUME NEW c \in Collectors \cap DOMAIN CountedBy,
         NEW t \in DOMAIN Kernel[c], NEW u \in DOMAIN Kernel[c], AdvancedFrom(c, t, u),
         NEW s, CounterOf(c, KernelFrames(c, t, CountedBy[c], NoArg), s),
         NEW v, CounterOf(c, KernelFrames(c, u, CountedBy[c], NoArg), v),
         Series(s) = Series(v)
  PROVE  s.value <= v.value
<1> DEFINE f == KernelFrames(c, t, CountedBy[c], NoArg)
           g == KernelFrames(c, u, CountedBy[c], NoArg)
<1>1. Advanced(c, f, g)
  BY DEF AdvancedFrom
<1>2. PICK S : f \in Seq(S)
  BY FramesAt
<1>3. PICK T : g \in Seq(T)
  BY FramesAt
<1>4. NamedOnce(c, CountedBy[c], f) /\ NamedOnce(c, CountedBy[c], g)
  BY FramesAt
<1>5. /\ \A i \in 1..Len(f) : Readable(c, CountedBy[c], f[i])
      /\ \A i \in 1..Len(g) : Readable(c, CountedBy[c], g[i])
  BY FramesAt
<1>6. CounterOf(c, f, s) /\ CounterOf(c, g, v)
  OBVIOUS
<1> HIDE DEF f, g
<1>7. CASE c = "rtnetlink"
  <2>1. LinkCounted(f, s) /\ LinkCounted(g, v)
    BY <1>6, <1>7 DEF CounterOf
  <2> QED BY <1>1, <1>2, <1>3, <1>7, <2>1, LinkGrows
<1>8. CASE c = "conntrack"
  <2>1. CtSummed(f, s) /\ CtSummed(g, v)
    BY <1>6, <1>8 DEF CounterOf
  <2>2. CountedBy[c] = "cpus"
    BY <1>8 DEF CountedBy
  <2>3. \A x : Readable("conntrack", "cpus", x) => \A a \in DOMAIN x : x[a] \in Nat
    BY DEF Readable
  <2>4. \A i \in 1..Len(f) : \A a \in DOMAIN f[i] : f[i][a] \in Nat
    BY <1>5, <1>8, <2>2, <2>3
  <2>5. \A i \in 1..Len(g) : \A a \in DOMAIN g[i] : g[i][a] \in Nat
    BY <1>5, <1>8, <2>2, <2>3
  <2> QED BY <1>1, <1>2, <1>3, <1>8, <2>1, <2>4, <2>5, CtGrows
<1>9. CASE c = "softnet"
  <2>1. CpuCounted(f, s) /\ CpuCounted(g, v)
    BY <1>6, <1>9 DEF CounterOf
  <2> QED BY <1>1, <1>2, <1>3, <1>9, <2>1, CpuGrows
<1>10. CASE c = "softirq"
  <2>1. SoftirqCounted(f, s) /\ SoftirqCounted(g, v)
    BY <1>6, <1>10 DEF CounterOf
  <2>2. CountedBy[c] = "softirqs"
    BY <1>10 DEF CountedBy
  <2>3. NamedOnce("softirq", "softirqs", f) /\ NamedOnce("softirq", "softirqs", g)
    BY <1>4, <1>10, <2>2
  <2> QED BY <1>1, <1>2, <1>3, <1>10, <2>1, <2>3, SoftirqGrows
<1>11. CASE c = "irq"
  <2>1. IrqCounted(f, s) /\ IrqCounted(g, v)
    BY <1>6, <1>11 DEF CounterOf
  <2>2. CountedBy[c] = "interrupts"
    BY <1>11 DEF CountedBy
  <2>3. \A x : Readable("irq", "interrupts", x) => x.counts \in Seq(Nat)
    BY DEF Readable
  <2>4. /\ \A i \in 1..Len(f) : f[i].counts \in Seq(Nat)
        /\ \A i \in 1..Len(g) : g[i].counts \in Seq(Nat)
    BY <1>5, <1>11, <2>2, <2>3
  <2> QED BY <1>1, <1>2, <1>3, <1>11, <2>1, <2>4, IrqGrows
<1> QED BY <1>7, <1>8, <1>9, <1>10, <1>11 DEF CountedBy

\* None of these counters has the name of one of those gauges.
LEMMA CountersNamed ==
  ASSUME NEW c \in DOMAIN CountedBy, NEW frames, NEW s, CounterOf(c, frames, s)
  PROVE  s.name \notin Uncounted
<1>1. \A name, labels, value : Reads(s, name, labels, value) => s.name = name
  BY DEF Reads, Series
<1>2. CASE c = "rtnetlink"
  <2>1. LinkCounted(frames, s)
    BY <1>2 DEF CounterOf
  <2>2. \E k \in 1..8 : s.name = LinkCounters[k].name
    BY <1>1, <2>1 DEF LinkCounted
  <2>3. \A k \in 1..8 : LinkCounters[k].name \notin Uncounted
    BY DEF LinkCounters, Uncounted
  <2> QED BY <2>2, <2>3
<1>3. CASE c = "conntrack"
  <2>1. CtSummed(frames, s)
    BY <1>3 DEF CounterOf
  <2>2. \E k \in 1..7 : s.name = CtCounters[k].name
    BY <1>1, <2>1 DEF CtSummed
  <2>3. \A k \in 1..7 : CtCounters[k].name \notin Uncounted
    BY DEF CtCounters, Uncounted
  <2> QED BY <2>2, <2>3
<1>4. CASE c = "softnet"
  <2>1. CpuCounted(frames, s)
    BY <1>4 DEF CounterOf
  <2>2. \E k \in 1..5 : s.name = SoftnetColumns[k].name
    BY <1>1, <2>1 DEF CpuCounted
  <2>3. \A k \in 1..5 : SoftnetColumns[k].name \notin Uncounted
    BY DEF SoftnetColumns, Uncounted
  <2> QED BY <2>2, <2>3
<1>5. CASE c = "softirq"
  <2>1. SoftirqCounted(frames, s)
    BY <1>5 DEF CounterOf
  <2>2. s.name = "nft_softirq_total"
    BY <1>1, <2>1 DEF SoftirqCounted
  <2> QED BY <2>2 DEF Uncounted
<1>6. CASE c = "irq"
  <2>1. IrqCounted(frames, s)
    BY <1>6 DEF CounterOf
  <2>2. s.name = "nft_irq_total"
    BY <1>1, <2>1 DEF IrqCounted
  <2> QED BY <2>2 DEF Uncounted
<1> QED BY <1>2, <1>3, <1>4, <1>5, <1>6 DEF CountedBy

\* The request for them is the first, and a collect() without an answer to it
\* does not succeed.
LEMMA CountedFirst ==
  ASSUME NEW c \in DOMAIN CountedBy
  PROVE  /\ c \in Fixed /\ c \in CollectorNames
         /\ 1 \in 1..Len(FixedPlan(c)) /\ Len(FixedPlan(c)) = Len(Names(c))
         /\ Names(c)[1] = CountedBy[c]
         /\ FixedPlan(c)[1].op = CountedBy[c] /\ FixedPlan(c)[1].arg = NoArg
         /\ \A e : Reaction(c, CountedBy[c], e) = "fail"
<1>1. c \in Fixed /\ c \in CollectorNames
  BY DEF CountedBy, Fixed, Independent, CollectorNames
<1>2. Len(FixedPlan(c)) = Len(Names(c))
  BY <1>1, PlanNames DEF Asks
<1>3. 1 \in 1..Len(Names(c)) /\ Names(c)[1] = CountedBy[c]
  <2>1. c = "rtnetlink" => 1 \in 1..Len(Names(c)) /\ Names(c)[1] = CountedBy[c]
    BY DEF CountedBy, Names
  <2>2. c = "conntrack" => 1 \in 1..Len(Names(c)) /\ Names(c)[1] = CountedBy[c]
    BY DEF CountedBy, Names
  <2>3. c = "softnet" => 1 \in 1..Len(Names(c)) /\ Names(c)[1] = CountedBy[c]
    BY DEF CountedBy, Names
  <2>4. c = "softirq" => 1 \in 1..Len(Names(c)) /\ Names(c)[1] = CountedBy[c]
    BY DEF CountedBy, Names
  <2>5. c = "irq" => 1 \in 1..Len(Names(c)) /\ Names(c)[1] = CountedBy[c]
    BY DEF CountedBy, Names
  <2> QED BY <2>1, <2>2, <2>3, <2>4, <2>5 DEF CountedBy
<1>4. FixedPlan(c)[1].op = CountedBy[c]
  BY <1>1, <1>2, <1>3, PlanNames DEF Asks
<1>5. FixedPlan(c)[1].arg = NoArg
  <2>1. c = "rtnetlink" => FixedPlan(c)[1].arg = NoArg
    BY RequestArgs DEF FixedPlan, Plan, RtPlan
  <2>2. c = "conntrack" => FixedPlan(c)[1].arg = NoArg
    BY RequestArgs DEF FixedPlan, Plan, CtPlan
  <2>3. c = "softnet" => FixedPlan(c)[1].arg = NoArg
    BY DEF FixedPlan, Plan, SoftnetPlan, Read, ReadFor, Request
  <2>4. c = "softirq" => FixedPlan(c)[1].arg = NoArg
    BY DEF FixedPlan, Plan, SoftirqPlan, Read, ReadFor, Request
  <2>5. c = "irq" => FixedPlan(c)[1].arg = NoArg
    BY DEF FixedPlan, Plan, IrqPlan, Read, ReadFor, Request
  <2> QED BY <2>1, <2>2, <2>3, <2>4, <2>5 DEF CountedBy
<1>6. ASSUME NEW e PROVE Reaction(c, CountedBy[c], e) = "fail"
  <2>1. c = "rtnetlink" => Reaction(c, CountedBy[c], e) = "fail"
    BY DEF Reaction, ProcFirst, RtReaction, CountedBy
  <2>2. c = "conntrack" => Reaction(c, CountedBy[c], e) = "fail"
    BY DEF Reaction, ProcFirst, CtReaction, CountedBy
  <2>3. c = "softnet" => Reaction(c, CountedBy[c], e) = "fail"
    BY DEF Reaction, ProcFirst, ProcReaction, CountedBy
  <2>4. c = "softirq" => Reaction(c, CountedBy[c], e) = "fail"
    BY DEF Reaction, ProcFirst, ProcReaction, CountedBy
  <2>5. c = "irq" => Reaction(c, CountedBy[c], e) = "fail"
    BY DEF Reaction, ProcFirst, ProcReaction, CountedBy
  <2> QED BY <2>1, <2>2, <2>3, <2>4, <2>5 DEF CountedBy
<1> QED BY <1>1, <1>2, <1>3, <1>4, <1>5, <1>6

\* What the kernel counts at t, for the collector.
CountedAt(t) == KernelFrames(who, t, CountedBy[who], NoArg)

\* Samples that are, but for those gauges, counters of the kernel at t.
OfInstant(samples, t) ==
    /\ \E T : samples \in Seq(T)
    /\ \A s : HasSample(samples, s) /\ ~Level(s) => CounterOf(who, CountedAt(t), s)

\* What the next collect() leaves of them is of the same instant.
CountersOf(samples) == Where(samples, LAMBDA s : s.type = "counter")
LEMMA CountersLeft ==
  ASSUME NEW samples, NEW t, OfInstant(samples, t)
  PROVE  /\ OfInstant(CountersOf(samples), t)
         /\ \A s : HasSample(CountersOf(samples), s) => HasSample(samples, s)
<1> DEFINE kept == CountersOf(samples)
<1>1. PICK T : samples \in Seq(T)
  BY DEF OfInstant
<1> DEFINE counters == {s \in T : s.type = "counter"}
<1>2. kept = Sifted(samples, counters)
  <2>1. [i \in DOMAIN samples |-> IF samples[i].type = "counter" THEN <<samples[i]>> ELSE <<>>]
        = [i \in DOMAIN samples |-> IF samples[i] \in counters THEN <<samples[i]>> ELSE <<>>]
    BY <1>1
  <2> QED BY <2>1 DEF CountersOf, Where, Sifted
<1> HIDE DEF kept, counters
<1>3. kept \in Seq(T) /\ Filters(kept, samples, counters)
  BY <1>1, <1>2, SiftedFilters
<1>4. DOMAIN kept = 1..Len(kept) /\ DOMAIN samples = 1..Len(samples)
  BY <1>1, <1>3, SequenceBasics
<1>5. \A s : HasSample(kept, s) => HasSample(samples, s)
  <2> SUFFICES ASSUME NEW k \in 1..Len(kept)
               PROVE  \E i \in 1..Len(samples) : samples[i] = kept[k]
    BY <1>4 DEF HasSample
  <2> QED BY <1>3 DEF Filters
<1>6. OfInstant(kept, t)
  BY <1>3, <1>5 DEF OfInstant
<1> QED BY <1>5, <1>6 DEF kept

\* The counters of a body that was just made, of answers of the kernel alone, are
\* of one instant of its collect().
Made ==
    Succeeded /\ Clean /\ who \in DOMAIN CountedBy =>
        \E t \in begun..now : t \in DOMAIN Kernel[who] /\ OfInstant(body, t)

LEMMA CountersMade ==
  CollectInv => Made
<1> SUFFICES ASSUME CollectInv, Succeeded, Clean, who \in DOMAIN CountedBy
             PROVE  \E t \in begun..now : t \in DOMAIN Kernel[who] /\ OfInstant(body, t)
  BY DEF Made
<1> DEFINE r == FixedPlan(who)[1]
           op == CountedBy[who]
<1>1. /\ who \in Fixed /\ 1 \in 1..Len(got) /\ Names(who)[1] = op
      /\ r.op = op /\ r.arg = NoArg
      /\ \A e : Reaction(who, op, e) = "fail"
  <2>1. Len(got) = Len(FixedPlan(who))
    BY CountedFirst, FixedAnswers
  <2> QED BY <2>1, CountedFirst
<1>2. Real(who, begun, now, r, got[1])
  BY <1>1, FixedAnswers
<1>3. Frames(got, op) = got[1].frames
  BY <1>1, FramesOfAnswer
<1> HIDE DEF r
<1>4. PICK t \in begun..now : got[1] = Answer(who, t, r)
  <2>1. got[1].error # "stale"
    BY <1>1 DEF Clean, CollectInv
  <2> QED BY <1>1, <1>2, <2>1 DEF Real
<1>5. who \in Collectors /\ t \in DOMAIN Kernel[who]
  BY KernelAssumption DEF CollectInv, Sequential
<1>6. Frames(got, op) = CountedAt(t)
  BY <1>1, <1>3, <1>4 DEF Answer, CountedAt, KernelFrames, Attr
<1>7. \A i \in 1..Len(CountedAt(t)) : Readable(who, op, CountedAt(t)[i])
  BY <1>5, FramesAt DEF CountedAt
<1>8. OfInstant(body, t)
  <2>1. OncePerSeries(body)
    BY <1>1, PartedOnce, UnpartedOnce DEF Naming, CountedBy
  <2> SUFFICES ASSUME NEW s, HasSample(body, s), ~Level(s)
               PROVE  CounterOf(who, CountedAt(t), s)
    BY <2>1 DEF OfInstant, OncePerSeries
  <2> QED BY <1>6, <1>7, BodyCounters
<1> QED BY <1>5, <1>8

\* The last instant that the body can be of: it is of the collect() before when
\* the next has begun.
Latest == IF phase = "busy" THEN begun ELSE now

\* The counters of a body are of one instant up to then, unless it was just made,
\* and of an answer that was left on a socket.
Dated ==
    who \in DOMAIN CountedBy =>
        \/ Succeeded /\ ~Clean
        \/ \E t \in 1..Latest : t \in DOMAIN Kernel[who] /\ OfInstant(body, t)

\* The end of a collect() makes a body, and the beginning of the next leaves the
\* counters in it, or nothing; nothing turns the clock back.
Kept == UNCHANGED body /\ ~Succeeded /\ ~Succeeded'
Lessened ==
    /\ ~Succeeded'
    /\ body' = IF Succeeded /\ ~Clean THEN <<>> ELSE CountersOf(body)
Replaced ==
    /\ Succeeded' /\ ~Succeeded /\ begun' \in Nat /\ 1 <= begun'
    /\ Latest <= begun' /\ now' = Latest' /\ now' = now

LEMMA BodyKept ==
  ASSUME CollectInv, [Next]_vars
  PROVE  /\ who' = who /\ Latest \in Nat /\ Latest' \in Nat /\ Latest <= Latest'
         /\ now \in Nat /\ Latest <= now
         /\ Kept \/ Lessened \/ Replaced \/ UNCHANGED <<body, phase, result, got>>
<1>1. /\ begun \in Nat /\ now \in Nat /\ begun <= now /\ begun \in 1..now
      /\ who \in Collectors /\ Len(Kernel[who]) \in Nat /\ now <= Len(Kernel[who])
  BY KernelAssumption DEF CollectInv, Sequential
<1>2. CASE Change
  BY <1>1, <1>2 DEF Change, Latest, Kept, Succeeded
<1>3. CASE Startup
  BY <1>1, <1>3 DEF Startup, Latest, Kept, Succeeded
<1>4. CASE Begin
  <2>1. Lessened
    BY <1>4 DEF Begin, Lessened, CountersOf, Succeeded
  <2> QED BY <1>1, <1>4, <2>1 DEF Begin, Latest
<1>5. CASE Finish
  BY <1>1, <1>5 DEF Finish, Latest, Succeeded, Replaced
<1>6. ASSUME NEW a, NEW remains, Taken(a, remains)
      PROVE  UNCHANGED <<who, phase, now, begun, body>>
  BY <1>6 DEF Taken
<1>7. ASSUME NEW o, Stop(o), o # "ok"
      PROVE  phase' = "done" /\ UNCHANGED <<who, now, begun, body>> /\ ~Succeeded'
  BY <1>7 DEF Stop, Succeeded
<1>8. ASSUME NEW a, NEW remains, Failed(a, remains)
      PROVE  /\ UNCHANGED <<who, now, begun, body>>
             /\ (phase' = phase \/ (phase' = "done" /\ ~Succeeded'))
  <2>1. Reaction(who, a.op, a.error) \in {"fail", "empty", "skip"}
    BY <1>1, Reactions, CollectorAssumption
  <2>2. Stop("failed") \/ Stop("empty") \/ Taken(a, remains)
    BY <1>8, <2>1 DEF Failed, Skip
  <2> QED BY <1>6, <1>7, <2>2
<1>9. CASE /\ phase = "busy" /\ UNCHANGED <<who, now, begun, body>>
           /\ (phase' = phase \/ (phase' = "done" /\ ~Succeeded'))
  BY <1>1, <1>9 DEF Latest, Kept, Succeeded
<1>10. CASE Answered
  BY <1>6, <1>8, <1>9, <1>10 DEF Answered, Asking
<1>11. CASE Refused
  BY <1>8, <1>9, <1>11 DEF Refused, Asking
<1>12. CASE Interrupted
  <2>1. UNCHANGED <<who, now, begun, body, phase>> \/ \E a, remains : Failed(a, remains)
    BY <1>12 DEF Interrupted
  <2> QED BY <1>8, <1>9, <1>12, <2>1 DEF Interrupted, Asking
<1>13. CASE LeftOver
  BY <1>6, <1>9, <1>13 DEF LeftOver, Asking
<1>14. CASE UNCHANGED vars
  BY <1>1, <1>14 DEF vars, Latest
<1> QED BY <1>2, <1>3, <1>4, <1>5, <1>10, <1>11, <1>12, <1>13, <1>14 DEF Next

\* Hence a body stays of its instant until the next replaces it.
LEMMA DatedStep ==
  CollectInv /\ Dated /\ Made' /\ [Next]_vars => Dated'
<1> SUFFICES ASSUME CollectInv, Dated, Made', [Next]_vars, who \in DOMAIN CountedBy
             PROVE  \/ Succeeded' /\ ~Clean'
                    \/ \E t \in 1..Latest' : t \in DOMAIN Kernel[who'] /\ OfInstant(body, t)'
  BY BodyKept DEF Dated
<1>1. who' = who /\ Latest \in Nat /\ Latest' \in Nat /\ Latest <= Latest'
  BY BodyKept
<1>2. ASSUME NEW t \in 1..Latest, t \in DOMAIN Kernel[who], OfInstant(body', t)
      PROVE  \E u \in 1..Latest' : u \in DOMAIN Kernel[who'] /\ OfInstant(body, u)'
  <2>1. t \in 1..Latest' /\ t \in DOMAIN Kernel[who']
    BY <1>1, <1>2
  <2>2. OfInstant(body, t)'
    BY <1>1, <1>2 DEF OfInstant, CountedAt
  <2> QED BY <2>1, <2>2
<1>3. CASE Kept
  <2>1. PICK t \in 1..Latest : t \in DOMAIN Kernel[who] /\ OfInstant(body, t)
    BY <1>3 DEF Dated, Kept
  <2>2. OfInstant(body', t)
    BY <1>3, <2>1 DEF Kept
  <2> QED BY <1>2, <2>1, <2>2
<1>4. CASE Lessened
  <2>1. CASE Succeeded /\ ~Clean
    <3>1. body' = <<>> /\ <<>> \in Seq({})
      BY <1>4, <2>1 DEF Lessened
    <3>2. OfInstant(body', 1)
      BY <3>1 DEF OfInstant, HasSample
    <3>3. 1 \in DOMAIN Kernel[who] /\ 1 \in 1..Latest
      BY <1>1, KernelAssumption DEF CollectInv, Sequential, Latest
    <3> QED BY <1>2, <3>2, <3>3
  <2>2. CASE ~(Succeeded /\ ~Clean)
    <3>1. PICK t \in 1..Latest : t \in DOMAIN Kernel[who] /\ OfInstant(body, t)
      BY <2>2 DEF Dated
    <3>2. OfInstant(body', t)
      BY <1>4, <2>2, <3>1, CountersLeft DEF Lessened
    <3> QED BY <1>2, <3>1, <3>2
  <2> QED BY <2>1, <2>2
<1>5. CASE Replaced /\ Clean'
  <2>1. Succeeded' /\ who' \in DOMAIN CountedBy
    BY <1>1, <1>5 DEF Replaced
  <2>2. PICK t \in begun'..now' : t \in DOMAIN Kernel[who'] /\ OfInstant(body, t)'
    BY <1>5, <2>1 DEF Made
  <2>3. t \in 1..Latest'
    BY <1>1, <1>5, <2>2 DEF Replaced
  <2> QED BY <2>2, <2>3
<1>6. CASE Replaced /\ ~Clean'
  BY <1>6 DEF Replaced
<1>7. CASE UNCHANGED <<body, phase, result, got>>
  <2>1. Succeeded' = Succeeded /\ Clean' = Clean
    BY <1>7 DEF Succeeded, Clean
  <2>2. \A t : OfInstant(body, t) => OfInstant(body', t)
    BY <1>7
  <2> QED BY <1>2, <2>1, <2>2 DEF Dated
<1> QED BY <1>3, <1>4, <1>5, <1>6, <1>7, BodyKept

\* CountersGrow for every kernel whose counters do not go back, and the
\* collectors that read theirs by one request: of two successful scrapes whose
\* answers are all the kernel's, however many failed in between and whatever came
\* and went, none of the counters that both report is less in the later one;
\* and nft_irq_total as long as no column of /proc/interrupts has gone or moved.
THEOREM CountersGrowHolds == Spec /\ who \in DOMAIN CountedBy => CountersGrow
<1>1. Init => Dated
  <2> SUFFICES ASSUME Init, who \in DOMAIN CountedBy
               PROVE  \E t \in 1..Latest : t \in DOMAIN Kernel[who] /\ OfInstant(body, t)
    BY DEF Dated
  <2>1. 1 \in 1..Latest /\ 1 \in DOMAIN Kernel[who]
    BY KernelAssumption DEF Init, Sequential, Latest
  <2>2. OfInstant(body, 1)
    <3>1. body = <<>> /\ body \in Seq({})
      BY DEF Init
    <3> QED BY <3>1 DEF OfInstant, HasSample
  <2> QED BY <2>1, <2>2
<1>2. Spec => [](CollectInv /\ Made)
  BY CollectHolds, CountersMade, PTL
<1>3. Spec => []Dated
  BY <1>1, <1>2, DatedStep, PTL DEF Spec
<1> DEFINE Grown == \A i \in DOMAIN body : Cumulative(body[i]) /\ OnceIn(body, body[i]) =>
                       \A j \in DOMAIN body' :
                          Series(body[i]) = Series(body'[j]) /\ OnceIn(body', body[i])
                             => body[i].value <= body'[j].value
<1>4. CollectInv /\ Made' /\ Dated /\ who \in DOMAIN CountedBy /\ [Next]_vars
         => [body' # body /\ Clean' => Grown]_vars
  <2> SUFFICES ASSUME CollectInv, Made', Dated, who \in DOMAIN CountedBy, [Next]_vars,
                      body' # body, Clean',
                      NEW i \in DOMAIN body, Cumulative(body[i]),
                      NEW j \in DOMAIN body', Series(body[i]) = Series(body'[j])
               PROVE  body[i].value <= body'[j].value
    OBVIOUS
  <2>1. /\ who' = who /\ Latest \in Nat /\ Latest' \in Nat /\ Latest <= now /\ now \in Nat
        /\ Lessened \/ Replaced
    BY BodyKept DEF Kept
  <2>2. ~(Succeeded /\ ~Clean)
    BY <2>1 DEF Lessened, Replaced
  <2>3. PICK t \in 1..Latest : t \in DOMAIN Kernel[who] /\ OfInstant(body, t)
    BY <2>2 DEF Dated
  <2>4. \E u \in t..now : u \in DOMAIN Kernel[who] /\ OfInstant(body', u)
    <3>1. CASE Lessened
      <4>1. OfInstant(body', t)
        BY <2>2, <2>3, <3>1, CountersLeft DEF Lessened
      <4> QED BY <2>1, <2>3, <4>1
    <3>2. CASE Replaced
      <4>1. Succeeded' /\ who' \in DOMAIN CountedBy
        BY <2>1, <3>2 DEF Replaced
      <4>2. PICK u \in begun'..now' : u \in DOMAIN Kernel[who'] /\ OfInstant(body, u)'
        BY <4>1 DEF Made
      <4>3. OfInstant(body', u)
        BY <2>1, <4>2 DEF OfInstant, CountedAt
      <4>4. u \in t..now
        BY <2>1, <2>3, <3>2, <4>2 DEF Replaced
      <4> QED BY <2>1, <4>2, <4>3, <4>4
    <3> QED BY <2>1, <3>1, <3>2
  <2>5. PICK u \in t..now : u \in DOMAIN Kernel[who] /\ OfInstant(body', u)
    BY <2>4
  <2>6. CounterOf(who, KernelFrames(who, t, CountedBy[who], NoArg), body[i])
    <3>1. HasSample(body, body[i]) /\ ~Level(body[i])
      BY DEF HasSample, Cumulative, Level
    <3> QED BY <2>3, <3>1 DEF OfInstant, CountedAt
  <2>7. CounterOf(who, KernelFrames(who, u, CountedBy[who], NoArg), body'[j])
    <3>1. body[i].name \notin Uncounted
      BY <2>6, CountersNamed
    <3>2. body'[j].name = body[i].name
      BY DEF Series
    <3>3. HasSample(body', body'[j]) /\ ~Level(body'[j])
      BY <3>1, <3>2 DEF HasSample, Level
    <3> QED BY <2>5, <3>3 DEF OfInstant, CountedAt
  <2>8. who \in Collectors \cap DOMAIN CountedBy
    BY DEF CollectInv
  <2>9. AdvancedFrom(who, t, u)
    <3>1. t \in 1..now /\ u \in 1..now /\ t <= u
      BY <2>1, <2>3, <2>5
    <3>2. CASE who = "irq"
      BY <3>1, <3>2 DEF Cumulative
    <3>3. CASE who # "irq"
      BY <2>3, <2>5, <2>8, <3>1, <3>3, GrowthAssumption
    <3> QED BY <3>2, <3>3
  <2> QED BY <2>3, <2>5, <2>6, <2>7, <2>8, <2>9, CountersOnward
<1>5. who \in DOMAIN CountedBy /\ CollectInv /\ [Next]_vars => (who \in DOMAIN CountedBy)'
  BY BodyKept
<1> QED BY <1>2, <1>3, <1>4, <1>5, PTL DEF Spec, CountersGrow
=============================================================================
