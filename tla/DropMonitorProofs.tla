-------------------------- MODULE DropMonitorProofs --------------------------
(***************************************************************************)
(* Proofs about DropMonitor: however many alerts the kernel sends, however *)
(* long the queue of the socket is and whatever fails, the order of startup *)
(* keeps what it is for.                                                   *)
(***************************************************************************)
EXTENDS DropMonitor, InductionProofs

\* The order of startup, step by step.
LEMMA BootSteps ==
  /\ Len(Boot) = 8
  /\ Boot[1] = "probe" /\ Boot[2] = "resolve" /\ Boot[3] = "config" /\ Boot[4] = "start"
  /\ Boot[5] = "join" /\ Boot[6] = "spawn" /\ Boot[7] = "dropcaps" /\ Boot[8] = "bind"
  /\ DOMAIN Boot = 1..8
BY SMT DEF Boot, SetupOrder

\* Where a failed setup goes on.
LEMMA Positions == PositionOf("dropcaps") = 7 /\ PositionOf("bind") = 8
BY BootSteps, SMT DEF PositionOf

\* The main thread is at a step of a given name only at its position.
LEMMA Places ==
  ASSUME step \in 1..(Len(Boot) + 1)
  PROVE  /\ step \in 1..9 /\ (Serving <=> step = 9 /\ ~aborted)
         /\ At("probe") => step = 1 /\ ~aborted
         /\ At("resolve") => step = 2 /\ ~aborted
         /\ At("config") => step = 3 /\ ~aborted
         /\ At("start") => step = 4 /\ ~aborted
         /\ At("join") => step = 5 /\ ~aborted
         /\ At("spawn") => step = 6 /\ ~aborted
         /\ At("dropcaps") => step = 7 /\ ~aborted
         /\ At("bind") => step = 8 /\ ~aborted
BY BootSteps, SMT DEF Serving, At

\* Where SkipListener leads, from a step before the last.
LEMMA Skips ==
  ASSUME step \in 1..8, SkipListener
  PROVE  /\ step' = (IF step < 7 THEN 7 ELSE 8)
         /\ member' = FALSE /\ rq' = <<>> /\ overrun' = FALSE
BY Positions, SMT DEF SkipListener

\* Before the capability drop it leads to the capability drop.
LEMMA SkipsToDrop ==
  ASSUME step \in 1..6, SkipListener
  PROVE  step' = 7 /\ member' = FALSE /\ rq' = <<>>
<1>1. step \in 1..8 /\ step < 7
  OBVIOUS
<1>2. step' = (IF step < 7 THEN 7 ELSE 8) /\ member' = FALSE /\ rq' = <<>>
  BY <1>1, Skips, Zenon
<1> QED BY <1>1, <1>2

-----------------------------------------------------------------------------
\* The datagrams and the drop counts the steps build are of their types.
LEMMA Datagram ==
  /\ \A drops \in Counts : Alert(drops) \in Datagrams /\ drops \in [Origins -> Nat]
  /\ None \in [Origins -> 0..MaxCount] /\ None \in [Origins -> Nat]
  /\ Ack(Errno) \in Datagrams
  /\ "sw" \in Origins /\ "hw" \in Origins
  /\ \A f \in [Origins -> 0..MaxCount] : f \in [Origins -> Nat]
BY BoundsAssumption, SMT DEF Counts, Alert, Ack, Errno, Datagrams, None, Origins

\* Startup begins in the types.
LEMMA TypeInit == Init => TypeOK
<1> SUFFICES ASSUME Init PROVE TypeOK
  OBVIOUS
<1>1. step \in 1..(Len(Boot) + 1)
  BY BootSteps DEF Init
<1>2. rq \in Seq(Datagrams) /\ Len(rq) <= QueueLimit
  BY BoundsAssumption DEF Init
<1>3. alerts \in 0..MaxAlerts /\ errors \in 0..MaxErrors
  BY BoundsAssumption DEF Init
<1>4. /\ privileged \in BOOLEAN /\ monitoring \in BOOLEAN
      /\ caps \in {"full", "net_admin", "none"} /\ pool \in {"full", "net_admin", "none"}
  BY DEF Init
<1>5. aborted \in BOOLEAN /\ refused \in BOOLEAN /\ member \in BOOLEAN /\ overrun \in BOOLEAN
  BY DEF Init
<1>6. listener \in {"none", "clear", "recv", "add", "sleep"} /\ lcaps \in {"full", "net_admin", "none"}
  BY DEF Init
<1>7. /\ pending \in [Origins -> 0..MaxCount] /\ counters \in [Origins -> Nat]
      /\ seen \in [Origins -> Nat] /\ sent \in [Origins -> Nat] /\ lost \in [Origins -> Nat]
  BY Datagram DEF Init
<1> QED BY <1>1, <1>2, <1>3, <1>4, <1>5, <1>6, <1>7 DEF TypeOK

\* What a step of the main thread must leave in order.
LEMMA MainTypes ==
  ASSUME TypeOK, step' \in 1..9, aborted' \in BOOLEAN, refused' \in BOOLEAN,
         caps' \in {"full", "net_admin", "none"}, lcaps' \in {"full", "net_admin", "none"},
         listener' \in {"none", "clear", "recv", "add", "sleep"},
         monitoring' \in BOOLEAN, member' \in BOOLEAN, overrun' \in BOOLEAN,
         rq' \in Seq(Datagrams), Len(rq') <= QueueLimit,
         UNCHANGED <<privileged, pool, pending, counters, seen, sent, lost, alerts, errors>>
  PROVE  TypeOK'
BY BootSteps DEF TypeOK

\* A setup step goes on with the next step or skips the listener.
LEMMA SetupTypes ==
  ASSUME TypeOK, step \in 1..8
  PROVE  /\ Advance => step' \in 1..9
         /\ SkipListener => /\ step' \in 1..9
                            /\ member' \in BOOLEAN /\ overrun' \in BOOLEAN
                            /\ rq' \in Seq(Datagrams) /\ Len(rq') <= QueueLimit
<1>1. Advance => step' \in 1..9
  BY DEF Advance
<1>2. ASSUME SkipListener
      PROVE  /\ step' \in 1..9 /\ member' = FALSE /\ overrun' = FALSE /\ rq' = <<>>
  <2>1. /\ step' = (IF step < 7 THEN 7 ELSE 8)
        /\ member' = FALSE /\ overrun' = FALSE /\ rq' = <<>>
    BY <1>2, Skips, Zenon
  <2>2. step' \in 1..9
    BY <2>1, SMT
  <2> QED BY <2>1, <2>2, Zenon
<1>3. <<>> \in Seq(Datagrams) /\ Len(<<>>) <= QueueLimit
  BY BoundsAssumption
<1> QED BY <1>1, <1>2, <1>3

\* So a step of the setup keeps the types if what it receives has them.
LEMMA SetupStep ==
  ASSUME TypeOK, step \in 1..8,
         \/ SkipListener
         \/ /\ Advance /\ member' \in BOOLEAN /\ overrun' \in BOOLEAN
            /\ rq' \in Seq(Datagrams) /\ Len(rq') <= QueueLimit,
         refused' \in {refused, TRUE}, monitoring' \in BOOLEAN,
         \/ UNCHANGED <<listener, lcaps>>
         \/ listener' = "clear" /\ lcaps' = caps,
         UNCHANGED <<privileged, pool, caps, aborted, pending, counters, seen, sent, lost, alerts, errors>>
  PROVE  TypeOK'
<1>1. /\ caps \in {"full", "net_admin", "none"} /\ lcaps \in {"full", "net_admin", "none"}
      /\ listener \in {"none", "clear", "recv", "add", "sleep"}
      /\ aborted \in BOOLEAN /\ refused \in BOOLEAN
  BY DEF TypeOK
<1>2. /\ step' \in 1..9 /\ member' \in BOOLEAN /\ overrun' \in BOOLEAN
      /\ rq' \in Seq(Datagrams) /\ Len(rq') <= QueueLimit
  BY SetupTypes, Zenon
<1>3. /\ caps' \in {"full", "net_admin", "none"} /\ lcaps' \in {"full", "net_admin", "none"}
      /\ listener' \in {"none", "clear", "recv", "add", "sleep"}
  BY <1>1
<1>4. aborted' \in BOOLEAN /\ refused' \in BOOLEAN
  BY <1>1
<1>5. UNCHANGED <<privileged, pool, pending, counters, seen, sent, lost, alerts, errors>>
  OBVIOUS
<1> QED BY <1>2, <1>3, <1>4, <1>5, MainTypes, Zenon

\* Every step of the main thread, the listener and the kernel keeps them.
LEMMA TypeStep == TypeOK /\ [Next]_vars => TypeOK'
<1> SUFFICES ASSUME TypeOK, [Next]_vars PROVE TypeOK'
  OBVIOUS
<1> USE BoundsAssumption
<1>1. step \in 1..(Len(Boot) + 1)
  BY DEF TypeOK
<1>2. CASE Lookup
  <2>1. step \in 1..8
    BY <1>2, <1>1, Places DEF Lookup
  <2>2. UNCHANGED <<privileged, pool, caps, aborted, monitoring, listener, lcaps, pending,
                    counters, seen, sent, lost, alerts, errors>>
    BY <1>2 DEF Lookup, threadVars, boundVars
  <2>3. /\ member \in BOOLEAN /\ overrun \in BOOLEAN /\ monitoring \in BOOLEAN
        /\ rq \in Seq(Datagrams) /\ Len(rq) <= QueueLimit
    BY DEF TypeOK
  <2>4. CASE Advance /\ UNCHANGED <<refused, member, rq, overrun>>
    BY <2>1, <2>2, <2>3, <2>4, SetupStep
  <2>5. CASE SkipListener /\ refused' = TRUE
    BY <2>1, <2>2, <2>3, <2>5, SetupStep
  <2> QED BY <1>2, <2>4, <2>5 DEF Lookup
<1>3. CASE Command
  <2>1. step \in 1..8
    BY <1>3, <1>1, Places DEF Command
  <2> DEFINE queue == Append(rq, Ack(Errno))
  <2>2. Tail(queue) \in Seq(Datagrams) /\ Len(Tail(queue)) <= QueueLimit
    <3>1. queue \in Seq(Datagrams) /\ Len(queue) = Len(rq) + 1 /\ Len(rq) \in Nat
      BY Datagram DEF TypeOK
    <3>2. queue # <<>>
      BY <3>1
    <3> QED BY <3>1, <3>2 DEF TypeOK
  <2>3. monitoring' \in BOOLEAN
    BY <1>3 DEF Command, TypeOK
  <2>4. UNCHANGED <<privileged, pool, caps, aborted, refused, listener, lcaps, pending,
                    counters, seen, sent, lost, alerts, errors>>
    BY <1>3 DEF Command, threadVars, boundVars
  <2>5. \/ SkipListener
        \/ Advance /\ rq' = Tail(queue) /\ UNCHANGED <<member, overrun>>
    BY <1>3 DEF Command
  <2> HIDE DEF queue
  <2>6. member \in BOOLEAN /\ overrun \in BOOLEAN
    BY DEF TypeOK
  <2> QED BY <2>1, <2>2, <2>3, <2>4, <2>5, <2>6, SetupStep
<1>4. CASE Join
  <2>1. step \in 1..8
    BY <1>4, <1>1, Places DEF Join
  <2>2. UNCHANGED <<privileged, pool, caps, aborted, monitoring, listener, lcaps, pending,
                    counters, seen, sent, lost, alerts, errors>>
    BY <1>4 DEF Join, threadVars, boundVars
  <2>3. /\ overrun \in BOOLEAN /\ monitoring \in BOOLEAN
        /\ rq \in Seq(Datagrams) /\ Len(rq) <= QueueLimit
    BY DEF TypeOK
  <2>4. CASE Advance /\ member' = TRUE /\ UNCHANGED <<refused, rq, overrun>>
    BY <2>1, <2>2, <2>3, <2>4, SetupStep
  <2>5. CASE SkipListener /\ refused' \in {refused, TRUE}
    BY <2>1, <2>2, <2>3, <2>5, SetupStep
  <2> QED BY <1>4, <2>4, <2>5 DEF Join
<1>5. CASE Spawn
  <2>1. step \in 1..8
    BY <1>5, <1>1, Places DEF Spawn
  <2>2. UNCHANGED <<privileged, pool, caps, aborted, monitoring, pending,
                    counters, seen, sent, lost, alerts, errors>>
    BY <1>5 DEF Spawn, boundVars
  <2>3. /\ member \in BOOLEAN /\ overrun \in BOOLEAN /\ monitoring \in BOOLEAN
        /\ rq \in Seq(Datagrams) /\ Len(rq) <= QueueLimit
    BY DEF TypeOK
  <2>4. CASE Advance /\ listener' = "clear" /\ lcaps' = caps /\ UNCHANGED <<refused, member, rq, overrun>>
    BY <2>1, <2>2, <2>3, <2>4, SetupStep
  <2>5. CASE SkipListener /\ refused' = TRUE /\ UNCHANGED <<listener, lcaps>>
    BY <2>1, <2>2, <2>3, <2>5, SetupStep
  <2> QED BY <1>5, <2>4, <2>5 DEF Spawn
<1>6. CASE DropCaps
  <2>1. step \in 1..8
    BY <1>6, <1>1, Places DEF DropCaps
  <2>2. step' \in 1..9
    BY <1>6, <2>1, SetupTypes DEF DropCaps
  <2>3. aborted' \in BOOLEAN /\ caps' \in {"full", "net_admin", "none"}
    BY <1>6 DEF DropCaps, TypeOK
  <2>4. UNCHANGED <<privileged, pool, refused, listener, lcaps, monitoring, member, overrun, rq,
                    pending, counters, seen, sent, lost, alerts, errors>>
    BY <1>6 DEF DropCaps, sockVars, threadVars, boundVars
  <2> QED BY <2>2, <2>3, <2>4, BootSteps DEF TypeOK
<1>7. CASE Bind
  <2>1. step \in 1..8
    BY <1>7, <1>1, Places DEF Bind
  <2>2. step' \in 1..9 /\ aborted' \in BOOLEAN
    BY <1>7, <2>1, SetupTypes DEF Bind
  <2>3. UNCHANGED <<privileged, pool, caps, refused, listener, lcaps, monitoring, member, overrun, rq,
                    pending, counters, seen, sent, lost, alerts, errors>>
    BY <1>7 DEF Bind, sockVars, threadVars, boundVars
  <2> QED BY <2>2, <2>3, BootSteps DEF TypeOK
<1>8. CASE Clear
  BY <1>8 DEF Clear, TypeOK, mainVars, sockVars
<1>9. CASE Recv
  <2>1. Head(rq) \in Datagrams /\ Tail(rq) \in Seq(Datagrams) /\ Len(Tail(rq)) <= QueueLimit
    BY <1>9 DEF Recv, TypeOK
  <2>2. Head(rq).drops \in [Origins -> 0..MaxCount]
    BY <2>1 DEF Datagrams
  <2> QED BY <1>9, <2>1, <2>2 DEF Recv, TypeOK, mainVars, boundVars
<1>10. CASE Add
  <2> DEFINE o == IF pending["sw"] > 0 THEN "sw" ELSE "hw"
  <2>1. o \in Origins
    BY Datagram
  <2> HIDE DEF o
  <2>2. counters[o] + pending[o] \in Nat
    <3>1. counters[o] \in Nat
      BY <2>1 DEF TypeOK
    <3>2. pending[o] \in 0..MaxCount
      BY <2>1 DEF TypeOK
    <3> QED BY <3>1, <3>2
  <2>3. counters' = [counters EXCEPT ![o] = counters[o] + pending[o]]
    BY <1>10 DEF Add, o
  <2>4. pending' = [pending EXCEPT ![o] = 0] /\ listener' \in {"recv", "add"}
    BY <1>10 DEF Add, o
  <2>5. counters' \in [Origins -> Nat] /\ pending' \in [Origins -> 0..MaxCount]
    BY <2>1, <2>2, <2>3, <2>4 DEF TypeOK
  <2>6. UNCHANGED <<step, privileged, pool, caps, aborted, refused, monitoring, member, rq, overrun,
                    lcaps, seen, sent, lost, alerts, errors>>
    BY <1>10 DEF Add, mainVars, sockVars, boundVars
  <2> QED BY <2>4, <2>5, <2>6 DEF TypeOK
<1>11. CASE RecvOverrun
  BY <1>11 DEF RecvOverrun, TypeOK, mainVars, threadVars, boundVars
<1>12. CASE RecvError
  BY <1>12 DEF RecvError, TypeOK, mainVars, sockVars
<1>13. CASE Wake
  BY <1>13 DEF Wake, TypeOK, mainVars, sockVars, boundVars
<1>14. CASE \E o \in Origins : Read(o)
  BY <1>14 DEF Read, TypeOK, mainVars, sockVars, threadVars, boundVars
<1>15. ASSUME NEW drops \in Counts, Multicast(drops) PROVE TypeOK'
  <2>1. ASSUME NEW f \in [Origins -> Nat] PROVE Plus(f, drops) \in [Origins -> Nat]
    BY Datagram DEF Plus
  <2>2. sent' \in [Origins -> Nat] /\ Plus(lost, drops) \in [Origins -> Nat]
    BY <1>15, <2>1 DEF Multicast, TypeOK
  <2>3. lost' \in [Origins -> Nat]
    BY <1>15, <2>2 DEF Multicast, TypeOK
  <2>4. rq' \in Seq(Datagrams) /\ Len(rq') <= QueueLimit
    <3>1. rq \in Seq(Datagrams) /\ Len(rq) \in Nat /\ Len(rq) <= QueueLimit /\ Alert(drops) \in Datagrams
      BY Datagram DEF TypeOK
    <3>2. CASE Len(rq) < QueueLimit
      <4>1. rq' = Append(rq, Alert(drops))
        BY <1>15, <3>2 DEF Multicast
      <4> QED BY <3>1, <3>2, <4>1
    <3>3. CASE ~(Len(rq) < QueueLimit)
      <4>1. rq' = rq
        BY <1>15, <3>3 DEF Multicast
      <4> QED BY <3>1, <4>1
    <3> QED BY <3>2, <3>3
  <2>5. overrun' \in BOOLEAN
    BY <1>15, Zenon DEF Multicast, TypeOK
  <2>6. alerts' = alerts + 1 /\ alerts < MaxAlerts
    BY <1>15 DEF Multicast
  <2>7. alerts' \in 0..MaxAlerts
    BY <2>6 DEF TypeOK
  <2> QED BY <1>15, <2>2, <2>3, <2>4, <2>5, <2>7 DEF Multicast, TypeOK, mainVars, threadVars
<1>16. CASE UNCHANGED vars
  BY <1>16 DEF vars, TypeOK, mainVars, sockVars, threadVars, boundVars
<1> QED BY <1>2, <1>3, <1>4, <1>5, <1>6, <1>7, <1>8, <1>9, <1>10, <1>11, <1>12, <1>13, <1>14,
           <1>15, <1>16 DEF Next, Main, Listen, Idle

\* Every variable keeps its type, for any bounds (main.rs and drop_monitor.rs).
THEOREM TypeCorrect == Spec => []TypeOK
BY TypeInit, TypeStep, PTL DEF Spec

-----------------------------------------------------------------------------
\* Who holds which capability when: the main thread drops its own at step 7
\* and no other, the pool never, and the listener before it receives.
CapsInv ==
    /\ privileged => pool = "full"
    /\ privileged /\ step <= 7 => caps = "full"
    /\ ~privileged => caps = "none"
    /\ step > 7 => caps # "full"
    /\ ListensDeprivileged

\* What each step of the setup has achieved when startup has passed it.
SetupInv ==
    /\ listener # "none" => step > 6
    /\ step <= 5 => ~member
    /\ ~member => rq = <<>>
    /\ privileged /\ ~refused /\ step > 5 => member
    /\ privileged /\ ~refused /\ step > 6 => listener # "none"

Inv == TypeOK /\ CapsInv /\ SetupInv

\* Nothing is set up and no capability is dropped at the start.
LEMMA InitInv == Init => Inv
<1> SUFFICES ASSUME Init PROVE Inv
  OBVIOUS
<1>1. CapsInv /\ SetupInv
  BY DEF Init, CapsInv, SetupInv, ListensDeprivileged
<1> QED BY <1>1, TypeInit DEF Inv

\* A step of the listener or of a scrape: it neither starts nor ends the
\* thread, and touches no capability of another one.
LEMMA ThreadStep ==
  ASSUME Inv, UNCHANGED <<step, privileged, pool, caps, refused, member>>,
         ~member => rq' = <<>>,
         listener # "none" <=> listener' # "none",
         ListensDeprivileged'
  PROVE  CapsInv' /\ SetupInv'
BY DEF Inv, CapsInv, SetupInv

\* To a privileged process the kernel's ACK is tolerated, and taking it leaves
\* the queue empty.
LEMMA AckTolerated ==
  ASSUME rq = <<>>, caps = "full"
  PROVE  /\ Tolerates(Head(Append(rq, Ack(Errno))))
         /\ Tail(Append(rq, Ack(Errno))) = <<>>
<1>1. Append(rq, Ack(Errno)) = <<Ack(Errno)>>
  OBVIOUS
<1>2. Errno \in {"already", "ok"}
  BY DEF Errno
<1> QED BY <1>1, <1>2 DEF Tolerates, Ack

\* Each step of startup achieves what the next ones rely on.
LEMMA InvStep == Inv /\ [Next]_vars => Inv'
<1> SUFFICES ASSUME Inv, [Next]_vars PROVE CapsInv' /\ SetupInv'
  BY TypeStep DEF Inv
<1>1. step \in 1..(Len(Boot) + 1) /\ step \in 1..9
  BY Places DEF Inv, TypeOK
<1>2. CASE Lookup
  <2>1. CASE Advance /\ UNCHANGED <<refused, member, rq, overrun>>
    <3>1. step' = step + 1 /\ step \in {1, 2}
      BY <1>2, <2>1, <1>1, Places DEF Lookup, Advance
    <3>2. UNCHANGED <<privileged, pool, caps, refused, member, rq, listener, lcaps>>
      BY <1>2, <2>1 DEF Lookup, threadVars
    <3> QED BY <3>1, <3>2 DEF Inv, CapsInv, SetupInv, ListensDeprivileged
  <2>2. CASE SkipListener /\ refused' = TRUE
    <3>1. step \in {1, 2} /\ step \in 1..6
      BY <1>2, <1>1, Places DEF Lookup
    <3>2. step' = 7
      BY <3>1, <2>2, SkipsToDrop, Zenon
    <3>3. UNCHANGED <<privileged, pool, caps, listener, lcaps>>
      BY <1>2 DEF Lookup, threadVars
    <3>4. member' = FALSE /\ rq' = <<>>
      BY <2>2 DEF SkipListener
    <3> QED BY <3>1, <3>2, <3>3, <3>4, <2>2 DEF Inv, CapsInv, SetupInv, ListensDeprivileged
  <2> QED BY <1>2, <2>1, <2>2 DEF Lookup
<1>3. CASE Command
  <2>1. step \in {3, 4} /\ UNCHANGED <<privileged, pool, caps, refused, listener, lcaps>>
    BY <1>3, <1>1, Places DEF Command, threadVars
  <2>2. ~member /\ rq = <<>>
    BY <2>1 DEF Inv, SetupInv
  <2>3. CASE caps = "full"
    <3>1. Advance /\ rq' = <<>> /\ UNCHANGED member
      BY <1>3, <2>2, <2>3, AckTolerated DEF Command
    <3>2. step' = step + 1
      BY <3>1 DEF Advance
    <3> QED BY <2>1, <2>2, <3>1, <3>2 DEF Inv, CapsInv, SetupInv, ListensDeprivileged
  <2>4. CASE caps # "full"
    <3>1. ~privileged
      BY <2>1, <2>4 DEF Inv, CapsInv
    <3>2. CASE SkipListener
      <4>1. step' = 7 /\ member' = FALSE /\ rq' = <<>>
        <5>1. step \in 1..6
          BY <2>1
        <5> QED BY <5>1, <3>2, SkipsToDrop, Zenon
      <4> QED BY <2>1, <3>1, <4>1 DEF Inv, CapsInv, SetupInv, ListensDeprivileged
    <3>3. CASE Advance /\ rq' = Tail(Append(rq, Ack(Errno))) /\ UNCHANGED <<member, overrun>>
      <4>1. step' = step + 1 /\ rq' = <<>>
        BY <2>2, <3>3 DEF Advance
      <4> QED BY <2>1, <2>2, <3>1, <3>3, <4>1 DEF Inv, CapsInv, SetupInv, ListensDeprivileged
    <3> QED BY <1>3, <3>2, <3>3 DEF Command
  <2> QED BY <2>3, <2>4
<1>4. CASE Join
  <2>1. step = 5 /\ UNCHANGED <<privileged, pool, caps, listener, lcaps>>
    BY <1>4, <1>1, Places DEF Join, threadVars
  <2>2. CASE Advance /\ member' = TRUE /\ UNCHANGED <<refused, rq, overrun>>
    <3>1. step' = 6
      BY <2>1, <2>2 DEF Advance
    <3> QED BY <2>1, <2>2, <3>1 DEF Inv, CapsInv, SetupInv, ListensDeprivileged
  <2>3. CASE SkipListener /\ (refused' = TRUE \/ (caps # "full" /\ UNCHANGED refused))
    <3>1. step' = 7 /\ member' = FALSE /\ rq' = <<>>
      BY <2>1, <2>3, SkipsToDrop
    <3>2. ~privileged \/ refused' = TRUE
      BY <2>1, <2>3 DEF Inv, CapsInv
    <3> QED BY <2>1, <3>1, <3>2 DEF Inv, CapsInv, SetupInv, ListensDeprivileged
  <2> QED BY <1>4, <2>2, <2>3 DEF Join
<1>5. CASE Spawn
  <2>1. step = 6 /\ UNCHANGED <<privileged, pool, caps>>
    BY <1>5, <1>1, Places DEF Spawn
  <2>2. CASE Advance /\ listener' = "clear" /\ lcaps' = caps /\ UNCHANGED <<refused, member, rq, overrun>>
    <3>1. step' = 7
      BY <2>1, <2>2 DEF Advance
    <3> QED BY <2>1, <2>2, <3>1 DEF Inv, CapsInv, SetupInv, ListensDeprivileged
  <2>3. CASE SkipListener /\ refused' = TRUE /\ UNCHANGED <<listener, lcaps>>
    <3>1. step' = 7 /\ member' = FALSE /\ rq' = <<>>
      BY <2>1, <2>3, SkipsToDrop
    <3> QED BY <2>1, <2>3, <3>1 DEF Inv, CapsInv, SetupInv, ListensDeprivileged
  <2> QED BY <1>5, <2>2, <2>3 DEF Spawn
<1>6. CASE DropCaps
  <2>1. step = 7 /\ UNCHANGED <<privileged, pool, refused, member, rq, listener, lcaps>>
    BY <1>6, <1>1, Places DEF DropCaps, sockVars, threadVars
  <2>2. \/ step' = 8 /\ caps' \in {"none", "net_admin"} /\ (caps = "none" => caps' = "none")
        \/ UNCHANGED <<step, caps>>
    BY <1>6, <2>1 DEF DropCaps, Advance
  <2> QED BY <2>1, <2>2 DEF Inv, CapsInv, SetupInv, ListensDeprivileged
<1>7. CASE Bind
  <2>1. step = 8 /\ step' = 9 /\ UNCHANGED <<privileged, pool, caps, refused, member, rq, listener, lcaps>>
    BY <1>7, <1>1, Places DEF Bind, Advance, sockVars, threadVars
  <2> QED BY <2>1 DEF Inv, CapsInv, SetupInv, ListensDeprivileged
<1>8. CASE Clear
  BY <1>8, ThreadStep DEF Clear, Inv, SetupInv, CapsInv, ListensDeprivileged, mainVars, sockVars
<1>9. CASE Recv
  BY <1>9, ThreadStep DEF Recv, Inv, SetupInv, CapsInv, ListensDeprivileged, mainVars
<1>10. CASE Add
  BY <1>10, ThreadStep DEF Add, Inv, SetupInv, CapsInv, ListensDeprivileged, mainVars, sockVars
<1>11. CASE RecvOverrun
  BY <1>11, ThreadStep DEF RecvOverrun, Inv, SetupInv, CapsInv, ListensDeprivileged, mainVars, threadVars
<1>12. CASE RecvError
  BY <1>12, ThreadStep DEF RecvError, Inv, SetupInv, CapsInv, ListensDeprivileged, mainVars, sockVars
<1>13. CASE Wake
  BY <1>13, ThreadStep DEF Wake, Inv, SetupInv, CapsInv, ListensDeprivileged, mainVars, sockVars
<1>14. CASE \E o \in Origins : Read(o)
  BY <1>14, ThreadStep DEF Read, Inv, SetupInv, CapsInv, ListensDeprivileged, mainVars, sockVars, threadVars
<1>15. CASE \E drops \in Counts : Multicast(drops)
  BY <1>15, ThreadStep DEF Multicast, Inv, SetupInv, CapsInv, ListensDeprivileged, mainVars, threadVars
<1>16. CASE UNCHANGED vars
  BY <1>16, ThreadStep DEF vars, Inv, SetupInv, CapsInv, ListensDeprivileged, mainVars, sockVars, threadVars
<1> QED BY <1>2, <1>3, <1>4, <1>5, <1>6, <1>7, <1>8, <1>9, <1>10, <1>11, <1>12, <1>13, <1>14,
           <1>15, <1>16 DEF Next, Main, Listen, Idle

\* The invariant the three theorems below follow from.
LEMMA InvHolds == Spec => []Inv
BY InitInv, InvStep, PTL DEF Spec

\* The thread that serves HTTP has no more than CAP_NET_ADMIN, and it alone: the
\* threads of the pool, which run the scrapes' requests, keep all that a
\* privileged process was started with (main.rs: the pool is built first, and
\* drop_caps_to_net_admin between the listener's setup and the bind acts on the
\* calling thread).
THEOREM DeprivilegedServing == Spec => [](ServesDeprivileged /\ (privileged => pool = "full"))
<1>1. Inv => ServesDeprivileged /\ (privileged => pool = "full")
  BY Places DEF Inv, TypeOK, CapsInv, ServesDeprivileged
<1> QED BY <1>1, InvHolds, PTL

\* Whatever errors restart recv_loop, the thread never handles a datagram with
\* a capability (drop_monitor.rs: clear_thread_caps at its every entry).
THEOREM DeprivilegedListening == Spec => []ListensDeprivileged
<1>1. Inv => ListensDeprivileged
  BY DEF Inv, CapsInv
<1> QED BY <1>1, InvHolds, PTL

\* A privileged exporter that no step of its own was refused serves with its
\* listener joined and running, whether or not monitoring was left on.
THEOREM ListenerRuns == Spec => []ListenerStarted
<1>1. Inv => ListenerStarted
  BY Places DEF Inv, TypeOK, SetupInv, ListenerStarted
<1> QED BY <1>1, InvHolds, PTL

-----------------------------------------------------------------------------
\* What was scraped of a counter never exceeds it.
Behind == \A o \in Origins : seen[o] <= counters[o]

\* Adding keeps what was read behind, and a read only catches up.
LEMMA BehindStep == TypeOK /\ Behind /\ [Next]_vars => Behind' /\ (\A o \in Origins : seen'[o] >= seen[o])
<1> SUFFICES ASSUME TypeOK, Behind, [Next]_vars
             PROVE  Behind' /\ \A o \in Origins : seen'[o] >= seen[o]
  OBVIOUS
<1>1. /\ counters \in [Origins -> Nat] /\ seen \in [Origins -> Nat]
      /\ pending \in [Origins -> 0..MaxCount]
  BY DEF TypeOK
<1>2. CASE UNCHANGED <<counters, seen>>
  BY <1>1, <1>2 DEF Behind
<1>3. CASE Add
  <2> DEFINE p == IF pending["sw"] > 0 THEN "sw" ELSE "hw"
  <2>1. p \in Origins
    BY Datagram
  <2>2. counters' = [counters EXCEPT ![p] = @ + pending[p]] /\ seen' = seen
    BY <1>3 DEF Add
  <2> HIDE DEF p
  <2>3. pending[p] \in Nat
    BY <1>1, <2>1, BoundsAssumption
  <2>4. \A o \in Origins : counters'[o] >= counters[o] /\ counters'[o] \in Nat
    BY <1>1, <2>1, <2>2, <2>3
  <2> QED BY <1>1, <2>2, <2>4 DEF Behind
<1>4. ASSUME NEW p \in Origins, Read(p)
      PROVE  Behind' /\ \A o \in Origins : seen'[o] >= seen[o]
  <2>1. seen' = [seen EXCEPT ![p] = counters[p]] /\ counters' = counters
    BY <1>4 DEF Read
  <2> QED BY <1>1, <2>1 DEF Behind
<1>5. Main => UNCHANGED <<counters, seen>>
  BY DEF Main, Lookup, Command, Join, Spawn, DropCaps, Bind
<1>6. Clear \/ Recv \/ RecvOverrun \/ RecvError \/ Wake => UNCHANGED <<counters, seen>>
  BY DEF Clear, Recv, RecvOverrun, RecvError, Wake
<1>7. (\E drops \in Counts : Multicast(drops)) \/ UNCHANGED vars => UNCHANGED <<counters, seen>>
  BY DEF Multicast, vars
<1> QED BY <1>2, <1>3, <1>4, <1>5, <1>6, <1>7 DEF Next, Listen, Idle

\* No scrape reports a total below an earlier one: the counters are only added
\* to, by any number of restarts of the loop and between the two loads of a
\* scrape (drop_monitor.rs: fetch_add in recv_loop, load in collect).
THEOREM TotalsMonotone == Spec => ScrapedTotalsMonotone
<1>1. Init => Behind
  BY DEF Init, Behind, None
<1>2. TypeOK /\ Behind /\ [Next]_vars => Behind'
  BY BehindStep
<1>3. TypeOK /\ Behind /\ [Next]_vars => [\A o \in Origins : seen'[o] >= seen[o]]_seen
  BY BehindStep
<1> QED BY <1>1, <1>2, <1>3, TypeCorrect, PTL DEF Spec, ScrapedTotalsMonotone

-----------------------------------------------------------------------------
\* The drops of each origin in the datagrams of a queue.
DropsOf(q, o) == [k \in DOMAIN q |-> q[k].drops[o]]

\* They are numbers; a datagram put at the end or taken from the front adds or
\* takes its own.
LEMMA DropsOfQueue ==
  ASSUME NEW q \in Seq(Datagrams), NEW o \in Origins
  PROVE  /\ DropsOf(q, o) \in Seq(Nat)
         /\ \A d \in Datagrams : /\ d.drops[o] \in Nat
                                 /\ DropsOf(Append(q, d), o) = Append(DropsOf(q, o), d.drops[o])
         /\ q # <<>> => /\ DropsOf(q, o) # <<>> /\ DropsOf(q, o)[1] = Head(q).drops[o]
                        /\ DropsOf(Tail(q), o) = Tail(DropsOf(q, o))
<1>1. \A d \in Datagrams : d.drops[o] \in Nat
  BY BoundsAssumption DEF Datagrams
<1>2. DropsOf(q, o) \in Seq(Nat)
  BY <1>1 DEF DropsOf
<1>3. ASSUME NEW d \in Datagrams
      PROVE  DropsOf(Append(q, d), o) = Append(DropsOf(q, o), d.drops[o])
  <2> DEFINE s == DropsOf(Append(q, d), o)
             t == Append(DropsOf(q, o), d.drops[o])
  <2>1. s \in Seq(Nat) /\ t \in Seq(Nat) /\ Len(s) = Len(q) + 1 /\ Len(t) = Len(q) + 1
    BY <1>1, <1>2 DEF DropsOf
  <2>2. ASSUME NEW i \in 1..Len(s) PROVE s[i] = t[i]
    BY <1>1, <1>2, <2>1 DEF DropsOf
  <2> HIDE DEF s, t
  <2>3. s = t
    BY <2>1, <2>2, SeqEqual
  <2> QED BY <2>3 DEF s, t
<1>4. ASSUME q # <<>>
      PROVE  /\ DropsOf(q, o) # <<>> /\ DropsOf(q, o)[1] = Head(q).drops[o]
             /\ DropsOf(Tail(q), o) = Tail(DropsOf(q, o))
  <2>1. Len(q) \in Nat \ {0} /\ Tail(q) \in Seq(Datagrams) /\ Len(DropsOf(q, o)) = Len(q)
    BY <1>4 DEF DropsOf
  <2>2. DropsOf(q, o) # <<>> /\ DropsOf(q, o)[1] = Head(q).drops[o]
    BY <2>1 DEF DropsOf
  <2> DEFINE s == DropsOf(Tail(q), o)
             t == Tail(DropsOf(q, o))
  <2>3. s \in Seq(Nat) /\ t \in Seq(Nat) /\ Len(s) = Len(q) - 1 /\ Len(t) = Len(q) - 1
    BY <1>1, <1>2, <2>1, <2>2 DEF DropsOf
  <2>4. ASSUME NEW i \in 1..Len(s) PROVE s[i] = t[i]
    BY <1>2, <2>1, <2>2, <2>3 DEF DropsOf
  <2> HIDE DEF s, t
  <2>5. s = t
    BY <2>3, <2>4, SeqEqual
  <2> QED BY <2>2, <2>5 DEF s, t
<1> QED BY <1>1, <1>2, <1>3, <1>4

\* What is queued is a sum over the datagrams.
LEMMA Queued == \A o \in Origins : /\ QueuedDrops(o) = Total(DropsOf(rq, o))
                                   /\ QueuedDrops(o)' = Total(DropsOf(rq', o))
BY DEF QueuedDrops, DropsOf

\* Nothing is counted before the group is joined; only a received alert is
\* pending, and a member's queue has alerts only, each with its drops.
Ledger ==
    /\ step <= 5 => sent = None /\ lost = None /\ counters = None
    /\ listener # "add" => pending = None
    /\ member => \A i \in DOMAIN rq : rq[i].kind = "alert"
    /\ DropsConserved

\* A step that moves no drops and does not join keeps the ledger.
LEMMA LedgerIdle ==
  ASSUME Ledger, UNCHANGED <<pending, counters, sent, lost>>,
         step' <= 5 => step <= 5, listener' # "add" => listener # "add",
         ~member' \/ (member /\ rq' = rq)
  PROVE  Ledger'
<1>1. CASE ~member'
  BY <1>1 DEF Ledger, DropsConserved
<1>2. CASE member /\ rq' = rq
  <2>1. \A o \in Origins : QueuedDrops(o)' = QueuedDrops(o)
    BY <1>2, Queued
  <2> QED BY <1>2, <2>1 DEF Ledger, DropsConserved
<1> QED BY <1>1, <1>2

\* Joining starts the ledger: nothing is queued, nothing is counted.
LEMMA LedgerJoin ==
  ASSUME Inv, Ledger, Join, Inv'
  PROVE  Ledger'
<1>1. step = 5 /\ ~member /\ rq = <<>> /\ listener = "none"
  BY Places DEF Inv, TypeOK, Join, SetupInv
<1>2. UNCHANGED <<listener, pending, counters, sent, lost>>
  BY DEF Join, threadVars
<1>3. CASE member' = FALSE
  BY <1>1, <1>2, <1>3, LedgerIdle
<1>4. CASE member' # FALSE
  <2>1. step' = step + 1 /\ rq' = <<>>
    BY <1>1, <1>4 DEF Join, Advance, SkipListener
  <2>2. ASSUME NEW o \in Origins PROVE QueuedDrops(o)' = 0
    <3>1. DropsOf(<<>>, o) = <<>>
      BY DEF DropsOf
    <3> QED BY <2>1, <3>1, Queued, TotalEmpty
  <2>3. sent = None /\ lost = None /\ counters = None /\ pending = None
    BY <1>1 DEF Ledger
  <2>4. \A o \in Origins : None[o] = 0
    BY DEF None
  <2>5. DropsConserved'
    BY <1>2, <2>2, <2>3, <2>4 DEF DropsConserved
  <2> QED BY <1>1, <1>2, <2>1, <2>3, <2>5 DEF Ledger
<1> QED BY <1>3, <1>4

\* What is taken from the queue is pending.
LEMMA LedgerRecv ==
  ASSUME Inv, Ledger, Recv
  PROVE  Ledger'
<1>1. rq \in Seq(Datagrams) /\ rq # <<>> /\ rq' = Tail(rq) /\ listener = "recv"
  BY DEF Inv, TypeOK, Recv
<1>2. UNCHANGED <<step, member, counters, sent, lost>> /\ step > 6
  BY <1>1 DEF Inv, SetupInv, Recv, mainVars
<1>3. member /\ Head(rq).kind = "alert"
  BY <1>1 DEF Inv, SetupInv, Ledger
<1>4. listener' = "add" /\ pending' = Head(rq).drops
  BY <1>3 DEF Recv
<1>5. \A i \in DOMAIN rq' : rq'[i].kind = "alert"
  BY <1>1, <1>3 DEF Ledger
<1>6. ASSUME NEW o \in Origins
      PROVE  sent'[o] = counters'[o] + pending'[o] + QueuedDrops(o)' + lost'[o]
  <2>1. pending[o] = 0
    BY <1>1 DEF Ledger, None
  <2>2. sent[o] = counters[o] + pending[o] + QueuedDrops(o) + lost[o]
    BY <1>3 DEF Ledger, DropsConserved
  <2> DEFINE all == DropsOf(rq, o)
             d == Head(rq).drops[o]
             q == Total(Tail(all))
             c == counters[o]
             l == lost[o]
  <2>3. all \in Seq(Nat) /\ all # <<>> /\ all[1] = d /\ DropsOf(Tail(rq), o) = Tail(all)
    BY <1>1, DropsOfQueue, Zenon
  <2> HIDE DEF all, d
  <2>4. q \in Nat /\ Total(all) = d + q /\ d \in Nat
    BY <2>3, TotalFirst
  <2>5. c \in Nat /\ l \in Nat
    BY DEF Inv, TypeOK
  <2>6. QueuedDrops(o) = Total(all) /\ QueuedDrops(o)' = q
    BY <1>1, <2>3, Queued DEF all
  <2> HIDE DEF q, c, l
  <2>7. c + 0 + (d + q) + l = c + d + q + l
    BY <2>4, <2>5
  <2>8. sent[o] = c + 0 + (d + q) + l
    BY <2>1, <2>2, <2>4, <2>6 DEF c, l
  <2> QED BY <1>2, <1>4, <2>6, <2>7, <2>8 DEF c, d, l
<1> QED BY <1>2, <1>4, <1>5, <1>6 DEF Ledger, DropsConserved

\* What is added is no longer pending.
LEMMA LedgerAdd ==
  ASSUME Inv, Ledger, Add
  PROVE  Ledger'
<1> DEFINE p == IF pending["sw"] > 0 THEN "sw" ELSE "hw"
<1>1. /\ counters' = [counters EXCEPT ![p] = @ + pending[p]]
      /\ pending' = [pending EXCEPT ![p] = 0]
      /\ listener' = (IF pending' = None THEN "recv" ELSE "add")
      /\ UNCHANGED <<step, member, rq, sent, lost>> /\ listener = "add"
  BY DEF Add, mainVars, sockVars
<1>2. p \in Origins
  BY Datagram
<1> HIDE DEF p
<1>3. step > 6
  BY <1>1 DEF Inv, SetupInv
<1>4. ASSUME NEW o \in Origins PROVE counters'[o] + pending'[o] = counters[o] + pending[o]
  <2>1. counters[o] \in Nat /\ pending[o] \in Nat
    BY BoundsAssumption DEF Inv, TypeOK
  <2>2. CASE o = p
    <3>1. counters'[o] = counters[o] + pending[o] /\ pending'[o] = 0
      BY <1>1, <1>2, <2>2 DEF Inv, TypeOK
    <3> QED BY <2>1, <3>1
  <2>3. CASE o # p
    BY <1>1, <1>2, <2>3 DEF Inv, TypeOK
  <2> QED BY <2>2, <2>3
<1>5. \A o \in Origins : QueuedDrops(o)' = QueuedDrops(o)
  BY <1>1, Queued
<1>6. DropsConserved'
  <2> SUFFICES ASSUME member, NEW o \in Origins
               PROVE  sent'[o] = counters'[o] + pending'[o] + QueuedDrops(o)' + lost'[o]
    BY <1>1 DEF DropsConserved
  <2>1. sent[o] = counters[o] + pending[o] + QueuedDrops(o) + lost[o]
    BY DEF Ledger, DropsConserved
  <2>2. sent[o] = counters'[o] + pending'[o] + QueuedDrops(o) + lost[o]
    BY <1>4, <2>1
  <2> QED BY <1>1, <1>5, <2>2
<1>7. listener' # "add" => pending' = None
  BY <1>1
<1>8. member' => \A i \in DOMAIN rq' : rq'[i].kind = "alert"
  BY <1>1 DEF Ledger
<1>9. ~(step' <= 5)
  BY <1>1, <1>3 DEF Inv, TypeOK
<1> QED BY <1>6, <1>7, <1>8, <1>9, Zenon DEF Ledger

\* What is sent is queued or lost.
LEMMA LedgerMulticast ==
  ASSUME Inv, Ledger, NEW drops \in Counts, Multicast(drops)
  PROVE  Ledger'
<1>1. /\ member /\ sent' = Plus(sent, drops)
      /\ UNCHANGED <<step, member, listener, pending, counters>>
  BY DEF Multicast, mainVars, threadVars
<1>2. step > 5
  BY <1>1 DEF Inv, TypeOK, SetupInv
<1>3. rq \in Seq(Datagrams) /\ Alert(drops) \in Datagrams /\ drops \in [Origins -> Nat]
  BY Datagram DEF Inv, TypeOK
<1>4. \/ rq' = Append(rq, Alert(drops)) /\ lost' = lost
      \/ rq' = rq /\ lost' = Plus(lost, drops)
  BY DEF Multicast
<1>5. \A i \in DOMAIN rq' : rq'[i].kind = "alert"
  <2>1. Alert(drops).kind = "alert"
    BY DEF Alert
  <2> QED BY <1>1, <1>3, <1>4, <2>1 DEF Ledger
<1>6. ASSUME NEW o \in Origins
      PROVE  sent'[o] = counters'[o] + pending'[o] + QueuedDrops(o)' + lost'[o]
  <2> DEFINE all == DropsOf(rq, o)
             q == Total(all)
             d == drops[o]
             c == counters[o]
             p == pending[o]
             l == lost[o]
  <2>1. sent[o] = c + p + q + l
    BY <1>1, Queued DEF Ledger, DropsConserved
  <2>2. all \in Seq(Nat) /\ DropsOf(Append(rq, Alert(drops)), o) = Append(all, d)
    <3>1. Alert(drops).drops[o] = d
      BY DEF Alert
    <3> QED BY <1>3, <3>1, DropsOfQueue
  <2>3. d \in Nat /\ c \in Nat /\ p \in Nat /\ l \in Nat /\ sent[o] \in Nat
    BY <1>3, BoundsAssumption DEF Inv, TypeOK
  <2>4. sent'[o] = sent[o] + d
    BY <1>1 DEF Plus
  <2> HIDE DEF all
  <2>5. q \in Nat /\ Total(Append(all, d)) = q + d
    BY <2>2, <2>3, TotalAppend
  <2>6. CASE rq' = Append(rq, Alert(drops)) /\ lost' = lost
    <3>1. QueuedDrops(o)' = q + d
      BY <2>2, <2>5, <2>6, Queued, Zenon
    <3> HIDE DEF q, d, c, p, l
    <3>2. sent'[o] = c + p + (q + d) + l
      BY <2>1, <2>3, <2>4, <2>5
    <3> QED BY <1>1, <2>6, <3>1, <3>2 DEF c, p, l
  <2>7. CASE rq' = rq /\ lost' = Plus(lost, drops)
    <3>1. QueuedDrops(o)' = q
      BY <2>7, Queued DEF all
    <3>2. lost'[o] = l + d
      BY <2>7 DEF Plus
    <3> HIDE DEF q, d, c, p, l
    <3>3. sent'[o] = c + p + q + (l + d)
      BY <2>1, <2>3, <2>4, <2>5
    <3> QED BY <1>1, <3>1, <3>2, <3>3 DEF c, p
  <2> QED BY <1>4, <2>6, <2>7
<1>7. ~(step' <= 5)
  BY <1>1, <1>2 DEF Inv, TypeOK
<1>8. listener' # "add" => pending' = None
  BY <1>1 DEF Ledger
<1>9. DropsConserved'
  BY <1>6, Zenon DEF DropsConserved
<1> QED BY <1>5, <1>7, <1>8, <1>9, Zenon DEF Ledger

\* Each step keeps the ledger.
LEMMA LedgerStep == Inv /\ Inv' /\ Ledger /\ [Next]_vars => Ledger'
<1> SUFFICES ASSUME Inv, Inv', Ledger, [Next]_vars PROVE Ledger'
  OBVIOUS
<1>1. step \in 1..9 /\ step' \in 1..9 /\ (~member => rq = <<>>) /\ (~member' => rq' = <<>>)
  BY BootSteps DEF Inv, TypeOK, SetupInv
<1>2. ASSUME Lookup \/ Command \/ Spawn PROVE Ledger'
  <2>1. /\ UNCHANGED <<pending, counters, sent, lost>>
        /\ listener' # "add" => listener # "add"
        /\ Advance \/ SkipListener
        /\ SkipListener \/ (UNCHANGED <<member, rq>>) \/ step \in {3, 4}
    BY <1>2, Places DEF Lookup, Command, Spawn, threadVars, Inv, TypeOK, SetupInv
  <2>2. step \in {3, 4} => ~member'
    BY <1>2, Places DEF Lookup, Command, Spawn, Inv, TypeOK, SetupInv, SkipListener
  <2>3. step' <= 5 => step <= 5
    <3>1. step \in 1..8
      BY <1>1, <1>2, Places DEF Lookup, Command, Spawn, Inv, TypeOK
    <3>2. step' = step + 1 \/ step' = (IF step < 7 THEN 7 ELSE 8)
      BY <2>1, <3>1, Skips DEF Advance
    <3> QED BY <3>1, <3>2
  <2>4. ~member' \/ (member /\ rq' = rq)
    BY <2>1, <2>2 DEF SkipListener
  <2> QED BY <2>1, <2>3, <2>4, LedgerIdle
<1>3. CASE DropCaps \/ Bind
  BY <1>1, <1>3, LedgerIdle DEF DropCaps, Bind, Advance, sockVars, threadVars
<1>4. CASE Clear \/ RecvOverrun \/ RecvError \/ Wake
  BY <1>4, LedgerIdle DEF Clear, RecvOverrun, RecvError, Wake, mainVars, sockVars, threadVars
<1>5. CASE \E o \in Origins : Read(o)
  BY <1>5, LedgerIdle DEF Read, mainVars, sockVars, threadVars
<1>6. CASE UNCHANGED vars
  BY <1>6, LedgerIdle DEF vars, mainVars, sockVars, threadVars
<1>7. CASE Join
  BY <1>7, LedgerJoin
<1>8. CASE Recv \/ Add
  BY <1>8, LedgerRecv, LedgerAdd
<1>9. CASE \E drops \in Counts : Multicast(drops)
  BY <1>9, LedgerMulticast
<1> QED BY <1>2, <1>3, <1>4, <1>5, <1>6, <1>7, <1>8, <1>9 DEF Next, Main, Listen, Idle

\* Every drop the kernel reported since the group was joined is counted once, is
\* on its way, or was in a datagram the kernel gave up (drop_monitor.rs: the
\* setup takes no alert for an answer, and a restart of recv_loop repeats none).
THEOREM DropsConservedHolds == Spec => []DropsConserved
<1>1. Init => Ledger
  BY DEF Init, Ledger, DropsConserved
<1>2. Ledger => DropsConserved
  BY DEF Ledger
<1> QED BY <1>1, <1>2, LedgerStep, InvHolds, PTL DEF Spec
=============================================================================
