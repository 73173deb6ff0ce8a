--------------------------- MODULE HttpServerProofs ---------------------------
(***************************************************************************)
(* Proofs about HttpServer, for any number of connections and requests and *)
(* any sizes of reads, cap and back-off.                                   *)
(***************************************************************************)
EXTENDS HttpServer, InductionProofs

\* What a task knows of its buffer: nothing is read before accept, and a task
\* still reading has neither met the blank line nor reached the cap.
BufferInv ==
    \A c \in Conns :
        /\ stage[c] \in {"idle", "pending"} => got[c] = 0
        /\ stage[c] = "reading" => got[c] < Cap
        /\ got[c] < Cap + Chunk

Inv == TypeOK /\ BufferInv /\ DroppedJustly

\* The next wait of the accept loop stays between the two bounds.
LEMMA WakeBackoff ==
  ASSUME NEW b \in InitialBackoff..MaxBackoff
  PROVE  (IF 2 * b < MaxBackoff THEN 2 * b ELSE MaxBackoff) \in InitialBackoff..MaxBackoff
BY SizeAssumption

\* Whatever was read, a task reads on below the cap only, and gives up only on
\* a head that does not end within the cap.
LEMMA NextStageCases ==
  ASSUME TypeOK, NEW c \in Conns, NEW n \in Nat
  PROVE  /\ NextStage(c, n) \in {"reading", "scraping", "answered", "dropped"}
         /\ NextStage(c, n) = "reading" => n < Cap
         /\ NextStage(c, n) = "dropped" => request[c].head \notin 1..Cap
<1>1. request[c].head \in Nat
  BY RequestAssumption DEF TypeOK
<1> QED BY <1>1, SizeAssumption DEF NextStage, HeadComplete

\* Before the socket is bound nothing has been read.
LEMMA InitInv == Init => Inv
<1> SUFFICES ASSUME Init PROVE Inv
  OBVIOUS
<1>1. TypeOK
  <2>1. \A c \in Conns : request[c] \in Requests[c]
    BY DEF Init
  <2>2. backoff \in InitialBackoff..MaxBackoff /\ streak \in 0..MaxStreak
    BY SizeAssumption DEF Init
  <2>3. /\ stage \in [Conns -> {"idle"}]
        /\ sent \in [Conns -> Nat] /\ got \in [Conns -> Nat]
        /\ peer \in [Conns -> {"open"}] /\ answer \in [Conns -> {"none"}]
    BY DEF Init
  <2>4. listener = "down" /\ ready = FALSE
    BY DEF Init
  <2> QED BY <2>1, <2>2, <2>3, <2>4 DEF TypeOK
<1>2. BufferInv /\ DroppedJustly
  BY SizeAssumption DEF Init, BufferInv, DroppedJustly
<1> QED BY <1>1, <1>2 DEF Inv

\* A step that changes no buffer, drops nobody and brings no client back.
LEMMA QuietStep ==
  ASSUME Inv, UNCHANGED <<request, got>>,
         \A c \in Conns : stage'[c] \in {"idle", "pending"} => stage[c] \in {"idle", "pending"},
         \A c \in Conns : stage'[c] = "reading" => stage[c] \in {"pending", "reading"},
         \A c \in Conns : stage'[c] = "dropped" => stage[c] = "dropped",
         \A c \in Conns : peer[c] # "open" => peer'[c] # "open"
  PROVE  BufferInv' /\ DroppedJustly'
<1>1. BufferInv'
  BY SizeAssumption DEF Inv, BufferInv
<1>2. DroppedJustly'
  BY DEF Inv, DroppedJustly
<1> QED BY <1>1, <1>2

\* Each step of the server or of a client preserves the invariant.
LEMMA StepInv == Inv /\ [Next]_vars => Inv'
<1> SUFFICES ASSUME Inv, [Next]_vars PROVE Inv'
  OBVIOUS
<1> USE SizeAssumption
<1>1. TypeOK
  BY DEF Inv
<1>2. CASE SetReady
  BY <1>2, <1>1, QuietStep DEF SetReady, listenVars, clientVars, taskVars, TypeOK, Inv
<1>3. CASE Bind
  BY <1>3, <1>1, QuietStep DEF Bind, clientVars, taskVars, TypeOK, Inv
<1>4. CASE AcceptError
  BY <1>4, <1>1, QuietStep DEF AcceptError, clientVars, taskVars, TypeOK, Inv
<1>5. CASE Wake
  BY <1>5, <1>1, QuietStep, WakeBackoff DEF Wake, clientVars, taskVars, TypeOK, Inv
<1>6. ASSUME NEW c \in Conns, Accept(c) PROVE Inv'
  <2>1. TypeOK'
    BY <1>6, <1>1 DEF Accept, AcceptWith, clientVars, TypeOK
  <2>2. BufferInv' /\ DroppedJustly'
    BY <1>6, <1>1, QuietStep DEF Accept, AcceptWith, clientVars, TypeOK
  <2> QED BY <2>1, <2>2 DEF Inv
<1>7. ASSUME NEW c \in Conns, Connect(c) PROVE Inv'
  <2>1. TypeOK'
    BY <1>7, <1>1 DEF Connect, listenVars, clientVars, TypeOK
  <2>2. BufferInv' /\ DroppedJustly'
    BY <1>7, <1>1, QuietStep DEF Connect, clientVars, TypeOK
  <2> QED BY <2>1, <2>2 DEF Inv
<1>8. ASSUME NEW c \in Conns, Send(c) PROVE Inv'
  <2>1. request[c].length \in Nat
    BY <1>1, RequestAssumption DEF TypeOK
  <2>2. sent' \in [Conns -> Nat]
    BY <1>8, <1>1, <2>1 DEF Send, TypeOK
  <2>3. TypeOK'
    BY <1>8, <1>1, <2>2 DEF Send, listenVars, taskVars, TypeOK
  <2>4. BufferInv' /\ DroppedJustly'
    BY <1>8, QuietStep DEF Send, taskVars
  <2> QED BY <2>3, <2>4 DEF Inv
<1>9. ASSUME NEW c \in Conns, Leave(c) PROVE Inv'
  <2>1. TypeOK'
    BY <1>9, <1>1 DEF Leave, listenVars, taskVars, TypeOK
  <2>2. BufferInv' /\ DroppedJustly'
    BY <1>9, <1>1, QuietStep DEF Leave, taskVars, TypeOK
  <2> QED BY <2>1, <2>2 DEF Inv
<1>10. ASSUME NEW c \in Conns, Read(c) PROVE Inv'
  <2>1. PICK n \in 1..Chunk :
          /\ got' = [got EXCEPT ![c] = @ + n]
          /\ stage' = [stage EXCEPT ![c] = NextStage(c, got[c] + n)]
          /\ answer' = IF NextStage(c, got[c] + n) = "answered"
                       THEN [answer EXCEPT ![c] = Response(c)] ELSE answer
    BY <1>10 DEF Read
  <2>2. stage[c] = "reading" /\ UNCHANGED <<listenVars, ready, clientVars>>
    BY <1>10 DEF Read
  <2>3. got[c] < Cap /\ got[c] \in Nat /\ n \in Nat /\ n <= Chunk
    BY <1>1, <2>2 DEF Inv, BufferInv, TypeOK
  <2>4. /\ NextStage(c, got[c] + n) \in {"reading", "scraping", "answered", "dropped"}
        /\ NextStage(c, got[c] + n) = "reading" => got[c] + n < Cap
        /\ NextStage(c, got[c] + n) = "dropped" => request[c].head \notin 1..Cap
    BY <1>1, <2>3, NextStageCases
  <2>5. TypeOK'
    <3>1. Response(c) \in {"200", "404", "503"}
      BY DEF Response
    <3>2. got' \in [Conns -> Nat] /\ stage' \in [Conns ->
            {"idle", "pending", "reading", "scraping", "answered", "dropped"}]
      BY <1>1, <2>1, <2>3, <2>4 DEF TypeOK
    <3>3. answer' \in [Conns -> {"none", "metrics", "200", "404", "503"}]
      BY <1>1, <2>1, <3>1 DEF TypeOK
    <3> QED BY <1>1, <2>2, <3>2, <3>3 DEF TypeOK, listenVars, clientVars
  <2>6. /\ \A d \in Conns : d # c => got'[d] = got[d] /\ stage'[d] = stage[d]
        /\ got'[c] = got[c] + n /\ stage'[c] = NextStage(c, got[c] + n)
    BY <1>1, <2>1 DEF TypeOK
  <2>7. BufferInv'
    BY <2>3, <2>4, <2>6 DEF Inv, BufferInv
  <2>8. DroppedJustly'
    BY <2>2, <2>4, <2>6 DEF Inv, DroppedJustly, clientVars
  <2> QED BY <2>5, <2>7, <2>8 DEF Inv
<1>11. ASSUME NEW c \in Conns, ReadEnd(c) PROVE Inv'
  <2>1. TypeOK'
    BY <1>11, <1>1 DEF ReadEnd, listenVars, clientVars, TypeOK
  <2>2. /\ \A d \in Conns : d # c => stage'[d] = stage[d]
        /\ stage'[c] = "dropped" /\ peer[c] # "open"
        /\ UNCHANGED <<request, got, peer>>
    BY <1>11, <1>1 DEF ReadEnd, clientVars, TypeOK
  <2>3. BufferInv' /\ DroppedJustly'
    BY <2>2 DEF Inv, BufferInv, DroppedJustly
  <2> QED BY <2>1, <2>3 DEF Inv
<1>12. ASSUME NEW c \in Conns, Scraped(c) PROVE Inv'
  <2>1. TypeOK'
    BY <1>12, <1>1 DEF Scraped, listenVars, clientVars, TypeOK
  <2>2. BufferInv' /\ DroppedJustly'
    BY <1>12, <1>1, QuietStep DEF Scraped, clientVars, TypeOK
  <2> QED BY <2>1, <2>2 DEF Inv
<1>13. CASE UNCHANGED vars
  BY <1>13, <1>1, QuietStep
     DEF vars, listenVars, clientVars, taskVars, TypeOK, Inv
<1> QED
  BY <1>2, <1>3, <1>4, <1>5, <1>6, <1>7, <1>8, <1>9, <1>10, <1>11, <1>12, <1>13
     DEF Next, Exited

\* Every variable of the server keeps its type, the back-off its bounds.
THEOREM TypeCorrect == Spec => []TypeOK
BY InitInv, StepInv, PTL DEF Spec, Inv

\* No connection holds more than the cap and one read of its client's bytes.
THEOREM BufferBoundedHolds == Spec => []BufferBounded
<1>1. Inv => BufferBounded
  BY DEF Inv, BufferInv, BufferBounded
<1> QED BY <1>1, InitInv, StepInv, PTL DEF Spec

\* However TCP splits a request, one whose head fits is not refused.
THEOREM DroppedJustlyHolds == Spec => []DroppedJustly
<1>1. Inv => DroppedJustly
  BY DEF Inv
<1> QED BY <1>1, InitInv, StepInv, PTL DEF Spec

-----------------------------------------------------------------------------
(* The back-off is the one of the streak.                                  *)

\* What the loop makes of a wait when its sleep ends.
Longer(b) == IF 2 * b < MaxBackoff THEN 2 * b ELSE MaxBackoff

\* The waits of the streaks up to n.
Waits(f, n) == f = [k \in 0..n |-> IF k <= 1 THEN InitialBackoff ELSE Longer(f[k - 1])]

\* There are such waits: each follows from the one before it.
LEMMA WaitsExist == ASSUME NEW m \in Nat PROVE \E f : Waits(f, m)
<1> DEFINE S == {n \in Nat : \E f : Waits(f, n)}
<1>1. 0 \in S
  <2>1. Waits([k \in 0..0 |-> InitialBackoff], 0)
    BY DEF Waits
  <2> QED BY <2>1
<1>2. ASSUME NEW n \in Nat, n \in S PROVE n + 1 \in S
  <2>1. PICK f : Waits(f, n)
    BY <1>2
  <2> DEFINE g == [k \in 0..(n + 1) |->
                     IF k <= 1 THEN InitialBackoff ELSE IF k = n + 1 THEN Longer(f[n]) ELSE f[k]]
  <2>2. ASSUME NEW k \in 0..(n + 1)
        PROVE  g[k] = IF k <= 1 THEN InitialBackoff ELSE Longer(g[k - 1])
    <3>1. CASE k <= 1
      BY <3>1
    <3>2. CASE k > 1
      <4>1. k - 1 \in 0..n /\ k - 1 \in 0..(n + 1) /\ k - 1 # n + 1 /\ ~(k <= 1)
        BY <3>2
      <4>2. \A i \in 0..n : f[i] = IF i <= 1 THEN InitialBackoff ELSE Longer(f[i - 1])
        BY <2>1, Zenon DEF Waits
      <4>3. g[k - 1] = f[k - 1]
        <5>1. k - 1 <= 1 => f[k - 1] = InitialBackoff
          BY <4>1, <4>2
        <5> QED BY <4>1, <5>1
      <4>4. k = n + 1 => g[k] = Longer(f[n]) /\ n = k - 1
        BY <4>1
      <4>5. k # n + 1 => k \in 0..n /\ g[k] = f[k]
        BY <4>1
      <4> HIDE DEF g
      <4> QED BY <4>1, <4>2, <4>3, <4>4, <4>5, Zenon
    <3> QED BY <3>1, <3>2
  <2>3. g = [k \in 0..(n + 1) |-> g[k]]
    OBVIOUS
  <2> HIDE DEF g
  <2>4. Waits(g, n + 1)
    BY <2>2, <2>3, Zenon DEF Waits
  <2> QED BY <2>4
<1> HIDE DEF S
<1>3. m \in S
  BY <1>1, <1>2, SetInduction
<1> QED BY <1>3 DEF S

\* Wait is the function its definition says.
LEMMA WaitValue ==
  ASSUME NEW k \in 0..MaxStreak
  PROVE  Wait[k] = IF k <= 1 THEN InitialBackoff ELSE Longer(Wait[k - 1])
<1> DEFINE W(f) == f = [i \in 0..MaxStreak |->
                          IF i <= 1 THEN InitialBackoff
                          ELSE IF 2 * f[i - 1] < MaxBackoff THEN 2 * f[i - 1] ELSE MaxBackoff]
<1>1. \E f : W(f)
  <2>1. PICK f : Waits(f, MaxStreak)
    BY WaitsExist, SizeAssumption
  <2> QED BY <2>1, Zenon DEF Waits, Longer
<1>2. Wait = CHOOSE f : W(f)
  BY Zenon DEF Wait
<1> HIDE DEF W
<1>3. W(Wait)
  BY <1>1, <1>2, Zenon
<1> QED BY <1>3, Zenon DEF W, Longer

\* While the loop sleeps it waits for the current streak, before that for the
\* streak one error longer; the first wait is still ahead when it starts.
BackoffInv ==
    /\ listener = "down" => streak = 0 /\ backoff = InitialBackoff
    /\ listener = "accept" => backoff = IF streak = 0 THEN InitialBackoff ELSE Longer(Wait[streak])
    /\ listener = "sleep" => streak # 0 /\ backoff = Wait[streak]

\* An error or the end of a sleep moves the back-off along the waits; a streak
\* that is no longer counted has reached the longest.
LEMMA BackoffStep == TypeOK /\ BackoffInv /\ [Next]_vars => BackoffInv'
<1> SUFFICES ASSUME TypeOK, BackoffInv, [Next]_vars PROVE BackoffInv'
  OBVIOUS
<1>1. streak \in 0..MaxStreak
  BY DEF TypeOK
<1>2. CASE Bind
  BY <1>2 DEF Bind, BackoffInv
<1>3. CASE AcceptError
  <2>1. listener' = "sleep" /\ backoff' = backoff
    BY <1>3 DEF AcceptError
  <2>2. backoff = IF streak = 0 THEN InitialBackoff ELSE Longer(Wait[streak])
    BY <1>3 DEF AcceptError, BackoffInv
  <2>3. CASE streak < MaxStreak
    <3>1. streak' = streak + 1
      BY <1>3, <2>3 DEF AcceptError
    <3>2. streak + 1 \in 0..MaxStreak /\ (streak + 1 <= 1 <=> streak = 0)
          /\ (streak + 1) - 1 = streak /\ streak + 1 # 0
      BY <1>1, <2>3, SizeAssumption
    <3>3. Wait[streak + 1] = IF streak = 0 THEN InitialBackoff ELSE Longer(Wait[streak])
      BY <3>2, WaitValue
    <3> QED BY <2>1, <2>2, <3>1, <3>2, <3>3 DEF BackoffInv
  <2>4. CASE streak >= MaxStreak
    <3>1. streak' = streak /\ streak = MaxStreak /\ streak # 0
      BY <1>1, <1>3, <2>4, SizeAssumption DEF AcceptError
    <3>2. Longer(MaxBackoff) = MaxBackoff
      BY SizeAssumption DEF Longer
    <3>3. backoff = Wait[streak]
      BY <2>2, <3>1, <3>2, StreakAssumption
    <3> QED BY <2>1, <3>1, <3>3 DEF BackoffInv
  <2> QED BY <1>1, <2>3, <2>4, SizeAssumption
<1>4. CASE Wake
  <2>1. /\ listener' = "accept" /\ streak' = streak /\ backoff' = Longer(backoff)
        /\ streak # 0 /\ backoff = Wait[streak]
    BY <1>4 DEF Wake, BackoffInv, Longer
  <2> QED BY <2>1 DEF BackoffInv
<1>5. ASSUME NEW c \in Conns, Accept(c) PROVE BackoffInv'
  BY <1>5 DEF Accept, AcceptWith, BackoffInv
<1>6. CASE UNCHANGED listenVars
  BY <1>6 DEF listenVars, BackoffInv
<1>7. ASSUME NEW c \in Conns,
             Connect(c) \/ Send(c) \/ Leave(c) \/ Read(c) \/ ReadEnd(c) \/ Scraped(c)
      PROVE  UNCHANGED listenVars
  BY <1>7 DEF Connect, Send, Leave, Read, ReadEnd, Scraped
<1>8. SetReady \/ Exited \/ UNCHANGED vars => UNCHANGED listenVars
  BY DEF SetReady, Exited, vars, listenVars
<1> QED BY <1>2, <1>3, <1>4, <1>5, <1>6, <1>7, <1>8 DEF Next

\* Every sleep of the accept loop is as long as its streak of errors says, and a
\* connection accepted in between starts the doubling again.
THEOREM BackoffHolds == Spec => []BackoffFollowsStreak
<1>1. Init => BackoffInv
  BY DEF Init, BackoffInv
<1>2. BackoffInv => BackoffFollowsStreak
  BY DEF BackoffInv, BackoffFollowsStreak
<1> QED BY <1>1, <1>2, BackoffStep, TypeCorrect, PTL DEF Spec
=============================================================================
