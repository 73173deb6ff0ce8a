---------------------------- MODULE ScrapeProofs ----------------------------
(***************************************************************************)
(* Theorems about Scrape, for any set of requests, any collectors, any     *)
(* number of dumps per collector and any pool.  The inductive invariant    *)
(* ties the position of every task to what it has recorded so far and to   *)
(* the body the registry holds.                                            *)
(***************************************************************************)
EXTENDS Scrape, FiniteSetTheorems, TLAPS

\* A task between two awaits is the one being polled, so there is at most one.
RunningIsPolled ==
    \A r \in Requests : pc[r] \in {"fanout", "collect", "published"} => polled = r

\* Outcomes up to here name exactly the unavailable collectors as skipped.
ResultsFaithful ==
    \A r \in Requests :
        /\ Len(results[r]) <= N
        /\ \A i \in 1..Len(results[r]) : results[r][i] = "skipped" <=> Order[i] \notin Available
        /\ pc[r] \in {"collect", "await"} =>
             Len(results[r]) < N /\ Order[Len(results[r]) + 1] \in Available

\* The registry holds the body of the task that has published and not yet read.
PublishedIsCurrent ==
    \A r \in Requests : pc[r] = "published" =>
        encoded # NoBody /\ encoded.owner = r /\ encoded.results = results[r] /\ Len(results[r]) = N

\* No published counter is ahead of the live one.
PublishedCounters ==
    encoded # NoBody => \A c \in Collectors : encoded.errors[c] <= errorTotal[c]

Inv == TypeOK /\ RunningIsPolled /\ ResultsFaithful /\ PublishedIsCurrent
       /\ PublishedCounters /\ OwnBody /\ CompleteBody

-----------------------------------------------------------------------------
\* Every state has the declared types.
LEMMA TypeInit == Init => TypeOK
BY DEF Init, TypeOK, JobIds, Bodies, Outcomes

\* N is the length of Order, the registration order of the collectors.
LEMMA NConstant == N \in Nat /\ Order \in Seq(Collectors) /\ DOMAIN Order = 1..N
BY OrderAssumption DEF N

\* Counting an error keeps the counters natural numbers and lowers none.
LEMMA CountErrorType ==
  ASSUME errorTotal \in [Collectors -> Nat], NEW c, CountError(c)
  PROVE  /\ (errorTotal \in [Collectors -> Nat])'
         /\ \A d \in Collectors : errorTotal[d] <= errorTotal'[d]
<1>1. errorTotal' = [d \in Collectors |-> IF d = c THEN errorTotal[d] + 1 ELSE errorTotal[d]]
  BY DEF CountError
<1> QED BY <1>1

\* Every step of a task, the executor's timer or a pool thread keeps the types.
LEMMA TypeStep == TypeOK /\ [Next]_vars => TypeOK'
<1> SUFFICES ASSUME TypeOK, [Next]_vars PROVE TypeOK'
  OBVIOUS
<1> USE DEF TypeOK, Outcomes, Failures
<1>1. ASSUME NEW r \in Requests, Begin(r) PROVE TypeOK'
  BY <1>1 DEF Begin, poolVars, bodyVars
<1>2. ASSUME NEW r \in Requests, Skip(r) PROVE TypeOK'
  BY <1>2 DEF Skip, Record, poolVars, bodyVars
<1>3. ASSUME NEW r \in Requests, Start(r) PROVE TypeOK'
  BY <1>3 DEF Start, poolVars, bodyVars
<1>4. ASSUME NEW r \in Requests, Dispatch(r) PROVE TypeOK'
  <2>1. AwaitedJob(r) \in JobIds
    BY DEF AwaitedJob, Position, JobIds
  <2> QED BY <1>4, <2>1 DEF Dispatch, bodyVars
<1>5. ASSUME NEW r \in Requests, Resume(r) PROVE TypeOK'
  BY <1>5 DEF Resume, poolVars, bodyVars
<1>6. ASSUME NEW r \in Requests, CollectOk(r) PROVE TypeOK'
  BY <1>6 DEF CollectOk, Record, poolVars, bodyVars
<1>7. ASSUME NEW r \in Requests, CollectErr(r) PROVE TypeOK'
  <2>1. (errorTotal \in [Collectors -> Nat])'
    BY <1>7, CountErrorType DEF CollectErr
  <2> QED BY <1>7, <2>1 DEF CollectErr, Record, poolVars, bodyVars
<1>8. ASSUME NEW r \in Requests, Timeout(r) PROVE TypeOK'
  <2>1. (errorTotal \in [Collectors -> Nat])'
    BY <1>8, CountErrorType DEF Timeout
  <2> QED BY <1>8, <2>1 DEF Timeout, Record, poolVars, bodyVars
<1>9. ASSUME NEW r \in Requests, Publish(r) PROVE TypeOK'
  <2>1. [owner |-> r, results |-> results[r], errors |-> errorTotal] \in Bodies
    BY DEF Bodies
  <2> QED BY <1>9, <2>1 DEF Publish, PublishBody, poolVars
<1>10. ASSUME NEW r \in Requests, Respond(r) PROVE TypeOK'
  BY <1>10 DEF Respond, poolVars
<1>11. ASSUME NEW t \in Threads, Take(t) PROVE TypeOK'
  <2>1. Head(queue) \in JobIds /\ Tail(queue) \in Seq(JobIds)
    BY <1>11 DEF Take
  <2> QED BY <1>11, <2>1 DEF Take, taskVars, bodyVars
<1>12. ASSUME NEW t \in Threads, NEW o \in {"ok", "err"}, Finish(t, o) PROVE TypeOK'
  BY <1>12 DEF Finish, bodyVars
<1>13. ASSUME NEW t \in Threads, Hang(t) PROVE TypeOK'
  BY <1>13 DEF Hang, taskVars, bodyVars
<1>14. CASE UNCHANGED vars
  BY <1>14 DEF vars, taskVars, poolVars, bodyVars
<1> QED
  BY <1>1, <1>2, <1>3, <1>4, <1>5, <1>6, <1>7, <1>8, <1>9, <1>10, <1>11, <1>12,
     <1>13, <1>14 DEF Next, Proceed, Pool, Quiet

\* The variables keep their types in every reachable state.
THEOREM TypeCorrect == Spec => []TypeOK
BY TypeInit, TypeStep, PTL DEF Spec

-----------------------------------------------------------------------------
\* Before the first request the inductive invariant holds: nothing is recorded.
LEMMA InvInit == Init => Inv
<1> SUFFICES ASSUME Init PROVE Inv
  OBVIOUS
<1>1. TypeOK
  BY TypeInit
<1>2. RunningIsPolled /\ PublishedIsCurrent /\ PublishedCounters /\ OwnBody /\ CompleteBody
  BY DEF Init, RunningIsPolled, PublishedIsCurrent, PublishedCounters, OwnBody, CompleteBody
<1>3. ResultsFaithful
  BY NConstant DEF Init, ResultsFaithful
<1> QED BY <1>1, <1>2, <1>3 DEF Inv

\* A step that touches neither tasks, nor counters, nor bodies.
LEMMA InvFrame ==
  ASSUME Inv, TypeOK', UNCHANGED <<pc, results, polled, errorTotal, encoded, response>>
  PROVE  Inv'
BY DEF Inv, RunningIsPolled, ResultsFaithful, PublishedIsCurrent, PublishedCounters,
       OwnBody, CompleteBody

\* A step of the polled task r that records one more outcome.
LEMMA InvRecord ==
  ASSUME Inv, TypeOK', NEW r \in Requests, NEW o \in Outcomes,
         Record(r, o), polled' = r,
         pc[r] \in {"fanout", "collect", "await"}, polled = r \/ polled = NoTask,
         Len(results[r]) < N,
         o = "skipped" <=> Order[Len(results[r]) + 1] \notin Available,
         \A c \in Collectors : errorTotal[c] <= errorTotal'[c],
         UNCHANGED <<encoded, response>>
  PROVE  Inv'
<1> USE DEF Inv
<1>0. /\ pc' = [pc EXCEPT ![r] = "fanout"]
      /\ results' = [results EXCEPT ![r] = Append(@, o)]
  BY DEF Record
<1>1. \A q \in Requests : q # r => pc'[q] = pc[q] /\ results'[q] = results[q]
  BY <1>0 DEF TypeOK
<1>2. /\ pc'[r] = "fanout"
      /\ results'[r] = Append(results[r], o)
      /\ results[r] \in Seq(Outcomes)
  BY <1>0 DEF TypeOK
<1>3. RunningIsPolled'
  BY <1>1, <1>2, ValueAssumption DEF RunningIsPolled
<1>4. ResultsFaithful'
  <2> SUFFICES ASSUME NEW q \in Requests
               PROVE  /\ Len(results'[q]) <= N
                      /\ \A i \in 1..Len(results'[q]) :
                            results'[q][i] = "skipped" <=> Order[i] \notin Available
                      /\ pc'[q] \in {"collect", "await"} =>
                            Len(results'[q]) < N /\ Order[Len(results'[q]) + 1] \in Available
    BY DEF ResultsFaithful
  <2>1. CASE q # r
    BY <2>1, <1>1 DEF ResultsFaithful
  <2>2. CASE q = r
    <3>1. Len(results'[r]) = Len(results[r]) + 1
      BY <1>2
    <3>2. \A i \in 1..Len(results'[r]) :
             results'[r][i] = IF i = Len(results[r]) + 1 THEN o ELSE results[r][i]
      BY <1>2, <3>1
    <3>3. \A i \in 1..Len(results[r]) : results[r][i] = "skipped" <=> Order[i] \notin Available
      BY DEF ResultsFaithful
    <3> QED BY <2>2, <3>1, <3>2, <3>3, <1>2, NConstant
  <2> QED BY <2>1, <2>2
<1>5. PublishedIsCurrent'
  BY <1>1, <1>2 DEF PublishedIsCurrent
<1>6. PublishedCounters'
  BY NConstant DEF PublishedCounters, TypeOK, Bodies
<1>7. OwnBody' /\ CompleteBody'
  BY <1>1, <1>2 DEF OwnBody, CompleteBody
<1> QED BY <1>3, <1>4, <1>5, <1>6, <1>7

\* Every step of a task or of the pool keeps the inductive invariant.
LEMMA InvStep == Inv /\ [Next]_vars => Inv'
<1> SUFFICES ASSUME Inv, [Next]_vars PROVE Inv'
  OBVIOUS
<1>0. TypeOK /\ TypeOK'
  BY TypeStep DEF Inv
<1> USE DEF TypeOK, Outcomes
<1>1. ASSUME NEW r \in Requests, Begin(r) PROVE Inv'
  <2>1. \A q \in Requests : q # r => pc'[q] = pc[q]
    BY <1>0, <1>1 DEF Begin
  <2>2. pc[r] = "idle" /\ pc'[r] = "fanout" /\ polled = NoTask /\ polled' = r
    BY <1>0, <1>1 DEF Begin
  <2>3. UNCHANGED <<results, errorTotal, encoded, response>>
    BY <1>1 DEF Begin, bodyVars
  <2> QED BY <1>0, <2>1, <2>2, <2>3, ValueAssumption DEF Inv, RunningIsPolled, ResultsFaithful,
             PublishedIsCurrent, PublishedCounters, OwnBody, CompleteBody
<1>2. ASSUME NEW r \in Requests, Skip(r) PROVE Inv'
  <2>1. \A c \in Collectors : errorTotal[c] <= errorTotal'[c]
    BY <1>0, <1>2 DEF Skip
  <2>2. Len(results[r]) < N
    BY <1>0, <1>2, NConstant DEF Skip, Position
  <2> QED BY <1>0, <1>2, <2>1, <2>2, InvRecord DEF Skip, Current, Position, bodyVars
<1>3. ASSUME NEW r \in Requests, Start(r) PROVE Inv'
  <2>1. \A q \in Requests : q # r => pc'[q] = pc[q]
    BY <1>0, <1>3 DEF Start
  <2>2. pc'[r] = "collect" /\ polled = r /\ polled' = r
    BY <1>0, <1>3 DEF Start
  <2>3. Len(results[r]) < N /\ Order[Len(results[r]) + 1] \in Available
    BY <1>0, <1>3, NConstant DEF Start, Position, Current
  <2>4. UNCHANGED <<results, errorTotal, encoded, response>>
    BY <1>3 DEF Start, bodyVars
  <2> QED BY <1>0, <2>1, <2>2, <2>3, <2>4 DEF Inv, RunningIsPolled, ResultsFaithful,
             PublishedIsCurrent, PublishedCounters, OwnBody, CompleteBody
<1>4. ASSUME NEW r \in Requests, Dispatch(r) PROVE Inv'
  <2>1. \A q \in Requests : q # r => pc'[q] = pc[q] /\ pc[q] \notin {"fanout", "collect", "published"}
    BY <1>0, <1>4 DEF Dispatch, Inv, RunningIsPolled
  <2>2. pc[r] = "collect" /\ pc'[r] = "await"
    BY <1>0, <1>4 DEF Dispatch
  <2>3. UNCHANGED <<results, errorTotal, encoded, response>>
    BY <1>4 DEF Dispatch, bodyVars
  <2>4. ResultsFaithful'
    BY <2>1, <2>2, <2>3 DEF Inv, ResultsFaithful
  <2>5. RunningIsPolled' /\ PublishedIsCurrent' /\ PublishedCounters'
    BY <2>1, <2>2, <2>3 DEF Inv, RunningIsPolled, PublishedIsCurrent, PublishedCounters
  <2>6. OwnBody' /\ CompleteBody'
    BY <2>1, <2>2, <2>3 DEF Inv, OwnBody, CompleteBody
  <2> QED BY <1>0, <2>4, <2>5, <2>6 DEF Inv
<1>5. ASSUME NEW r \in Requests, Resume(r) PROVE Inv'
  <2>1. \A q \in Requests : q # r => pc'[q] = pc[q]
    BY <1>0, <1>5 DEF Resume
  <2>2. pc[r] = "await" /\ pc'[r] = "collect" /\ polled = NoTask /\ polled' = r
    BY <1>0, <1>5 DEF Resume
  <2>3. UNCHANGED <<results, errorTotal, encoded, response>>
    BY <1>5 DEF Resume, bodyVars
  <2> QED BY <1>0, <2>1, <2>2, <2>3, ValueAssumption DEF Inv, RunningIsPolled, ResultsFaithful,
             PublishedIsCurrent, PublishedCounters, OwnBody, CompleteBody
<1>6. ASSUME NEW r \in Requests, CollectOk(r) PROVE Inv'
  <2>1. \A c \in Collectors : errorTotal[c] <= errorTotal'[c]
    BY <1>0, <1>6 DEF CollectOk
  <2>2. Len(results[r]) < N /\ Order[Len(results[r]) + 1] \in Available
    BY <1>6 DEF CollectOk, Inv, ResultsFaithful
  <2> QED BY <1>0, <1>6, <2>1, <2>2, InvRecord DEF CollectOk, bodyVars
<1>7. ASSUME NEW r \in Requests, CollectErr(r) PROVE Inv'
  <2>1. \A c \in Collectors : errorTotal[c] <= errorTotal'[c]
    BY <1>0, <1>7, CountErrorType DEF CollectErr
  <2>2. Len(results[r]) < N /\ Order[Len(results[r]) + 1] \in Available
    BY <1>7 DEF CollectErr, Inv, ResultsFaithful
  <2> QED BY <1>0, <1>7, <2>1, <2>2, InvRecord DEF CollectErr, bodyVars
<1>8. ASSUME NEW r \in Requests, Timeout(r) PROVE Inv'
  <2>1. \A c \in Collectors : errorTotal[c] <= errorTotal'[c]
    BY <1>0, <1>8, CountErrorType DEF Timeout
  <2>2. Len(results[r]) < N /\ Order[Len(results[r]) + 1] \in Available
    BY <1>8 DEF Timeout, Inv, ResultsFaithful
  <2> QED BY <1>0, <1>8, <2>1, <2>2, InvRecord DEF Timeout, bodyVars
<1>9. ASSUME NEW r \in Requests, Publish(r) PROVE Inv'
  <2>1. \A q \in Requests : q # r => pc'[q] = pc[q] /\ pc[q] \notin {"fanout", "collect", "published"}
    BY <1>0, <1>9 DEF Publish, PublishBody, Inv, RunningIsPolled
  <2>2. pc[r] = "fanout" /\ pc'[r] = "published" /\ polled = r /\ polled' = r
    BY <1>0, <1>9 DEF Publish, PublishBody
  <2>3. UNCHANGED <<results, errorTotal, response>>
    BY <1>9 DEF Publish, PublishBody
  <2>4. encoded' = [owner |-> r, results |-> results[r], errors |-> errorTotal]
    BY <1>9 DEF Publish, PublishBody
  <2>5. encoded' # NoBody
    <3>1. encoded' \in Bodies
      BY <2>4, <1>0 DEF Bodies
    <3> QED BY <3>1, ValueAssumption
  <2>6. Len(results[r]) = N
    BY <1>9, <1>0, NConstant DEF Publish, Position
  <2>7. PublishedIsCurrent'
    BY <2>1, <2>3, <2>4, <2>5, <2>6 DEF PublishedIsCurrent
  <2>8. PublishedCounters'
    BY <1>0, <2>3, <2>4 DEF PublishedCounters
  <2>9. RunningIsPolled'
    BY <2>1, <2>2 DEF RunningIsPolled
  <2>10. ResultsFaithful'
    BY <2>1, <2>2, <2>3 DEF Inv, ResultsFaithful
  <2>11. OwnBody' /\ CompleteBody'
    BY <2>1, <2>2, <2>3 DEF Inv, OwnBody, CompleteBody
  <2> QED BY <1>0, <2>7, <2>8, <2>9, <2>10, <2>11 DEF Inv
<1>10. ASSUME NEW r \in Requests, Respond(r) PROVE Inv'
  <2>1. \A q \in Requests : q # r =>
           pc'[q] = pc[q] /\ pc[q] \notin {"fanout", "collect", "published"} /\ response'[q] = response[q]
    BY <1>0, <1>10 DEF Respond, Inv, RunningIsPolled
  <2>2. pc[r] = "published" /\ pc'[r] = "done" /\ response'[r] = encoded
    BY <1>0, <1>10 DEF Respond
  <2>3. UNCHANGED <<results, errorTotal, encoded>>
    BY <1>10 DEF Respond
  <2>4. encoded.owner = r /\ encoded.results = results[r] /\ Len(results[r]) = N
    BY <2>2 DEF Inv, PublishedIsCurrent
  <2>5. \A i \in 1..N : results[r][i] = "skipped" <=> Order[i] \notin Available
    BY <2>4 DEF Inv, ResultsFaithful
  <2>6. OwnBody'
    BY <2>1, <2>2, <2>4 DEF Inv, OwnBody
  <2>7. CompleteBody'
    <3> SUFFICES ASSUME NEW q \in Requests, pc'[q] = "done"
                 PROVE  /\ Len(response'[q].results) = N
                        /\ \A i \in 1..N :
                              response'[q].results[i] = "skipped" <=> Order[i] \notin Available
      BY DEF CompleteBody
    <3>1. CASE q = r
      <4>1. response'[q].results = results[r]
        BY <3>1, <2>2, <2>4
      <4> QED BY <4>1, <2>4, <2>5
    <3>2. CASE q # r
      <4>1. pc[q] = "done" /\ response'[q] = response[q]
        BY <3>2, <2>1
      <4> QED BY <4>1 DEF Inv, CompleteBody
    <3> QED BY <3>1, <3>2
  <2>8. RunningIsPolled' /\ PublishedIsCurrent' /\ PublishedCounters'
    BY <2>1, <2>2, <2>3 DEF Inv, RunningIsPolled, PublishedIsCurrent, PublishedCounters
  <2>9. ResultsFaithful'
    BY <2>1, <2>2, <2>3 DEF Inv, ResultsFaithful
  <2> QED BY <1>0, <2>6, <2>7, <2>8, <2>9 DEF Inv
<1>11. ASSUME NEW t \in Threads, Pool(t) PROVE Inv'
  <2>1. UNCHANGED <<pc, results, polled, errorTotal, encoded, response>>
    BY <1>11 DEF Pool, Take, Finish, Hang, taskVars, bodyVars
  <2> QED BY <1>0, <2>1, InvFrame
<1>12. CASE UNCHANGED vars
  BY <1>0, <1>12, InvFrame DEF vars, taskVars, bodyVars
<1> QED
  BY <1>1, <1>2, <1>3, <1>4, <1>5, <1>6, <1>7, <1>8, <1>9, <1>10, <1>11, <1>12
     DEF Next, Proceed, Quiet

\* Every reachable state satisfies the inductive invariant.
THEOREM Invariance == Spec => []Inv
BY InvInit, InvStep, PTL DEF Spec

\* However many requests overlap, each is answered with the body of its own
\* scrape.
THEOREM OwnBodyHolds == Spec => []OwnBody
BY Invariance, PTL DEF Inv

\* Every answer covers every enabled collector and skips exactly the
\* unavailable ones, whatever fails, hangs or times out.
THEOREM CompleteBodyHolds == Spec => []CompleteBody
BY Invariance, PTL DEF Inv

\* No published error counter is ever lower than in the body before it.
THEOREM PublishedErrorsMonotoneHolds == Spec => PublishedErrorsMonotone
<1>1. Inv /\ [Next]_vars =>
        [encoded # NoBody =>
           \A c \in Collectors : encoded'.errors[c] >= encoded.errors[c]]_encoded
  <2> SUFFICES ASSUME Inv, [Next]_vars, encoded' # encoded, encoded # NoBody, NEW c \in Collectors
               PROVE  encoded'.errors[c] >= encoded.errors[c]
    OBVIOUS
  <2>1. PICK r \in Requests : Publish(r)
    BY DEF Next, Proceed, Pool, Begin, Skip, Start, Dispatch, Resume, CollectOk, CollectErr,
           Timeout, Respond, Take, Finish, Hang, Quiet, vars, bodyVars
  <2>2. encoded'.errors[c] = errorTotal[c]
    BY <2>1 DEF Publish, PublishBody
  <2>3. encoded.errors[c] <= errorTotal[c] /\ encoded.errors[c] \in Nat /\ errorTotal[c] \in Nat
    BY DEF Inv, PublishedCounters, TypeOK, Bodies
  <2> QED BY <2>2, <2>3
<1> QED BY <1>1, Invariance, PTL DEF Spec, PublishedErrorsMonotone

-----------------------------------------------------------------------------
(* The error accounting, and that Scrape implements the promise of          *)
(* ScrapeContract.  What precedes says which body each task publishes; the  *)
(* invariant added here says how its counters relate to the failures        *)
(* recorded by all tasks and to the bodies already sent.                    *)


\* A task is answered once, with its own outcomes, and no counter has been
\* published below an answered one.
AnswersCovered ==
    \A q \in Requests :
        /\ response[q] # NoBody <=> pc[q] = "done"
        /\ pc[q] = "done" =>
             /\ response[q].results = results[q]
             /\ encoded # NoBody
             /\ \A c \in Collectors : response[q].errors[c] <= encoded.errors[c]

\* No error is counted between publishing a body and sending it.
CountersCurrent == \A q \in Requests : pc[q] = "published" => encoded.errors = errorTotal

Accounting == AnswersCovered /\ CountersCurrent /\ ErrorsAccounted

-----------------------------------------------------------------------------
\* Recording an outcome adds the request to the failed ones of its collector
\* exactly when the outcome is a failure, and it was not among them before:
\* a collector is registered once.
LEMMA RecordFailed ==
  ASSUME TypeOK, NEW r \in Requests, NEW o \in Outcomes, Record(r, o),
         Len(results[r]) < N, NEW c \in Collectors
  PROVE  /\ o \in Failures /\ Order[Len(results[r]) + 1] = c =>
              FailedScrapes(c)' = FailedScrapes(c) \cup {r} /\ r \notin FailedScrapes(c)
         /\ ~(o \in Failures /\ Order[Len(results[r]) + 1] = c) =>
              FailedScrapes(c)' = FailedScrapes(c)
<1> DEFINE n == Len(results[r])
           Failed(s) == \E i \in DOMAIN s : Order[i] = c /\ s[i] \in Failures
<1>1. /\ results[r] \in Seq(Outcomes)
      /\ results'[r] = Append(results[r], o)
      /\ \A q \in Requests : q # r => results'[q] = results[q]
  BY DEF TypeOK, Record
<1>2. /\ n \in Nat
      /\ DOMAIN results[r] = 1..n
      /\ DOMAIN results'[r] = 1..(n + 1)
      /\ \A i \in 1..n : results'[r][i] = results[r][i]
      /\ results'[r][n + 1] = o
  BY <1>1
<1>3. FailedScrapes(c) = {q \in Requests : Failed(results[q])}
  BY DEF FailedScrapes
<1>4. FailedScrapes(c)' = {q \in Requests : Failed(results'[q])}
  BY DEF FailedScrapes
<1>5. Failed(results'[r]) <=> Failed(results[r]) \/ (Order[n + 1] = c /\ o \in Failures)
  <2>1. ASSUME Failed(results'[r]) PROVE Failed(results[r]) \/ (Order[n + 1] = c /\ o \in Failures)
    <3>1. PICK i \in 1..(n + 1) : Order[i] = c /\ results'[r][i] \in Failures
      BY <2>1, <1>2
    <3>2. CASE i = n + 1
      BY <3>1, <3>2, <1>2
    <3>3. CASE i \in 1..n
      BY <3>1, <3>3, <1>2
    <3> QED BY <3>1, <3>2, <3>3, <1>2
  <2>2. ASSUME Failed(results[r]) PROVE Failed(results'[r])
    <3>1. PICK i \in 1..n : Order[i] = c /\ results[r][i] \in Failures
      BY <2>2, <1>2
    <3>2. i \in DOMAIN results'[r] /\ results'[r][i] \in Failures
      BY <3>1, <1>2
    <3> QED BY <3>1, <3>2
  <2>3. ASSUME Order[n + 1] = c /\ o \in Failures PROVE Failed(results'[r])
    <3>1. n + 1 \in DOMAIN results'[r] /\ results'[r][n + 1] \in Failures
      BY <2>3, <1>2
    <3> QED BY <3>1, <2>3
  <2> QED BY <2>1, <2>2, <2>3
<1>6. \A q \in Requests : q # r => (Failed(results'[q]) <=> Failed(results[q]))
  BY <1>1
<1>7. Order[n + 1] = c => ~Failed(results[r])
  <2> SUFFICES ASSUME Order[n + 1] = c, NEW i \in 1..n, Order[i] = c PROVE FALSE
    BY <1>2
  <2>1. i \in DOMAIN Order /\ n + 1 \in DOMAIN Order
    BY <1>2, NConstant
  <2>2. i = n + 1
    BY <2>1, OrderAssumption
  <2> QED BY <2>2, <1>2
<1> HIDE DEF Failed
<1> QED BY <1>3, <1>4, <1>5, <1>6, <1>7

\* Before the first request nothing has failed and nothing was answered.
LEMMA AccountingInit == Init => Accounting
<1> SUFFICES ASSUME Init PROVE Accounting
  OBVIOUS
<1>1. AnswersCovered /\ CountersCurrent
  BY DEF Init, AnswersCovered, CountersCurrent
<1>2. ErrorsAccounted
  <2>1. \A c \in Collectors : FailedScrapes(c) = {}
    BY DEF Init, FailedScrapes
  <2> QED BY <2>1, FS_EmptySet DEF Init, ErrorsAccounted
<1> QED BY <1>1, <1>2 DEF Accounting

\* A step that records an outcome which is no failure counts nothing.
LEMMA AccountingQuietRecord ==
  ASSUME Inv, Accounting, NEW r \in Requests, NEW o \in Outcomes \ Failures, Record(r, o),
         Len(results[r]) < N, pc[r] \in {"fanout", "collect"},
         UNCHANGED <<errorTotal, encoded, response>>
  PROVE  Accounting'
<1>1. \A c \in Collectors : FailedScrapes(c)' = FailedScrapes(c)
  BY RecordFailed DEF Inv
<1>2. ErrorsAccounted'
  BY <1>1 DEF Accounting, ErrorsAccounted
<1>3. /\ pc'[r] = "fanout"
      /\ \A q \in Requests : q # r => pc'[q] = pc[q] /\ results'[q] = results[q]
  BY DEF Record, Inv, TypeOK
<1>4. AnswersCovered' /\ CountersCurrent'
  BY <1>3 DEF Accounting, AnswersCovered, CountersCurrent
<1> QED BY <1>2, <1>4 DEF Accounting

\* A failure recorded and counted for the current collector keeps the books.
LEMMA AccountingFailure ==
  ASSUME Inv, Accounting, NEW r \in Requests, NEW o \in Failures, Record(r, o),
         CountError(Order[Len(results[r]) + 1]),
         Len(results[r]) < N, pc[r] \in {"collect", "await"},
         polled = r \/ polled = NoTask,
         UNCHANGED <<encoded, response>>
  PROVE  Accounting'
<1> DEFINE c0 == Order[Len(results[r]) + 1]
<1>0. c0 \in Collectors
  BY NConstant DEF Inv, TypeOK
<1>1. /\ errorTotal \in [Collectors -> Nat]
      /\ errorTotal' = [errorTotal EXCEPT ![c0] = @ + 1]
  BY DEF Inv, TypeOK, CountError
<1>2. ErrorsAccounted'
  <2> SUFFICES ASSUME NEW c \in Collectors
               PROVE  errorTotal'[c] = Cardinality(FailedScrapes(c)')
    BY DEF ErrorsAccounted
  <2>1. errorTotal[c] = Cardinality(FailedScrapes(c))
    BY DEF Accounting, ErrorsAccounted
  <2>2. IsFiniteSet(FailedScrapes(c))
    BY CollectorAssumption, FS_Subset DEF FailedScrapes
  <2>3. CASE c = c0
    <3>1. FailedScrapes(c)' = FailedScrapes(c) \cup {r} /\ r \notin FailedScrapes(c)
      BY <2>3, RecordFailed DEF Inv, Outcomes, Failures
    <3>2. Cardinality(FailedScrapes(c)') = Cardinality(FailedScrapes(c)) + 1
      BY <3>1, <2>2, FS_AddElement
    <3> QED BY <3>2, <2>1, <2>3, <1>1
  <2>4. CASE c # c0
    <3>1. FailedScrapes(c)' = FailedScrapes(c)
      BY <2>4, RecordFailed DEF Inv, Outcomes, Failures
    <3> QED BY <3>1, <2>1, <2>4, <1>1
  <2> QED BY <2>3, <2>4
<1>3. /\ pc'[r] = "fanout"
      /\ \A q \in Requests : q # r => pc'[q] = pc[q] /\ results'[q] = results[q]
  BY DEF Record, Inv, TypeOK
<1>4. \A q \in Requests : pc[q] # "published"
  BY ValueAssumption DEF Inv, RunningIsPolled
<1>5. AnswersCovered' /\ CountersCurrent'
  BY <1>3, <1>4 DEF Accounting, AnswersCovered, CountersCurrent
<1> QED BY <1>2, <1>5 DEF Accounting

\* Every step of a task or of the pool keeps the accounting.
LEMMA AccountingStep == Inv /\ Accounting /\ [Next]_vars => Accounting'
<1> SUFFICES ASSUME Inv, Accounting, [Next]_vars PROVE Accounting'
  OBVIOUS
<1>0. TypeOK
  BY DEF Inv
\* A step that moves only one task, from one open position to another.
<1>f. ASSUME NEW r \in Requests,
             pc' = [pc EXCEPT ![r] = pc'[r]],
             pc[r] \notin {"published", "done"}, pc'[r] \notin {"published", "done"},
             UNCHANGED <<results, errorTotal, encoded, response>>
      PROVE  Accounting'
  <2>1. \A q \in Requests : q # r => pc'[q] = pc[q]
    BY <1>f, <1>0 DEF TypeOK
  <2>2. ErrorsAccounted'
    BY <1>f DEF Accounting, ErrorsAccounted, FailedScrapes
  <2> QED BY <1>f, <2>1, <2>2 DEF Accounting, AnswersCovered, CountersCurrent
<1>1. ASSUME NEW r \in Requests, Begin(r) PROVE Accounting'
  <2> QED BY <1>1, <1>0, <1>f DEF Begin, bodyVars, TypeOK
<1>2. ASSUME NEW r \in Requests, Skip(r) PROVE Accounting'
  <2>1. Len(results[r]) < N
    BY <1>0, <1>2, NConstant DEF Skip, Position, TypeOK
  <2>2. "skipped" \in Outcomes \ Failures
    BY DEF Outcomes, Failures
  <2> QED BY <1>2, <2>1, <2>2, AccountingQuietRecord DEF Skip, bodyVars
<1>3. ASSUME NEW r \in Requests, Start(r) PROVE Accounting'
  <2> QED BY <1>3, <1>0, <1>f DEF Start, bodyVars, TypeOK
<1>4. ASSUME NEW r \in Requests, Dispatch(r) PROVE Accounting'
  <2> QED BY <1>4, <1>0, <1>f DEF Dispatch, bodyVars, TypeOK
<1>5. ASSUME NEW r \in Requests, Resume(r) PROVE Accounting'
  <2> QED BY <1>5, <1>0, <1>f DEF Resume, bodyVars, TypeOK
<1>6. ASSUME NEW r \in Requests, CollectOk(r) PROVE Accounting'
  <2>1. Len(results[r]) < N
    BY <1>6 DEF CollectOk, Inv, ResultsFaithful
  <2>2. "ok" \in Outcomes \ Failures
    BY DEF Outcomes, Failures
  <2> QED BY <1>6, <2>1, <2>2, AccountingQuietRecord DEF CollectOk, bodyVars
<1>7. ASSUME NEW r \in Requests, CollectErr(r) PROVE Accounting'
  <2>1. Len(results[r]) < N
    BY <1>7 DEF CollectErr, Inv, ResultsFaithful
  <2>2. "error" \in Failures
    BY DEF Failures
  <2> QED BY <1>7, <2>1, <2>2, AccountingFailure DEF CollectErr, Current, Position, bodyVars
<1>8. ASSUME NEW r \in Requests, Timeout(r) PROVE Accounting'
  <2>1. Len(results[r]) < N
    BY <1>8 DEF Timeout, Inv, ResultsFaithful
  <2>2. "timeout" \in Failures
    BY DEF Failures
  <2> QED BY <1>8, <2>1, <2>2, AccountingFailure DEF Timeout, Current, Position, bodyVars
<1>9. ASSUME NEW r \in Requests, Publish(r) PROVE Accounting'
  <2>1. /\ pc[r] = "fanout" /\ pc'[r] = "published"
        /\ \A q \in Requests : q # r => pc'[q] = pc[q] /\ pc[q] # "published"
    BY <1>9, <1>0 DEF Publish, PublishBody, Inv, RunningIsPolled, TypeOK
  <2>2. /\ UNCHANGED <<results, errorTotal, response>>
        /\ encoded' = [owner |-> r, results |-> results[r], errors |-> errorTotal]
    BY <1>9 DEF Publish, PublishBody
  <2>3. encoded' # NoBody /\ encoded'.errors = errorTotal
    <3>1. encoded' \in Bodies
      BY <2>2, <1>0 DEF TypeOK, Bodies
    <3> QED BY <2>2, <3>1, ValueAssumption
  <2>4. CountersCurrent'
    BY <2>1, <2>2, <2>3 DEF CountersCurrent
  <2>5. ErrorsAccounted'
    BY <2>2 DEF Accounting, ErrorsAccounted, FailedScrapes
  <2>6. AnswersCovered'
    <3> SUFFICES ASSUME NEW q \in Requests
                 PROVE  /\ response[q] # NoBody <=> pc'[q] = "done"
                        /\ pc'[q] = "done" =>
                             /\ response[q].results = results[q]
                             /\ \A c \in Collectors : response[q].errors[c] <= errorTotal[c]
      BY <2>2, <2>3 DEF AnswersCovered
    <3>1. response[q] # NoBody <=> pc'[q] = "done"
      BY <2>1 DEF Accounting, AnswersCovered
    <3>2. ASSUME pc'[q] = "done", NEW c \in Collectors
          PROVE  response[q].errors[c] <= errorTotal[c]
      <4>1. pc[q] = "done" /\ response[q] \in Bodies /\ encoded # NoBody /\ encoded \in Bodies
        BY <3>2, <2>1, <1>0 DEF Accounting, AnswersCovered, TypeOK
      <4>2. /\ response[q].errors[c] \in Nat /\ encoded.errors[c] \in Nat
            /\ errorTotal[c] \in Nat
        BY <4>1, <1>0 DEF Bodies, TypeOK
      <4>3. response[q].errors[c] <= encoded.errors[c] /\ encoded.errors[c] <= errorTotal[c]
        BY <4>1 DEF Accounting, AnswersCovered, Inv, PublishedCounters
      <4> QED BY <4>2, <4>3
    <3>3. pc'[q] = "done" => response[q].results = results[q]
      BY <2>1 DEF Accounting, AnswersCovered
    <3> QED BY <3>1, <3>2, <3>3
  <2> QED BY <2>4, <2>5, <2>6 DEF Accounting
<1>10. ASSUME NEW r \in Requests, Respond(r) PROVE Accounting'
  <2>1. /\ pc[r] = "published" /\ pc'[r] = "done" /\ response'[r] = encoded
        /\ \A q \in Requests : q # r =>
             pc'[q] = pc[q] /\ response'[q] = response[q] /\ pc[q] # "published"
    BY <1>10, <1>0 DEF Respond, Inv, RunningIsPolled, TypeOK
  <2>2. UNCHANGED <<results, errorTotal, encoded>>
    BY <1>10 DEF Respond
  <2>3. encoded # NoBody /\ encoded.results = results[r] /\ encoded \in Bodies
    BY <2>1, <1>0 DEF Inv, PublishedIsCurrent, TypeOK
  <2>4. \A c \in Collectors : encoded.errors[c] <= encoded.errors[c]
    BY <2>3 DEF Bodies
  <2>5. AnswersCovered'
    <3> SUFFICES ASSUME NEW q \in Requests
                 PROVE  /\ response'[q] # NoBody <=> pc'[q] = "done"
                        /\ pc'[q] = "done" =>
                             /\ response'[q].results = results[q]
                             /\ encoded # NoBody
                             /\ \A c \in Collectors : response'[q].errors[c] <= encoded.errors[c]
      BY <2>2 DEF AnswersCovered
    <3>1. CASE q = r
      BY <3>1, <2>1, <2>3, <2>4
    <3>2. CASE q # r
      BY <3>2, <2>1 DEF Accounting, AnswersCovered
    <3> QED BY <3>1, <3>2
  <2>6. CountersCurrent'
    BY <2>1, <2>2 DEF Accounting, CountersCurrent
  <2>7. ErrorsAccounted'
    BY <2>2 DEF Accounting, ErrorsAccounted, FailedScrapes
  <2> QED BY <2>5, <2>6, <2>7 DEF Accounting
<1>11. CASE UNCHANGED <<pc, results, errorTotal, encoded, response>>
  <2>1. ErrorsAccounted'
    BY <1>11 DEF Accounting, ErrorsAccounted, FailedScrapes
  <2> QED BY <1>11, <2>1 DEF Accounting, AnswersCovered, CountersCurrent
<1>12. ASSUME NEW t \in Threads, Pool(t) PROVE Accounting'
  BY <1>11, <1>12 DEF Pool, Take, Finish, Hang, taskVars, bodyVars
<1>13. CASE UNCHANGED vars
  BY <1>11, <1>13 DEF vars, taskVars, bodyVars
<1> QED
  BY <1>1, <1>2, <1>3, <1>4, <1>5, <1>6, <1>7, <1>8, <1>9, <1>10, <1>12, <1>13
     DEF Next, Proceed, Quiet

\* Over all overlapping scrapes error_total counts each failed collect() once.
THEOREM ErrorsAccountedHolds == Spec => []ErrorsAccounted
<1>1. Spec => []Accounting
  BY AccountingInit, AccountingStep, Invariance, PTL DEF Spec
<1> QED BY <1>1, PTL DEF Accounting

-----------------------------------------------------------------------------
\* The initial state of Scrape is one of ScrapeContract: nobody has asked.
LEMMA ContractInit == Init => Contract!Init
BY DEF Init, Contract!Init

\* Both modules count with the Cardinality of FiniteSets.
LEMMA ContractCardinality ==
  ASSUME NEW S PROVE Contract!Cardinality(S) = Cardinality(S)
BY Zenon DEF Contract!Cardinality, Cardinality

\* What Respond sends is a reply ScrapeContract allows.
LEMMA ContractReply ==
  ASSUME Inv, Accounting, NEW r \in Requests, Respond(r)
  PROVE  Contract!Reply(r)
<1>0. TypeOK
  BY DEF Inv
<1>1. /\ pc[r] = "published"
      /\ pc' = [pc EXCEPT ![r] = "done"]
      /\ response' = [response EXCEPT ![r] = encoded]
      /\ response'[r] = encoded
  BY <1>0 DEF Respond, TypeOK
<1>2. /\ encoded # NoBody /\ encoded.owner = r /\ encoded.results = results[r]
      /\ Len(results[r]) = N /\ encoded.errors = errorTotal /\ encoded \in Bodies
  BY <1>0, <1>1 DEF Inv, PublishedIsCurrent, Accounting, CountersCurrent, TypeOK
<1>3. {q \in Requests : pc[q] # "idle"}' = {q \in Requests : pc[q] # "idle"}
  BY <1>0, <1>1 DEF TypeOK
<1>4. Contract!ReportsAll(encoded)
  <2>1. encoded.results \in Seq(Contract!Outcomes)
    BY <1>2 DEF Bodies, Outcomes, Contract!Outcomes
  <2>2. \A i \in 1..Len(Order) : encoded.results[i] = "skipped" <=> Order[i] \notin Available
    BY <1>2 DEF Inv, ResultsFaithful, N
  <2> QED BY <1>2, <2>1, <2>2 DEF Contract!ReportsAll, N
<1>5. Contract!CountersHold(encoded, r)
  <2> DEFINE Shown(q) == IF q = r THEN encoded ELSE response[q]
  <2> SUFFICES ASSUME NEW c \in Collectors
               PROVE  /\ \A q \in Requests : response[q] # NoBody =>
                             response[q].errors[c] <= encoded.errors[c]
                      /\ Cardinality({q \in Requests :
                             Shown(q) # NoBody /\ Contract!ReportsFailure(Shown(q), c)})
                           <= encoded.errors[c]
    BY ContractCardinality DEF Contract!CountersHold
  <2>1. \A q \in Requests : response[q] # NoBody => response[q].errors[c] <= encoded.errors[c]
    BY DEF Accounting, AnswersCovered
  <2>2. {q \in Requests : Shown(q) # NoBody /\ Contract!ReportsFailure(Shown(q), c)}
          \subseteq FailedScrapes(c)
    <3> SUFFICES ASSUME NEW q \in Requests, Shown(q) # NoBody,
                        Contract!ReportsFailure(Shown(q), c)
                 PROVE  q \in FailedScrapes(c)
      OBVIOUS
    <3>1. Shown(q).results = results[q]
      BY <1>2 DEF Accounting, AnswersCovered
    <3> QED BY <3>1 DEF Contract!ReportsFailure, FailedScrapes, Failures
  <2>3. IsFiniteSet(FailedScrapes(c))
    BY CollectorAssumption, FS_Subset DEF FailedScrapes
  <2>4. encoded.errors[c] = Cardinality(FailedScrapes(c))
    BY <1>2 DEF Accounting, ErrorsAccounted
  <2> HIDE DEF Shown
  <2>5. Cardinality({q \in Requests : Shown(q) # NoBody /\ Contract!ReportsFailure(Shown(q), c)})
          <= Cardinality(FailedScrapes(c))
    BY <2>2, <2>3, FS_Subset
  <2> QED BY <2>1, <2>4, <2>5
<1>6. r \in {q \in Requests : pc[q] # "idle"} /\ response[r] = NoBody
  BY <1>1 DEF Accounting, AnswersCovered
<1>7. response' = [response EXCEPT ![r] = response'[r]]
  BY <1>1
<1> QED BY <1>1, <1>2, <1>3, <1>4, <1>5, <1>6, <1>7 DEF Contract!Reply

\* Every step of Scrape is a step of ScrapeContract or leaves it unchanged.
LEMMA ContractStep ==
  Inv /\ Accounting /\ [Next]_vars => [Contract!Next]_(Contract!vars)
<1> SUFFICES ASSUME Inv, Accounting, [Next]_vars PROVE [Contract!Next]_(Contract!vars)
  OBVIOUS
<1>0. TypeOK
  BY DEF Inv
<1>1. ASSUME NEW r \in Requests, Begin(r) PROVE Contract!Ask(r)
  <2>1. pc' = [pc EXCEPT ![r] = "fanout"] /\ UNCHANGED response
    BY <1>1 DEF Begin, bodyVars
  <2>2. {q \in Requests : pc'[q] # "idle"} = {q \in Requests : pc[q] # "idle"} \cup {r}
    BY <2>1, <1>0 DEF TypeOK
  <2> QED BY <2>1, <2>2 DEF Contract!Ask
<1>2. ASSUME NEW r \in Requests, Proceed(r), ~Respond(r) PROVE UNCHANGED Contract!vars
  <2>1. pc' = [pc EXCEPT ![r] = pc'[r]] /\ pc'[r] # "idle" /\ pc[r] # "idle" /\ UNCHANGED response
    BY <1>2, <1>0 DEF Proceed, Skip, Start, Dispatch, Resume, CollectOk, CollectErr, Timeout,
          Publish, PublishBody, Record, TypeOK, bodyVars
  <2>2. {q \in Requests : pc'[q] # "idle"} = {q \in Requests : pc[q] # "idle"}
    BY <2>1, <1>0 DEF TypeOK
  <2> QED BY <2>1, <2>2 DEF Contract!vars
<1>3. CASE UNCHANGED <<pc, response>>
  BY <1>3 DEF Contract!vars
<1>4. ASSUME NEW t \in Threads, Pool(t) PROVE UNCHANGED <<pc, response>>
  BY <1>4 DEF Pool, Take, Finish, Hang, taskVars, bodyVars
<1>5. CASE UNCHANGED vars
  BY <1>3, <1>5 DEF vars, taskVars, bodyVars
<1> QED
  BY <1>1, <1>2, <1>3, <1>4, <1>5, ContractReply DEF Next, Quiet, Contract!Next

\* Scrape implements ScrapeContract: however the collectors fail, hang and
\* overlap, a client sees nothing the contract does not allow.
THEOREM ContractImplemented == Spec => ImplementsContract
<1>1. Spec => []Accounting
  BY AccountingInit, AccountingStep, Invariance, PTL DEF Spec
<1> QED
  BY <1>1, ContractInit, ContractStep, Invariance, PTL
     DEF Spec, ImplementsContract, Contract!Spec

-----------------------------------------------------------------------------
(* What the blocking pool still holds for the tasks: the one job a task   *)
(* waits for, and jobs of scrapes that gave up on them, each of which is  *)
(* in the error counters.                                                 *)

\* Two jobs of one collect().
SameCollect(job, other) == job[1] = other[1] /\ job[2] = other[2]

\* The pool holds at most one job of a collect().
OnePerCollect ==
    /\ \A i, j \in DOMAIN queue : SameCollect(queue[i], queue[j]) => i = j
    /\ \A t, u \in Threads :
          thread[t] # NoJob /\ thread[u] # NoJob /\ SameCollect(thread[t], thread[u]) => t = u
    /\ \A i \in DOMAIN queue : \A t \in Threads :
          thread[t] # NoJob => ~SameCollect(queue[i], thread[t])

Waiting(r) == pc[r] = "await" /\ reply[r] = "none"

\* A held job is the one its task waits for, or its collect() has timed out.
Expected(job) == Waiting(job[1]) /\ job = AwaitedJob(job[1])
TimedOut(job) ==
    job[2] \in 1..Len(results[job[1]]) /\ results[job[1]][job[2]] = "timeout"

InPool(job) == (\E i \in DOMAIN queue : queue[i] = job) \/ (\E t \in Threads : thread[t] = job)

Traced ==
    /\ \A i \in DOMAIN queue : Expected(queue[i]) \/ TimedOut(queue[i])
    /\ \A t \in Threads : thread[t] # NoJob => Expected(thread[t]) \/ TimedOut(thread[t])

Backed == \A r \in Requests : Waiting(r) => InPool(AwaitedJob(r))

PoolInv == OnePerCollect /\ Traced /\ Backed

-----------------------------------------------------------------------------
\* The awaited job belongs to the task and to its current collect().
LEMMA AwaitedParts ==
  ASSUME TypeOK, NEW r \in Requests
  PROVE  /\ AwaitedJob(r) \in JobIds /\ AwaitedJob(r) # NoJob
         /\ AwaitedJob(r)[1] = r /\ AwaitedJob(r)[2] = Len(results[r]) + 1
<1>1. Len(results[r]) + 1 \in Nat /\ fetched[r] + 1 \in Nat
  BY DEF TypeOK
<1>2. AwaitedJob(r) \in JobIds
  BY <1>1 DEF AwaitedJob, Position, JobIds
<1> QED BY <1>2, ValueAssumption DEF AwaitedJob, Position

\* Jobs are of requests, by type.
LEMMA HeldJobs ==
  ASSUME TypeOK
  PROVE  /\ \A i \in DOMAIN queue : queue[i] \in JobIds /\ queue[i][1] \in Requests
         /\ \A t \in Threads : thread[t] # NoJob => thread[t] \in JobIds /\ thread[t][1] \in Requests
<1>1. \A job \in JobIds : job[1] \in Requests
  BY DEF JobIds
<1> QED BY <1>1 DEF TypeOK

\* A step that leaves the pool alone: tasks only stop waiting, by an answer
\* that is there or by a timeout they record.
LEMMA PoolFrame ==
  ASSUME TypeOK, PoolInv, UNCHANGED <<queue, thread>>,
         \A q \in Requests : \A p \in 1..Len(results[q]) :
            p \in 1..Len(results'[q]) /\ results'[q][p] = results[q][p],
         \A q \in Requests : Waiting(q)' => Waiting(q) /\ AwaitedJob(q)' = AwaitedJob(q),
         \A q \in Requests : Waiting(q) /\ ~Waiting(q)' =>
            /\ Len(results[q]) + 1 \in 1..Len(results'[q])
            /\ results'[q][Len(results[q]) + 1] = "timeout"
  PROVE  PoolInv'
<1>1. OnePerCollect'
  BY DEF PoolInv, OnePerCollect, SameCollect
<1>2. ASSUME NEW job \in JobIds, Expected(job) \/ TimedOut(job)
      PROVE  Expected(job)' \/ TimedOut(job)'
  <2>0. job[1] \in Requests
    BY DEF JobIds
  <2>1. CASE TimedOut(job)
    BY <2>0, <2>1 DEF TimedOut
  <2>2. CASE Expected(job) /\ Waiting(job[1])'
    BY <2>0, <2>2 DEF Expected
  <2>3. CASE Expected(job) /\ ~Waiting(job[1])'
    <3>1. job[2] = Len(results[job[1]]) + 1
      BY <2>0, <2>3, AwaitedParts DEF Expected
    <3> QED BY <2>0, <2>3, <3>1 DEF Expected, TimedOut
  <2> QED BY <1>2, <2>1, <2>2, <2>3
<1>3. Traced'
  BY <1>2, HeldJobs DEF PoolInv, Traced
<1>4. Backed'
  BY DEF PoolInv, Backed, InPool
<1> QED BY <1>1, <1>3, <1>4 DEF PoolInv

\* Recording an outcome keeps the earlier ones and ends no other task's wait.
LEMMA RecordFrame ==
  ASSUME TypeOK, PoolInv, NEW r \in Requests, NEW o \in Outcomes, Record(r, o),
         Waiting(r) => o = "timeout", UNCHANGED <<queue, thread>>
  PROVE  PoolInv'
<1>1. /\ results[r] \in Seq(Outcomes) /\ results'[r] = Append(results[r], o)
      /\ pc'[r] = "fanout"
      /\ \A q \in Requests : q # r => results'[q] = results[q] /\ pc'[q] = pc[q]
                                      /\ fetched'[q] = fetched[q] /\ reply'[q] = reply[q]
  BY DEF TypeOK, Record
<1>2. /\ Len(results'[r]) = Len(results[r]) + 1 /\ Len(results[r]) \in Nat
      /\ \A p \in 1..Len(results[r]) : results'[r][p] = results[r][p]
      /\ results'[r][Len(results[r]) + 1] = o
  BY <1>1
<1>3. \A q \in Requests : q # r => (Waiting(q)' <=> Waiting(q)) /\ AwaitedJob(q)' = AwaitedJob(q)
  <2> SUFFICES ASSUME NEW q \in Requests, q # r
               PROVE  (Waiting(q)' <=> Waiting(q)) /\ AwaitedJob(q)' = AwaitedJob(q)
    OBVIOUS
  <2>1. results'[q] = results[q] /\ pc'[q] = pc[q] /\ fetched'[q] = fetched[q] /\ reply'[q] = reply[q]
    BY <1>1
  <2>2. Waiting(q)' <=> Waiting(q)
    BY <2>1 DEF Waiting
  <2>3. AwaitedJob(q)' = AwaitedJob(q)
    BY <2>1, Zenon DEF AwaitedJob, Position
  <2> QED BY <2>2, <2>3
<1>4. ~Waiting(r)'
  BY <1>1 DEF Waiting
<1>5. \A q \in Requests : \A p \in 1..Len(results[q]) :
         p \in 1..Len(results'[q]) /\ results'[q][p] = results[q][p]
  <2> SUFFICES ASSUME NEW q \in Requests, NEW p \in 1..Len(results[q])
               PROVE  p \in 1..Len(results'[q]) /\ results'[q][p] = results[q][p]
    OBVIOUS
  <2>1. CASE q # r
    <3>1. results'[q] = results[q]
      BY <2>1, <1>1
    <3> QED BY <3>1
  <2>2. CASE q = r
    BY <2>2, <1>2
  <2> QED BY <2>1, <2>2
<1>6. \A q \in Requests : Waiting(q) /\ ~Waiting(q)' =>
         /\ Len(results[q]) + 1 \in 1..Len(results'[q])
         /\ results'[q][Len(results[q]) + 1] = "timeout"
  <2> SUFFICES ASSUME NEW q \in Requests, Waiting(q), ~Waiting(q)'
               PROVE  /\ Len(results[q]) + 1 \in 1..Len(results'[q])
                      /\ results'[q][Len(results[q]) + 1] = "timeout"
    OBVIOUS
  <2>1. q = r
    BY <1>3
  <2> QED BY <2>1, <1>2
<1> QED BY <1>3, <1>4, <1>5, <1>6, PoolFrame

\* A step of a task that records nothing and makes no task wait anew.
LEMMA MoveFrame ==
  ASSUME TypeOK, PoolInv, NEW r \in Requests, ~Waiting(r), ~Waiting(r)',
         UNCHANGED <<results, queue, thread>>,
         \A q \in Requests : q # r =>
            pc'[q] = pc[q] /\ fetched'[q] = fetched[q] /\ reply'[q] = reply[q]
  PROVE  PoolInv'
<1>1. \A q \in Requests : q # r => (Waiting(q)' <=> Waiting(q)) /\ AwaitedJob(q)' = AwaitedJob(q)
  BY DEF Waiting, AwaitedJob, Position
<1> QED BY <1>1, PoolFrame

\* A job joins the queue: nothing of its collect() is in the pool.
LEMMA DispatchPool ==
  ASSUME TypeOK, PoolInv, NEW r \in Requests, Dispatch(r)
  PROVE  PoolInv'
<1> DEFINE job == AwaitedJob(r)
<1>1. /\ pc[r] = "collect" /\ queue' = Append(queue, job) /\ pc'[r] = "await" /\ reply'[r] = "none"
      /\ UNCHANGED <<fetched, results, thread>>
      /\ \A q \in Requests : q # r => pc'[q] = pc[q] /\ reply'[q] = reply[q]
  BY DEF Dispatch, TypeOK
<1>2. job \in JobIds /\ job # NoJob /\ job[1] = r /\ job[2] = Len(results[r]) + 1
  BY AwaitedParts
<1>3. ~Waiting(r) /\ Waiting(r)' /\ job' = job
      /\ \A q \in Requests : AwaitedJob(q)' = AwaitedJob(q) /\ (q # r => (Waiting(q)' <=> Waiting(q)))
  BY <1>1 DEF Waiting, AwaitedJob, Position
<1> HIDE DEF job
<1>4. /\ queue \in Seq(JobIds) /\ Len(queue') = Len(queue) + 1 /\ Len(queue) \in Nat
      /\ \A i \in 1..Len(queue) : queue'[i] = queue[i]
      /\ queue'[Len(queue) + 1] = job
      /\ DOMAIN queue = 1..Len(queue) /\ DOMAIN queue' = 1..(Len(queue) + 1)
  BY <1>1, <1>2 DEF TypeOK
<1>5. ASSUME NEW other \in JobIds, Expected(other) \/ TimedOut(other)
      PROVE  ~SameCollect(other, job) /\ (Expected(other)' \/ TimedOut(other)')
  <2>0. other[1] \in Requests /\ Len(results[r]) \in Nat
    BY DEF JobIds, TypeOK
  <2>1. CASE TimedOut(other)
    <3>1. other[1] = r => other[2] # Len(results[r]) + 1
      BY <2>0, <2>1 DEF TimedOut
    <3> QED BY <2>1, <3>1, <1>1, <1>2 DEF TimedOut, SameCollect
  <2>2. CASE Expected(other)
    <3>1. other[1] # r
      BY <2>2, <1>3 DEF Expected
    <3> QED BY <2>0, <2>2, <3>1, <1>2, <1>3 DEF Expected, SameCollect
  <2> QED BY <1>5, <2>1, <2>2
<1>6. \A i \in DOMAIN queue : ~SameCollect(queue[i], job)
  BY <1>5, HeldJobs DEF PoolInv, Traced
<1>7. \A t \in Threads : thread[t] # NoJob => ~SameCollect(thread[t], job)
  BY <1>5, HeldJobs DEF PoolInv, Traced
<1>8. OnePerCollect'
  <2>1. \A i, j \in 1..Len(queue) : SameCollect(queue[i], queue[j]) => i = j
    BY <1>4 DEF PoolInv, OnePerCollect
  <2>2. \A i, j \in DOMAIN queue' : SameCollect(queue'[i], queue'[j]) => i = j
    <3> SUFFICES ASSUME NEW i \in DOMAIN queue', NEW j \in DOMAIN queue',
                        SameCollect(queue'[i], queue'[j])
                 PROVE  i = j
      OBVIOUS
    <3>1. CASE i \in 1..Len(queue) /\ j \in 1..Len(queue)
      BY <1>4, <2>1, <3>1
    <3>2. CASE i \in 1..Len(queue) /\ j = Len(queue) + 1
      BY <1>4, <1>6, <3>2
    <3>3. CASE i = Len(queue) + 1 /\ j \in 1..Len(queue)
      BY <1>4, <1>6, <3>3 DEF SameCollect
    <3>4. CASE i = Len(queue) + 1 /\ j = Len(queue) + 1
      BY <3>4
    <3> QED BY <1>4, <3>1, <3>2, <3>3, <3>4
  <2>3. \A i \in DOMAIN queue' : \A t \in Threads :
           thread[t] # NoJob => ~SameCollect(queue'[i], thread[t])
    <3> SUFFICES ASSUME NEW i \in DOMAIN queue', NEW t \in Threads, thread[t] # NoJob
                 PROVE  ~SameCollect(queue'[i], thread[t])
      OBVIOUS
    <3>1. CASE i \in 1..Len(queue)
      BY <1>4, <3>1 DEF PoolInv, OnePerCollect
    <3>2. CASE i = Len(queue) + 1
      BY <1>4, <1>7, <3>2 DEF SameCollect
    <3> QED BY <1>4, <3>1, <3>2
  <2> QED BY <1>1, <2>2, <2>3 DEF PoolInv, OnePerCollect, SameCollect
<1>9. Traced'
  <2>1. ASSUME NEW i \in DOMAIN queue' PROVE (Expected(queue[i]) \/ TimedOut(queue[i]))'
    <3>1. CASE i \in 1..Len(queue)
      <4>1. PICK other \in JobIds : other = queue[i] /\ (Expected(other) \/ TimedOut(other))
        BY <1>4, <3>1, HeldJobs DEF PoolInv, Traced
      <4>2. queue'[i] = other
        BY <1>4, <3>1, <4>1
      <4>3. (Expected(other) \/ TimedOut(other))'
        BY <1>5, <4>1
      <4> QED BY <4>2, <4>3 DEF Expected, TimedOut
    <3>2. CASE i = Len(queue) + 1
      <4>1. queue'[i] = job
        BY <1>4, <3>2
      <4> QED BY <4>1, <1>2, <1>3 DEF Expected, job
    <3> QED BY <1>4, <2>1, <3>1, <3>2
  <2>2. ASSUME NEW t \in Threads, thread'[t] # NoJob
        PROVE  (Expected(thread[t]) \/ TimedOut(thread[t]))'
    <3>1. PICK other \in JobIds : other = thread[t] /\ (Expected(other) \/ TimedOut(other))
      BY <1>1, <2>2, HeldJobs DEF PoolInv, Traced
    <3>2. thread'[t] = other
      BY <1>1, <3>1
    <3>3. (Expected(other) \/ TimedOut(other))'
      BY <1>5, <3>1
    <3> QED BY <3>2, <3>3 DEF Expected, TimedOut
  <2> QED BY <2>1, <2>2 DEF Traced
<1>10. Backed'
  <2> SUFFICES ASSUME NEW q \in Requests, Waiting(q)' PROVE InPool(AwaitedJob(q))'
    BY DEF Backed
  <2>1. CASE q = r
    BY <1>3, <1>4, <2>1 DEF InPool, job
  <2>2. CASE q # r
    <3>1. InPool(AwaitedJob(q)) /\ AwaitedJob(q)' = AwaitedJob(q)
      BY <1>3, <2>2 DEF PoolInv, Backed
    <3>2. \A i \in DOMAIN queue : i \in DOMAIN queue' /\ queue'[i] = queue[i]
      BY <1>4
    <3> QED BY <1>1, <3>1, <3>2 DEF InPool
  <2> QED BY <2>1, <2>2
<1> QED BY <1>8, <1>9, <1>10 DEF PoolInv

\* A job goes from the head of the queue to an idle thread.
LEMMA TakePool ==
  ASSUME TypeOK, PoolInv, NEW t \in Threads, Take(t)
  PROVE  PoolInv'
<1>1. /\ thread[t] = NoJob /\ queue # <<>> /\ queue' = Tail(queue)
      /\ thread'[t] = Head(queue)
      /\ \A u \in Threads : u # t => thread'[u] = thread[u]
      /\ UNCHANGED <<pc, fetched, reply, results>>
  BY DEF Take, TypeOK, taskVars
<1>2. /\ queue \in Seq(JobIds) /\ Len(queue) \in Nat \ {0} /\ Head(queue) = queue[1]
      /\ DOMAIN queue = 1..Len(queue) /\ DOMAIN queue' = 1..(Len(queue) - 1)
      /\ \A i \in 1..(Len(queue) - 1) : queue'[i] = queue[i + 1]
  BY <1>1 DEF TypeOK
<1>3. 1 \in DOMAIN queue /\ \A i \in DOMAIN queue' : i + 1 \in DOMAIN queue /\ i + 1 # 1
  BY <1>2
<1>4. queue[1] # NoJob
  BY <1>3, HeldJobs, ValueAssumption
<1>5. OnePerCollect'
  <2>1. \A i, j \in DOMAIN queue' : SameCollect(queue'[i], queue'[j]) => i = j
    <3> SUFFICES ASSUME NEW i \in DOMAIN queue', NEW j \in DOMAIN queue',
                        SameCollect(queue'[i], queue'[j])
                 PROVE  i = j
      OBVIOUS
    <3>1. i + 1 = j + 1
      BY <1>2, <1>3 DEF PoolInv, OnePerCollect
    <3> QED BY <1>2, <3>1
  <2>2. \A i \in DOMAIN queue' : \A u \in Threads :
           thread'[u] # NoJob => ~SameCollect(queue'[i], thread'[u])
    <3> SUFFICES ASSUME NEW i \in DOMAIN queue', NEW u \in Threads, thread'[u] # NoJob
                 PROVE  ~SameCollect(queue'[i], thread'[u])
      OBVIOUS
    <3>1. queue'[i] = queue[i + 1] /\ i + 1 \in DOMAIN queue /\ i + 1 # 1
      BY <1>2, <1>3
    <3>2. CASE u = t
      BY <1>1, <1>2, <1>3, <3>1, <3>2 DEF PoolInv, OnePerCollect
    <3>3. CASE u # t
      BY <1>1, <3>1, <3>3 DEF PoolInv, OnePerCollect
    <3> QED BY <3>2, <3>3
  <2>3. \A u, w \in Threads :
           thread'[u] # NoJob /\ thread'[w] # NoJob /\ SameCollect(thread'[u], thread'[w]) => u = w
    <3> SUFFICES ASSUME NEW u \in Threads, NEW w \in Threads, u # w,
                        thread'[u] # NoJob, thread'[w] # NoJob
                 PROVE  ~SameCollect(thread'[u], thread'[w])
      OBVIOUS
    <3>1. CASE u # t /\ w # t
      BY <1>1, <3>1 DEF PoolInv, OnePerCollect
    <3>2. CASE u = t
      BY <1>1, <1>2, <1>3, <3>2 DEF PoolInv, OnePerCollect
    <3>3. CASE w = t
      BY <1>1, <1>2, <1>3, <3>3 DEF PoolInv, OnePerCollect, SameCollect
    <3> QED BY <3>1, <3>2, <3>3
  <2> QED BY <2>1, <2>2, <2>3 DEF OnePerCollect, SameCollect
<1>6. \A job \in JobIds : /\ Waiting(job[1])' <=> Waiting(job[1])
                          /\ AwaitedJob(job[1])' = AwaitedJob(job[1])
                          /\ results'[job[1]] = results[job[1]]
  BY <1>1 DEF Waiting, AwaitedJob, Position
<1>7. \A job \in JobIds : Expected(job) \/ TimedOut(job) => (Expected(job) \/ TimedOut(job))'
  BY <1>6 DEF Expected, TimedOut
<1>8. Traced'
  <2>1. ASSUME NEW i \in DOMAIN queue' PROVE (Expected(queue[i]) \/ TimedOut(queue[i]))'
    <3>1. PICK job \in JobIds : job = queue[i + 1] /\ (Expected(job) \/ TimedOut(job))
      BY <1>3, HeldJobs DEF PoolInv, Traced
    <3>2. queue'[i] = job
      BY <1>2, <2>1, <3>1
    <3>3. (Expected(job) \/ TimedOut(job))'
      BY <1>7, <3>1
    <3> QED BY <3>2, <3>3 DEF Expected, TimedOut
  <2>2. ASSUME NEW u \in Threads, thread'[u] # NoJob
        PROVE  (Expected(thread[u]) \/ TimedOut(thread[u]))'
    <3>1. PICK job \in JobIds : job = thread'[u] /\ (Expected(job) \/ TimedOut(job))
      <4>1. CASE u = t
        BY <1>1, <1>2, <1>3, <4>1, HeldJobs DEF PoolInv, Traced
      <4>2. CASE u # t
        BY <1>1, <2>2, <4>2, HeldJobs DEF PoolInv, Traced
      <4> QED BY <4>1, <4>2
    <3>2. (Expected(job) \/ TimedOut(job))'
      BY <1>7, <3>1
    <3> QED BY <3>1, <3>2 DEF Expected, TimedOut
  <2> QED BY <2>1, <2>2 DEF Traced
<1>9. Backed'
  <2> SUFFICES ASSUME NEW q \in Requests, Waiting(q)' PROVE InPool(AwaitedJob(q))'
    BY DEF Backed
  <2>1. InPool(AwaitedJob(q)) /\ AwaitedJob(q)' = AwaitedJob(q) /\ AwaitedJob(q) # NoJob
    BY <1>1, AwaitedParts DEF PoolInv, Backed, Waiting, AwaitedJob, Position
  <2>2. CASE \E i \in DOMAIN queue : queue[i] = AwaitedJob(q)
    <3>1. PICK i \in DOMAIN queue : queue[i] = AwaitedJob(q)
      BY <2>2
    <3>2. CASE i = 1
      BY <1>1, <1>2, <2>1, <3>1, <3>2 DEF InPool
    <3>3. CASE i # 1
      <4>1. i - 1 \in DOMAIN queue' /\ queue'[i - 1] = AwaitedJob(q)
        BY <1>2, <3>1, <3>3
      <4> QED BY <2>1, <4>1 DEF InPool
    <3> QED BY <3>2, <3>3
  <2>3. CASE \E u \in Threads : thread[u] = AwaitedJob(q)
    <3>1. PICK u \in Threads : thread[u] = AwaitedJob(q)
      BY <2>3
    <3>2. thread'[u] = AwaitedJob(q)
      BY <1>1, <2>1, <3>1
    <3> QED BY <2>1, <3>2 DEF InPool
  <2> QED BY <2>1, <2>2, <2>3 DEF InPool
<1> QED BY <1>5, <1>8, <1>9 DEF PoolInv

\* A dump returns: its job is gone, and only its task may take the answer.
LEMMA FinishPool ==
  ASSUME TypeOK, PoolInv, NEW t \in Threads, NEW outcome \in {"ok", "err"}, Finish(t, outcome)
  PROVE  PoolInv'
<1> DEFINE done == thread[t]
<1>1. /\ done # NoJob /\ done \in JobIds /\ done[1] \in Requests
      /\ thread'[t] = NoJob
      /\ \A u \in Threads : u # t => thread'[u] = thread[u]
      /\ UNCHANGED <<pc, fetched, results, queue>>
  BY HeldJobs DEF Finish, TypeOK
<1>2. \A q \in Requests : reply'[q] = IF pc[q] = "await" /\ done = AwaitedJob(q)
                                      THEN outcome ELSE reply[q]
  <2>1. reply' = IF pc[done[1]] = "await" /\ done = AwaitedJob(done[1])
                 THEN [reply EXCEPT ![done[1]] = outcome] ELSE reply
    BY DEF Finish
  <2>2. \A q \in Requests : done = AwaitedJob(q) => q = done[1]
    BY AwaitedParts
  <2> HIDE DEF done
  <2> QED BY <1>1, <2>1, <2>2 DEF TypeOK
<1>3. \A q \in Requests : AwaitedJob(q)' = AwaitedJob(q)
  BY <1>1 DEF AwaitedJob, Position
<1>4. \A q \in Requests : Waiting(q)' <=> Waiting(q) /\ done # AwaitedJob(q)
  BY <1>1, <1>2 DEF Waiting
<1> HIDE DEF done
<1>5. OnePerCollect'
  BY <1>1 DEF PoolInv, OnePerCollect, SameCollect
<1>6. \A job \in JobIds : (Expected(job) \/ TimedOut(job)) /\ job # done
                              => (Expected(job) \/ TimedOut(job))'
  <2> SUFFICES ASSUME NEW job \in JobIds, Expected(job) \/ TimedOut(job), job # done
               PROVE  (Expected(job) \/ TimedOut(job))'
    OBVIOUS
  <2>0. job[1] \in Requests
    BY DEF JobIds
  <2>1. CASE TimedOut(job)
    BY <1>1, <2>1 DEF TimedOut
  <2>2. CASE Expected(job)
    BY <1>3, <1>4, <2>0, <2>2 DEF Expected
  <2> QED BY <2>1, <2>2
<1>7. Traced'
  <2>1. ASSUME NEW i \in DOMAIN queue' PROVE (Expected(queue[i]) \/ TimedOut(queue[i]))'
    <3>1. PICK job \in JobIds : job = queue[i] /\ (Expected(job) \/ TimedOut(job))
      BY <1>1, HeldJobs DEF PoolInv, Traced
    <3>2. job # done
      BY <1>1, <3>1 DEF PoolInv, OnePerCollect, SameCollect, done
    <3>3. (Expected(job) \/ TimedOut(job))' /\ queue'[i] = job
      BY <1>1, <1>6, <3>1, <3>2
    <3> QED BY <3>3 DEF Expected, TimedOut
  <2>2. ASSUME NEW u \in Threads, thread'[u] # NoJob
        PROVE  (Expected(thread[u]) \/ TimedOut(thread[u]))'
    <3>0. u # t /\ thread[u] = thread'[u]
      BY <1>1, <2>2
    <3>1. PICK job \in JobIds : job = thread[u] /\ (Expected(job) \/ TimedOut(job))
      BY <2>2, <3>0, HeldJobs DEF PoolInv, Traced
    <3>2. job # done
      BY <1>1, <2>2, <3>0, <3>1 DEF PoolInv, OnePerCollect, SameCollect, done
    <3>3. (Expected(job) \/ TimedOut(job))' /\ thread'[u] = job
      BY <1>6, <3>0, <3>1, <3>2
    <3> QED BY <3>3 DEF Expected, TimedOut
  <2> QED BY <2>1, <2>2 DEF Traced
<1>8. Backed'
  <2> SUFFICES ASSUME NEW q \in Requests, Waiting(q)' PROVE InPool(AwaitedJob(q))'
    BY DEF Backed
  <2>1. InPool(AwaitedJob(q)) /\ AwaitedJob(q)' = AwaitedJob(q) /\ AwaitedJob(q) # done
    BY <1>3, <1>4 DEF PoolInv, Backed
  <2>2. CASE \E i \in DOMAIN queue : queue[i] = AwaitedJob(q)
    BY <1>1, <2>1, <2>2 DEF InPool
  <2>3. CASE \E u \in Threads : thread[u] = AwaitedJob(q)
    <3>1. PICK u \in Threads : thread[u] = AwaitedJob(q)
      BY <2>3
    <3>2. thread'[u] = AwaitedJob(q)
      BY <1>1, <2>1, <3>1 DEF done
    <3> QED BY <2>1, <3>2 DEF InPool
  <2> QED BY <2>1, <2>2, <2>3 DEF InPool
<1> QED BY <1>5, <1>7, <1>8 DEF PoolInv

\* The pool starts empty, and no task waits.
LEMMA PoolInit == Init => PoolInv
BY DEF Init, PoolInv, OnePerCollect, Traced, Backed, Waiting

\* Every step of a task or of a thread keeps the books of the pool.
LEMMA PoolStep == TypeOK /\ PoolInv /\ [Next]_vars => PoolInv'
<1> SUFFICES ASSUME TypeOK, PoolInv, [Next]_vars PROVE PoolInv'
  OBVIOUS
<1> USE DEF Outcomes
<1>1. ASSUME NEW r \in Requests, Begin(r) PROVE PoolInv'
  BY <1>1, MoveFrame DEF Begin, TypeOK, Waiting, poolVars
<1>2. ASSUME NEW r \in Requests, Skip(r) PROVE PoolInv'
  BY <1>2, RecordFrame DEF Skip, Waiting, poolVars
<1>3. ASSUME NEW r \in Requests, Start(r) PROVE PoolInv'
  BY <1>3, MoveFrame DEF Start, TypeOK, Waiting, poolVars
<1>4. ASSUME NEW r \in Requests, Dispatch(r) PROVE PoolInv'
  BY <1>4, DispatchPool
<1>5. ASSUME NEW r \in Requests, Resume(r) PROVE PoolInv'
  BY <1>5, MoveFrame DEF Resume, TypeOK, Waiting, poolVars
<1>6. ASSUME NEW r \in Requests, CollectOk(r) PROVE PoolInv'
  BY <1>6, RecordFrame DEF CollectOk, Waiting, poolVars
<1>7. ASSUME NEW r \in Requests, CollectErr(r) PROVE PoolInv'
  BY <1>7, RecordFrame DEF CollectErr, Waiting, poolVars
<1>8. ASSUME NEW r \in Requests, Timeout(r) PROVE PoolInv'
  BY <1>8, RecordFrame DEF Timeout, Waiting, poolVars
<1>9. ASSUME NEW r \in Requests, Publish(r) PROVE PoolInv'
  BY <1>9, MoveFrame DEF Publish, PublishBody, TypeOK, Waiting, poolVars
<1>10. ASSUME NEW r \in Requests, Respond(r) PROVE PoolInv'
  BY <1>10, MoveFrame DEF Respond, TypeOK, Waiting, poolVars
<1>11. ASSUME NEW t \in Threads, Take(t) PROVE PoolInv'
  BY <1>11, TakePool
<1>12. ASSUME NEW t \in Threads, NEW outcome \in {"ok", "err"}, Finish(t, outcome) PROVE PoolInv'
  BY <1>12, FinishPool
<1>13. ASSUME UNCHANGED <<taskVars, queue, thread>> PROVE PoolInv'
  BY <1>13, PoolFrame DEF taskVars, Waiting, AwaitedJob, Position
<1>14. ASSUME NEW t \in Threads, Hang(t) PROVE PoolInv'
  BY <1>13, <1>14 DEF Hang
<1>15. CASE UNCHANGED vars
  BY <1>13, <1>15 DEF vars, poolVars
<1> QED
  BY <1>1, <1>2, <1>3, <1>4, <1>5, <1>6, <1>7, <1>8, <1>9, <1>10, <1>11, <1>12,
     <1>14, <1>15 DEF Next, Proceed, Pool, Quiet

LEMMA PoolHolds == Spec => []PoolInv
BY PoolInit, PoolStep, TypeCorrect, PTL DEF Spec

-----------------------------------------------------------------------------
\* A waiting task has its answer, or exactly one job in the queue or on a
\* thread that will bring it, however many scrapes gave up on theirs
\* (blocking_dump's spawn_blocking, and timeout() dropping the join handle).
THEOREM AwaitBackedHolds == Spec => []AwaitBacked
<1>1. TypeOK /\ PoolInv => AwaitBacked
  <2> SUFFICES ASSUME TypeOK, PoolInv, NEW r \in Requests, pc[r] = "await"
               PROVE  LET held == {i \in DOMAIN queue : queue[i] = AwaitedJob(r)}
                          running == {t \in Threads : thread[t] = AwaitedJob(r)}
                      IN  Cardinality(held) + Cardinality(running) = IF reply[r] = "none" THEN 1 ELSE 0
    BY DEF AwaitBacked
  <2> DEFINE held == {i \in DOMAIN queue : queue[i] = AwaitedJob(r)}
             running == {t \in Threads : thread[t] = AwaitedJob(r)}
  <2>1. /\ AwaitedJob(r) # NoJob /\ AwaitedJob(r)[1] = r
        /\ AwaitedJob(r)[2] = Len(results[r]) + 1 /\ Len(results[r]) \in Nat
    BY AwaitedParts DEF TypeOK
  <2>2. /\ Cardinality({}) = 0
        /\ \A x : Cardinality({x}) = 1
    BY FS_EmptySet, FS_Singleton
  <2>3. CASE reply[r] # "none"
    <3>1. ~Expected(AwaitedJob(r)) /\ ~TimedOut(AwaitedJob(r))
      BY <2>1, <2>3 DEF Expected, Waiting, TimedOut
    <3>2. held = {} /\ running = {}
      BY <2>1, <3>1 DEF PoolInv, Traced
    <3> QED BY <2>2, <2>3, <3>2
  <2>4. CASE reply[r] = "none"
    <3>1. InPool(AwaitedJob(r))
      BY <2>4 DEF PoolInv, Backed, Waiting
    <3>2. CASE \E i \in DOMAIN queue : queue[i] = AwaitedJob(r)
      <4>1. PICK i \in DOMAIN queue : queue[i] = AwaitedJob(r)
        BY <3>2
      <4>2. held = {i} /\ running = {}
        BY <2>1, <4>1 DEF PoolInv, OnePerCollect, SameCollect
      <4>3. Cardinality(held) = 1 /\ Cardinality(running) = 0
        BY <2>2, <4>2, Zenon
      <4> QED BY <2>4, <4>3
    <3>3. CASE \E t \in Threads : thread[t] = AwaitedJob(r)
      <4>1. PICK t \in Threads : thread[t] = AwaitedJob(r)
        BY <3>3
      <4>2. held = {} /\ running = {t}
        BY <2>1, <4>1 DEF PoolInv, OnePerCollect, SameCollect
      <4> QED BY <2>2, <2>4, <4>2
    <3> QED BY <3>1, <3>2, <3>3 DEF InPool
  <2> QED BY <2>3, <2>4
<1> QED BY <1>1, TypeCorrect, PoolHolds, PTL

\* A pool that fills up with abandoned dumps shows in error_total: those of a
\* collector are never more than the errors counted for it.
THEOREM OrphansReportedHolds == Spec => []OrphansReported
<1>1. Inv /\ ErrorsAccounted /\ PoolInv => OrphansReported
  <2> SUFFICES ASSUME Inv, ErrorsAccounted, PoolInv, NEW c \in Collectors
               PROVE  Cardinality(Orphans(c)) <= errorTotal[c]
    BY DEF OrphansReported
  <2>0. TypeOK
    BY DEF Inv
  <2>1. \A job \in Orphans(c) : InPool(job) /\ job # NoJob /\ job \in JobIds /\ TimedOut(job)
                                /\ Order[job[2]] = c
    <3> SUFFICES ASSUME NEW job \in Orphans(c)
                 PROVE  InPool(job) /\ job # NoJob /\ job \in JobIds /\ TimedOut(job)
                        /\ Order[job[2]] = c
      OBVIOUS
    <3>1. job \in LiveJobs /\ job \notin Awaited /\ Order[job[2]] = c
      BY DEF Orphans
    <3>2. InPool(job) /\ job # NoJob /\ job \in JobIds /\ job[1] \in Requests
          /\ (Expected(job) \/ TimedOut(job))
      <4>1. CASE \E i \in DOMAIN queue : queue[i] = job
        BY <2>0, <4>1, HeldJobs, ValueAssumption DEF InPool, PoolInv, Traced
      <4>2. CASE job # NoJob /\ \E t \in Threads : thread[t] = job
        BY <2>0, <4>2, HeldJobs DEF InPool, PoolInv, Traced
      <4> QED BY <3>1, <4>1, <4>2 DEF LiveJobs
    <3>3. ~Expected(job)
      BY <3>1, <3>2 DEF Awaited, Expected, Waiting
    <3> QED BY <3>1, <3>2, <3>3
  <2> DEFINE scrape == [job \in Orphans(c) |-> job[1]]
  <2>2. \A job \in Orphans(c) : job[1] \in FailedScrapes(c) /\ job[2] \in 1..N
    <3> SUFFICES ASSUME NEW job \in Orphans(c)
                 PROVE  job[1] \in FailedScrapes(c) /\ job[2] \in 1..N
      OBVIOUS
    <3>1. job[1] \in Requests /\ TimedOut(job) /\ Order[job[2]] = c
      BY <2>1 DEF JobIds
    <3>2. results[job[1]] \in Seq(Outcomes) /\ Len(results[job[1]]) <= N
      BY <2>0, <3>1 DEF TypeOK, Inv, ResultsFaithful
    <3>3. job[2] \in DOMAIN results[job[1]] /\ results[job[1]][job[2]] \in Failures
      BY <3>1, <3>2 DEF TimedOut, Failures
    <3>4. job[1] \in FailedScrapes(c)
      BY <3>1, <3>3 DEF FailedScrapes
    <3>5. job[2] \in 1..N
      BY <3>1, <3>2, NConstant DEF TimedOut
    <3> QED BY <3>4, <3>5
  <2>3. \A job, other \in Orphans(c) : job[1] = other[1] => job = other
    <3> SUFFICES ASSUME NEW job \in Orphans(c), NEW other \in Orphans(c), job[1] = other[1]
                 PROVE  job = other
      OBVIOUS
    <3>1. job[2] = other[2]
      BY <2>1, <2>2, NConstant, OrderAssumption
    <3>2. SameCollect(job, other)
      BY <3>1 DEF SameCollect
    <3>3. InPool(job) /\ InPool(other) /\ job # NoJob /\ other # NoJob
      BY <2>1
    <3> QED BY <3>2, <3>3 DEF InPool, PoolInv, OnePerCollect, SameCollect
  <2>4. scrape \in Injection(Orphans(c), FailedScrapes(c))
    BY <2>2, <2>3 DEF Injection, IsInjective
  <2>5. IsFiniteSet(FailedScrapes(c))
    <3>1. FailedScrapes(c) \in SUBSET Requests
      BY DEF FailedScrapes
    <3> QED BY <3>1, CollectorAssumption, FS_Subset
  <2>6. Cardinality(Orphans(c)) <= Cardinality(FailedScrapes(c))
    BY <2>4, <2>5, FS_Injection
  <2> QED BY <2>6 DEF ErrorsAccounted
<1> QED BY <1>1, Invariance, ErrorsAccountedHolds, PoolHolds, PTL
=============================================================================
