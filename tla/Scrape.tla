------------------------------- MODULE Scrape -------------------------------
(***************************************************************************)
(* The scrape fan-out of crates/netlink_exporter/src/scrape.rs together    *)
(* with the three things it shares between concurrent GET /metrics         *)
(* requests: the four-thread pool that runs the blocking netlink dumps,    *)
(* the per-collector error counters, and the one encoded exposition body   *)
(* kept by the metrics registry.                                           *)
(*                                                                         *)
(* Every request is a task of the single-threaded monoio executor.  A task *)
(* runs without interruption between two awaits: `polled' names the task   *)
(* the executor is polling, and no other task moves until it is NoTask     *)
(* again.  Pool threads run at any time.                                   *)
(***************************************************************************)
EXTENDS Naturals, Sequences, FiniteSets

CONSTANTS
    Requests,    \* GET /metrics requests, each served once (bounds the run)
    Collectors,  \* collector names
    Order,       \* the enabled collectors, in registration order
    Available,   \* collectors whose startup probe succeeded
    Jobs,        \* spawn_blocking jobs one collect() makes; 0 for procfs ones
    Threads,     \* threads of the blocking pool
    Stuck,       \* collectors whose dump may block in recv for ever
    NoTask,      \* nobody is being polled
    NoJob,       \* an idle thread
    NoBody       \* the empty body before the first update_samples

ASSUME OrderAssumption ==
    /\ Order \in Seq(Collectors)
    /\ \A i, j \in DOMAIN Order : Order[i] = Order[j] => i = j
ASSUME CollectorAssumption ==
    /\ IsFiniteSet(Requests)
    /\ Available \subseteq Collectors
    /\ Stuck \subseteq Collectors
    /\ Jobs \in [Collectors -> Nat]
VARIABLES
    pc,          \* where each request's task is
    fetched,     \* dumps of the current collect() that have completed
    reply,       \* what the awaited join handle holds
    results,     \* per request: outcomes so far, in Order
    polled,      \* the task the executor is polling
    queue,       \* jobs handed to the pool and not yet taken
    thread,      \* the job each pool thread runs
    hung,        \* threads blocked for ever in recv
    errorTotal,  \* CollectorStats.error_total
    encoded,     \* PrometheusRegistryAdapter.encoded
    response     \* the body each request was answered with

taskVars == <<pc, fetched, reply, results, polled>>
poolVars == <<queue, thread, hung>>
bodyVars == <<encoded, response>>
vars == <<taskVars, poolVars, errorTotal, bodyVars>>

-----------------------------------------------------------------------------
Outcomes == {"skipped", "ok", "error", "timeout"}
Failures == {"error", "timeout"}
N == Len(Order)

\* A job is named by its request, the position of its collector in Order and
\* its number within that collect().
JobIds == Requests \X Nat \X Nat

Bodies == [owner : Requests, results : Seq(Outcomes), errors : [Collectors -> Nat]]

\* The three markers stand for nothing else.
ASSUME ValueAssumption ==
    NoTask \notin Requests /\ NoJob \notin JobIds /\ NoBody \notin Bodies

Position(r) == Len(results[r]) + 1
Current(r) == Order[Position(r)]
AwaitedJob(r) == <<r, Position(r), fetched[r] + 1>>

Init ==
    /\ pc = [r \in Requests |-> "idle"]
    /\ fetched = [r \in Requests |-> 0]
    /\ reply = [r \in Requests |-> "none"]
    /\ results = [r \in Requests |-> <<>>]
    /\ polled = NoTask
    /\ queue = <<>>
    /\ thread = [t \in Threads |-> NoJob]
    /\ hung = {}
    /\ errorTotal = [c \in Collectors |-> 0]
    /\ encoded = NoBody
    /\ response = [r \in Requests |-> NoBody]

-----------------------------------------------------------------------------
(* The request task, executed by the monoio thread.                        *)

\* handle_metrics calls scrape(): the executor starts polling the new task.
Begin(r) ==
    /\ polled = NoTask
    /\ pc[r] = "idle"
    /\ polled' = r
    /\ pc' = [pc EXCEPT ![r] = "fanout"]
    /\ UNCHANGED <<fetched, reply, results, poolVars, errorTotal, bodyVars>>

\* What the end of one loop iteration does: the result joins the list.
Record(r, outcome) ==
    /\ results' = [results EXCEPT ![r] = Append(@, outcome)]
    /\ fetched' = [fetched EXCEPT ![r] = 0]
    /\ reply' = [reply EXCEPT ![r] = "none"]
    /\ pc' = [pc EXCEPT ![r] = "fanout"]

\* Mutant: the counter is a flag.
CountErrorOnce(c) == errorTotal' = [errorTotal EXCEPT ![c] = 1]
CountError(c) == errorTotal' = [errorTotal EXCEPT ![c] = @ + 1]

\* A collector that was unavailable at startup is never called.
Skip(r) ==
    /\ polled = r
    /\ pc[r] = "fanout"
    /\ Position(r) <= N
    /\ Current(r) \notin Available
    /\ Record(r, "skipped")
    /\ UNCHANGED <<polled, poolVars, errorTotal, bodyVars>>

\* timeout(.., collector.collect()) is polled for the first time.
Start(r) ==
    /\ polled = r
    /\ pc[r] = "fanout"
    /\ Position(r) <= N
    /\ Current(r) \in Available
    /\ pc' = [pc EXCEPT ![r] = "collect"]
    /\ UNCHANGED <<fetched, reply, results, polled, poolVars, errorTotal, bodyVars>>

\* Mutant: the answer of the previous dump is still there when the next is awaited.
DispatchStaleReply(r) ==
    /\ polled = r
    /\ pc[r] = "collect"
    /\ reply[r] # "err"
    /\ fetched[r] < Jobs[Current(r)]
    /\ queue' = Append(queue, AwaitedJob(r))
    /\ pc' = [pc EXCEPT ![r] = "await"]
    /\ polled' = NoTask
    /\ UNCHANGED <<reply, fetched, results, thread, hung, errorTotal, bodyVars>>

\* collect() reaches its next dump: spawn_blocking, then await.
Dispatch(r) ==
    /\ polled = r
    /\ pc[r] = "collect"
    /\ reply[r] # "err"
    /\ fetched[r] < Jobs[Current(r)]
    /\ queue' = Append(queue, AwaitedJob(r))
    /\ reply' = [reply EXCEPT ![r] = "none"]
    /\ pc' = [pc EXCEPT ![r] = "await"]
    /\ polled' = NoTask
    /\ UNCHANGED <<fetched, results, thread, hung, errorTotal, bodyVars>>

\* The join handle is ready.  timeout() polls the inner future first, so the
\* answer is used even when the deadline has passed too.
Resume(r) ==
    /\ polled = NoTask
    /\ pc[r] = "await"
    /\ reply[r] # "none"
    /\ polled' = r
    /\ pc' = [pc EXCEPT ![r] = "collect"]
    /\ fetched' = [fetched EXCEPT ![r] = IF reply[r] = "ok" THEN @ + 1 ELSE @]
    /\ UNCHANGED <<reply, results, poolVars, errorTotal, bodyVars>>

CollectOk(r) ==
    /\ polled = r
    /\ pc[r] = "collect"
    /\ reply[r] # "err"
    /\ fetched[r] = Jobs[Current(r)]
    /\ Record(r, "ok")
    /\ UNCHANGED <<polled, poolVars, errorTotal, bodyVars>>

\* collect() returns Err: a dump failed, or opening, reading or parsing did.
CollectErr(r) ==
    /\ polled = r
    /\ pc[r] = "collect"
    /\ Record(r, "error")
    /\ CountError(Current(r))
    /\ UNCHANGED <<polled, poolVars, bodyVars>>

\* Mutant: a timeout is recorded but not counted.
TimeoutUncounted(r) ==
    /\ polled = NoTask
    /\ pc[r] = "await"
    /\ reply[r] = "none"
    /\ polled' = r
    /\ Record(r, "timeout")
    /\ UNCHANGED <<errorTotal, poolVars, bodyVars>>

\* Mutant: the deadline runs only while a thread executes the dump.
TimeoutOfRunning(r) ==
    /\ polled = NoTask
    /\ pc[r] = "await"
    /\ reply[r] = "none"
    /\ \E t \in Threads : thread[t] = AwaitedJob(r)
    /\ polled' = r
    /\ Record(r, "timeout")
    /\ CountError(Current(r))
    /\ UNCHANGED <<poolVars, bodyVars>>

\* The deadline passes with no answer.  Dropping the collect() future detaches
\* its job: the pool keeps it.
Timeout(r) ==
    /\ polled = NoTask
    /\ pc[r] = "await"
    /\ reply[r] = "none"
    /\ polled' = r
    /\ Record(r, "timeout")
    /\ CountError(Current(r))
    /\ UNCHANGED <<poolVars, bodyVars>>

\* What every form of Publish has in common.
PublishBody(r, body) ==
    /\ polled = r
    /\ pc[r] = "fanout"
    /\ encoded' = body
    /\ pc' = [pc EXCEPT ![r] = "published"]
    /\ UNCHANGED <<fetched, reply, results, polled, poolVars, errorTotal, response>>

\* Mutants: counters of this scrape alone; only counters that ever moved; the
\* fan-out stops at the first failure.
PublishOwnErrors(r) ==
    /\ Position(r) = N + 1
    /\ PublishBody(r, [owner |-> r, results |-> results[r], errors |->
         [c \in Collectors |-> Cardinality({i \in 1..N : Order[i] = c /\ results[r][i] \in Failures})]])
PublishSeenErrors(r) ==
    /\ Position(r) = N + 1
    /\ PublishBody(r, [owner |-> r, results |-> results[r], errors |->
         [c \in {d \in Collectors : errorTotal[d] > 0} |-> errorTotal[c]]])
PublishAtFailure(r) ==
    /\ Position(r) = N + 1 \/ (results[r] # <<>> /\ results[r][Len(results[r])] \in Failures)
    /\ PublishBody(r, [owner |-> r, results |-> results[r], errors |-> errorTotal])

\* Self-telemetry is appended, the counters are loaded, and update_samples
\* swaps in the newly encoded body; none of it suspends.
Publish(r) ==
    /\ Position(r) = N + 1
    /\ PublishBody(r, [owner |-> r, results |-> results[r], errors |-> errorTotal])

\* Mutant: a body that is already there is sent before this scrape is encoded.
RespondEarly(r) ==
    /\ polled = r
    /\ pc[r] = "published" \/ (pc[r] = "fanout" /\ Position(r) = N + 1 /\ encoded # NoBody)
    /\ response' = [response EXCEPT ![r] = encoded]
    /\ pc' = [pc EXCEPT ![r] = "done"]
    /\ polled' = NoTask
    /\ UNCHANGED <<fetched, reply, results, poolVars, errorTotal, encoded>>

\* encode_text loads whatever body is current; write_all ends the poll.
Respond(r) ==
    /\ polled = r
    /\ pc[r] = "published"
    /\ response' = [response EXCEPT ![r] = encoded]
    /\ pc' = [pc EXCEPT ![r] = "done"]
    /\ polled' = NoTask
    /\ UNCHANGED <<fetched, reply, results, poolVars, errorTotal, encoded>>

-----------------------------------------------------------------------------
(* The blocking pool: DefaultThreadPool::new(4).                           *)

\* An idle thread takes the oldest job, whether or not anyone still waits.
Take(t) ==
    /\ thread[t] = NoJob
    /\ queue # <<>>
    /\ thread' = [thread EXCEPT ![t] = Head(queue)]
    /\ queue' = Tail(queue)
    /\ UNCHANGED <<taskVars, hung, errorTotal, bodyVars>>

\* The dump returns.  Its answer reaches the task only if that task still
\* holds the join handle.
Finish(t, outcome) ==
    LET job == thread[t]
        r == job[1]
    IN  /\ job # NoJob
        /\ t \notin hung
        /\ thread' = [thread EXCEPT ![t] = NoJob]
        /\ reply' = IF pc[r] = "await" /\ job = AwaitedJob(r)
                    THEN [reply EXCEPT ![r] = outcome] ELSE reply
        /\ UNCHANGED <<pc, fetched, results, polled, queue, hung, errorTotal, bodyVars>>

\* The kernel never answers: the thread stays in recv.
Hang(t) ==
    /\ thread[t] # NoJob
    /\ t \notin hung
    /\ Order[thread[t][2]] \in Stuck
    /\ hung' = hung \cup {t}
    /\ UNCHANGED <<taskVars, queue, thread, errorTotal, bodyVars>>

-----------------------------------------------------------------------------
\* One step of a started task, by the executor or its timer.
Proceed(r) ==
    \/ Skip(r) \/ Start(r) \/ Dispatch(r) \/ Resume(r) \/ CollectOk(r)
    \/ CollectErr(r) \/ Timeout(r) \/ Publish(r) \/ Respond(r)

Pool(t) ==
    \/ Take(t)
    \/ \E outcome \in {"ok", "err"} : Finish(t, outcome)
    \/ Hang(t)

\* Every request of the run is answered (the server itself never stops).
Quiet == (\A r \in Requests : pc[r] = "done") /\ UNCHANGED vars

Next ==
    \/ \E r \in Requests : Begin(r) \/ Proceed(r)
    \/ \E t \in Threads : Pool(t)
    \/ Quiet

Spec == Init /\ [][Next]_vars

\* The executor polls ready tasks and the timer driver fires; nothing is
\* assumed of the kernel, so a dump may hang for ever.
FairSpec == Spec /\ \A r \in Requests : WF_vars(Proceed(r))

\* A timer that fires only on a dump that can no longer be answered: its own
\* thread hangs, or it is queued and every thread hangs.
Unanswerable(r) ==
    \/ \E t \in hung : thread[t] = AwaitedJob(r)
    \/ hung = Threads /\ \E i \in DOMAIN queue : queue[i] = AwaitedJob(r)

PatientNext ==
    /\ Next
    /\ \A r \in Requests : Timeout(r) => Unanswerable(r)
PatientSpec == Init /\ [][PatientNext]_vars

-----------------------------------------------------------------------------
TypeOK ==
    /\ pc \in [Requests -> {"idle", "fanout", "collect", "await", "published", "done"}]
    /\ fetched \in [Requests -> Nat]
    /\ reply \in [Requests -> {"none", "ok", "err"}]
    /\ results \in [Requests -> Seq(Outcomes)]
    /\ polled \in Requests \cup {NoTask}
    /\ queue \in Seq(JobIds)
    /\ thread \in [Threads -> JobIds \cup {NoJob}]
    /\ hung \subseteq Threads
    /\ errorTotal \in [Collectors -> Nat]
    /\ encoded \in Bodies \cup {NoBody}
    /\ response \in [Requests -> Bodies \cup {NoBody}]

\* A client is answered with the body of its own scrape, however many scrapes
\* overlap: no await separates update_samples from encode_text.
OwnBody == \A r \in Requests : pc[r] = "done" => response[r].owner = r

\* Every answer reports every enabled collector, and the only ones it did not
\* try are those that were unavailable at startup: one failing, hanging or
\* missing collector never cuts the fan-out short.
CompleteBody ==
    \A r \in Requests : pc[r] = "done" =>
        /\ Len(response[r].results) = N
        /\ \A i \in 1..N : response[r].results[i] = "skipped" <=> Order[i] \notin Available

\* The requests in which a collector failed.
FailedScrapes(c) ==
    {r \in Requests : \E i \in DOMAIN results[r] :
        Order[i] = c /\ results[r][i] \in Failures}

\* error_total is exactly the number of scrapes in which the collector failed
\* or timed out, over all overlapping scrapes: none is lost or counted twice.
ErrorsAccounted == \A c \in Collectors : errorTotal[c] = Cardinality(FailedScrapes(c))

LiveJobs == {queue[i] : i \in DOMAIN queue} \cup ({thread[t] : t \in Threads} \ {NoJob})
Awaited == {AwaitedJob(r) : r \in {q \in Requests : pc[q] = "await"}}
Orphans(c) == {job \in LiveJobs \ Awaited : Order[job[2]] = c}

\* Every job the pool still holds for a scrape that gave up on it was reported
\* as an error of its collector: a leaking pool is visible in error_total.
OrphansReported == \A c \in Collectors : Cardinality(Orphans(c)) <= errorTotal[c]

\* A task that waits has its answer ready or exactly one job in the pool that
\* will bring it: no answer of an abandoned dump is taken for the current one.
AwaitBacked ==
    \A r \in Requests : pc[r] = "await" =>
        LET held == {i \in DOMAIN queue : queue[i] = AwaitedJob(r)}
            running == {t \in Threads : thread[t] = AwaitedJob(r)}
        IN  Cardinality(held) + Cardinality(running) = IF reply[r] = "none" THEN 1 ELSE 0

\* In the bodies published one after another error_total never decreases, so
\* a Prometheus server never sees a counter reset, whichever scrape ends first.
PublishedErrorsMonotone ==
    [][encoded # NoBody =>
        \A c \in Collectors : encoded'.errors[c] >= encoded.errors[c]]_encoded

\* A scrape that began is answered even if every dump hangs, given only the
\* executor and its timer.
Answered == \A r \in Requests : pc[r] = "fanout" ~> pc[r] = "done"

\* collector-failure-isolation.feature, "Timed-out collector does not block
\* remaining collectors": a collector that can neither fail nor hang is
\* served.  (Stated of PatientSpec with a kernel that answers or hangs.)
RemainingServed ==
    \A r \in Requests : \A i \in 1..N :
        pc[r] = "done" /\ Order[i] \in Available \ Stuck
            => response[r].results[i] # "timeout"

\* The scrapes as a client sees them: asked once begun, answered by Respond.
Contract == INSTANCE ScrapeContract
    WITH asked <- {r \in Requests : pc[r] # "idle"}, answer <- response

\* However collectors fail, hang and overlap, every answer is one ScrapeContract
\* allows: its own, complete, and with counters that cover all reported failures.
ImplementsContract == Contract!Spec
=============================================================================
