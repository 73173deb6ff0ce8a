------------------------------ MODULE HttpServer ------------------------------
(***************************************************************************)
(* The HTTP adapter of crates/nlx-http/src/server.rs and the steps of      *)
(* main.rs that start it: the accept loop with its back-off, and one       *)
(* handle_conn task per connection that accumulates the request head,      *)
(* dispatches on the path and answers once.                                *)
(*                                                                         *)
(* Bytes are counted, not spelled: a request is the number of bytes the    *)
(* client sends, the position at which the blank line ending its head is   *)
(* complete, and the path.  TCP may split the bytes anywhere.              *)
(***************************************************************************)
EXTENDS Naturals

CONSTANTS
    Conns,           \* client connections, each used once (bounds the run)
    Requests,        \* what each client may send
    Chunk,           \* bytes asked of one read (512)
    Cap,             \* REQUEST_HEADER_CAP (8192)
    InitialBackoff,  \* ACCEPT_BACKOFF_INITIAL_MS
    MaxBackoff,      \* ACCEPT_BACKOFF_MAX_MS
    MaxStreak        \* consecutive accept errors told apart (bounds the run)

Paths == {"/metrics", "/healthz", "/ready", "other"}

ASSUME RequestAssumption ==
    Requests \in [Conns -> SUBSET [length : Nat, head : Nat, path : Paths, utf8 : BOOLEAN]]
ASSUME SizeAssumption ==
    /\ Chunk \in Nat \ {0} /\ Cap \in Nat \ {0}
    /\ InitialBackoff \in Nat \ {0} /\ MaxBackoff \in Nat
    /\ InitialBackoff <= MaxBackoff
    /\ MaxStreak \in Nat \ {0}

VARIABLES
    listener,  \* "down", "accept", "sleep" or "exited"
    backoff,   \* backoff_ms
    streak,    \* history: accept errors since the last accepted connection
    ready,     \* ReadinessService.ready
    request,   \* what each client sends
    stage,     \* "idle", "pending", "reading", "scraping", "answered" or "dropped"
    sent,      \* bytes the client has sent
    got,       \* bytes in header_buf
    peer,      \* the client's end: "open", "eof" or "reset"
    answer     \* the response written

listenVars == <<listener, backoff, streak>>
clientVars == <<request, sent, peer>>
taskVars == <<stage, got, answer>>
vars == <<listenVars, ready, clientVars, taskVars>>

Init ==
    /\ listener = "down" /\ backoff = InitialBackoff /\ streak = 0
    /\ ready = FALSE
    /\ request \in {f \in [Conns -> UNION {Requests[c] : c \in Conns}] :
                      \A c \in Conns : f[c] \in Requests[c]}
    /\ stage = [c \in Conns |-> "idle"]
    /\ sent = [c \in Conns |-> 0] /\ got = [c \in Conns |-> 0]
    /\ peer = [c \in Conns |-> "open"]
    /\ answer = [c \in Conns |-> "none"]

-----------------------------------------------------------------------------
(* main.rs and the accept loop.                                            *)

\* The flag is set when the probes are done, before the socket is bound.
SetReady ==
    /\ listener = "down" /\ ~ready
    /\ ready' = TRUE
    /\ UNCHANGED <<listenVars, clientVars, taskVars>>

\* serve() binds, or returns the error that ends the process.
Bind ==
    /\ listener = "down" /\ ready
    /\ listener' \in {"accept", "exited"}
    /\ UNCHANGED <<backoff, streak, ready, clientVars, taskVars>>

\* What the variants of Accept share.
AcceptWith(c, delay) ==
    /\ listener = "accept"
    /\ stage[c] = "pending"
    /\ stage' = [stage EXCEPT ![c] = "reading"]
    /\ backoff' = delay
    /\ streak' = 0
    /\ UNCHANGED <<listener, ready, clientVars, got, answer>>

\* Mutants: a connection is handled before the next one is accepted; the
\* back-off survives a successful accept.
AcceptSerially(c) ==
    /\ \A d \in Conns : stage[d] \notin {"reading", "scraping"}
    /\ AcceptWith(c, InitialBackoff)
AcceptKeepingBackoff(c) == AcceptWith(c, backoff)

\* A connection is accepted and gets a task of its own.
Accept(c) == AcceptWith(c, InitialBackoff)

\* accept() fails: the loop sleeps backoff_ms.
AcceptError ==
    /\ listener = "accept"
    /\ listener' = "sleep"
    /\ streak' = IF streak < MaxStreak THEN streak + 1 ELSE streak
    /\ UNCHANGED <<backoff, ready, clientVars, taskVars>>

\* Mutant: the doubling is not capped.
WakeUncapped ==
    /\ listener = "sleep"
    /\ listener' = "accept"
    /\ backoff' = 2 * backoff
    /\ UNCHANGED <<streak, ready, clientVars, taskVars>>

\* The sleep ends; the next one will be twice as long, up to the maximum.
Wake ==
    /\ listener = "sleep"
    /\ listener' = "accept"
    /\ backoff' = IF 2 * backoff < MaxBackoff THEN 2 * backoff ELSE MaxBackoff
    /\ UNCHANGED <<streak, ready, clientVars, taskVars>>

-----------------------------------------------------------------------------
(* The client.                                                             *)

Connect(c) ==
    /\ listener \in {"accept", "sleep"}
    /\ stage[c] = "idle"
    /\ stage' = [stage EXCEPT ![c] = "pending"]
    /\ UNCHANGED <<listenVars, ready, clientVars, got, answer>>

Send(c) ==
    /\ stage[c] \in {"pending", "reading"}
    /\ peer[c] = "open"
    /\ \E n \in (sent[c] + 1)..request[c].length : sent' = [sent EXCEPT ![c] = n]
    /\ UNCHANGED <<listenVars, ready, request, peer, taskVars>>

\* The client closes its side, or the connection is reset.
Leave(c) ==
    /\ stage[c] \in {"pending", "reading"}
    /\ peer[c] = "open"
    /\ \E how \in {"eof", "reset"} : peer' = [peer EXCEPT ![c] = how]
    /\ UNCHANGED <<listenVars, ready, request, sent, taskVars>>

-----------------------------------------------------------------------------
(* handle_conn.                                                            *)

\* The blank line is searched in everything accumulated so far.
HeadComplete(c, n) == request[c].head # 0 /\ request[c].head <= n

\* parse_path: a buffer that is not UTF-8 has the path "/".
Target(c) == IF request[c].utf8 THEN request[c].path ELSE "other"

\* Mutant: the blank line is searched in the bytes of the last read only, so
\* that one split over two reads (it is at least two bytes long) is missed.
NextStageOfLastRead(c, n) ==
    IF HeadComplete(c, n) /\ request[c].head > got[c] + 1
    THEN IF Target(c) = "/metrics" THEN "scraping" ELSE "answered"
    ELSE IF n >= Cap THEN "dropped" ELSE "reading"
\* Mutant: no cap.
NextStageUncapped(c, n) ==
    IF ~HeadComplete(c, n) THEN "reading"
    ELSE IF Target(c) = "/metrics" THEN "scraping" ELSE "answered"

\* What the task does once n bytes are accumulated: the head is complete, too
\* long, or still coming.
NextStage(c, n) ==
    IF HeadComplete(c, n)
    THEN IF Target(c) = "/metrics" THEN "scraping" ELSE "answered"
    ELSE IF n >= Cap THEN "dropped" ELSE "reading"

\* The responses that need no scrape; HealthService is always healthy.
Response(c) ==
    CASE Target(c) = "/healthz" -> "200"
      [] Target(c) = "/ready" -> IF ready THEN "200" ELSE "503"
      [] OTHER -> "404"

\* One read brings some of the bytes sent; what follows does not suspend.
Read(c) ==
    /\ stage[c] = "reading"
    /\ peer[c] # "reset"
    /\ \E n \in 1..Chunk :
        /\ got[c] + n <= sent[c]
        /\ got' = [got EXCEPT ![c] = @ + n]
        /\ stage' = [stage EXCEPT ![c] = NextStage(c, got[c] + n)]
        /\ answer' = IF NextStage(c, got[c] + n) = "answered"
                     THEN [answer EXCEPT ![c] = Response(c)] ELSE answer
    /\ UNCHANGED <<listenVars, ready, clientVars>>

\* read() returns 0 or an error.
ReadEnd(c) ==
    /\ stage[c] = "reading"
    /\ peer[c] = "reset" \/ (peer[c] = "eof" /\ got[c] = sent[c])
    /\ stage' = [stage EXCEPT ![c] = "dropped"]
    /\ UNCHANGED <<listenVars, ready, clientVars, got, answer>>

\* scrape() and encode_text() are done (module Scrape says how).
Scraped(c) ==
    /\ stage[c] = "scraping"
    /\ stage' = [stage EXCEPT ![c] = "answered"]
    /\ answer' = [answer EXCEPT ![c] = "metrics"]
    /\ UNCHANGED <<listenVars, ready, clientVars, got>>

-----------------------------------------------------------------------------
Exited == listener = "exited" /\ UNCHANGED vars

Next ==
    \/ SetReady \/ Bind \/ AcceptError \/ Wake \/ Exited
    \/ \E c \in Conns :
        \/ Accept(c) \/ Connect(c) \/ Send(c) \/ Leave(c)
        \/ Read(c) \/ ReadEnd(c) \/ Scraped(c)

Spec == Init /\ [][Next]_vars

\* The executor polls what is ready and the sleep ends.  accept() does not fail
\* for ever.  Nothing is assumed of clients, nor of how long a scrape takes.
FairSpec ==
    /\ Spec
    /\ WF_vars(Wake)
    /\ \A c \in Conns : SF_vars(Accept(c)) /\ WF_vars(Read(c)) /\ WF_vars(ReadEnd(c))

-----------------------------------------------------------------------------
TypeOK ==
    /\ listener \in {"down", "accept", "sleep", "exited"}
    /\ backoff \in InitialBackoff..MaxBackoff
    /\ streak \in 0..MaxStreak
    /\ ready \in BOOLEAN
    /\ \A c \in Conns : request[c] \in Requests[c]
    /\ stage \in [Conns -> {"idle", "pending", "reading", "scraping", "answered", "dropped"}]
    /\ sent \in [Conns -> Nat] /\ got \in [Conns -> Nat]
    /\ peer \in [Conns -> {"open", "eof", "reset"}]
    /\ answer \in [Conns -> {"none", "metrics", "200", "404", "503"}]

\* A connection is dropped without an answer only if its client went away, or
\* no head ends within the cap: however TCP cuts the request into reads, one
\* whose head fits is never refused.
DroppedJustly ==
    \A c \in Conns : stage[c] = "dropped" =>
        \/ peer[c] # "open"
        \/ request[c].head \notin 1..Cap

\* "bounding memory usage per connection": one read past the cap at most, and
\* a task that goes on reading holds less than the cap.
BufferBounded ==
    \A c \in Conns :
        /\ got[c] < Cap + Chunk
        /\ stage[c] = "reading" => got[c] < Cap

\* The wait before the k-th retry of a streak of accept errors.
Wait[k \in 0..MaxStreak] ==
    IF k <= 1 THEN InitialBackoff
    ELSE IF 2 * Wait[k - 1] < MaxBackoff THEN 2 * Wait[k - 1] ELSE MaxBackoff

\* Enough errors are told apart for the wait to reach its maximum: from there on
\* a longer streak waits no longer, and streak need not grow.
ASSUME StreakAssumption == Wait[MaxStreak] = MaxBackoff

\* The loop waits as long as the length of the current streak says: a
\* connection accepted in between starts the doubling again, and the wait
\* never passes the maximum.
BackoffFollowsStreak ==
    listener = "sleep" => backoff = Wait[streak]

\* A client that stays and has sent a head that fits is served, although other
\* clients stall in the middle of theirs, scrapes do not end and accept() fails
\* now and then: a probe gets its answer, /metrics its scrape.
RequestsServed ==
    \A c \in Conns :
        (/\ stage[c] \in {"pending", "reading"}
         /\ request[c].head \in 1..Cap
         /\ sent[c] >= request[c].head)
            ~> (stage[c] \in {"scraping", "answered"} \/ peer[c] # "open")
=============================================================================
