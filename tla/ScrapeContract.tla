--------------------------- MODULE ScrapeContract ---------------------------
(***************************************************************************)
(* What GET /metrics promises a Prometheus server, whatever the collectors *)
(* and the kernel do: one body per request, made for that request, that    *)
(* reports every enabled collector, with error counters that never go back *)
(* from one answer to the next and that own up to every failure any answer *)
(* has reported.  Nothing is said of how, or of how many scrapes overlap.  *)
(***************************************************************************)
EXTENDS Naturals, Sequences, FiniteSets

CONSTANTS
    Requests,    \* GET /metrics requests
    Collectors,  \* collector names
    Order,       \* the enabled collectors, in registration order
    Available,   \* collectors whose startup probe succeeded
    NoBody       \* not answered yet

VARIABLES
    asked,       \* requests received
    answer       \* the body each was answered with

vars == <<asked, answer>>

Init == asked = {} /\ answer = [r \in Requests |-> NoBody]

Ask(r) ==
    /\ asked' = asked \cup {r}
    /\ UNCHANGED answer

Outcomes == {"skipped", "ok", "error", "timeout"}

\* Every enabled collector is reported; the unavailable ones were not tried.
ReportsAll(body) ==
    /\ body.results \in Seq(Outcomes)
    /\ Len(body.results) = Len(Order)
    /\ \A i \in 1..Len(Order) : body.results[i] = "skipped" <=> Order[i] \notin Available

ReportsFailure(body, c) ==
    \E i \in DOMAIN body.results :
        Order[i] = c /\ body.results[i] \in {"error", "timeout"}

\* No counter is below one already shown, or below the failures shown so far.
CountersHold(body, r) ==
    LET Shown(q) == IF q = r THEN body ELSE answer[q]
    IN  \A c \in Collectors :
            /\ \A q \in Requests : answer[q] # NoBody => answer[q].errors[c] <= body.errors[c]
            /\ Cardinality({q \in Requests : Shown(q) # NoBody /\ ReportsFailure(Shown(q), c)})
                 <= body.errors[c]

Reply(r) ==
    /\ r \in asked
    /\ answer[r] = NoBody
    /\ answer' = [answer EXCEPT ![r] = answer'[r]]
    /\ answer'[r] # NoBody
    /\ answer'[r].owner = r
    /\ ReportsAll(answer'[r])
    /\ CountersHold(answer'[r], r)
    /\ UNCHANGED asked

Next == \E r \in Requests : Ask(r) \/ Reply(r)

Spec == Init /\ [][Next]_vars
=============================================================================
