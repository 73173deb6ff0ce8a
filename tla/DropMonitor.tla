---------------------------- MODULE DropMonitor -----------------------------
(***************************************************************************)
(* Startup of the exporter as far as the drop monitor is concerned         *)
(* (crates/netlink_exporter/src/main.rs: probe, listener setup, capability *)
(* drop, serve) and the background listener that accumulates NET_DM alerts *)
(* into two atomic counters the scrapes read                               *)
(* (crates/nlx-netlink/src/collectors/drop_monitor.rs).                    *)
(*                                                                         *)
(* Threads: the main thread, which runs Boot and then serves; the threads  *)
(* of the pool, which the main thread starts before Boot and on which the  *)
(* requests of every probe and scrape run; and the nft-dropmon thread.     *)
(* capset(2) acts on the thread that calls it, so each has capabilities of *)
(* its own.  The kernel's drop monitor is external: it answers each        *)
(* command with one ACK and multicasts alerts to the joined socket.        *)
(***************************************************************************)
EXTENDS Naturals, Sequences, SequencesExt, Summing

CONSTANTS
    MaxAlerts,   \* alerts the kernel sends in a run (bound)
    MaxErrors,   \* transient errors of the listener in a run (bound)
    QueueLimit,  \* datagrams the socket holds before ENOBUFS
    MaxCount     \* largest drop count of one alert (bound)

ASSUME BoundsAssumption ==
    /\ MaxAlerts \in Nat /\ MaxErrors \in Nat /\ MaxCount \in Nat
    /\ QueueLimit \in Nat \ {0}

VARIABLES
    step,        \* position of the main thread in Boot; Len(Boot) + 1 serves
    privileged,  \* the process was started with capabilities
    caps,        \* of the main thread: "full", "net_admin" or "none"
    pool,        \* of the threads of the pool
    aborted,     \* the process ended in the capability drop or the bind
    refused,     \* the OS refused a setup step for a reason of its own
    monitoring,  \* kernel: the drop monitor is on
    member,      \* kernel: our socket has joined the alert group
    rq,          \* datagrams queued on the listener's socket
    overrun,     \* ENOBUFS is due at the next recv
    listener,    \* nft-dropmon: "none", "clear", "recv", "add" or "sleep"
    lcaps,       \* its capabilities
    pending,     \* drops of the received alert not yet added
    counters,    \* DropCounters
    seen,        \* what the last scrape read of each counter
    sent, lost,  \* history: drops multicast to us, and those in lost datagrams
    alerts, errors

mainVars == <<step, privileged, caps, pool, aborted, refused>>
sockVars == <<monitoring, member, rq, overrun>>
threadVars == <<listener, lcaps, pending>>
boundVars == <<alerts, errors>>
vars == <<mainVars, sockVars, threadVars, counters, seen, sent, lost, boundVars>>

-----------------------------------------------------------------------------
Origins == {"sw", "hw"}
None == [o \in Origins |-> 0]
Counts == [Origins -> 0..MaxCount] \ {None}
Plus(f, g) == [o \in Origins |-> f[o] + g[o]]

Alert(drops) == [kind |-> "alert", drops |-> drops]
Ack(errno) == [kind |-> errno, drops |-> None]
Datagrams == [kind : {"alert", "ok", "already", "refused"}, drops : [Origins -> 0..MaxCount]]

\* Mutant: the group is joined before monitoring is configured and started.
JoinFirst == <<"resolve", "join", "config", "start">>

\* setup_listener_socket: monitoring is started before the group is joined so
\* that no alert can be mistaken for an ACK.
SetupOrder == <<"resolve", "config", "start", "join">>

\* Mutant: capabilities are dropped before the listener is set up.
BootDropFirst == <<"probe", "dropcaps">> \o SetupOrder \o <<"spawn", "bind">>

Boot == <<"probe">> \o SetupOrder \o <<"spawn", "dropcaps", "bind">>

PositionOf(name) == CHOOSE i \in DOMAIN Boot : Boot[i] = name
Serving == step > Len(Boot) /\ ~aborted
At(name) == step <= Len(Boot) /\ Boot[step] = name /\ ~aborted
Advance == step' = step + 1

\* Mutant: a failed setup skips a fixed number of steps.
SkipFixed ==
    /\ step' = step + Len(SetupOrder) + 1
    /\ member' = FALSE /\ rq' = <<>> /\ overrun' = FALSE

\* Setup failed or was not wanted: its socket is closed and startup goes on
\* with the first step after it.
SkipListener ==
    /\ step' = IF PositionOf("dropcaps") > step THEN PositionOf("dropcaps") ELSE PositionOf("bind")
    /\ member' = FALSE /\ rq' = <<>> /\ overrun' = FALSE

Init ==
    /\ step = 1
    /\ privileged \in BOOLEAN
    /\ caps = IF privileged THEN "full" ELSE "none"
    /\ pool = caps                  \* started at once, they inherit them
    /\ aborted = FALSE /\ refused = FALSE
    /\ monitoring \in BOOLEAN       \* a previous run may have left it on
    /\ member = FALSE /\ rq = <<>> /\ overrun = FALSE
    /\ listener = "none" /\ lcaps = "none" /\ pending = None
    /\ counters = None /\ seen = None /\ sent = None /\ lost = None
    /\ alerts = 0 /\ errors = 0

-----------------------------------------------------------------------------
(* The main thread.                                                        *)

\* The probe resolves NET_DM, and the listener's setup resolves it again with
\* its multicast group; either may find it missing.
Lookup ==
    /\ At("probe") \/ At("resolve")
    /\ \/ Advance /\ UNCHANGED <<refused, member, rq, overrun>>
       \/ SkipListener /\ refused' = TRUE
    /\ UNCHANGED <<privileged, pool, caps, aborted, monitoring, threadVars,
                   counters, seen, sent, lost, boundVars>>

\* The kernel's ACK to CONFIG or START: refused without CAP_NET_ADMIN, and
\* "already" (EBUSY, EAGAIN) while monitoring is on.
Errno == IF caps = "none" THEN "refused" ELSE IF monitoring THEN "already" ELSE "ok"

\* unicast_ack takes one datagram: an error frame with an unexpected errno
\* fails, anything else is success.
Tolerates(answer) == answer.kind # "refused"

\* unicast_ack for CONFIG and START: send, then take the oldest datagram.
Command ==
    LET queue == Append(rq, Ack(Errno))
    IN  /\ At("config") \/ At("start")
        /\ monitoring' = (monitoring \/ (At("start") /\ caps # "none"))
        /\ IF Tolerates(Head(queue))
           THEN Advance /\ rq' = Tail(queue) /\ UNCHANGED <<member, overrun>>
           ELSE SkipListener
        /\ UNCHANGED <<privileged, pool, caps, aborted, refused, threadVars,
                       counters, seen, sent, lost, boundVars>>

\* NETLINK_ADD_MEMBERSHIP needs CAP_SYS_ADMIN.
Join ==
    /\ At("join")
    /\ \/ caps = "full" /\ Advance /\ member' = TRUE /\ UNCHANGED <<refused, rq, overrun>>
       \/ caps # "full" /\ SkipListener /\ UNCHANGED refused
       \/ SkipListener /\ refused' = TRUE
    /\ UNCHANGED <<privileged, pool, caps, aborted, monitoring, threadVars,
                   counters, seen, sent, lost, boundVars>>

\* The new thread inherits the capabilities of the caller.
Spawn ==
    /\ At("spawn")
    /\ \/ /\ Advance /\ listener' = "clear" /\ lcaps' = caps
          /\ UNCHANGED <<refused, member, rq, overrun>>
       \/ SkipListener /\ refused' = TRUE /\ UNCHANGED <<listener, lcaps>>
    /\ UNCHANGED <<privileged, pool, caps, aborted, monitoring, pending,
                   counters, seen, sent, lost, boundVars>>

\* Mutant: a failing capability drop is only logged.
DropCapsLenient ==
    /\ At("dropcaps")
    /\ Advance
    /\ caps' \in {caps, IF caps = "none" THEN "none" ELSE "net_admin"}
    /\ UNCHANGED <<privileged, pool, aborted, refused, sockVars, threadVars,
                   counters, seen, sent, lost, boundVars>>

\* drop_caps_to_net_admin, of the calling thread alone: nothing to do for an
\* unprivileged process; a failure aborts.
DropCaps ==
    /\ At("dropcaps")
    /\ \/ caps = "none" /\ Advance /\ UNCHANGED <<caps, aborted>>
       \/ caps # "none" /\ Advance /\ caps' = "net_admin" /\ UNCHANGED aborted
       \/ caps # "none" /\ aborted' = TRUE /\ UNCHANGED <<step, caps>>
    /\ UNCHANGED <<privileged, pool, refused, sockVars, threadVars,
                   counters, seen, sent, lost, boundVars>>

\* readiness is set and the HTTP adapter binds; a bind error ends the process.
Bind ==
    /\ At("bind")
    /\ Advance
    /\ aborted' \in BOOLEAN
    /\ UNCHANGED <<privileged, pool, caps, refused, sockVars, threadVars,
                   counters, seen, sent, lost, boundVars>>

\* Mutant: a scrape takes the counter's value out of it.
ReadAndReset(o) ==
    /\ Serving
    /\ seen' = [seen EXCEPT ![o] = counters[o]]
    /\ counters' = [counters EXCEPT ![o] = 0]
    /\ UNCHANGED <<mainVars, sockVars, threadVars, sent, lost, boundVars>>

\* A scrape loads one of the counters.
Read(o) ==
    /\ Serving
    /\ seen' = [seen EXCEPT ![o] = counters[o]]
    /\ UNCHANGED <<mainVars, sockVars, threadVars, counters, sent, lost, boundVars>>

-----------------------------------------------------------------------------
(* The nft-dropmon thread: recv_loop inside its restart loop.              *)

Live == ~aborted /\ listener # "none"

\* Mutant: a failure to clear the capabilities is ignored.
ClearLenient ==
    /\ Live /\ listener = "clear"
    /\ listener' = "recv"
    /\ \/ lcaps' = "none" /\ UNCHANGED errors
       \/ errors < MaxErrors /\ errors' = errors + 1 /\ UNCHANGED lcaps
    /\ UNCHANGED <<mainVars, sockVars, pending, counters, seen, sent, lost, alerts>>

\* Every entry of recv_loop first clears the thread's capabilities.
Clear ==
    /\ Live /\ listener = "clear"
    /\ \/ lcaps' = "none" /\ listener' = "recv" /\ UNCHANGED errors
       \/ /\ errors < MaxErrors /\ errors' = errors + 1
          /\ listener' = "sleep" /\ UNCHANGED lcaps
    /\ UNCHANGED <<mainVars, sockVars, pending, counters, seen, sent, lost, alerts>>

\* One datagram: the drops of an alert are to be added, all else is ignored.
Recv ==
    /\ Live /\ listener = "recv" /\ ~overrun /\ rq # <<>>
    /\ rq' = Tail(rq)
    /\ IF Head(rq).kind = "alert"
       THEN listener' = "add" /\ pending' = Head(rq).drops
       ELSE UNCHANGED <<listener, pending>>
    /\ UNCHANGED <<mainVars, monitoring, member, overrun, lcaps, counters, seen, sent, lost, boundVars>>

\* fetch_add on sw and then on hw; a scrape may read between the two.
Add ==
    LET o == IF pending["sw"] > 0 THEN "sw" ELSE "hw"
    IN  /\ Live /\ listener = "add"
        /\ counters' = [counters EXCEPT ![o] = @ + pending[o]]
        /\ pending' = [pending EXCEPT ![o] = 0]
        /\ listener' = IF pending' = None THEN "recv" ELSE "add"
        /\ UNCHANGED <<mainVars, sockVars, lcaps, seen, sent, lost, boundVars>>

\* Mutant: ENOBUFS ends the thread.
RecvOverrunEnds ==
    /\ Live /\ listener = "recv" /\ overrun
    /\ overrun' = FALSE
    /\ listener' = "none"
    /\ UNCHANGED <<mainVars, monitoring, member, rq, lcaps, pending, counters, seen, sent, lost, boundVars>>

\* ENOBUFS: a batch of alerts was lost; receiving goes on.
RecvOverrun ==
    /\ Live /\ listener = "recv" /\ overrun
    /\ overrun' = FALSE
    /\ UNCHANGED <<mainVars, monitoring, member, rq, threadVars, counters, seen, sent, lost, boundVars>>

\* Any other error leaves recv_loop; it is entered again after five seconds.
RecvError ==
    /\ Live /\ listener = "recv" /\ errors < MaxErrors
    /\ errors' = errors + 1
    /\ listener' = "sleep"
    /\ UNCHANGED <<mainVars, sockVars, lcaps, pending, counters, seen, sent, lost, alerts>>

Wake ==
    /\ Live /\ listener = "sleep"
    /\ listener' = "clear"
    /\ UNCHANGED <<mainVars, sockVars, lcaps, pending, counters, seen, sent, lost, boundVars>>

-----------------------------------------------------------------------------
\* The kernel multicasts an alert to the joined socket, or drops it when the
\* socket is full.
Multicast(drops) ==
    /\ ~aborted /\ monitoring /\ member /\ alerts < MaxAlerts
    /\ alerts' = alerts + 1
    /\ sent' = Plus(sent, drops)
    /\ IF Len(rq) < QueueLimit
       THEN rq' = Append(rq, Alert(drops)) /\ UNCHANGED <<overrun, lost>>
       ELSE overrun' = TRUE /\ lost' = Plus(lost, drops) /\ UNCHANGED rq
    /\ UNCHANGED <<mainVars, monitoring, member, threadVars, counters, seen, errors>>

Main == Lookup \/ Command \/ Join \/ Spawn \/ DropCaps \/ Bind
Listen == Clear \/ Recv \/ Add \/ RecvOverrun \/ RecvError \/ Wake

\* The process has ended, or serves and waits.
Idle == (aborted \/ Serving) /\ UNCHANGED vars

Next ==
    \/ Main \/ Listen \/ Idle
    \/ \E o \in Origins : Read(o)
    \/ \E drops \in Counts : Multicast(drops)

Spec == Init /\ [][Next]_vars

\* The scheduler runs both threads; a sleeping listener wakes up.
FairSpec == Spec /\ WF_vars(Main) /\ WF_vars(Clear \/ Recv \/ Add \/ RecvOverrun \/ Wake)

-----------------------------------------------------------------------------
TypeOK ==
    /\ step \in 1..(Len(Boot) + 1)
    /\ privileged \in BOOLEAN /\ aborted \in BOOLEAN /\ refused \in BOOLEAN
    /\ caps \in {"full", "net_admin", "none"} /\ pool \in {"full", "net_admin", "none"}
    /\ lcaps \in {"full", "net_admin", "none"}
    /\ monitoring \in BOOLEAN /\ member \in BOOLEAN /\ overrun \in BOOLEAN
    /\ rq \in Seq(Datagrams) /\ Len(rq) <= QueueLimit
    /\ listener \in {"none", "clear", "recv", "add", "sleep"}
    /\ pending \in [Origins -> 0..MaxCount]
    /\ counters \in [Origins -> Nat] /\ seen \in [Origins -> Nat]
    /\ sent \in [Origins -> Nat] /\ lost \in [Origins -> Nat]
    /\ alerts \in 0..MaxAlerts /\ errors \in 0..MaxErrors

QueuedDrops(o) == Total([k \in DOMAIN rq |-> rq[k].drops[o]])

\* Every drop the kernel reported to the exporter is in its counters, still on
\* its way there, or in a datagram the kernel itself gave up: setup does not
\* swallow alerts, and restarts of the loop neither lose nor repeat any.
DropsConserved ==
    member => \A o \in Origins :
        sent[o] = counters[o] + pending[o] + QueuedDrops(o) + lost[o]

\* A privileged exporter whose steps were not refused for a reason of their
\* own serves with its listener running, even where an earlier run had left
\* monitoring on.
ListenerStarted ==
    Serving /\ privileged /\ ~refused => member /\ listener # "none"

\* The thread that accepts connections and reads what clients send, the main
\* thread, never does so with more than CAP_NET_ADMIN.
ServesDeprivileged == Serving => caps # "full"

\* main.rs:19: "After opening all netlink sockets the process drops all
\* capabilities except `CAP_NET_ADMIN`": the threads on which the scrapes'
\* requests run have no more either.
PoolDeprivileged == Serving => pool # "full"

\* The listener handles kernel data with no capability at all.
ListensDeprivileged == listener \in {"recv", "add"} => lcaps = "none"

\* The totals scraped are counters: no scrape reads less than the one before.
ScrapedTotalsMonotone == [][\A o \in Origins : seen'[o] >= seen[o]]_seen

\* While it serves, an exporter that joined the group eventually counts all
\* that is queued, through overruns and transient errors.
AlertsDrained == <>[](Serving /\ member => rq = <<>> /\ ~overrun /\ pending = None)
=============================================================================
