------------------------------ MODULE Collect -------------------------------
(***************************************************************************)
(* Any one collector of the exporter, probed at startup and then scraped,  *)
(* against a kernel that changes between two of its requests, interrupts   *)
(* its dumps and refuses its requests.                                     *)
(*                                                                         *)
(* A request is answered in one step: that a dump on a socket where none   *)
(* was interrupted is what the kernel had is NetlinkDump's                 *)
(* CleanDumpComplete.  A dump that was interrupted leaves its other        *)
(* datagrams on the socket, and nothing tells them from the answer to the  *)
(* request sent next: that is RepliesMatchSeq there, and LeftOver here.    *)
(***************************************************************************)
EXTENDS Devlink, Ethtool, Ipvs, Xfrm, Wireguard, Nftables, Rt, RtExtended, Conntrack,
        Sockdiag, Tc, DropStats, Procfs

CONSTANTS
    Collectors, \* names of the collectors looked at
    Kernel,     \* for each collector what the kernel has, state after state:
                \* for each request and argument the frames of its answer
    Refusals,   \* errors of a request to the kernel; "io" is any that has no name
    Misread,    \* for each collector, for its requests: the frames it may make of
                \* what is left on its socket of the answer to another one
    Rounds,     \* scrapes of the collector, a bound
    MaxFailures,\* requests of one collect() that fail and are tolerated, a bound
    MaxLeft     \* those that are answered by what was left on the socket, a bound

CollectorNames ==
    {"devlink", "ethtool", "ipvs", "xfrm", "wireguard", "nftables", "rtnetlink",
     "rtnetlink_extended", "conntrack", "conntrack_expect", "sock_diag", "traffic_control",
     "drop_monitor", "softnet", "netstat", "softirq", "irq", "sockstat", "nic_bql", "nic_pcie",
     "nic_temp"}

ASSUME CollectorAssumption == Collectors \subseteq CollectorNames

\* The kernel is in one state after the other, and answers with frames in order.
Sequential(s) == s \in Seq(ToSet(s))
ASSUME KernelAssumption ==
    \A c \in Collectors :
        /\ Sequential(Kernel[c]) /\ Kernel[c] # <<>>
        /\ \A t \in DOMAIN Kernel[c] : \A op \in DOMAIN Kernel[c][t] :
               \A arg \in DOMAIN Kernel[c][t][op] : Sequential(Kernel[c][t][op][arg])

ASSUME RefusalAssumption == Refusals \cap Delivered = {}

\* A plain request makes at most one frame of what is left.
Misreadings(c, op) == Attr(Attr(Misread, c, <<>>), op, {})
ASSUME MisreadAssumption ==
    \A c \in DOMAIN Misread : \A op \in DOMAIN Misread[c] :
        \A frames \in Misread[c][op] : Sequential(frames)

\* A list no two of whose entries that pass the test have the same key.
Unique(s, Test(_), Key(_)) ==
    /\ Sequential(s)
    /\ \A i, j \in DOMAIN s :
           Test(s[i]) /\ Test(s[j]) /\ Key(s[i]) = Key(s[j]) => i = j

\* What the kernel has once, so that it can be a label: an interface of a name,
\* a group of its statistics and a statistic of the group, a CPU, an interrupt
\* of a number, a row of a file and a key in the row.  A plain request has one
\* reply at most, and there is at most one state of a socket that the code
\* does not know.
NamedOnce(c, op, frames) ==
    CASE c = "rtnetlink" /\ op = "links" ->
            Unique(frames, LAMBDA f : "name" \in DOMAIN f, LAMBDA f : f.name)
      [] c = "xfrm" /\ op \in {"sadinfo", "spdinfo"} -> Len(frames) <= 1
      [] c = "ethtool" /\ op = "stats" ->
            /\ Unique(frames, LAMBDA f : Attr(f, "interface", "") # "", LAMBDA f : f.interface)
            /\ \A i \in DOMAIN frames : Attr(frames[i], "interface", "") # "" =>
                  /\ Unique(frames[i].groups, LAMBDA g : "id" \in DOMAIN g, LAMBDA g : g.id)
                  /\ \A k \in DOMAIN frames[i].groups : "id" \in DOMAIN frames[i].groups[k] =>
                        /\ frames[i].groups[k].id \in Nat
                        /\ Unique(frames[i].groups[k].stats, LAMBDA s : TRUE, LAMBDA s : s.index)
      [] c = "sock_diag" ->
            \A i \in DOMAIN frames :
                frames[i] # <<>> => frames[i].state \in SockStates \cup {"other"}
      [] c = "softnet" -> Unique(frames, LAMBDA l : Len(l) >= 13, LAMBDA l : l[13])
      [] c = "softirq" ->
            frames # <<>> =>
               /\ Unique(frames[1].cpus, LAMBDA cpu : TRUE, LAMBDA cpu : cpu)
               /\ Unique(Tail(frames), LAMBDA l : l.row \in DOMAIN SoftirqKinds, LAMBDA l : l.row)
               /\ \A i \in DOMAIN Tail(frames) : Sequential(Tail(frames)[i].counts)
      [] c = "irq" -> Unique(frames, LAMBDA l : l.numbered, LAMBDA l : l.id)
      [] c = "sockstat" ->
            /\ Unique(frames, LAMBDA l : l.tagged, LAMBDA l : l.proto)
            /\ \A i \in DOMAIN frames : frames[i].tagged =>
                  Unique(frames[i].pairs, LAMBDA p : "value" \in DOMAIN p, LAMBDA p : p.key)
      [] OTHER -> TRUE

ASSUME NamingAssumption ==
    \A c \in Collectors : \A t \in DOMAIN Kernel[c] : \A op \in DOMAIN Kernel[c][t] :
        \A arg \in DOMAIN Kernel[c][t][op] : NamedOnce(c, op, Kernel[c][t][op][arg])

\* What is counted in a frame is a number, and what is listed in it a list.
\* Each frame of a WireGuard device repeats its name, and an IPVS service is of
\* a firewall mark or of an address, which is not empty.
Readable(c, op, f) ==
    CASE c = "traffic_control" /\ op = "qdiscs" -> "basic" \in DOMAIN f => f.basic.bytes \in Nat
      [] c = "nftables" /\ op = "rules" ->
            Sequential(Attr(f, "userdata", <<>>)) /\ Sequential(Attr(f, "exprs", <<>>))
      [] c = "wireguard" /\ op = "device" ->
            Attr(f, "name", "") # "" /\ Sequential(Attr(f, "peers", <<>>))
      [] c = "ipvs" /\ op = "services" ->
            /\ "af" \in DOMAIN f
            /\ IF "fwmark" \in DOMAIN f THEN f.fwmark # ""
               ELSE /\ {"proto", "addr", "port"} \subseteq DOMAIN f
                    /\ f.af \in {"inet", "inet6"} /\ f.proto \in {"tcp", "udp", "sctp"}
                    /\ f.addr.inet6 # ""
      [] c = "conntrack" /\ op = "cpus" -> \A a \in DOMAIN f : f[a] \in Nat
      [] c = "irq" /\ op = "interrupts" -> f.counts \in Seq(Nat)
      [] OTHER -> TRUE

ASSUME FrameAssumption ==
    \A c \in Collectors : \A t \in DOMAIN Kernel[c] : \A op \in DOMAIN Kernel[c][t] :
        \A arg \in DOMAIN Kernel[c][t][op] : \A i \in DOMAIN Kernel[c][t][op][arg] :
            Readable(c, op, Kernel[c][t][op][arg][i])

\* The frames there are for op and an argument.
KernelFrames(c, t, op, arg) ==
    IF op \in DOMAIN Kernel[c][t] THEN Attr(Kernel[c][t][op], arg, <<>>) ELSE <<>>

\* Collectors that ask the same whatever is answered, and the request by which
\* they read what the kernel counts; `irq' has its own condition, below.
CountedBy ==
    [rtnetlink |-> "links", conntrack |-> "cpus", softnet |-> "softnet_stat",
     softirq |-> "softirqs", irq |-> "interrupts"]

\* What one list or frame has of numbers the other has too, and no less.
Onward(a, b) == DOMAIN a \subseteq DOMAIN b /\ \A k \in DOMAIN a : a[k] <= b[k]

\* From frames f of such a request to later ones no count goes back: none of a
\* link that is in both, of a CPU (conntrack has one frame for each there can
\* be), of a kind of softirq on a CPU, or of an interrupt on the CPU of a column.
Advanced(c, f, g) ==
    CASE c = "rtnetlink" ->
            \A i \in DOMAIN f, j \in DOMAIN g :
                "name" \in DOMAIN f[i] /\ "name" \in DOMAIN g[j] /\ f[i].name = g[j].name
                    => \A k \in 1..8 : LinkStats(f[i])[k] <= LinkStats(g[j])[k]
      [] c = "conntrack" ->
            DOMAIN f \subseteq DOMAIN g /\ \A i \in DOMAIN f : Onward(f[i], g[i])
      [] c = "softnet" ->
            \A i \in DOMAIN f, j \in DOMAIN g :
                Len(f[i]) >= 13 /\ Len(g[j]) >= 13 /\ f[i][13] = g[j][13]
                    => \A k \in 1..5 :
                          f[i][SoftnetColumns[k].at] <= g[j][SoftnetColumns[k].at]
      [] c = "softirq" ->
            \A i \in DOMAIN f \ {1}, j \in DOMAIN g \ {1} :
                f[i].row = g[j].row =>
                    \A p \in DOMAIN f[i].counts, q \in DOMAIN g[j].counts :
                        /\ p \in DOMAIN f[1].cpus /\ q \in DOMAIN g[1].cpus
                        /\ f[1].cpus[p] = g[1].cpus[q]
                        => f[i].counts[p] <= g[j].counts[q]
      [] c = "irq" ->
            \A i \in DOMAIN f, j \in DOMAIN g :
                f[i].numbered /\ g[j].numbered /\ f[i].id = g[j].id
                    => Onward(f[i].counts, g[j].counts)

AdvancedFrom(c, t, u) ==
    Advanced(c, KernelFrames(c, t, CountedBy[c], NoArg), KernelFrames(c, u, CountedBy[c], NoArg))

\* The columns of /proc/interrupts are the CPUs that are online: they do not
\* stay, and nothing is assumed of them.
ASSUME GrowthAssumption ==
    \A c \in Collectors \cap (DOMAIN CountedBy \ {"irq"}) : \A t, u \in DOMAIN Kernel[c] :
        t <= u => AdvancedFrom(c, t, u)

\* The dump of the links has each device of WireGuard once.
Devices(t) ==
    LET state == Kernel["wireguard"][t]
    IN  IF "device" \in DOMAIN state THEN DOMAIN state.device ELSE {}
ASSUME DeviceAssumption ==
    "wireguard" \in Collectors =>
        \A t \in DOMAIN Kernel["wireguard"] :
            LET listed == WgListed(KernelFrames("wireguard", t, "links", NoArg))
            IN  /\ ToSet(listed) = Devices(t)
                /\ \A i, j \in DOMAIN listed : listed[i] = listed[j] => i = j

VARIABLES
    who,        \* the collector
    phase,      \* "probe", "off" when found unavailable, "idle", "busy", "done"
    round,      \* scrapes begun
    now,        \* the state of the kernel, an index of Kernel[who]
    begun,      \* the one in which the collect() began
    got,        \* answers to its requests so far
    tries,      \* attempts at the next request that were interrupted
    left,       \* datagrams of an earlier request remain on the socket last used
    result,     \* of the last collect(): "none", "ok", "empty" or "failed"
    body        \* the samples of the last collect() that was "ok"; while the next goes
                \* on, history: its counters, when none of its answers was left over

vars == <<who, phase, round, now, begun, got, tries, left, result, body>>

ProcFirst ==
    [softnet |-> "softnet_stat", netstat |-> "snmp", softirq |-> "softirqs",
     irq |-> "interrupts", sockstat |-> "sockstat", nic_bql |-> "net", nic_pcie |-> "net",
     nic_temp |-> "net"]

\* The requests of a collect(), so far as the answers tell.
Plan(c, answers) ==
    CASE c = "devlink" -> DevlinkPlan(answers)
      [] c = "ethtool" -> EthtoolPlan(answers)
      [] c = "ipvs" -> IpvsPlan(answers)
      [] c = "xfrm" -> XfrmPlan(answers)
      [] c = "wireguard" -> WgPlan(answers)
      [] c = "nftables" -> NftPlan(answers)
      [] c = "rtnetlink" -> RtPlan(answers)
      [] c = "rtnetlink_extended" -> RtxPlan(answers)
      [] c = "conntrack" -> CtPlan(answers)
      [] c = "conntrack_expect" -> ExpectPlan(answers)
      [] c = "sock_diag" -> SockPlan(answers)
      [] c = "traffic_control" -> TcPlan(answers)
      [] c = "drop_monitor" -> DropPlan(answers)
      [] c = "softnet" -> SoftnetPlan(answers)
      [] c = "netstat" -> NetstatPlan(answers)
      [] c = "softirq" -> SoftirqPlan(answers)
      [] c = "irq" -> IrqPlan(answers)
      [] c = "sockstat" -> SockstatPlan(answers)
      [] c = "nic_bql" -> BqlPlan(answers)
      [] c = "nic_pcie" -> PciePlan(answers)
      [] c = "nic_temp" -> TempPlan(answers)

\* What it does when the request op fails with e.
Reaction(c, op, e) ==
    CASE c = "devlink" -> DevlinkReaction(op, e)
      [] c = "ethtool" -> EthtoolReaction(op, e)
      [] c = "ipvs" -> IpvsReaction(op, e)
      [] c = "xfrm" -> XfrmReaction(op, e)
      [] c = "wireguard" -> WgReaction(op, e)
      [] c = "nftables" -> NftReaction(op, e)
      [] c = "rtnetlink" -> RtReaction(op, e)
      [] c = "rtnetlink_extended" -> RtxReaction(op, e)
      [] c = "conntrack" -> CtReaction(op, e)
      [] c = "conntrack_expect" -> ExpectReaction(op, e)
      [] c = "sock_diag" -> SockReaction(op, e)
      [] c = "traffic_control" -> TcReaction(op, e)
      [] c = "drop_monitor" -> DropReaction(op, e)
      [] c \in DOMAIN ProcFirst -> ProcReaction(ProcFirst[c], op)

\* The samples it makes of all its answers.
Emit(c, answers) ==
    CASE c = "devlink" -> DevlinkEmit(answers)
      [] c = "ethtool" -> EthtoolEmit(answers)
      [] c = "ipvs" -> IpvsEmit(answers)
      [] c = "xfrm" -> XfrmEmit(answers)
      [] c = "wireguard" -> WgEmit(answers)
      [] c = "nftables" -> NftEmit(answers)
      [] c = "rtnetlink" -> RtEmit(answers)
      [] c = "rtnetlink_extended" -> RtxEmit(answers)
      [] c = "conntrack" -> CtEmit(answers)
      [] c = "conntrack_expect" -> ExpectEmit(answers)
      [] c = "sock_diag" -> SockEmit(answers)
      [] c = "traffic_control" -> TcEmit(answers)
      [] c = "drop_monitor" -> DropEmit(answers)
      [] c = "softnet" -> SoftnetEmit(answers)
      [] c = "netstat" -> NetstatEmit(answers)
      [] c = "softirq" -> SoftirqEmit(answers)
      [] c = "irq" -> IrqEmit(answers)
      [] c = "sockstat" -> SockstatEmit(answers)
      [] c = "nic_bql" -> BqlEmit(answers)
      [] c = "nic_pcie" -> PcieEmit(answers)
      [] c = "nic_temp" -> TempEmit(answers)

\* probe_available: one request, for most the first of a collect().
Probe(c) ==
    CASE c = "xfrm" -> XfrmProbe
      [] c = "rtnetlink" -> RtProbe
      [] c = "rtnetlink_extended" -> RtxProbe
      [] c = "conntrack_expect" -> ExpectProbe
      [] c = "sock_diag" -> SockProbe
      [] c = "drop_monitor" -> DropProbe
      [] OTHER -> Plan(c, <<>>)[1]

-----------------------------------------------------------------------------
(* The kernel.                                                             *)

\* An answer of the kernel in state t.  There is no file or object for an
\* argument that has vanished; only IPVS has an empty answer for it.
Answer(c, t, r) ==
    LET known == r.op \in DOMAIN Kernel[c][t] /\ r.arg \in DOMAIN Kernel[c][t][r.op]
        none == r.op \notin DOMAIN Kernel[c][t] \/ c = "ipvs"
    IN  [op |-> r.op, arg |-> r.arg,
         frames |-> IF known THEN Kernel[c][t][r.op][r.arg] ELSE <<>>,
         error |-> IF known \/ (none /\ r.kind # "read") THEN "none" ELSE "ENODEV"]

Errors(r) ==
    IF r.kind = "load" THEN {}
    ELSE IF r.kind = "read" THEN {"io"}
    ELSE Refusals \cup IF r.fresh THEN {"open"} ELSE {}

\* An answer without frames.
NoAnswer(r, e) == [op |-> r.op, arg |-> r.arg, frames |-> <<>>, error |-> e]

\* The answers of a collect() in which nothing happens: those of state t, but
\* for the requests that failed, or were answered by what remained of another,
\* in `failed'.  Each stage answers the
\* requests that the one before it led to.
MaxStages == 6
Undisturbed(c, t, failed) ==
    LET Reply(r) ==
            LET same == Where(failed, LAMBDA a : a.op = r.op /\ a.arg = r.arg)
            IN  IF same = <<>> THEN Answer(c, t, r)
                ELSE IF same[1].error = "stale" THEN same[1] ELSE NoAnswer(r, same[1].error)
        stage[n \in 0..MaxStages] == IF n = 0 THEN <<>> ELSE MapSeq(Plan(c, stage[n - 1]), Reply)
    IN  stage[MaxStages]

-----------------------------------------------------------------------------
Init ==
    /\ who \in Collectors
    /\ phase = "probe"
    /\ round = 0
    /\ now = 1 /\ begun = 1
    /\ got = <<>> /\ tries = 0
    /\ left = FALSE
    /\ result = "none" /\ body = <<>>

\* The kernel goes on to its next state between two requests.
Change ==
    /\ phase = "busy"
    /\ now < Len(Kernel[who])
    /\ now' = now + 1
    /\ UNCHANGED <<who, phase, round, begun, got, tries, left, result, body>>

\* The probe of startup.  tc.rs asks nothing and is always available; the
\* extended collector takes an interruption for a sign that it is.
Available(e) ==
    \/ e = "none"
    \/ who = "traffic_control"
    \/ who = "rtnetlink_extended" /\ e = "intr"

Startup ==
    /\ phase = "probe"
    /\ \E e \in {"none"} \cup Errors(Probe(who))
                         \cup IF Probe(who).kind = "dump" THEN {"intr"} ELSE {} :
            phase' = IF Available(e) THEN "idle" ELSE "off"
    /\ UNCHANGED <<who, round, now, begun, got, tries, left, result, body>>

Succeeded == phase = "done" /\ result = "ok"

\* None of the answers was left over from another request.
Clean == \A i \in DOMAIN got : got[i].error # "stale"

\* A scrape calls collect(), any time after the last one.
Begin ==
    /\ phase \in {"idle", "done"}
    /\ round < Rounds
    /\ phase' = "busy" /\ round' = round + 1
    /\ now' \in now..Len(Kernel[who])
    /\ begun' = now'
    /\ got' = <<>> /\ tries' = 0 /\ left' = FALSE
    /\ body' = IF Succeeded /\ ~Clean THEN <<>> ELSE Where(body, LAMBDA s : s.type = "counter")
    /\ UNCHANGED <<who, result>>

Asking == phase = "busy" /\ Len(Plan(who, got)) > Len(got)
Asked == Plan(who, got)[Len(got) + 1]
Failures == Where(got, LAMBDA a : a.error # "none")

\* Mutant: all requests of a collect() go through one socket.
OneSocket(r, before) == FALSE
\* A request does not use the socket of the one before it: it opens one, or it
\* is to WireGuard, after the links that list_wg_interfaces dumps on its own.
OtherSocket(r, before) == r.fresh \/ (before.op = "links" /\ r.op = "device")

\* A request before, on the same socket, did not get its answer.
FollowsFailure == got # <<>> /\ ~OtherSocket(Asked, Last(got)) /\ Last(got).error # "none"

\* What is received next is not the answer to the request that is sent next.
Dirty == left /\ (tries > 0 \/ FollowsFailure)

Taken(answer, remains) ==
    /\ got' = Append(got, answer) /\ tries' = 0 /\ left' = remains
    /\ UNCHANGED <<who, phase, round, now, begun, result, body>>

Stop(outcome) ==
    /\ phase' = "done" /\ result' = outcome /\ left' = FALSE
    /\ UNCHANGED <<who, round, now, begun, got, tries, body>>

\* Mutant: a failure that is tolerated ends the collect() with what there is.
SkipEnds(answer, remains) ==
    /\ got' = Append(got, answer) /\ tries' = 0 /\ left' = FALSE
    /\ phase' = "done" /\ result' = "ok" /\ body' = Emit(who, got')
    /\ UNCHANGED <<who, round, now, begun>>

\* A failure that is tolerated leaves the request without frames.
Skip(answer, remains) == Taken(answer, remains)

Failed(answer, remains) ==
    CASE Reaction(who, answer.op, answer.error) = "fail" -> Stop("failed")
      [] Reaction(who, answer.op, answer.error) = "empty" -> Stop("empty")
      [] Reaction(who, answer.op, answer.error) = "skip" -> Skip(answer, remains)

\* The kernel's answer, received whole.
Answered ==
    /\ Asking
    /\ ~Dirty
    /\ LET answer == Answer(who, now, Asked)
       IN  IF answer.error = "none" THEN Taken(answer, FALSE) ELSE Failed(answer, FALSE)

\* The errors with a name are all there is in their answer.  Others may come
\* before its end: one that cannot be parsed, or is lost, or refused because
\* the dump before it still goes on.
Refused ==
    /\ Asking
    /\ Len(Failures) < MaxFailures
    /\ \E e \in Errors(Asked), remains \in BOOLEAN :
          /\ e = "open" => tries = 0
          /\ remains => Dirty \/ e = "io"
          /\ Dirty => remains
          /\ Failed(NoAnswer(Asked, e), remains)

\* Mutant: the frames of an interrupted dump are handed over.
AbandonedKept(r, frames) == [NoAnswer(r, "intr") EXCEPT !.frames = frames]
\* The last attempt at a dump was interrupted after some frames.
Abandoned(r, frames) == NoAnswer(r, "intr")

\* A frame is flagged, and the rest of the dump is not received, unless it came
\* with that frame: the next attempt, or the next request, is sent on the socket
\* as it is.
Interrupted ==
    /\ Asking
    /\ Asked.kind = "dump"
    /\ Len(Failures) < MaxFailures
    /\ \E remains \in BOOLEAN :
          /\ Dirty => remains
          /\ IF tries + 1 < Asked.tries
             THEN /\ tries' = tries + 1 /\ left' = remains
                  /\ UNCHANGED <<who, phase, round, now, begun, got, result, body>>
             ELSE LET frames == Answer(who, now, Asked).frames
                  IN  \E n \in 0..Len(frames) :
                         Failed(Abandoned(Asked, SubSeq(frames, 1, n)), remains)

Tails(s) == {SubSeq(s, n + 1, Len(s)) : n \in 0..Len(s)}

\* What a request gets from a socket on which something remains.  The rest of
\* its own dump, after the last flag, is of one state of the kernel.
LeftFor(r) ==
    {<<>>} \cup (IF tries > 0 THEN UNION {Tails(Answer(who, t, r).frames) : t \in begun..now}
                ELSE {})
           \cup (IF FollowsFailure THEN Misreadings(who, r.op) ELSE {})
LeftAnswer(r, frames) == [NoAnswer(r, "stale") EXCEPT !.frames = frames]

\* parse_datagram does not look at nlmsg_seq: the call ends with the terminator
\* that is received first, which is not its own, and its own answer remains.
\* Past the bound the requests that follow on the socket get a terminator alone.
LeftOver ==
    /\ Asking
    /\ Dirty
    /\ \E frames \in LeftFor(Asked) :
          /\ \/ Len(Where(got, LAMBDA a : a.error = "stale")) < MaxLeft
             \/ tries = 0 /\ frames = <<>>
          /\ Taken(LeftAnswer(Asked, frames), TRUE)

\* All requests are answered.
Finish ==
    /\ phase = "busy"
    /\ Len(Plan(who, got)) = Len(got)
    /\ phase' = "done" /\ result' = "ok"
    /\ body' = Emit(who, got)
    /\ UNCHANGED <<who, round, now, begun, got, tries, left>>

Next == Change \/ Startup \/ Begin \/ Answered \/ Refused \/ Interrupted \/ LeftOver \/ Finish
Spec == Init /\ [][Next]_vars

-----------------------------------------------------------------------------
Instants == begun..now

\* Their samples combine the answers of several requests: a sum over them, or
\* a name that another request gives.
Combining == {"traffic_control", "sock_diag", "nic_bql"}

HasSample(samples, s) == \E i \in DOMAIN samples : samples[i] = s
HasSeries(samples, s) ==
    \E i \in DOMAIN samples : samples[i].name = s.name /\ samples[i].labels = s.labels

\* A rule that has a comment, and whose first counter has both numbers.
Countable(f) ==
    LET records == Attr(f, "userdata", <<>>)
        exprs == Attr(f, "exprs", <<>>)
        Counts(i) == Attr(exprs[i], "name", "") = "counter"
    IN  /\ \E i \in DOMAIN records : records[i].type = 0 /\ records[i].text # ""
        /\ \E i \in DOMAIN exprs :
              /\ Counts(i) /\ {"bytes", "packets"} \subseteq DOMAIN exprs[i]
              /\ \A j \in DOMAIN exprs : Counts(j) => i <= j

\* What an undisturbed collect() would report at an instant, with the same
\* failures.
At(t, failed) == Emit(who, Undisturbed(who, t, failed))

\* Each answer a collect() goes by is to the request that it made then, of the
\* kernel at some instant of this very collect() and whole; or it is a failure
\* that it tolerates, and then none of the frames before the failure are in it.
\* An answer that was left on the socket is possible only where an attempt at
\* the same dump, or the request before on the same socket, went wrong: and then
\* it is the rest of that dump, or what this request makes of another's.
AnswersReal ==
    \A i \in DOMAIN got :
        LET r == Plan(who, SubSeq(got, 1, i - 1))[i]
            follows == i > 1 /\ ~r.fresh /\ got[i - 1].error # "none"
        IN  CASE got[i].error = "none" -> \E t \in Instants : got[i] = Answer(who, t, r)
              [] got[i].error = "stale" ->
                    /\ got[i] = LeftAnswer(r, got[i].frames)
                    /\ \/ r.tries > 1 /\ \E t \in Instants :
                                            got[i].frames \in Tails(Answer(who, t, r).frames)
                       \/ follows /\ got[i].frames \in {<<>>} \cup Misreadings(who, r.op)
              [] OTHER -> /\ got[i] = NoAnswer(r, got[i].error)
                          /\ Reaction(who, r.op, got[i].error) = "skip"

\* However the kernel changes while a collector goes through its requests, each
\* sample is one that the kernel had at some instant of the collect(), or one
\* that it makes of what was left on a socket: no sample is made up of two
\* states, or of the frames of a dump before it was given up.
SampleReal ==
    Succeeded /\ who \notin Combining =>
        LET real == [t \in Instants |-> At(t, Failures)]
        IN  \A i \in DOMAIN body : \E t \in Instants : HasSample(real[t], body[i])

\* A series that is there all through a collect() is reported by it, unless
\* the request it is read by failed, or got what was left on its socket by a
\* dump that was interrupted: neither what comes and goes beside it nor a
\* failure of another request that the collector tolerates hides it.
StableReported ==
    Succeeded /\ who # "traffic_control" =>
        LET first == At(begun, Failures)
        IN  \A i \in DOMAIN first :
               \/ HasSeries(body, first[i])
               \/ \E t \in Instants : ~HasSeries(At(t, Failures), first[i])

\* The series that the labels do not tell apart: objects of a name in nftables
\* tables of one name (the family is no label), rules of a chain with the same
\* comment, IPVS services of one mark for both families, a WireGuard peer that
\* is continued in the next frame or shares its hash, sensors of two chips of
\* one name, and the two kinds of offload statistics.
Twice(s, Is(_)) == \E i, j \in DOMAIN s : i < j /\ Is(s[i]) /\ Is(s[j])
SharedAt(t, s) ==
    CASE who = "nftables" ->
            \/ /\ s.name # "nft_table_info" /\ "table" \in DOMAIN s.labels
               /\ Twice(KernelFrames(who, t, "tables", NoArg),
                        LAMBDA f : Attr(f, "name", "") = s.labels.table)
            \/ /\ "comment" \in DOMAIN s.labels
               /\ Twice(Each(KernelFrames(who, t, "rules", NoArg), NftRule),
                        LAMBDA r : r.labels = s.labels)
      [] who = "ipvs" ->
            Twice(KernelFrames(who, t, "services", NoArg),
                  LAMBDA f : Attr(f, "fwmark", "") # "" /\ f.fwmark = s.labels.port)
      [] who = "wireguard" ->
            /\ "peer" \in DOMAIN s.labels
            /\ Twice(Each(KernelFrames(who, t, "device", s.labels.interface), WgPeers),
                     LAMBDA p : p.id = s.labels.peer)
      [] who = "nic_temp" ->
            Twice(Where(got, LAMBDA a : a.op = "name" /\ a.arg[1] = s.labels.device),
                  LAMBDA a : a.frames = s.labels.sensor[1])
      [] who = "rtnetlink_extended" ->
            /\ s.name \in {"nft_link_xstats_offload_rx_bytes_total",
                           "nft_link_xstats_offload_tx_bytes_total"}
            /\ \E f \in ToSet(KernelFrames(who, t, "xstats", NoArg)) :
                  f.ifindex = s.labels.interface
                     /\ Twice(Attr(f, "stats", <<>>), LAMBDA a : a.kind \in {"cpu_hit", "l3"})
      [] OTHER -> FALSE

\* Of the answers of the kernel no collector reports a series twice, but for
\* what the kernel itself has twice under the same labels: the encoder drops all
\* but the first (Registry), and with them what they measure.  Nothing that
\* comes and goes between two requests makes a series appear twice.
SeriesDistinct ==
    Succeeded /\ Clean =>
        \A i, j \in DOMAIN body :
            i < j /\ Series(body[i]) = Series(body[j]) => \E t \in Instants : SharedAt(t, body[i])

\* From one successful scrape to the next no counter decreases as long as
\* those of the kernel do not, whatever devices and objects come and go in
\* between.  It is said of scrapes without an answer that was left on a socket,
\* and not of series that are reported twice, nor of what the code calls a
\* counter and is a sum over things that come and go: the counters of the
\* sockets that are open (sockdiag.rs), the rules over the cap (nftables.rs:969)
\* and the queues whose device was not among the links dumped before (tc.rs).
\* An interrupt is summed over the CPUs that are online (irq.rs:96), so
\* nft_irq_total does decrease when one goes offline: it is spoken of as long as
\* no column of /proc/interrupts has gone or moved.
Cumulative(s) ==
    /\ s.type = "counter"
    /\ s.name \notin {"nft_socket_drops_total", "nft_socket_retransmits_total",
                      "nft_scrape_collector_error_total"}
    /\ who = "traffic_control" => s.labels.device # "unknown"
    /\ who = "irq" => \A t, u \in 1..now : t <= u => AdvancedFrom("irq", t, u)
OnceIn(samples, s) == ~Twice(samples, LAMBDA x : Series(x) = Series(s))
CountersGrow ==
    [][body' # body /\ Clean' =>
         \A i \in DOMAIN body : Cumulative(body[i]) /\ OnceIn(body, body[i]) =>
            \A j \in DOMAIN body' :
               Series(body[i]) = Series(body'[j]) /\ OnceIn(body', body[i])
                  => body[i].value <= body'[j].value
      ]_vars

\* How often, and with which sum, the body has the metric.
CountOf(name) == Len(Where(body, LAMBDA s : s.name = name))
SumOf(name) == TotalOf(Where(body, LAMBDA s : s.name = name), LAMBDA s : s.value)

\* The kernel's frames for op, and those that are whole.
AllFramesFor(op, arg) == KernelFrames(who, now, op, arg)
AllFrames(op) == AllFramesFor(op, NoArg)
WholeFrames(op) == Where(AllFrames(op), LAMBDA f : f # <<>>)
Peers(name) ==
    TotalOf(AllFramesFor("device", name),
            LAMBDA f : Len(Where(Attr(f, "peers", <<>>), LAMBDA p : "key" \in DOMAIN p)))

\* The key by which the kernel knows an IPVS service.
KeyOf(f) ==
    IF "fwmark" \in DOMAIN f THEN [af |-> f.af, fwmark |-> f.fwmark]
    ELSE [af |-> f.af, proto |-> f.proto, vip |-> f.addr[f.af], port |-> f.port]

\* The code takes a firewall mark for one of IPv4 (line 331 of ipvs.rs).
Guessed(f) == "fwmark" \in DOMAIN f => f.af = "inet"

\* What is counted or cut off is accounted for: every rule with a counter and
\* a comment is reported or is in the overflow, every peer of a device is in
\* its peer count and has series up to the cap, however the kernel splits the
\* device over frames, every destination up to the cap of its own service, for
\* the services up to theirs, and every socket, address, route, neighbour,
\* expectation and byte sent is in one bucket, short of the largest number.
NothingLost ==
    Succeeded /\ begun = now /\ Failures = <<>> =>
        CASE who = "nftables" ->
                CountOf("nft_rule_counter_bytes_total") + SumOf("nft_scrape_collector_error_total")
                    = Len(Where(AllFrames("rules"), Countable))
          [] who = "wireguard" ->
                LET names == Devices(now)
                IN  /\ SumOf("nft_wireguard_device_peer_count")
                           = TotalOf(SetToSeq(names), Peers)
                    /\ CountOf("nft_wireguard_peer_receive_bytes_total")
                           = TotalOf(SetToSeq(names), LAMBDA n : Smaller(Peers(n), WgMaxPeers))
          [] who = "ipvs" ->
                LET services == Take(AllFrames("services"), IpvsMaxServices)
                    Dests(f) == AllFramesFor("dests", KeyOf(f))
                IN  (\A i \in DOMAIN services : Guessed(services[i]))
                       => CountOf("nft_ipvs_dest_weight")
                             = TotalOf(services, LAMBDA f : Smaller(Len(Dests(f)), IpvsMaxDests))
          [] who = "sock_diag" ->
                SumOf("nft_socket_count") = TotalOf(SockDumps, LAMBDA d : Len(WholeFrames(d.op)))
          [] who = "traffic_control" ->
                LET sent == TotalOf(AllFrames("qdiscs"),
                                    LAMBDA f : IF "basic" \in DOMAIN f THEN f.basic.bytes ELSE 0)
                IN  sent <= SumMax => SumOf("nft_tc_qdisc_bytes_total") = sent
          [] who = "rtnetlink" ->
                /\ SumOf("nft_address_count") = Len(WholeFrames("addresses"))
                /\ SumOf("nft_route_count") = Len(WholeFrames("routes"))
                /\ SumOf("nft_neighbor_count")
                       = Len(Where(WholeFrames("neighbours"), LAMBDA f : f.family # "bridge"))
          [] who = "conntrack_expect" ->
                SumOf("nft_conntrack_expectations")
                    = Smaller(Len(WholeFrames("expect")), ExpectCap)
          [] OTHER -> TRUE

\* Every reading is one that the kernel had, with no exemption for a dump that
\* was interrupted to the end.  The code reports no fib rules then (line 347 of
\* rt_extended.rs); netlink-protocol.md:295 has the state discarded and the
\* dump restarted.
ReadingsReal ==
    Succeeded =>
        LET refused == Where(Failures, LAMBDA a : a.error # "intr")
        IN  \A i \in DOMAIN body : \E t \in Instants : HasSample(At(t, refused), body[i])
=============================================================================
