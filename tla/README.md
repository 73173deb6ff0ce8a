# netlink_exporter: TLA+ models and proofs

netlink_exporter is a Prometheus exporter for Linux. On every `GET /metrics` it
asks the kernel, over netlink and procfs, for the state of the network stack,
encodes the answers and sends them. This directory holds TLA+ modules that
translate its control flow, TLC configurations that check them on small
instances, and proofs, checked by TLAPS, that the main results hold for every
value of the constants.

Paths below are relative to `src/crates/`.

## 1. Inventory

### How the program runs

One thread runs a monoio executor: the accept loop, one task per connection and
the timers. A task is only interleaved with others at an `await`. Netlink dumps
block, so a collector hands each one to `spawn_blocking`, which a pool of four
threads executes. One further thread, `nft-dropmon`, receives drop alerts. What
they share: the pool's queue, the atomic error counters, the encoded body in an
`ArcSwap`, the readiness flag and the drop counters.

    client --HTTP--> server.rs --scrape()--> scrape.rs --collect()--> collectors
                        |                        |                        |
                        |                        v               spawn_blocking, 4 threads
                        +--encode_text()--> registry.rs                   |
                                                                  transport.rs --> kernel
                       drop_monitor.rs counters <-- nft-dropmon thread <-- alerts

### Components

| component | state | operations | what is hard | correct when |
|---|---|---|---|---|
| scrape fan-out, `netlink_exporter/src/scrape.rs` | error counters, startup availability | `scrape()`: each collector in turn under a timeout, telemetry, publication | overlapping scrapes, failures half-way, a deadline that races an answer | every client gets its own complete body; no error is lost or counted twice; counters never go back |
| blocking pool, `main.rs` (monoio) | queue, four threads | run a job | a timeout drops the future, not the job | what is awaited is somewhere in the pool; leaked jobs are visible |
| transport, `nlx-netlink/src/transport.rs`, with the retry loops of the collectors | socket, sequence number, `SO_RCVBUF` | `dump`, `request_single`, ENOBUFS growth, `NLM_F_DUMP_INTR` | lost, flagged and left-over datagrams; recv has no timeout | an undisturbed dump is exact; no flagged frame is used; recv waits only for something that comes |
| drop monitor, `collectors/drop_monitor.rs`, and startup in `main.rs` | two counters, each thread's capabilities | set up, drop capabilities, receive, scrape | order of privileged steps; `capset` is of one thread; alerts during setup; overruns | no drop lost or repeated; neither the accepting thread nor the listener over-privileged |
| HTTP adapter, `nlx-http/src/server.rs` | back-off, per-connection buffer | accept, accumulate a head, dispatch, answer | heads cut by TCP, slow clients, failing accepts | no fitting request refused, memory bounded, nobody delayed by somebody else |
| metrics registry, `nlx-metrics/src/registry.rs` | encoded text | `update_samples`, `encode_text` | duplicates across collectors, escapes that collide | each series once, grouped, first one kept, drops reported |
| attribute iterator, `nlx-netlink/src/wire.rs` | the slice left to read, one for each nested loop | `next`, `parse_attrs`, `nested_attrs` | any bytes: lengths below the header or past the end, padding cut off | no slice leaves the payload it was cut from; a message is read in full; every loop ends |
| thirteen netlink collectors, `nlx-netlink/src/collectors/` | none between scrapes | `probe_available`, `collect`: requests in order, each depending on the answers before it | the kernel changes between two requests; dumps are interrupted; some requests may fail and some may not; caps | samples are real and complete, series distinct, counters grow, and what is cut off is accounted for |
| eight procfs and sysfs collectors, `nlx-procfs` | none | read and parse files | files that come and go, columns that change their meaning | the same |
| configuration, `nlx-config` | none after start | merge defaults, file, environment, command line | | not modelled, see section 6 |
| domain types and `ScrapeLifecycle`, ports | data and traits | | | not modelled, see section 6 |
| packaging, deployment, documents | | | | not modelled |

`PROJECT.json` lists every component with its status and every hazard at its
line, with the properties that would notice it going wrong.

## 2. Modules

| module | models | instances | proofs |
|---|---|---|---|
| `Scrape` | fan-out, pool, error counters, published body | `MCScrape` | `ScrapeProofs` |
| `ScrapeContract` | abstract: what `GET /metrics` promises | (property of `Scrape`) | `ScrapeProofs` |
| `NetlinkDump` | one socket during one `collect()`, retry loop, kernel's side | `MCNetlinkDump` | `NetlinkDumpProofs` |
| `DropMonitor` | startup order and the alert listener | `MCDropMonitor` | `DropMonitorProofs` |
| `HttpServer` | readiness, accept loop, connection tasks, clients | `MCHttpServer` | `HttpServerProofs`, `InductionProofs` |
| `Registry` | one `update_samples`, down to the text of a line | `MCRegistry` | `RegistryProofs`, `InductionProofs` |
| `Wire` | the loops of a parser over the attributes of a message | `MCWire` | `WireProofs` |
| `Collect` | a collector's probe and its scrapes, against a changing kernel | `MCCollect` | `CollectProofs`, `InductionProofs` |
| `Collecting` | requests, answers and samples, shared by the collectors | | |
| `Summing` | sums over a sequence, shared by `DropMonitor` and `Collecting` | | `InductionProofs` |
| `Devlink`, `Ethtool`, `Ipvs`, `Xfrm`, `Wireguard`, `Nftables`, `Rt`, `RtExtended`, `Conntrack` (with expectations), `Sockdiag`, `Tc`, `DropStats`, `Procfs` (eight collectors) | each collector's requests, failures and samples | in `MCCollect` | |

`InductionProofs` holds what several proofs need of sequences of any length:
induction over the naturals for a set of them, joining sequences end to end,
when a joined sequence can be read back, and what sums do when sequences are
split, grouped, reordered or grow.

In every module the definitions whose comment begins with "Mutant" are wrong on
purpose: each changes the definition that follows it as a plausible bug would,
and the property paired with it in `PROJECT.json` fails if it is put in place.
They are no part of the specification.

### Scrape

`polled` is the task the executor is polling; all other tasks stand still until
it awaits. That is how "no await in between" is expressed: `Publish` and
`Respond` are two actions, but only `Dispatch` and `Respond` give `polled` up.
`Begin`/`Respond` are `handle_metrics`; `Skip`, `Start`, `CollectOk`,
`CollectErr`, `Timeout` and `Publish` are the branches of the loop in `scrape()`
and its end; `Dispatch` and `Resume` are `spawn_blocking(..).await` in the
transport; `Take`, `Finish` and `Hang` are a pool thread. A job is named by
request, collector and number, so a late answer can be told from the awaited
one. `Jobs[c]` is the number of dumps in a `collect()`; it is 0 for procfs
collectors, which therefore never suspend and never time out, as in the code.
A collector may return an error at any point of its `collect()`.

`ScrapeContract` says the same from outside: every request gets one body, its
own, covering every enabled collector, with counters that are at least those of
every earlier answer and at least the failures these answers report. `Scrape`
implements it with `asked` = requests begun and `answer` = `response`.

### NetlinkDump

The code's part is `Request`, `Send`, `Recv`, `Overflow`, `Fail`; parsing a
datagram is `Stops`, `Stop`, `Verdict` and `Frames`. The kernel is external and
modelled from what the transport has to handle: one datagram when a dump starts
and one more per recv, a refusal while another dump runs, an inconsistency flag
on any datagram but the first, a lost datagram reported as `ENOBUFS`. Flagged
frames end the call with `DumpIntr` and the loop retries on the same socket.
`disturbed` (a datagram was flagged since the socket opened) and `answers` are
history. A lost datagram does not disturb what follows: the request is sent again with
nothing received, and is answered from the start, or refused if the dump still goes on.

### DropMonitor

`Boot` is the sequence of steps of `run()` and `setup_listener_socket`; failed
setup goes on with the step after it (`SkipListener`). Capabilities are three
levels, all, `CAP_NET_ADMIN` and none, of each thread, because `capset(2)` is of the
thread that calls it: `caps` of the main thread, `lcaps` of the listener, which
inherits and clears them, and `pool` of the four threads that `main()` starts before
`run()` and that no step of `Boot` reaches. The listener is `recv_loop` inside its
restart loop, with the two `fetch_add`s of an alert as two steps. What
`parse_summary_alert` makes of an alert, a sum for each origin, is `Alert`. The
overflow query a scrape also makes is in `DropStats`.

### HttpServer

A request is a length, the position where its head is complete (0: never), a
path, and whether its bytes are UTF-8. `Send` delivers any number of bytes and
`Read` takes any number up to `Chunk`, hence every segmentation is explored.
One `Read` is the whole turn of the loop in `handle_conn` including the response
written without suspending. `Scraped` stands for all of `Scrape`. `HealthService`
is always healthy and `scrape()` never returns `Err`, so the 503 of `/healthz`
and the 500 of `/metrics` do not occur.

### Registry

`Check` is `duplicate_series` and its warning, `Insert` one turn of the grouping
loop, `Encode` the writing of the text. Label values are sequences of characters
because the guard compares one text of the labels (`SeriesKey`) and the encoder
writes another (`Rendered`). `Chars` are the characters a label text can have,
those the code treats specially among them. Help, kind and value are abstracted to the position
of the sample they come from.

### Collect and the collectors

A `collect()` has no state of its own but its local variables, and these follow
from the answers it has had. A collector is therefore four operators, one module
each: `...Plan`, the requests it makes, as far as the answers so far determine
them; `...Reaction`, what it does when one fails (fail, return an empty list, or
go on without); `...Probe` where `probe_available` is not the first request of the
plan; and `...Emit`, the samples of the answers, with every bucket, sum, cap and
label. `Collect` runs them: `Startup` probes, `Begin` is the call from the
fan-out, `Answered`, `Refused` and `Interrupted` end one request, `Finish` builds
the samples, and `Change` lets the kernel go on between any two requests. A failed
socket is the error "open" of the request it would have been used for.

Where a dump is interrupted, or an answer breaks off, its other datagrams may stay
on the socket (`left`), and nothing the code looks at tells them from the answer to
what it sends next. While a retry or the next request of the same socket (`Dirty`)
is up, `LeftOver` gives it what is there: after an interruption the rest of this
dump as the kernel had it at any instant of the `collect()` (`Tails`), after the
failure of another request what its frames are taken for (`Misread`), or nothing.
The answer is noted as "stale", which the code does not see, and since it ended with
another's terminator its own stays behind for the request after it. A socket opened anew (`OtherSocket`) is clean.

A frame is a function on the attributes it carries; one that is too short for its
header carries none, an attribute too short to be read counts as absent, since
both end in the same value. Byte offsets are names. `Wire` stands below this: that
the attributes of a message are found and none besides. `NetlinkDump` stands
beside it: that a dump on a socket where nothing was flagged is what the kernel
sent, which is why such a request is one step here, and that one after a flag may be
something else (`RepliesMatchSeq`), which is `LeftOver` here.

### Wire

A buffer is what stands where a header can be read, at multiples of four. `Read`
is one turn of a `for` loop over an iterator, `ReadNested` one whose body opens a
loop over `nested_attrs` of the payload, `Finish` the end of the innermost loop:
together every parser of the collectors, whatever it does with what it reads.

## 3. Runs

| run | configuration | shows |
|---|---|---|
| `scrape` | `MCScrape.cfg` | two overlapping scrapes: own bodies, exact counters, answers despite hanging dumps, refinement of the contract (which has it that bodies are complete) |
| `scrape_pool` | `MCScrapePool.cfg` | *violation*: four timed-out dumps use up the pool |
| `dump` | `MCNetlinkDump.cfg` | dumps under interruption, refusal and loss |
| `dump_seq` | `MCNetlinkDumpSeq.cfg` | *violation*: a retry is answered by datagrams of the dump before it |
| `drop_monitor` | `MCDropMonitor.cfg` | startup and listener, privileged or not |
| `pool_caps` | `MCPoolCaps.cfg` | *violation*: the pool threads serve with every capability |
| `http` | `MCHttpServer.cfg` | segmentation, cap, back-off, stalling clients |
| `registry` | `MCRegistry.cfg` | all lists of up to four samples |
| `registry_controls` | `MCRegistryControls.cfg` | *violation*: equal lines from different labels |
| `collect` | `MCCollect.cfg` | 21 collectors, two scrapes each: answers and samples real or left over from an interruption, complete, distinct but where labels confuse two objects, accounted for, counters that grow |
| `collect_fib` | `MCCollectFib.cfg` | *violation*: an interrupted dump of rules is reported as no rules |
| `wire` | `MCWire.cfg` | every buffer of up to 15 bytes over chosen lengths, three loops deep |

### Bounds, and why they are enough

* `scrape`: two requests are the smallest overlap, and everything shared is
  shared between two. Collectors: one with two dumps, one with one, one without,
  one unavailable. Two threads, fewer than can hang, so that a dump may queue
  behind hung ones. No bound on counters is needed since a request is served once.
* `scrape_pool`: the real pool size, four threads, and five requests. Its
  specification is `PatientSpec`: a timer fires only on a dump that cannot be
  answered any more, and the kernel answers or hangs. Without this restriction
  the property would be refuted by any timeout.
* `dump`: three parts make a first, a middle and a last datagram; three dumps in
  a row take the 4 MiB buffer to its maximum of 16 and try once more; the
  family resolution before and the plain request after are where left-over
  datagrams hurt. `Attempts` is 3 instead of 8 or 9: the loop has no other use
  of the number. Sequence numbers start at 0 or just before wrapping; the modulus
  is larger than the requests of a run, as 2^32 is.
* `drop_monitor`: a queue of two and three alerts reach the overrun, two errors
  reach a repeated restart, counts of one in either origin give the split add.
* `http`: cap 4 and chunk 2 keep the ratio that matters, a cap that is a
  multiple of the chunk (8192 and 512); heads end below the cap, at it, one byte
  past it, and never. Back-off 1, 2, 3 reaches its cap on the third error; longer
  streaks are counted as three, where the wait no longer changes.
* `registry`: four samples allow a duplicate in either of two groups, adjacent
  or not. Label sets are chosen to become the same text if an escape is forgotten:
  a newline against a backslash and an `n`, a quote that would close its value.
* `collect`: two scrapes are the smallest number between which a counter can go
  back. The kernel of each collector has two or three states, chosen so that an
  object stays while another comes and a third goes, several objects fall into one
  bucket, names and attributes are missing, and each cap, set to 2, is passed by
  one. Two tolerated failures (`MaxFailures`) show that one does not hide the
  effect of the other; failures that end a `collect()` need no bound. `MaxLeft`, also 2,
  are the requests of a `collect()` answered by what is on the socket: the retry
  itself and the request after it; those that follow get a terminator alone. `Misread`
  has, for six collectors that go on with one socket after a failure or a misread dump,
  what a parser makes of another's frames. The kernel of `nftables`, `ipvs`,
  `wireguard`, `nic_temp` and `rtnetlink_extended` has each of the series that labels
  confuse, and that of `irq` and `softirq` loses a CPU.
* `wire`: lengths below, at and one past each multiple of four that matters, with
  every amount of padding, cut off or not; three loops are the deepest nesting of
  the parsers but for the statistics of a WireGuard peer, and the proof has no bound.

What the properties of `collect` except, and why:

* `SampleReal` leaves out sums over several requests (`traffic_control`,
  `sock_diag`, `nic_bql`), which no code could make instantaneous.
* `StableReported` and `SampleReal` compare with a collector to which the same
  requests failed, or were answered by the same left-over frames: that frames can be
  left over is the finding of `dump_seq`; what the two say is that nothing else goes
  wrong. After an interruption a retry may end on the rest of the first attempt, and an
  object which is there all along is then missing without an error: `StableReported`
  excepts it, and it is a consequence of the finding. The run `collect_fib` is the
  same comparison without the leniency for interruptions.
* `SeriesDistinct` and `CountersGrow` are of bodies without a left-over answer (`Clean`).
* `SeriesDistinct` excepts what the kernel has twice under the labels the code chose
  (`SharedAt`), and nothing else: objects in nftables tables of one name; rules of a
  chain with one comment; IPVS services of one firewall mark for both families; a
  WireGuard peer whose allowed addresses go on in a second frame
  (`wireguard.rs:324` takes it for two peers) or whose hash another has; hwmon chips of
  one name at one device (`nic_temp.rs:105`); and CPU-hit beside L3 statistics of one
  interface (`rt_extended.rs:464`). In the instance all of these occur but two keys of one hash.
* `CountersGrow` leaves out the counters that are sums over what comes and goes
  itself: drops and retransmits of the open sockets, the number of rules over the
  cap (`nftables.rs:969` calls it a counter), and the queues of a device that was
  not among the links. `nft_irq_total` is a sum over the CPUs that are online
  (`irq.rs:96`), so it goes back when one goes offline: it is spoken of only while no
  column of `/proc/interrupts` has gone or moved. Series reported twice are left out too.
* `NothingLost` is of a `collect()` nothing failed in, and for `ipvs` of services whose
  family the colon tells right (`ipvs.rs:331` asks for the destinations of an IPv6
  firewall mark as for IPv4).

### Fairness

* `Scrape!FairSpec`: each task proceeds (the executor polls ready tasks and
  fires timers). Nothing is assumed of the kernel or of pool threads: dumps may
  hang for ever and `Answered` holds all the same.
* `NetlinkDump!FairSpec`: the pool thread keeps running. A recv is only enabled
  when something is queued or an overrun is due.
* `DropMonitor!FairSpec`: the main thread and the listener are scheduled. Errors
  are bounded by `MaxErrors`.
* `Wire!FairSpec`: the loop is executed.
* `HttpServer!FairSpec`: the back-off sleep ends; reads whose bytes have come
  are polled; accept is strongly fair, since `accept()` that fails again and
  again (the loop is then asleep, and in between tries) is not assumed away: only
  that it does not fail every single time. Clients and scrapes owe nothing.

## 4. What the violations say

* **Pool** (`main.rs:80`). Dropping a timed-out `collect()` does not end its job.
  Four scrapes with one hanging collector hold all four threads, and from the
  fifth on every netlink collector times out, while
  `docs/arch/specs/features/collector-failure-isolation.feature:39` promises
  isolation. What does hold: the scrape is answered (`Answered`) and the leak is
  visible in `error_total` (`OrphansReported`).
* **Sequence numbers** (`transport.rs:324`). Replies are not matched to requests,
  so a retry after `DumpIntr` on the same socket consumes the rest of the
  interrupted dump. `docs/arch/domain/netlink-protocol.md:199` says to match them.
* **Capabilities of the pool** (`main.rs:148`). The four threads of the pool exist
  when `drop_caps_to_net_admin` calls `capset(2)`, which is of the calling thread: the
  requests of the scrapes, which run on them, have all the capabilities the process
  was started with. `main.rs:19` says that the process drops them. What does
  hold: the thread that accepts connections, and the listener (`ServesDeprivileged`,
  `ListensDeprivileged`).
* **Duplicate guard** (`registry.rs:153`). It compares the label values before
  control characters are stripped, so two different label sets can give two equal
  lines, which the comment above it excludes.
* **Routing rules** (`rt_extended.rs:347`). A dump of `RTM_GETRULE` that is
  interrupted is not retried and counts as no rules: `nft_fib_rules` drops to 0 and
  comes back. `docs/arch/domain/netlink-protocol.md:295` wants a restart, and an
  error after the last one; all other dumps of the collectors have this.

Divergences without a run:

* **Readiness** (`main.rs:171`). `set_ready` is called before the socket is bound and
  by nobody else, so `/ready` answers 200 from the first request on;
  `docs/arch/adr/0010-http-exposition-stack.md:17` and `scrape-lifecycle.feature:34`
  want a successful scrape first.
* `collector-failure-isolation.feature:47` promises the previous snapshot of a failed
  collector, and the program keeps none.
* **Series reported twice.** The series of chains, rules, counters and sets carry the
  name of their table and not its family (`nftables.rs:912`). With a table of one name
  for `ip` and one for `ip6`, as iptables-nft sets them up, their chains give the same
  series and the encoder drops the second, where
  `docs/arch/schemas/metric_contract.cue:152` promises one for each chain. The others of
  this kind are listed in section 3; the instance of `collect` has them, and without
  its exceptions `SeriesDistinct` fails for each of the five collectors.
* **Counters that go back.** `nft_irq_total` when a CPU goes offline, and the number of
  rules over the cap when rules are deleted, are declared as counters.

## 5. Proofs

All theorems are about the `Spec` of a module with unspecified constants, under
the assumptions named beside them (`OrderAssumption`, `BoundsAssumption`, ...):
finite sequences are sequences, limits are natural numbers in order, markers such
as `NoJob` are no values of the set they mark. TLC evaluates each on its runs.

* **Scrape** (`ScrapeProofs`: `TypeCorrect`, `OwnBodyHolds`, `CompleteBodyHolds`,
  `PublishedErrorsMonotoneHolds`). `OwnBody` alone is not inductive: an answer is
  one's own because the published body is. The invariant adds that a task that
  is not at an await is the one polled, hence at most one is; that a task that has published and not yet answered
  finds its own body in `encoded`; that its outcomes are at most N and skip
  exactly the unavailable ones; and that the published counters are at most the
  current ones.
* **Contract** (`ScrapeProofs`: `ErrorsAccountedHolds`,
  `ContractImplemented`). The counters equal the number of failed scrapes, which
  needs that a collector occurs once in `Order`, so that an outcome appended is a
  request added to the set. For the refinement the invariant also says that the
  body published last dominates all answers. Then `Begin` is `Ask`, `Respond` is
  `Reply` and every other step stutters.
* **Pool** (`ScrapeProofs`: `AwaitBackedHolds`, `OrphansReportedHolds`). Each
  job the pool holds is the one its task waits for, or belongs to a `collect()`
  recorded as timed out; and the pool holds at most one job of a `collect()`, which
  is what makes the job an answer comes from unique. The abandoned jobs of a
  collector then map one to one into the scrapes in which it failed, and those
  are what `error_total` counts (`ErrorsAccountedHolds`).
* **NetlinkDump** (`TypeCorrect`, `RecvAnsweredHolds`, `RcvbufBoundedHolds`,
  `NoInterruptedFrameHolds`). `RecvAnswered` needs more than a non-empty queue: if
  no dump is running, some queued datagram ends the parsing, because `Recv` of a
  "more" datagram goes on receiving. `RcvbufBounded` needs the exact relation of
  the three sizes: the one in force is the tracked one or its capped double, so a
  failed attempt that grew the buffer cannot make a later one exceed it.
  `NoInterruptedFrame` needs the same of `out`, and a lemma that the frames before
  the first stop of a datagram are unflagged. `CleanDumpCompleteHolds` is over a
  second invariant: on a socket where nothing was flagged so far, a request starts with
  an empty queue and no dump running, and during a dump the queue holds exactly the
  datagram of the part that follows those already in `out`, or that one was lost and an
  overrun is due, or the request sent again was refused because the dump goes on.
* **DropMonitor** (`DropMonitorProofs`: `TypeCorrect`, `DeprivilegedServing`,
  `DeprivilegedListening`, `ListenerRuns`, `TotalsMonotone`,
  `DropsConservedHolds`). The invariant says
  what each step of startup has achieved once it is passed, by its position: that
  the queue is empty while the group is not joined is what makes the ACK of CONFIG
  and START the datagram that is taken. `TotalsMonotone` needs that a scrape has
  read at most what is counted. `DeprivilegedServing` is of the main thread, and says
  with it that the threads of the pool keep what they were started with. `DropsConserved` is a ledger: what was reported
  under an origin is the sum over the queue, the alert in hand, the counters and
  what overruns lost. The sum is a recursive function on the positions of the
  queue (`Summing`), so the proof first shows, by induction over the queue's
  length, what taking its head, adding to its end and clearing it do to it.
* **HttpServer** (`TypeCorrect`, `BufferBoundedHolds`, `DroppedJustlyHolds`,
  `BackoffHolds`).
  Before it is accepted a connection has read nothing, and a task that reads on
  holds less than the cap; one read adds at most `Chunk`. A drop at the cap means
  the head ends beyond what was read. `BackoffFollowsStreak` compares the wait,
  which the code doubles and caps step by step, with the recursive function
  `Wait` of the errors in a row; that such a function exists is proved by
  induction, and then the invariant steps along it.
* **Registry** (`FirstKeptHolds`, `DropsReportedHolds`). The keys seen under a
  name are exactly those of the samples looked at, so the guard is true exactly
  for the first of a series; the positions kept are then the first ones, and the
  warning, computed from the samples alone, names the complement.
  `TypeCorrect` and `GroupedByNameHolds` describe the text: the body is the blocks
  of the names in the order they were first seen, each a header and the lines of
  the positions kept, which increase; joining blocks end to end keeps their order.
  `SeriesUniqueHolds` and `FirstOfEachSeriesHolds` are about escapes: every key and
  every line is a joined sequence of words none of which begins another, so the
  labels can be read back from it, and two equal lines have equal keys. The first
  assumes that no label text has a control character, and the run
  `registry_controls` shows that it is false otherwise; the second only that none
  has the character that closes a value in a key.
* **Wire** (`InsideHolds`, `MessageReadHolds`). `Inside` needs that an iterator stands at a multiple
  of four or has nothing left, for a length may otherwise be read across two
  attributes; from there a stride of `align4` covers its attribute, and the end
  of a nested loop is the end of the payload its parent has left behind.
  `MessageRead` is over every way to lay attributes one after the other: if the
  buffer holds such a chain, with the padding after its last attribute or without,
  the outer loop has at each step read the part of the chain before it, and it
  cannot stop before the end.

* **Collect** (`CollectProofs`: `AnswersRealHolds`, `SampleRealHolds`,
  `StableReportedHolds`, `SeriesDistinctHolds`). `AnswersReal` is of all 21 collectors,
  for any kernel: each answer a `collect()` goes by was given to the request it had come to then, by the
  kernel at one of its instants; or it was left on the socket, and then by an earlier
  attempt at the same dump, as the kernel had it at one of these instants, or by the
  request before on that socket, which had failed or was itself answered so. It is inductive once the invariant says that the
  requests made so far do not change with the answers that follow, that is, speaks
  of the plan at each answer and not of the present one. From it follow the other
  two for nine collectors, `Independent`: those of `ethtool`, `conntrack`,
  `conntrack_expect`, `rtnetlink`, `xfrm`, `softnet`, `softirq`, `irq` and `sockstat`.
  Their plan is the same whatever is answered, and no two of its requests have one
  name, so the frames a part of the body is made of are those of one answer, and that
  is of one instant, or is the same in what the property compares with, if it was left
  over. For three of them, with several requests, the body is taken
  apart: each part has metric names no other part has, so that a series found in
  the whole body is found in its own part. Both theorems assume of the kernel only
  that an answer is a finite sequence of frames (`KernelAssumption`).
  `SeriesDistinct` is proved of eleven, none of which has a case in `SharedAt`, those nine and `traffic_control` and
  `sock_diag`, whose plans are fixed too. A sequence joined of several has no series
  twice when none of them has and no two share one. What tells two of them apart
  differs: a metric name (the parts of `rtnetlink`, `xfrm`, `conntrack` and
  `sock_diag`); the key of a bucket, which the code groups by, whatever falls into
  it; or a label that the kernel gives once, such as the name of an interface, the
  number of an interrupt or a column of `/proc/softirqs`. The last is
  `NamingAssumption`; what it leaves to the code is that the table of labels does not
  make one label of two of them, and that nothing is emitted for the frames it says
  nothing of.
* **Nothing lost** (`CollectProofs`: `NothingLostHolds`), of every collector and any
  kernel. Which frames there are is known once no request failed and the kernel did
  not change: the answers are then those of one state, each to the request the plan
  has next. For `wireguard` and `ipvs` the requests that follow a list are those the
  list calls for, in its order, whatever order the kernel keeps its devices in. That the plan
  asks for more as long as a `collect()` goes on has to be part of the invariant: it
  says for each answer that the plan of those before it was longer than they were.
  From the frames it goes on to the items in them, since a WireGuard device can take
  several frames and each of them several peers; from the items to the buckets they fall into,
  of which each item is in exactly one; from the buckets to what is reported and what
  the caps leave over; and at each step the sum stays the same (`Amount`, the sum of
  what a sequence of samples says under one name). For `traffic_control`
  this is up to the largest value a sum can have, and for `ipvs` of the services
  whose family the colon tells right; both are in the property.
* **Counters** (`CollectProofs`: `CountersGrowHolds`), of the five collectors in
  `CountedBy`: `rtnetlink`, `conntrack`, `softnet`, `softirq` and `irq`. All counters
  of a body come from the answer to one request, and that is of one instant of its
  `collect()`. The invariant dates the body before the step and the present
  `collect()`: the instant the last body is of is not later than the one the
  current `collect()` began at, hence not later than any the next body is of, also if
  scrapes in between failed and left no body. That two samples are of one series is
  then traced back to one link by its name, one CPU by its label, one column of
  `/proc/softirqs` by the CPU heading it and not by its position, or one interrupt by
  its number; for an interrupt the condition on the columns is in the property, and the
  kernel may do with them what it likes. That a body with a left-over answer is not
  compared is part of the dating: `Begin` forgets it. What the code adds up only grows when none of its terms goes back
  (`TotalOnward`).

What these theorems assume of the kernel, in `Collect`, is evaluated by TLC of the
instance like every other assumption, and is external: the code neither checks
nor ensures it.

| assumption | says | used by |
|---|---|---|
| `KernelAssumption` | there is a sequence of states, and an answer is a finite sequence of frames | all of them |
| `NamingAssumption` | a link, CPU, interrupt, statistic or row is listed once in an answer | `SeriesDistinctHolds`, `NothingLostHolds`, `CountersGrowHolds` |
| `FrameAssumption` | lists are finite and counts natural numbers; every frame of a WireGuard device repeats its name (as `wireguard.rs:309` has it); an IPVS service has a firewall mark or an address | `NothingLostHolds`, `CountersGrowHolds` |
| `DeviceAssumption` | the dump of links has each WireGuard device once, and there is no other | `NothingLostHolds` |
| `GrowthAssumption` | what the kernel itself counts of a link, a CPU or a softirq does not go back while its object is there; nothing is assumed of interrupts | `CountersGrowHolds` |

`SumMaxAssumption` and the assumptions on `ExpectCap`, `RuleCounterMaxSeries`,
`IpvsMaxServices`, `IpvsMaxDests` and `WgMaxPeers` only say that limits are natural numbers.

`GrowthAssumption` excludes what a Prometheus counter may do and the code passes on: a
counter of the kernel that wraps, and a link that is deleted and created again under its old
name between two scrapes. That CPUs come and go it does not exclude. The five collectors read
each count from a single request; the other collectors that report counters combine several,
where the assumption would have to be stated across requests.

The library's induction theorems take an operator as a parameter, which the
installed provers cannot instantiate. The proofs that need induction over a length
use `SetInduction` of `InductionProofs` instead: it is about a set of naturals, and
follows from the well-foundedness of `<`.

### Only model-checked

* Liveness: `Answered`, `Terminates`, `AlertsDrained`, `RequestsServed`, `Ends`.
* `CountersGrow` of the collectors that read their counters by several requests or
  one for each object: `nftables`, `traffic_control`, `ipvs`, `wireguard`,
  `devlink`, `rtnetlink_extended`, `drop_monitor` and `nic_pcie`.
* `SeriesDistinct` of the ten collectors not named for it above.
* `SampleReal` and `StableReported` of the collectors not in `Independent`: what
  they ask depends on earlier answers, or a sample is made of several.

## 6. Not modelled

* Configuration (`nlx-config`): a setting is the first that is given of command
  line, environment, file and default. The merge is figment's, runs once and has no
  state; what it decides, which collectors there are and the timeout, are
  constants of the models.
* Domain types and ports (`nlx-domain`, `nlx-ports`): declarations without
  behaviour. `ScrapeLifecycle` is unused by the program.
* Code nothing calls: `dump_flows` and `parse_flow_frame` of conntrack,
  `parse_alert_frame` and `start_monitoring` of the drop monitor, and the port
  methods the collectors implement beside `collect()`.
* Byte layouts, number formatting, HELP text, logging, durations and
  `nft_build_info`: no property speaks of them.
* How long a file read or a probe lasts. Both are single steps; nothing in the
  code bounds them.
* Failures of `write_all`: the result is ignored and the connection ends.
* Packaging and deployment.

## 7. Order of the work, and what is left

Done, in this order: `Scrape` with its proofs, `NetlinkDump`, `DropMonitor`,
`ScrapeContract`, `HttpServer`, `Registry`, `Wire` with its proof, the collectors
and `Collect`, then the proofs of the pool, of undisturbed dumps and of `DropMonitor`, then
those about data of any length: the bodies of `Registry`, the sums of
`DropMonitor`, the waits of `HttpServer`, the messages of `Wire`, and last the
answers and the samples of `Collect`, what its bodies leave out (`NothingLost`, for all
collectors) and how its counters go on (`CountersGrow`, for five). Left are the
collectors named for its other properties under "Only model-checked".
