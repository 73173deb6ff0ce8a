------------------------------- MODULE Procfs -------------------------------
(***************************************************************************)
(* The collectors of crates/nlx-procfs.  A request is the read of a file,  *)
(* whose frames are its lines, or of a directory, whose frames are the     *)
(* names in it; a column that is not a number has no value.                *)
(***************************************************************************)
EXTENDS Collecting

CONSTANT
    MaxTempSensors  \* MAX_TEMP_SENSORS of nic_temp.rs

\* safe_read and safe_read_dir, of a file there is once or of one for each arg.
Read(op) == ReadFor(op, NoArg)

\* Nothing but the first read of a collector may fail it.
ProcReaction(first, op) == IF op = first THEN "fail" ELSE "skip"

-----------------------------------------------------------------------------
(* irq.rs: numbered interrupts, each summed over the CPUs; the device is   *)
(* the last of the columns that follow, when there are two at least.       *)

IrqPlan(got) == <<Read("interrupts")>>

IrqSamples(line) ==
    IF ~line.numbered \/ line.counts = <<>> THEN <<>>
    ELSE <<Counter("nft_irq_total",
                   [irq |-> line.id,
                    device |-> IF Len(line.columns) < 2 THEN "" ELSE line.columns[Len(line.columns)]],
                   Saturating(line.counts, LAMBDA n : n))>>

IrqEmit(got) == Each(Frames(got, "interrupts"), IrqSamples)

-----------------------------------------------------------------------------
(* softirq.rs: the header names the CPUs that the columns are of.          *)

SoftirqPlan(got) == <<Read("softirqs")>>

\* Mutant: the CPU is the number of the column.
SoftirqCpuByColumn(header, column) == column - 1
SoftirqCpu(header, column) == header.cpus[column]

SoftirqKinds == [NET_RX |-> "net_rx", NET_TX |-> "net_tx"]
SoftirqSamples(header, line) ==
    IF line.row \notin DOMAIN SoftirqKinds THEN <<>>
    ELSE [i \in 1..Smaller(Len(header.cpus), Len(line.counts)) |->
             Counter("nft_softirq_total",
                     [cpu |-> SoftirqCpu(header, i), kind |-> SoftirqKinds[line.row]],
                     line.counts[i])]

SoftirqEmit(got) ==
    LET lines == Frames(got, "softirqs")
    IN  IF lines = <<>> THEN <<>>
        ELSE Each(Tail(lines), LAMBDA line : SoftirqSamples(Head(lines), line))

-----------------------------------------------------------------------------
(* softnet.rs: a line of at least 13 columns for each CPU, which the last  *)
(* of them names.                                                          *)

SoftnetPlan(got) == <<Read("softnet_stat")>>

SoftnetColumns ==
    <<[name |-> "nft_softnet_processed_total", at |-> 1],
      [name |-> "nft_softnet_dropped_total", at |-> 2],
      [name |-> "nft_softnet_time_squeeze_total", at |-> 3],
      [name |-> "nft_softnet_received_rps_total", at |-> 10],
      [name |-> "nft_softnet_flow_limit_count_total", at |-> 11]>>

SoftnetSamples(columns) ==
    IF Len(columns) < 13 THEN <<>>
    ELSE LET labels == [cpu |-> columns[13]]
         IN  MapSeq(SoftnetColumns, LAMBDA c : Counter(c.name, labels, columns[c.at]))
             \o <<Gauge("nft_softnet_backlog_length", labels, columns[12])>>

SoftnetEmit(got) == Each(Frames(got, "softnet_stat"), SoftnetSamples)

-----------------------------------------------------------------------------
(* sockstat.rs: a protocol and pairs of key and value.                     *)

SockstatPlan(got) == <<Read("sockstat")>>

SockstatSamples(line) ==
    IF ~line.tagged THEN <<>>
    ELSE MapSeq(Where(line.pairs, LAMBDA p : "value" \in DOMAIN p),
                LAMBDA p : Gauge("nft_sockstat", [protocol |-> line.proto, key |-> p.key], p.value))

SockstatEmit(got) == Each(Frames(got, "sockstat"), SockstatSamples)

-----------------------------------------------------------------------------
(* netstat.rs: two files, the second of which may be missing, each of      *)
(* pairs of a header line and a data line.                                 *)

NetstatPlan(got) == <<Read("snmp"), Read("netstat")>>

\* A header starts with a protocol and a column that is no number; the data
\* line that follows has the same protocol.
NetstatHeader(line) ==
    line.tagged /\ line.columns # <<>> /\ "value" \notin DOMAIN line.columns[1]
NetstatPaired(header, data) == data.tagged /\ data.proto = header.proto

NetstatSamples(header, data) ==
    Each([i \in DOMAIN header.columns |-> i],
         LAMBDA i : IF "value" \notin DOMAIN data.columns[i] THEN <<>>
                    ELSE <<Gauge("nft_netstat",
                                 [protocol |-> header.proto, field |-> header.columns[i].text],
                                 data.columns[i].value)>>)

\* parse_paired_lines: a data line is consumed with its header even when
\* their lengths differ; one of another protocol is looked at as a header.
NetstatParse(lines) ==
    LET from[i \in 1..(Len(lines) + 2)] ==
            IF i > Len(lines) THEN <<>>
            ELSE IF \/ ~NetstatHeader(lines[i])
                    \/ i = Len(lines)
                    \/ ~NetstatPaired(lines[i], lines[i + 1])
                 THEN from[i + 1]
            ELSE IF Len(lines[i].columns) # Len(lines[i + 1].columns) THEN from[i + 2]
            ELSE NetstatSamples(lines[i], lines[i + 1]) \o from[i + 2]
    IN  from[1]

NetstatEmit(got) ==
    NetstatParse(Frames(got, "snmp")) \o NetstatParse(Frames(got, "netstat"))

-----------------------------------------------------------------------------
(* nic_bql.rs: the limits and what is in flight, over all transmit queues. *)

BqlQueues(got, dev) == Where(FramesFor(got, "queues", dev), LAMBDA q : q.tx)
BqlPlan(got) ==
    <<Read("net")>>
    \o Each(Frames(got, "net"), LAMBDA dev :
            <<ReadFor("queues", dev)>>
            \o Each(BqlQueues(got, dev), LAMBDA q :
                    <<ReadFor("limit", <<dev, q.name>>), ReadFor("inflight", <<dev, q.name>>)>>))

BqlSum(got, op, dev) ==
    Saturating(BqlQueues(got, dev),
               LAMBDA q : TotalOf(FramesFor(got, op, <<dev, q.name>>), LAMBDA n : n))

\* A device without a readable limit has no byte queue limits.
BqlSamples(got, dev) ==
    IF \A i \in DOMAIN BqlQueues(got, dev) :
           FramesFor(got, "limit", <<dev, BqlQueues(got, dev)[i].name>>) = <<>>
    THEN <<>>
    ELSE <<Gauge("nft_nic_bql_limit_bytes", [device |-> dev], BqlSum(got, "limit", dev)),
           Gauge("nft_nic_bql_inflight_bytes", [device |-> dev], BqlSum(got, "inflight", dev))>>

BqlEmit(got) == Each(Frames(got, "net"), LAMBDA dev : BqlSamples(got, dev))

-----------------------------------------------------------------------------
(* nic_pcie.rs: devices with a link speed that are no virtual functions.   *)

\* should_collect; an empty directory can be read too.
PcieAnswered(got, op, dev) ==
    \E i \in DOMAIN got : got[i].op = op /\ got[i].arg = dev /\ got[i].error = "none"
PcieCollected(got, dev) ==
    PcieAnswered(got, "has_speed", dev) /\ ~PcieAnswered(got, "physfn", dev)

AerFiles ==
    <<[op |-> "aer_correctable", name |-> "nft_nic_pcie_aer_correctable_total"],
      [op |-> "aer_fatal", name |-> "nft_nic_pcie_aer_fatal_total"],
      [op |-> "aer_nonfatal", name |-> "nft_nic_pcie_aer_nonfatal_total"]>>

PciePlan(got) ==
    <<Read("net")>>
    \o Each(Frames(got, "net"), LAMBDA dev :
            <<ReadFor("has_speed", dev), ReadFor("physfn", dev)>>
            \o IF ~PcieCollected(got, dev) THEN <<>>
               ELSE <<ReadFor("speed", dev), ReadFor("width", dev)>>
                    \o MapSeq(AerFiles, LAMBDA a : ReadFor(a.op, dev)))

\* collect_aer: the sum of the lines, without the total that the file ends in.
AerSum(lines) ==
    Saturating(Where(lines, LAMBDA l : ~l.total /\ "value" \in DOMAIN l), LAMBDA l : l.value)

\* collect_dev; a file that cannot be read is left out.
PcieGauge(got, op, name, dev) ==
    MapSeq(Where(FramesFor(got, op, dev), LAMBDA l : "value" \in DOMAIN l),
           LAMBDA l : Gauge(name, [device |-> dev], l.value))
PcieSamples(got, dev) ==
    IF ~PcieCollected(got, dev) THEN <<>>
    ELSE PcieGauge(got, "speed", "nft_nic_pcie_link_speed_gts", dev)
         \o PcieGauge(got, "width", "nft_nic_pcie_link_width", dev)
         \o Each(AerFiles, LAMBDA a :
                 IF ~PcieAnswered(got, a.op, dev) THEN <<>>
                 ELSE <<Counter(a.name, [device |-> dev], AerSum(FramesFor(got, a.op, dev)))>>)

PcieEmit(got) == Each(Frames(got, "net"), LAMBDA dev : PcieSamples(got, dev))

-----------------------------------------------------------------------------
(* nic_temp.rs: the first sensors of each hwmon directory of a device.     *)

TempPlan(got) ==
    <<Read("net")>>
    \o Each(Frames(got, "net"), LAMBDA dev :
            <<ReadFor("hwmon", dev)>>
            \o Each(FramesFor(got, "hwmon", dev), LAMBDA chip :
                    <<ReadFor("name", <<dev, chip>>)>>
                    \o Each([n \in 1..MaxTempSensors |-> n], LAMBDA n :
                            <<ReadFor("has_temp", <<dev, chip, n>>)>>
                            \o IF FramesFor(got, "has_temp", <<dev, chip, n>>) = <<>> THEN <<>>
                               ELSE <<ReadFor("temp", <<dev, chip, n>>)>>)))

\* A sensor is named by its chip, when that has a name, and its number.
TempSamples(got, dev, chip, n) ==
    MapSeq(Where(FramesFor(got, "temp", <<dev, chip, n>>), LAMBDA l : "value" \in DOMAIN l),
           LAMBDA l : Gauge("nft_nic_temperature_celsius",
                            [device |-> dev, sensor |-> <<FramesFor(got, "name", <<dev, chip>>), n>>],
                            l.value))

TempEmit(got) ==
    Each(Frames(got, "net"), LAMBDA dev :
         Each(FramesFor(got, "hwmon", dev), LAMBDA chip :
              Each([n \in 1..MaxTempSensors |-> n], LAMBDA n : TempSamples(got, dev, chip, n))))
=============================================================================
