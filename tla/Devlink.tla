------------------------------ MODULE Devlink -------------------------------
(***************************************************************************)
(* The devlink collector, crates/nlx-netlink/src/collectors/devlink.rs.    *)
(***************************************************************************)
EXTENDS Collecting

\* parse_device and parse_port: the name of a device is a bus and a name.
DevlinkName(f) == [bus |-> Attr(f, "bus", ""), dev |-> Attr(f, "dev", "")]
DevlinkNamed(d) == d.bus # "" \/ d.dev # ""

DevlinkDevices(got) ==
    Where(MapSeq(Frames(got, "devices"), DevlinkName), DevlinkNamed)

\* parse_health_reporter: the attributes are nested, or flat on some kernels;
\* the port is at the top level and absent for a reporter of the device.
\* The device is that of the request, whatever the reply says.
DevlinkReporter(f, d) ==
    LET inner == IF "nest" \in DOMAIN f THEN f.nest ELSE f
    IN  [bus |-> d.bus, dev |-> d.dev, name |-> Attr(inner, "name", ""),
         port |-> Attr(f, "port", ""), state |-> Attr(inner, "state", 0),
         errors |-> Attr(inner, "errors", 0), recoveries |-> Attr(inner, "recoveries", 0)]

\* collect(): one filtered dump of health reporters per device.
DevlinkPlan(got) ==
    LET devices == DevlinkDevices(got)
    IN  <<Resolve, Dump("devices", MaxDumpRestarts),
          Dump("ports", MaxDumpRestarts)>>
        \o [i \in DOMAIN devices |-> DumpFor("reporters", devices[i], MaxDumpRestarts)]

\* Without the family there is nothing to report; kernels before 5.18 refuse
\* the filtered dump with EINVAL.
DevlinkReaction(op, e) ==
    IF op = "reporters" /\ e = "EINVAL" THEN "skip" ELSE GenlReaction(op, e)

DevlinkReporterSamples(r) ==
    LET labels == [bus |-> r.bus, device |-> r.dev, reporter |-> r.name, port |-> r.port]
    IN  <<Gauge("nft_devlink_health_reporter_state", labels, r.state),
          Counter("nft_devlink_health_reporter_error_total", labels, r.errors),
          Counter("nft_devlink_health_reporter_recover_total", labels, r.recoveries)>>

DevlinkEmit(got) ==
    LET ports == Where(MapSeq(Frames(got, "ports"), DevlinkName), DevlinkNamed)
        reporters == Where(Each(Where(got, LAMBDA a : a.op = "reporters"),
                                LAMBDA a : MapSeq(a.frames, LAMBDA f : DevlinkReporter(f, a.arg))),
                           LAMBDA r : r.name # "")
    IN  <<Gauge("nft_devlink_devices", NoLabels, Len(DevlinkDevices(got)))>>
        \o Tally(ports, LAMBDA d, n :
                 Gauge("nft_devlink_ports", [bus |-> d.bus, device |-> d.dev], n))
        \o Each(reporters, DevlinkReporterSamples)
=============================================================================
