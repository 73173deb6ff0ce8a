--------------------------- MODULE MCNetlinkDump ----------------------------
(* Instances of NetlinkDump for TLC: a generic-netlink collector, which       *)
(* resolves its family, makes three dumps on the same socket (enough to double *)
(* SO_RCVBUF up to its maximum and once more) and ends with a plain request.   *)
EXTENDS NetlinkDump

MCCalls == <<"single", "dump", "dump", "dump", "single">>
=============================================================================
