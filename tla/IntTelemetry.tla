---------------------------- MODULE IntTelemetry ----------------------------
(***************************************************************************)
(* Case 06: three BMv2 switches route IPv4 packets and push a record on    *)
(* the packets that carry an INT option (06_int/main.p4), while one Go     *)
(* controller per switch fills its tables (06_int/controller/main.go).     *)
(*                                                                         *)
(* Packets do not act on each other, so one is on its way at a time.  It   *)
(* is what its IPv4 header says: lengths and counts are numbers of their   *)
(* width, addresses are names, the checksum is right or not.               *)
(***************************************************************************)
EXTENDS Integers, Sequences, FiniteSets

CONSTANTS
    MaxHeaders,     \* MAX_INT_HEADERS (9 in the P4 program)
    Formats,        \* IPv4 headers of the packets hosts send
    Ttls,           \* their times to live
    EarlySends      \* hosts send before all controllers are ready, too

Hosts == {"h1", "h2", "h3", "h4"}
Switches == {"s1", "s2", "s3"}

\* The count and the total length are 16 bits wide, IHL 4, the option length 8.
Below(k) == 0 .. k - 1
Fields == [opt : {"int", "other"}, num : Below(65536), ihl : Below(16), optLen : Below(256),
           totLen : Below(65536), wire : Nat, sum : {"good", "bad"}]

\* Nine records fill the 40 bytes of IPv4 options: MAX_INT_HEADERS may be
\* less, never more, and the checksum has a case for every count up to 9.
ASSUME MaxHeadersAssumption == MaxHeaders \in 0..9
ASSUME FormatsAssumption == Formats \subseteq Fields
ASSUME TtlsAssumption == Ttls \subseteq Below(256)
ASSUME EarlyAssumption == EarlySends \in BOOLEAN

VARIABLES
    written,        \* switch -> how much of its set-up is written
    pkt             \* the packet on its way, or NoPacket

vars == <<written, pkt>>

-----------------------------------------------------------------------------
(***************************************************************************)
(* Topology and configuration.                                             *)
(***************************************************************************)

\* Destinations: the hosts, an address of 10.0.3.0/24 that is no host's, one
\* of 10.0.0.0/16, and one outside.
Addresses == Hosts \cup {"unused3", "unused", "outside"}
Macs == Addresses \cup {"sw1", "sw2", "sw3"}
Net(prefix) ==
    CASE prefix = "net3" -> {"h3", "h4", "unused3"}
      [] prefix = "net0" -> Addresses \ {"outside"}
      [] OTHER -> {prefix}
Length(prefix) == IF prefix = "net3" THEN 24 ELSE IF prefix = "net0" THEN 16 ELSE 32

\* Seeded fault: the covering route of a switch is installed first.
ConfigForReversed == [
    s1 |-> << [net |-> "net3", mac |-> "sw3", port |-> 3],
              [net |-> "h2",    mac |-> "sw2", port |-> 2],
              [net |-> "h1",    mac |-> "h1",  port |-> 1] >>,
    s2 |-> << [net |-> "net0", mac |-> "sw1", port |-> 2],
              [net |-> "h2",     mac |-> "h2",  port |-> 1] >>,
    s3 |-> << [net |-> "net0", mac |-> "sw1", port |-> 3],
              [net |-> "h4",     mac |-> "h4",  port |-> 2],
              [net |-> "h3",     mac |-> "h3",  port |-> 1] >>]

\* Seeded fault: two ports of s3 are exchanged.
ConfigForExchanged == [
    s1 |-> << [net |-> "h1",    mac |-> "h1",  port |-> 1],
              [net |-> "h2",    mac |-> "sw2", port |-> 2],
              [net |-> "net3", mac |-> "sw3", port |-> 3] >>,
    s2 |-> << [net |-> "h2",     mac |-> "h2",  port |-> 1],
              [net |-> "net0", mac |-> "sw1", port |-> 2] >>,
    s3 |-> << [net |-> "h3",     mac |-> "h3",  port |-> 2],
              [net |-> "h4",     mac |-> "h4",  port |-> 1],
              [net |-> "net0", mac |-> "sw1", port |-> 3] >>]

\* configFor: the routes of each switch in the order they are installed.
ConfigFor == [
    s1 |-> << [net |-> "h1",    mac |-> "h1",  port |-> 1],
              [net |-> "h2",    mac |-> "sw2", port |-> 2],
              [net |-> "net3", mac |-> "sw3", port |-> 3] >>,
    s2 |-> << [net |-> "h2",     mac |-> "h2",  port |-> 1],
              [net |-> "net0", mac |-> "sw1", port |-> 2] >>,
    s3 |-> << [net |-> "h3",     mac |-> "h3",  port |-> 1],
              [net |-> "h4",     mac |-> "h4",  port |-> 2],
              [net |-> "net0", mac |-> "sw1", port |-> 3] >>]

\* Who is on the other end of a port, and where hosts are attached.
Peers == [s1 |-> <<"h1", "s2", "s3">>, s2 |-> <<"h2", "s1">>, s3 |-> <<"h3", "h4", "s1">>]
Attached == [h1 |-> "s1", h2 |-> "s2", h3 |-> "s3", h4 |-> "s3"]

\* The writes of a controller: the pipeline, the routes, the default action
\* of ipv4_lpm (drop, as in the program) and the one of int_table.
Routes(s) == Len(ConfigFor[s])
LastWrite(s) == Routes(s) + 3
HasPipeline(s) == written[s] > 0
Installed(s) == {i \in 1..Routes(s) : written[s] > i}
Ready(s) == written[s] = LastWrite(s)
AllReady == \A s \in Switches : Ready(s)

-----------------------------------------------------------------------------
(***************************************************************************)
(* A packet.                                                               *)
(***************************************************************************)
NoPacket == [at |-> "none"]

\* One record of a trace; records that a host sent are all alike.
Old == <<"host", 0>>
Records == {Old} \cup (Switches \X (1..3))

\* sent, from and settled are history, read by no action.
Packets == [at : Switches \cup Hosts, stage : {"ingress", "egress"}, port : 0..3,
            dst : Addresses, mac : Macs, ttl : Below(256), head : Fields,
            stack : Seq(Records), sent : Fields, ttl0 : Below(256), from : Hosts,
            settled : BOOLEAN]

TypeOK ==
    /\ written \in [Switches -> 0..6]
    /\ \A s \in Switches : written[s] <= LastWrite(s)
    /\ pkt # NoPacket => pkt \in Packets

HasInt(h) == h.ihl > 5 /\ h.opt = "int"

\* MyParser: the verify statements on the way through the header.
Parses(h) ==
    /\ h.ihl >= 5
    /\ h.totLen >= h.ihl * 4
    /\ h.totLen <= h.wire
    /\ HasInt(h) =>
          /\ h.num <= MaxHeaders
          /\ h.optLen = (4 + h.num * 4) % 256
          /\ h.optLen = (h.ihl - 5) * 4

\* MyComputeChecksum: one case for plain headers, one for other options, one
\* for each count from 0 to 9; without a case the old checksum stays.
Recompute(h) == IF HasInt(h) /\ h.num > 9 THEN h ELSE [h EXCEPT !.sum = "good"]

\* Seeded fault: a full stack takes one more.
HasRoomAtLimit(h) == HasInt(h) /\ h.num <= MaxHeaders /\ h.totLen <= 65531

\* The condition of MyEgress.
HasRoom(h) == HasInt(h) /\ h.num < MaxHeaders /\ h.totLen <= 65531

\* Seeded fault: the record goes to the end of the stack.
PushLast(r, stack) == Append(stack, r)

\* push_front(1): what no longer fits falls off the end.
Push(r, stack) ==
    SubSeq(<<r>> \o stack, 1, IF Len(stack) < MaxHeaders THEN Len(stack) + 1 ELSE Len(stack))

\* add_int_header, on the header and on the stack; wire is what is emitted.
Stamp(h, grown) ==
    [h EXCEPT !.num = (@ + 1) % 65536, !.ihl = (@ + 1) % 16,
              !.optLen = (@ + 4) % 256, !.totLen = (@ + 4) % 65536,
              !.wire = @ + 4 * grown]

-----------------------------------------------------------------------------
\* Seeded fault: one write too many.
WritePastEnd(s) ==
    /\ written[s] <= LastWrite(s)
    /\ written' = [written EXCEPT ![s] = @ + 1]
    /\ UNCHANGED pkt

\* A controller writes the next piece of its set-up.  It stops for good when
\* a write fails, which is to take no further step.
Write(s) ==
    /\ written[s] < LastWrite(s)
    /\ written' = [written EXCEPT ![s] = @ + 1]
    /\ UNCHANGED pkt

\* A host sends a packet; static neighbours give it the owner's MAC.
Send(h, d, f, t) ==
    /\ pkt = NoPacket /\ d # h
    /\ EarlySends \/ AllReady
    /\ pkt' = [at |-> Attached[h], stage |-> "ingress", port |-> 0, dst |-> d,
               mac |-> d, ttl |-> t, head |-> f,
               stack |-> IF Parses(f) /\ HasInt(f) THEN [i \in 1..f.num |-> Old] ELSE <<>>,
               sent |-> f, ttl0 |-> t, from |-> h, settled |-> AllReady]
    /\ UNCHANGED written

\* The routes installed on s that match address d, and the longest of them
\* (seeded fault: the shortest).
Matching(s, d) == {i \in Installed(s) : d \in Net(ConfigFor[s][i].net)}
ShortestFirst(s, d) ==
    ConfigFor[s][CHOOSE i \in Matching(s, d) : \A j \in Matching(s, d) :
                    Length(ConfigFor[s][j].net) >= Length(ConfigFor[s][i].net)]
Longest(s, d) ==
    ConfigFor[s][CHOOSE i \in Matching(s, d) : \A j \in Matching(s, d) :
                    Length(ConfigFor[s][j].net) <= Length(ConfigFor[s][i].net)]

Drops(p) ==
    \/ ~HasPipeline(p.at)
    \/ ~Parses(p.head) \/ p.head.sum = "bad" \/ p.ttl <= 1
    \/ Matching(p.at, p.dst) = {}

\* Seeded fault: the time to live stays as it is.
IngressForever ==
    /\ pkt.at \in Switches /\ pkt.stage = "ingress"
    /\ pkt' = IF Drops(pkt) THEN NoPacket
              ELSE LET r == Longest(pkt.at, pkt.dst)
                   IN  [pkt EXCEPT !.stage = "egress", !.port = r.port, !.mac = r.mac,
                                   !.head.sum = "bad"]
    /\ UNCHANGED written

\* MyParser, MyVerifyChecksum and MyIngress: drop, or ipv4_forward, which
\* makes the checksum wrong until it is computed again.
Ingress ==
    /\ pkt.at \in Switches /\ pkt.stage = "ingress"
    /\ pkt' = IF Drops(pkt) THEN NoPacket
              ELSE LET r == Longest(pkt.at, pkt.dst)
                   IN  [pkt EXCEPT !.stage = "egress", !.port = r.port, !.mac = r.mac,
                                   !.ttl = @ - 1, !.head.sum = "bad"]
    /\ UNCHANGED written

\* MyEgress, MyComputeChecksum and MyDeparser; the default action of
\* int_table is NoAction until the controller has set it.
Egress ==
    /\ pkt.at \in Switches /\ pkt.stage = "egress"
    /\ LET stamps == Ready(pkt.at) /\ HasRoom(pkt.head)
           stack == IF stamps THEN Push(<<pkt.at, pkt.port>>, pkt.stack) ELSE pkt.stack
           head == IF stamps THEN Stamp(pkt.head, Len(stack) - Len(pkt.stack)) ELSE pkt.head
       IN  pkt' = [pkt EXCEPT !.at = Peers[pkt.at][pkt.port], !.stage = "ingress",
                              !.head = Recompute(head), !.stack = stack]
    /\ UNCHANGED written

\* A host takes the packet off its link.
Receive ==
    /\ pkt.at \in Hosts
    /\ pkt' = NoPacket
    /\ UNCHANGED written

-----------------------------------------------------------------------------
Init ==
    /\ written = [s \in Switches |-> 0]
    /\ pkt = NoPacket

Next ==
    \/ \E s \in Switches : Write(s)
    \/ \E h \in Hosts, d \in Addresses, f \in Formats, t \in Ttls : Send(h, d, f, t)
    \/ Ingress \/ Egress \/ Receive

Spec == Init /\ [][Next]_vars

\* A switch does not hold a packet for ever, nor does a host.
FairSpec == Spec /\ WF_vars(Ingress \/ Egress \/ Receive)

-----------------------------------------------------------------------------
(***************************************************************************)
(* Properties.                                                             *)
(***************************************************************************)

\* What a switch sends on, the next parser accepts, and its checksum is right
\* (06_int/README: count, option length and IHL must agree): no field wraps,
\* no record is lost off the stack, whatever a host sent and however often a
\* loop pushes.
EmitsWellFormed ==
    pkt # NoPacket /\ pkt.ttl < pkt.ttl0 /\ pkt.stage = "ingress" =>
        /\ Parses(pkt.head) /\ pkt.head.sum = "good"
        /\ HasInt(pkt.head) => Len(pkt.stack) = pkt.head.num

\* The hops of a packet between two hosts (PATHS in packets.py).
Paths == [
    h1 |-> [h2 |-> << <<"s1", 2>>, <<"s2", 1>> >>,
            h3 |-> << <<"s1", 3>>, <<"s3", 1>> >>,
            h4 |-> << <<"s1", 3>>, <<"s3", 2>> >>],
    h2 |-> [h1 |-> << <<"s2", 2>>, <<"s1", 1>> >>,
            h3 |-> << <<"s2", 2>>, <<"s1", 3>>, <<"s3", 1>> >>,
            h4 |-> << <<"s2", 2>>, <<"s1", 3>>, <<"s3", 2>> >>],
    h3 |-> [h1 |-> << <<"s3", 3>>, <<"s1", 1>> >>,
            h2 |-> << <<"s3", 3>>, <<"s1", 2>>, <<"s2", 1>> >>,
            h4 |-> << <<"s3", 2>> >>],
    h4 |-> [h1 |-> << <<"s3", 3>>, <<"s1", 1>> >>,
            h2 |-> << <<"s3", 3>>, <<"s1", 2>>, <<"s2", 1>> >>,
            h3 |-> << <<"s3", 1>> >>]]

\* The records a header takes on a path (expected_trace_count).
Taken(f, path) ==
    LET bounds == {Len(path), MaxHeaders - f.num, (65535 - f.totLen) \div 4}
    IN  CHOOSE k \in bounds : \A j \in bounds : k <= j

\* A packet that set out after the switches were ready and arrives carries
\* the trace check_forwarded asks for: its path from the last hop to the
\* first, as far as there was room, then the records it came with; its TTL
\* has gone down by one per hop.
TraceIsPath ==
    pkt # NoPacket /\ pkt.at \in Hosts /\ pkt.settled =>
        LET path == Paths[pkt.from][pkt.at]
            k == Taken(pkt.sent, path)
        IN  /\ pkt.ttl = pkt.ttl0 - Len(path)
            /\ HasInt(pkt.sent) =>
                  /\ Len(pkt.stack) = pkt.sent.num + k
                  /\ \A i \in 1..k : pkt.stack[i] = path[k + 1 - i]
                  /\ \A i \in k + 1 .. Len(pkt.stack) : pkt.stack[i] = Old

\* A packet reaches its owner or nobody, with the owner's MAC, also while the
\* three tables are half filled.
OnlyToOwner ==
    pkt # NoPacket /\ pkt.at \in Hosts => pkt.dst = pkt.at /\ pkt.mac = pkt.at

\* While tables are filled, a packet for a host takes no detour: /32 routes
\* come before the route that covers them, so no switch sees it twice.
NoTransientLoop ==
    pkt # NoPacket /\ pkt.dst \in Hosts => pkt.ttl0 - pkt.ttl <= 3

\* Once all are ready, no switch drops a well-formed packet for a host that
\* can afford the hops.
NothingLostWhenReady ==
    [][pkt # NoPacket /\ pkt' = NoPacket /\ pkt.settled /\ pkt.dst \in Hosts
          /\ Parses(pkt.sent) /\ pkt.sent.sum = "good"
          /\ pkt.ttl0 > Len(Paths[pkt.from][pkt.dst])
       => pkt.at = pkt.dst]_vars

\* Every packet leaves the network, those for an address without host, which
\* two switches pass to and fro, by their TTL.
PacketsLeave == (pkt # NoPacket) ~> (pkt = NoPacket)
=============================================================================
