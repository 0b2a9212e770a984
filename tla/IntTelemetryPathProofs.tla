---------------------- MODULE IntTelemetryPathProofs ----------------------
(***************************************************************************)
(* Proofs about the way packets take in IntTelemetry, while the tables are *)
(* filled and after: it is the path of packets.py, and so is the trace,    *)
(* for every capacity up to nine records, every set of headers and every   *)
(* time to live.                                                           *)
(***************************************************************************)
EXTENDS IntTelemetryProofs

-----------------------------------------------------------------------------
(* Routes. *)

\* The route of switch s that decides for host d.
Choice(s, d) ==
    CASE s = "s1" -> IF d = "h1" THEN 1 ELSE IF d = "h2" THEN 2 ELSE 3
      [] s = "s2" -> IF d = "h2" THEN 1 ELSE 2
      [] s = "s3" -> IF d = "h3" THEN 1 ELSE IF d = "h4" THEN 2 ELSE 3

LEMMA Nets ==
    /\ \A h \in Hosts : Net(h) = {h} /\ Length(h) = 32
    /\ Net("net3") = {"h3", "h4", "unused3"} /\ Length("net3") = 24
    /\ Net("net0") = {"h1", "h2", "h3", "h4", "unused3", "unused"} /\ Length("net0") = 16
BY DEF Net, Length, Hosts, Addresses

\* It covers d, and every other route that does comes later and is shorter.
LEMMA ChoiceIsBest ==
    ASSUME NEW s \in Switches, NEW d \in Hosts
    PROVE  /\ Choice(s, d) \in 1..Routes(s)
           /\ d \in Net(ConfigFor[s][Choice(s, d)].net)
           /\ \A i \in 1..Routes(s) :
                 d \in Net(ConfigFor[s][i].net) /\ i # Choice(s, d) =>
                    /\ i > Choice(s, d)
                    /\ Length(ConfigFor[s][i].net) < Length(ConfigFor[s][Choice(s, d)].net)
<1>1. CASE s = "s1"
  <2>1. /\ Routes(s) = 3 /\ ConfigFor[s][1].net = "h1" /\ ConfigFor[s][2].net = "h2"
        /\ ConfigFor[s][3].net = "net3"
    BY <1>1 DEF Routes, ConfigFor
  <2>2. Choice(s, d) = IF d = "h1" THEN 1 ELSE IF d = "h2" THEN 2 ELSE 3
    BY <1>1 DEF Choice
  <2> QED
    BY <2>1, <2>2, Nets DEF Hosts
<1>2. CASE s = "s2"
  <2>1. Routes(s) = 2 /\ ConfigFor[s][1].net = "h2" /\ ConfigFor[s][2].net = "net0"
    BY <1>2 DEF Routes, ConfigFor
  <2>2. Choice(s, d) = IF d = "h2" THEN 1 ELSE 2
    BY <1>2 DEF Choice
  <2> QED
    BY <2>1, <2>2, Nets DEF Hosts
<1>3. CASE s = "s3"
  <2>1. /\ Routes(s) = 3 /\ ConfigFor[s][1].net = "h3" /\ ConfigFor[s][2].net = "h4"
        /\ ConfigFor[s][3].net = "net0"
    BY <1>3 DEF Routes, ConfigFor
  <2>2. Choice(s, d) = IF d = "h3" THEN 1 ELSE IF d = "h4" THEN 2 ELSE 3
    BY <1>3 DEF Choice
  <2> QED
    BY <2>1, <2>2, Nets DEF Hosts
<1> QED
  BY <1>1, <1>2, <1>3 DEF Switches

\* If a switch has any route for a host, it is the one that decides for good:
\* routes are installed in order.
LEMMA RouteIsFinal ==
    ASSUME TypeOK, NEW s \in Switches, NEW d \in Hosts, Matching(s, d) # {}
    PROVE  Longest(s, d) = ConfigFor[s][Choice(s, d)]
<1> DEFINE M == Matching(s, d)
           len(i) == Length(ConfigFor[s][i].net)
           j == Choice(s, d)
<1>1. written[s] \in Nat /\ M = {i \in 1..Routes(s) : written[s] > i /\ d \in Net(ConfigFor[s][i].net)}
  BY DEF TypeOK, Matching, Installed
<1>2. /\ j \in 1..Routes(s) /\ d \in Net(ConfigFor[s][j].net)
      /\ \A i \in 1..Routes(s) : d \in Net(ConfigFor[s][i].net) /\ i # j => i > j /\ len(i) < len(j)
  BY ChoiceIsBest
<1>3. \A i : len(i) \in {16, 24, 32}
  BY DEF Length
<1>4. Routes(s) \in Nat
  BY DEF Routes, ConfigFor, Switches
<1> HIDE DEF len, j
<1>5. j \in M /\ \A i \in M : i # j => len(i) < len(j)
  <2>1. PICK i \in M : TRUE
    OBVIOUS
  <2>2. i = j \/ i > j
    BY <1>1, <1>2, <2>1
  <2>3. written[s] > j
    BY <1>1, <1>2, <1>4, <2>1, <2>2
  <2> HIDE DEF M
  <2> QED
    BY <1>1, <1>2, <2>3
<1>6. (CHOOSE i \in M : \A k \in M : len(k) <= len(i)) = j
  <2> HIDE DEF M
  <2>1. \A k \in M : len(k) <= len(j)
    BY <1>3, <1>5
  <2>2. \A i \in M : (\A k \in M : len(k) <= len(i)) => i = j
    BY <1>3, <1>5
  <2> QED
    BY <1>5, <2>1, <2>2
<1> QED
  BY <1>6 DEF Longest, len, j

\* A route that covers an address without host leads to another switch.
LEMMA StraysStayInside ==
    ASSUME NEW s \in Switches, NEW d \in Addresses \ Hosts, NEW i \in 1..Routes(s),
           d \in Net(ConfigFor[s][i].net)
    PROVE  Peers[s][ConfigFor[s][i].port] \in Switches
<1>1. CASE s = "s1"
  <2>1. /\ Routes(s) = 3 /\ ConfigFor[s][1].net = "h1" /\ ConfigFor[s][2].net = "h2"
        /\ ConfigFor[s][3].port = 3 /\ Peers[s][3] = "s3"
    BY <1>1 DEF Routes, ConfigFor, Peers
  <2>2. i = 3
    BY <2>1, Nets DEF Hosts
  <2> QED
    BY <2>1, <2>2 DEF Switches
<1>2. CASE s = "s2"
  <2>1. Routes(s) = 2 /\ ConfigFor[s][1].net = "h2" /\ ConfigFor[s][2].port = 2 /\ Peers[s][2] = "s1"
    BY <1>2 DEF Routes, ConfigFor, Peers
  <2>2. i = 2
    BY <2>1, Nets DEF Hosts
  <2> QED
    BY <2>1, <2>2 DEF Switches
<1>3. CASE s = "s3"
  <2>1. /\ Routes(s) = 3 /\ ConfigFor[s][1].net = "h3" /\ ConfigFor[s][2].net = "h4"
        /\ ConfigFor[s][3].port = 3 /\ Peers[s][3] = "s1"
    BY <1>3 DEF Routes, ConfigFor, Peers
  <2>2. i = 3
    BY <2>1, Nets DEF Hosts
  <2> QED
    BY <2>1, <2>2 DEF Switches
<1> QED
  BY <1>1, <1>2, <1>3 DEF Switches

-----------------------------------------------------------------------------
(* Paths. *)

\* What decides on switch s for host d, and the hop it is in a path p.
Route(s, d) == ConfigFor[s][Choice(s, d)]
Hop(p, k, d) ==
    /\ p[k][1] \in Switches
    /\ p[k] = <<p[k][1], Route(p[k][1], d).port>>
    /\ k < Len(p) => Peers[p[k][1]][p[k][2]] = p[k + 1][1]
    /\ k = Len(p) => Peers[p[k][1]][p[k][2]] = d /\ Route(p[k][1], d).mac = d

LEMMA RoutesAre ==
    /\ Route("s1", "h1").port = 1 /\ Route("s1", "h1").mac = "h1"
    /\ Route("s1", "h2").port = 2 /\ Route("s1", "h3").port = 3 /\ Route("s1", "h4").port = 3
    /\ Route("s2", "h2").port = 1 /\ Route("s2", "h2").mac = "h2"
    /\ Route("s2", "h1").port = 2 /\ Route("s2", "h3").port = 2 /\ Route("s2", "h4").port = 2
    /\ Route("s3", "h3").port = 1 /\ Route("s3", "h3").mac = "h3"
    /\ Route("s3", "h4").port = 2 /\ Route("s3", "h4").mac = "h4"
    /\ Route("s3", "h1").port = 3 /\ Route("s3", "h2").port = 3
BY DEF Route, Choice, ConfigFor

LEMMA PeersAre ==
    /\ Peers["s1"][1] = "h1" /\ Peers["s1"][2] = "s2" /\ Peers["s1"][3] = "s3"
    /\ Peers["s2"][1] = "h2" /\ Peers["s2"][2] = "s1"
    /\ Peers["s3"][1] = "h3" /\ Peers["s3"][2] = "h4" /\ Peers["s3"][3] = "s1"
BY DEF Peers

\* A path of packets.py starts where its host is attached; on each of its
\* hops the deciding route leads to the next, or to the owner with its MAC.
LEMMA PathsAreRoutes ==
    ASSUME NEW h \in Hosts, NEW d \in Hosts \ {h}
    PROVE  /\ Len(Paths[h][d]) \in 1..3 /\ Paths[h][d][1][1] = Attached[h]
           /\ \A k \in 1..Len(Paths[h][d]) : Hop(Paths[h][d], k, d)
<1>1. CASE h = "h1" /\ d = "h2"
  <2> DEFINE p == <<<<"s1", 2>>, <<"s2", 1>>>>
  <2>1. Paths[h][d] = p /\ Attached[h] = p[1][1]
    BY <1>1 DEF Paths, Attached
  <2>2. Len(p) = 2 /\ Hop(p, 1, d) /\ Hop(p, 2, d)
    BY <1>1, RoutesAre, PeersAre DEF Hop, Switches
  <2> HIDE DEF p
  <2> QED
    BY <2>1, <2>2
<1>2. CASE h = "h1" /\ d = "h3"
  <2> DEFINE p == <<<<"s1", 3>>, <<"s3", 1>>>>
  <2>1. Paths[h][d] = p /\ Attached[h] = p[1][1]
    BY <1>2 DEF Paths, Attached
  <2>2. Len(p) = 2 /\ Hop(p, 1, d) /\ Hop(p, 2, d)
    BY <1>2, RoutesAre, PeersAre DEF Hop, Switches
  <2> HIDE DEF p
  <2> QED
    BY <2>1, <2>2
<1>3. CASE h = "h1" /\ d = "h4"
  <2> DEFINE p == <<<<"s1", 3>>, <<"s3", 2>>>>
  <2>1. Paths[h][d] = p /\ Attached[h] = p[1][1]
    BY <1>3 DEF Paths, Attached
  <2>2. Len(p) = 2 /\ Hop(p, 1, d) /\ Hop(p, 2, d)
    BY <1>3, RoutesAre, PeersAre DEF Hop, Switches
  <2> HIDE DEF p
  <2> QED
    BY <2>1, <2>2
<1>4. CASE h = "h2" /\ d = "h1"
  <2> DEFINE p == <<<<"s2", 2>>, <<"s1", 1>>>>
  <2>1. Paths[h][d] = p /\ Attached[h] = p[1][1]
    BY <1>4 DEF Paths, Attached
  <2>2. Len(p) = 2 /\ Hop(p, 1, d) /\ Hop(p, 2, d)
    BY <1>4, RoutesAre, PeersAre DEF Hop, Switches
  <2> HIDE DEF p
  <2> QED
    BY <2>1, <2>2
<1>5. CASE h = "h2" /\ d = "h3"
  <2> DEFINE p == <<<<"s2", 2>>, <<"s1", 3>>, <<"s3", 1>>>>
  <2>1. Paths[h][d] = p /\ Attached[h] = p[1][1]
    BY <1>5 DEF Paths, Attached
  <2>2. Len(p) = 3 /\ Hop(p, 1, d) /\ Hop(p, 2, d) /\ Hop(p, 3, d)
    BY <1>5, RoutesAre, PeersAre DEF Hop, Switches
  <2> HIDE DEF p
  <2> QED
    BY <2>1, <2>2
<1>6. CASE h = "h2" /\ d = "h4"
  <2> DEFINE p == <<<<"s2", 2>>, <<"s1", 3>>, <<"s3", 2>>>>
  <2>1. Paths[h][d] = p /\ Attached[h] = p[1][1]
    BY <1>6 DEF Paths, Attached
  <2>2. Len(p) = 3 /\ Hop(p, 1, d) /\ Hop(p, 2, d) /\ Hop(p, 3, d)
    BY <1>6, RoutesAre, PeersAre DEF Hop, Switches
  <2> HIDE DEF p
  <2> QED
    BY <2>1, <2>2
<1>7. CASE h = "h3" /\ d = "h1"
  <2> DEFINE p == <<<<"s3", 3>>, <<"s1", 1>>>>
  <2>1. Paths[h][d] = p /\ Attached[h] = p[1][1]
    BY <1>7 DEF Paths, Attached
  <2>2. Len(p) = 2 /\ Hop(p, 1, d) /\ Hop(p, 2, d)
    BY <1>7, RoutesAre, PeersAre DEF Hop, Switches
  <2> HIDE DEF p
  <2> QED
    BY <2>1, <2>2
<1>8. CASE h = "h3" /\ d = "h2"
  <2> DEFINE p == <<<<"s3", 3>>, <<"s1", 2>>, <<"s2", 1>>>>
  <2>1. Paths[h][d] = p /\ Attached[h] = p[1][1]
    BY <1>8 DEF Paths, Attached
  <2>2. Len(p) = 3 /\ Hop(p, 1, d) /\ Hop(p, 2, d) /\ Hop(p, 3, d)
    BY <1>8, RoutesAre, PeersAre DEF Hop, Switches
  <2> HIDE DEF p
  <2> QED
    BY <2>1, <2>2
<1>9. CASE h = "h3" /\ d = "h4"
  <2> DEFINE p == <<<<"s3", 2>>>>
  <2>1. Paths[h][d] = p /\ Attached[h] = p[1][1]
    BY <1>9 DEF Paths, Attached
  <2>2. Len(p) = 1 /\ Hop(p, 1, d)
    BY <1>9, RoutesAre, PeersAre DEF Hop, Switches
  <2> HIDE DEF p
  <2> QED
    BY <2>1, <2>2
<1>10. CASE h = "h4" /\ d = "h1"
  <2> DEFINE p == <<<<"s3", 3>>, <<"s1", 1>>>>
  <2>1. Paths[h][d] = p /\ Attached[h] = p[1][1]
    BY <1>10 DEF Paths, Attached
  <2>2. Len(p) = 2 /\ Hop(p, 1, d) /\ Hop(p, 2, d)
    BY <1>10, RoutesAre, PeersAre DEF Hop, Switches
  <2> HIDE DEF p
  <2> QED
    BY <2>1, <2>2
<1>11. CASE h = "h4" /\ d = "h2"
  <2> DEFINE p == <<<<"s3", 3>>, <<"s1", 2>>, <<"s2", 1>>>>
  <2>1. Paths[h][d] = p /\ Attached[h] = p[1][1]
    BY <1>11 DEF Paths, Attached
  <2>2. Len(p) = 3 /\ Hop(p, 1, d) /\ Hop(p, 2, d) /\ Hop(p, 3, d)
    BY <1>11, RoutesAre, PeersAre DEF Hop, Switches
  <2> HIDE DEF p
  <2> QED
    BY <2>1, <2>2
<1>12. CASE h = "h4" /\ d = "h3"
  <2> DEFINE p == <<<<"s3", 1>>>>
  <2>1. Paths[h][d] = p /\ Attached[h] = p[1][1]
    BY <1>12 DEF Paths, Attached
  <2>2. Len(p) = 1 /\ Hop(p, 1, d)
    BY <1>12, RoutesAre, PeersAre DEF Hop, Switches
  <2> HIDE DEF p
  <2> QED
    BY <2>1, <2>2
<1> QED
  BY <1>1, <1>2, <1>3, <1>4, <1>5, <1>6, <1>7, <1>8, <1>9, <1>10, <1>11, <1>12 DEF Hosts

-----------------------------------------------------------------------------
(* What the steps of a packet do to it. *)

LEMMA IngressMoves ==
    ASSUME Inv, Ingress, pkt' # NoPacket
    PROVE  /\ pkt \in Packets /\ OnItsWay /\ pkt.at \in Switches /\ pkt.stage = "ingress"
           /\ ~Drops(pkt) /\ written' = written
           /\ pkt'.at = pkt.at /\ pkt'.stage = "egress"
           /\ pkt'.port = Longest(pkt.at, pkt.dst).port
           /\ pkt'.mac = Longest(pkt.at, pkt.dst).mac
           /\ pkt'.ttl = pkt.ttl - 1 /\ pkt'.ttl0 = pkt.ttl0
           /\ pkt'.dst = pkt.dst /\ pkt'.from = pkt.from
           /\ pkt'.sent = pkt.sent /\ pkt'.settled = pkt.settled /\ pkt'.stack = pkt.stack
           /\ pkt'.head = [pkt.head EXCEPT !.sum = "bad"]
<1>1. /\ pkt.at \in Switches /\ pkt.stage = "ingress" /\ written' = written /\ ~Drops(pkt)
  BY DEF Ingress
<1>2. pkt # NoPacket
  BY <1>1 DEF NoPacket, Switches
<1>3. pkt \in Packets /\ OnItsWay
  BY <1>2 DEF Inv, TypeOK
<1> DEFINE r == Longest(pkt.at, pkt.dst)
<1>4. pkt' = [pkt EXCEPT !.stage = "egress", !.port = r.port, !.mac = r.mac,
                         !.ttl = @ - 1, !.head.sum = "bad"]
  BY <1>1 DEF Ingress
<1> HIDE DEF r
<1>5. /\ pkt'.at = pkt.at /\ pkt'.stage = "egress" /\ pkt'.port = r.port /\ pkt'.mac = r.mac
      /\ pkt'.ttl = pkt.ttl - 1 /\ pkt'.ttl0 = pkt.ttl0
      /\ pkt'.dst = pkt.dst /\ pkt'.from = pkt.from
      /\ pkt'.sent = pkt.sent /\ pkt'.settled = pkt.settled /\ pkt'.stack = pkt.stack
      /\ pkt'.head = [pkt.head EXCEPT !.sum = "bad"]
  BY <1>3, <1>4 DEF Packets
<1> QED
  BY <1>1, <1>3, <1>5 DEF r

\* A step through egress, with the record it may push.
Stamps == Ready(pkt.at) /\ HasRoom(pkt.head)
Grown == IF Stamps THEN Push(<<pkt.at, pkt.port>>, pkt.stack) ELSE pkt.stack
Stamped == IF Stamps THEN Stamp(pkt.head, Len(Grown) - Len(pkt.stack)) ELSE pkt.head

LEMMA EgressMoves ==
    ASSUME Inv, Egress
    PROVE  /\ pkt \in Packets /\ OnItsWay /\ pkt.at \in Switches /\ pkt.stage = "egress"
           /\ written' = written
           /\ pkt'.at = Peers[pkt.at][pkt.port] /\ pkt'.stage = "ingress"
           /\ pkt'.mac = pkt.mac /\ pkt'.ttl = pkt.ttl /\ pkt'.ttl0 = pkt.ttl0
           /\ pkt'.dst = pkt.dst /\ pkt'.from = pkt.from
           /\ pkt'.sent = pkt.sent /\ pkt'.settled = pkt.settled
           /\ pkt'.stack = Grown /\ pkt'.head = Recompute(Stamped)
<1>1. pkt.at \in Switches /\ pkt.stage = "egress" /\ written' = written
  BY DEF Egress
<1>2. pkt # NoPacket
  BY <1>1 DEF NoPacket, Switches
<1>3. pkt \in Packets /\ OnItsWay
  BY <1>2 DEF Inv, TypeOK
<1>4. pkt' = [pkt EXCEPT !.at = Peers[pkt.at][pkt.port], !.stage = "ingress",
                         !.head = Recompute(Stamped), !.stack = Grown]
  BY DEF Egress, Stamped, Grown, Stamps
<1>5. /\ pkt'.at = Peers[pkt.at][pkt.port] /\ pkt'.stage = "ingress"
      /\ pkt'.mac = pkt.mac /\ pkt'.ttl = pkt.ttl /\ pkt'.ttl0 = pkt.ttl0
      /\ pkt'.dst = pkt.dst /\ pkt'.from = pkt.from
      /\ pkt'.sent = pkt.sent /\ pkt'.settled = pkt.settled
      /\ pkt'.stack = Grown /\ pkt'.head = Recompute(Stamped)
  BY <1>3, <1>4 DEF Packets
<1> QED
  BY <1>1, <1>3, <1>5

\* The times to live of a packet, and the hops it has been through.
Hops == pkt.ttl0 - pkt.ttl
Path == Paths[pkt.from][pkt.dst]

LEMMA HopsAreNatural ==
    ASSUME Inv, pkt # NoPacket
    PROVE  pkt.ttl \in Nat /\ pkt.ttl0 \in Nat /\ Hops \in Nat
<1>1. pkt.ttl \in Below(256) /\ pkt.ttl0 \in Below(256) /\ pkt.ttl <= pkt.ttl0
  BY DEF Inv, TypeOK, Packets, OnItsWay
<1> QED
  BY <1>1, Widths DEF Hops

-----------------------------------------------------------------------------
(* A packet for a host is on its path; one for nobody stays inside. *)
Follows ==
    /\ pkt.from # pkt.dst
    /\ pkt.at \in Switches /\ pkt.stage = "ingress" =>
          Hops < Len(Path) /\ pkt.at = Path[Hops + 1][1]
    /\ pkt.stage = "egress" =>
          /\ Hops \in 1..Len(Path) /\ Path[Hops] = <<pkt.at, pkt.port>>
          /\ Hops = Len(Path) => pkt.mac = pkt.dst
    /\ pkt.at \in Hosts => pkt.at = pkt.dst /\ pkt.mac = pkt.dst /\ Hops = Len(Path)
Strays ==
    /\ pkt.at \in Switches
    /\ pkt.stage = "egress" => Peers[pkt.at][pkt.port] \in Switches
RouteInv == pkt # NoPacket => IF pkt.dst \in Hosts THEN Follows ELSE Strays

LEMMA PathIs ==
    ASSUME Inv, pkt # NoPacket, pkt.dst \in Hosts, pkt.from # pkt.dst
    PROVE  /\ Len(Path) \in 1..3 /\ Path[1][1] = Attached[pkt.from]
           /\ \A k \in 1..Len(Path) : Hop(Path, k, pkt.dst)
<1>1. pkt.from \in Hosts
  BY DEF Inv, TypeOK, Packets
<1> QED
  BY <1>1, PathsAreRoutes DEF Path

LEMMA SendRoute ==
    ASSUME NEW h \in Hosts, NEW d \in Addresses, NEW f \in Formats, NEW t \in Ttls,
           Send(h, d, f, t), Inv'
    PROVE  RouteInv'
<1>1. /\ pkt'.at = Attached[h] /\ pkt'.stage = "ingress" /\ pkt'.dst = d /\ pkt'.from = h
      /\ pkt'.ttl = t /\ pkt'.ttl0 = t /\ d # h
  BY DEF Send
<1>2. t \in Nat /\ Attached[h] \in Switches
  BY TtlsAssumption, Widths DEF Attached, Switches, Hosts
<1>3. Hops' = 0
  BY <1>1, <1>2 DEF Hops
<1>4. CASE d \in Hosts
  <2>1. Path' = Paths[h][d]
    BY <1>1 DEF Path
  <2>2. Len(Path') \in 1..3 /\ Path'[1][1] = Attached[h]
    BY <1>1, <1>4, <2>1, PathsAreRoutes
  <2>3. pkt'.at \notin Hosts
    BY <1>1, <1>2 DEF Hosts, Switches
  <2>4. Follows'
    BY <1>1, <1>3, <2>2, <2>3 DEF Follows
  <2> QED
    BY <1>1, <1>4, <2>4 DEF RouteInv
<1>5. CASE d \notin Hosts
  BY <1>1, <1>2, <1>5 DEF RouteInv, Strays
<1> QED
  BY <1>4, <1>5

LEMMA IngressRoute ==
    ASSUME Inv, RouteInv, Ingress
    PROVE  RouteInv'
<1> SUFFICES ASSUME pkt' # NoPacket PROVE RouteInv'
  BY DEF RouteInv
<1>1. /\ pkt \in Packets /\ pkt.at \in Switches /\ pkt.stage = "ingress" /\ ~Drops(pkt)
      /\ pkt'.at = pkt.at /\ pkt'.stage = "egress" /\ pkt'.dst = pkt.dst /\ pkt'.from = pkt.from
      /\ pkt'.port = Longest(pkt.at, pkt.dst).port /\ pkt'.mac = Longest(pkt.at, pkt.dst).mac
      /\ pkt'.ttl = pkt.ttl - 1 /\ pkt'.ttl0 = pkt.ttl0
  BY IngressMoves
<1>2. pkt # NoPacket /\ Matching(pkt.at, pkt.dst) # {} /\ pkt.at \notin Hosts
  BY <1>1 DEF NoPacket, Switches, Hosts, Drops
<1>3. Hops' = Hops + 1 /\ Hops \in Nat
  BY <1>1, <1>2, HopsAreNatural DEF Hops
<1>4. CASE pkt.dst \in Hosts
  <2>1. Follows /\ Path' = Path
    BY <1>1, <1>2, <1>4 DEF RouteInv, Path
  <2>2. Longest(pkt.at, pkt.dst) = Route(pkt.at, pkt.dst)
    BY <1>1, <1>2, <1>4, RouteIsFinal DEF Inv, Route
  <2>3. Len(Path) \in 1..3 /\ Hops < Len(Path) /\ pkt.at = Path[Hops + 1][1]
    BY <1>1, <1>2, <1>4, <2>1, PathIs DEF Follows
  <2>4. Hop(Path, Hops + 1, pkt.dst) /\ Hops + 1 \in 1..Len(Path)
    BY <1>2, <1>3, <1>4, <2>1, <2>3, PathIs DEF Follows
  <2>5. Path[Hops + 1] = <<pkt.at, Route(pkt.at, pkt.dst).port>>
    BY <2>3, <2>4 DEF Hop
  <2>6. Hops + 1 = Len(Path) => Route(pkt.at, pkt.dst).mac = pkt.dst
    BY <2>3, <2>4 DEF Hop
  <2>7. Follows'
    BY <1>1, <1>2, <1>3, <2>1, <2>2, <2>4, <2>5, <2>6 DEF Follows
  <2> QED
    BY <1>1, <1>4, <2>7 DEF RouteInv
<1>5. CASE pkt.dst \notin Hosts
  <2>1. PICK i \in 1..Routes(pkt.at) :
           /\ Longest(pkt.at, pkt.dst) = ConfigFor[pkt.at][i]
           /\ pkt.dst \in Net(ConfigFor[pkt.at][i].net)
    BY <1>1, <1>2, LongestIsRoute
  <2>2. pkt.dst \in Addresses
    BY <1>1 DEF Packets
  <2>3. Peers[pkt.at][Longest(pkt.at, pkt.dst).port] \in Switches
    BY <1>1, <1>5, <2>1, <2>2, StraysStayInside
  <2> QED
    BY <1>1, <1>5, <2>3 DEF RouteInv, Strays
<1> QED
  BY <1>4, <1>5

LEMMA EgressRoute ==
    ASSUME Inv, RouteInv, Egress, Inv'
    PROVE  RouteInv'
<1>1. /\ pkt \in Packets /\ pkt.at \in Switches /\ pkt.stage = "egress"
      /\ pkt'.at = Peers[pkt.at][pkt.port] /\ pkt'.stage = "ingress"
      /\ pkt'.dst = pkt.dst /\ pkt'.from = pkt.from
      /\ pkt'.mac = pkt.mac /\ pkt'.ttl = pkt.ttl /\ pkt'.ttl0 = pkt.ttl0
  BY EgressMoves
<1>2. pkt # NoPacket
  BY <1>1 DEF NoPacket, Switches
<1>3. Hops' = Hops /\ Hops \in Nat
  BY <1>1, <1>2, HopsAreNatural DEF Hops
<1>4. CASE pkt.dst \in Hosts
  <2>1. Follows /\ Path' = Path
    BY <1>1, <1>2, <1>4 DEF RouteInv, Path
  <2>2. Hops \in 1..Len(Path) /\ Path[Hops] = <<pkt.at, pkt.port>> /\ Len(Path) \in 1..3
    BY <1>1, <1>2, <1>4, <2>1, PathIs DEF Follows
  <2>3. Hop(Path, Hops, pkt.dst)
    BY <1>2, <1>4, <2>1, <2>2, PathIs DEF Follows
  <2>4. ASSUME Hops < Len(Path) PROVE Follows'
    <3>1. pkt'.at = Path[Hops + 1][1]
      BY <1>1, <2>2, <2>3, <2>4 DEF Hop
    <3>2. Hops + 1 \in 1..Len(Path) /\ Hop(Path, Hops + 1, pkt.dst)
      BY <1>2, <1>3, <1>4, <2>1, <2>2, <2>4, PathIs DEF Follows
    <3>3. pkt'.at \in Switches /\ pkt'.at \notin Hosts
      BY <3>1, <3>2 DEF Hop, Switches, Hosts
    <3> QED
      BY <1>1, <1>3, <2>1, <2>4, <3>1, <3>3 DEF Follows
  <2>5. ASSUME Hops = Len(Path) PROVE Follows'
    <3>1. pkt'.at = pkt.dst /\ pkt.mac = pkt.dst
      BY <1>1, <2>1, <2>2, <2>3, <2>5 DEF Hop, Follows
    <3>2. pkt'.at \notin Switches
      BY <1>4, <3>1 DEF Hosts, Switches
    <3> QED
      BY <1>1, <1>3, <2>1, <2>5, <3>1, <3>2 DEF Follows
  <2>6. Follows'
    BY <1>3, <2>2, <2>4, <2>5
  <2> QED
    BY <1>1, <1>4, <2>6 DEF RouteInv
<1>5. CASE pkt.dst \notin Hosts
  BY <1>1, <1>2, <1>5 DEF RouteInv, Strays
<1> QED
  BY <1>4, <1>5

LEMMA RouteStep == Inv /\ Inv' /\ RouteInv /\ [Next]_vars => RouteInv'
<1> SUFFICES ASSUME Inv, Inv', RouteInv, [Next]_vars PROVE RouteInv'
  OBVIOUS
<1>1. CASE \E s \in Switches : Write(s)
  BY <1>1 DEF Write, RouteInv, Follows, Strays, Hops, Path
<1>2. CASE Receive
  BY <1>2 DEF Receive, RouteInv
<1>3. CASE UNCHANGED vars
  BY <1>3 DEF vars, RouteInv, Follows, Strays, Hops, Path
<1> QED
  BY <1>1, <1>2, <1>3, SendRoute, IngressRoute, EgressRoute DEF Next

LEMMA RouteInvariance == Spec => [](Inv /\ RouteInv)
<1>1. Init => RouteInv
  BY DEF Init, RouteInv
<1> QED
  BY InitInv, NextInv, <1>1, RouteStep, PTL DEF Spec

\* A packet reaches its owner or nobody, with the owner's MAC, also while the
\* three tables are half filled (configFor, mustWriteRoutes), for every
\* header, time to live and interleaving.
THEOREM OwnersOnly == Spec => []OnlyToOwner
<1>1. Inv /\ RouteInv => OnlyToOwner
  <2> SUFFICES ASSUME Inv, RouteInv, pkt # NoPacket, pkt.at \in Hosts
               PROVE  pkt.dst = pkt.at /\ pkt.mac = pkt.at
    BY DEF OnlyToOwner
  <2>1. pkt.at \notin Switches
    BY DEF Hosts, Switches
  <2> QED
    BY <2>1 DEF RouteInv, Follows, Strays
<1> QED
  BY RouteInvariance, <1>1, PTL

\* No packet for a host takes a detour while tables are filled: it is on the
\* path of packets.py from its first hop to its last.
THEOREM NoDetour == Spec => []NoTransientLoop
<1>1. Inv /\ RouteInv => NoTransientLoop
  <2> SUFFICES ASSUME Inv, RouteInv, pkt # NoPacket, pkt.dst \in Hosts
               PROVE  Hops <= 3
    BY DEF NoTransientLoop, Hops
  <2> DEFINE n == Len(Path)
  <2>1. Follows /\ n \in 1..3
    BY PathIs DEF RouteInv, Follows
  <2>2. Hops \in Nat
    BY HopsAreNatural
  <2>3. pkt.at \in Switches \cup Hosts /\ pkt.stage \in {"ingress", "egress"}
    BY DEF Inv, TypeOK, Packets
  <2>4. Hops < n \/ Hops \in 1..n \/ Hops = n
    BY <2>1, <2>3 DEF Follows
  <2>5. n \in 1..3
    BY <2>1
  <2> HIDE DEF n
  <2> QED
    BY <2>2, <2>4, <2>5
<1> QED
  BY RouteInvariance, <1>1, PTL

-----------------------------------------------------------------------------
(* The trace. *)

\* The records a header takes on k hops.
Take(f, k) ==
    LET bounds == {k, MaxHeaders - f.num, (65535 - f.totLen) \div 4}
    IN  CHOOSE i \in bounds : \A j \in bounds : i <= j

\* There is room for one more after k hops.
More(f, k) == k + 1 <= MaxHeaders - f.num /\ k + 1 <= (65535 - f.totLen) \div 4

LEMMA TakeIsLeast ==
    ASSUME NEW f \in Fields, f.num <= MaxHeaders, NEW k \in Nat
    PROVE  /\ Take(f, k) \in Nat /\ Take(f, k) <= k
           /\ Take(f, k) <= MaxHeaders - f.num /\ Take(f, k) <= (65535 - f.totLen) \div 4
           /\ Take(f, k) \in {k, MaxHeaders - f.num, (65535 - f.totLen) \div 4}
<1> DEFINE a == MaxHeaders - f.num
           b == (65535 - f.totLen) \div 4
           bounds == {k, a, b}
<1>1. a \in Nat /\ b \in Nat
  BY FieldsAre, MaxHeadersAssumption
<1> HIDE DEF a, b
<1>2. \E i \in bounds : \A j \in bounds : i <= j
  BY <1>1
<1>3. Take(f, k) = CHOOSE i \in bounds : \A j \in bounds : i <= j
  BY DEF Take, a, b
<1> HIDE DEF bounds
<1>4. Take(f, k) \in bounds /\ \A j \in bounds : Take(f, k) <= j
  BY <1>2, <1>3
<1> QED
  BY <1>1, <1>4 DEF bounds, a, b

LEMMA TakeNone ==
    ASSUME NEW f \in Fields, f.num <= MaxHeaders
    PROVE  Take(f, 0) = 0
BY TakeIsLeast, 0 \in Nat

\* The next hop adds a record exactly if there is room for it.
LEMMA TakeNext ==
    ASSUME NEW f \in Fields, f.num <= MaxHeaders, NEW k \in Nat
    PROVE  /\ More(f, k) => Take(f, k) = k /\ Take(f, k + 1) = k + 1
           /\ ~More(f, k) => Take(f, k + 1) = Take(f, k)
           /\ More(f, k) <=> f.num + Take(f, k) < MaxHeaders /\ f.totLen + 4 * Take(f, k) <= 65531
<1> DEFINE a == MaxHeaders - f.num
           b == (65535 - f.totLen) \div 4
<1>1. /\ a \in Nat /\ b \in Nat /\ f.num \in Nat /\ f.totLen \in Nat /\ MaxHeaders \in Nat
      /\ 4 * b <= 65535 - f.totLen /\ 65535 - f.totLen < 4 * b + 4
      /\ MaxHeaders = f.num + a
  BY FieldsAre, MaxHeadersAssumption
<1> DEFINE t == Take(f, k)
           u == Take(f, k + 1)
<1>2. /\ t \in Nat /\ t <= k /\ t <= a /\ t <= b /\ (t = k \/ t = a \/ t = b)
  BY TakeIsLeast
<1>3. /\ u \in Nat /\ u <= k + 1 /\ u <= a /\ u <= b /\ (u = k + 1 \/ u = a \/ u = b)
  BY TakeIsLeast, k + 1 \in Nat
<1>4. More(f, k) <=> k + 1 <= a /\ k + 1 <= b
  BY DEF More
<1> HIDE DEF a, b, t, u
<1>5. (k + 1 <= a /\ k + 1 <= b) => t = k /\ u = k + 1
  BY <1>1, <1>2, <1>3
<1>6. ~(k + 1 <= a /\ k + 1 <= b) => u = t
  BY <1>1, <1>2, <1>3
<1>7. (k + 1 <= a /\ k + 1 <= b) <=> (f.num + t < MaxHeaders /\ f.totLen + 4 * t <= 65531)
  BY <1>1, <1>2
<1> QED
  BY <1>4, <1>5, <1>6, <1>7 DEF t, u

\* A record pushed on a stack with room lies before the others.
LEMMA PushPuts ==
    ASSUME NEW r \in Records, NEW stack \in Seq(Records), Len(stack) < MaxHeaders
    PROVE  /\ Push(r, stack) \in Seq(Records) /\ Len(Push(r, stack)) = Len(stack) + 1
           /\ Push(r, stack)[1] = r
           /\ \A i \in 1..Len(stack) : Push(r, stack)[i + 1] = stack[i]
<1>1. /\ <<r>> \o stack \in Seq(Records) /\ Len(<<r>> \o stack) = Len(stack) + 1
      /\ (<<r>> \o stack)[1] = r
      /\ \A i \in 1..Len(stack) : (<<r>> \o stack)[i + 1] = stack[i]
  OBVIOUS
<1>2. Push(r, stack) = SubSeq(<<r>> \o stack, 1, Len(stack) + 1)
  BY DEF Push
<1> DEFINE whole == <<r>> \o stack
<1> HIDE DEF whole
<1>3. \A n \in Nat : whole \in Seq(Records) /\ Len(whole) = n => SubSeq(whole, 1, n) = whole
  OBVIOUS
<1> QED
  BY <1>1, <1>2, <1>3 DEF whole

\* A packet that set out after all were ready: the header it had, and, once
\* accepted, one record for each hop it has left, as far as there was room.
Left == IF pkt.stage = "egress" THEN Hops - 1 ELSE Hops
TraceOf(f, k) ==
    /\ pkt.head.num = f.num + Take(f, k) /\ pkt.head.totLen = f.totLen + 4 * Take(f, k)
    /\ Len(pkt.stack) = f.num + Take(f, k)
    /\ \A i \in 1..Take(f, k) : pkt.stack[i] = Path[Take(f, k) + 1 - i]
    /\ \A i \in Take(f, k) + 1 .. Len(pkt.stack) : pkt.stack[i] = Old
Traced ==
    /\ AllReady
    /\ Hops = 0 => pkt.stage = "ingress" /\ pkt.head = pkt.sent
    /\ Hops > 0 => Parses(pkt.sent) /\ pkt.sent.sum = "good"
    /\ Parses(pkt.sent) => (HasInt(pkt.head) <=> HasInt(pkt.sent))
    /\ Parses(pkt.sent) /\ HasInt(pkt.sent) => TraceOf(pkt.sent, Left)
TraceInv == pkt # NoPacket /\ pkt.settled /\ pkt.dst \in Hosts => Traced

LEMMA SendTrace ==
    ASSUME NEW h \in Hosts, NEW d \in Addresses, NEW f \in Formats, NEW t \in Ttls,
           Send(h, d, f, t), Inv'
    PROVE  TraceInv'
<1> SUFFICES ASSUME pkt'.settled PROVE Traced'
  BY DEF TraceInv
<1> DEFINE st == IF Parses(f) /\ HasInt(f) THEN [i \in 1..f.num |-> Old] ELSE <<>>
<1>1. /\ pkt'.stage = "ingress" /\ pkt'.ttl = t /\ pkt'.ttl0 = t
      /\ pkt'.head = f /\ pkt'.sent = f /\ pkt'.stack = st /\ AllReady /\ written' = written
  BY DEF Send
<1>2. f \in Fields /\ t \in Nat
  BY FormatsAssumption, TtlsAssumption, Widths
<1>3. Hops' = 0 /\ Left' = 0
  BY <1>1, <1>2 DEF Hops, Left
<1>4. AllReady'
  BY <1>1 DEF AllReady, Ready
<1>5. ASSUME Parses(f), HasInt(f) PROVE TraceOf(f, 0)'
  <2>1. f.num \in Nat /\ f.totLen \in Nat /\ f.num <= MaxHeaders
    BY <1>2, <1>5, FieldsAre DEF Parses
  <2>2. Take(f, 0) = 0
    BY <1>2, <2>1, TakeNone
  <2>3. Len(st) = f.num /\ \A i \in 1..f.num : st[i] = Old
    BY <1>5, <2>1
  <2> HIDE DEF st
  <2> QED
    BY <1>1, <2>1, <2>2, <2>3 DEF TraceOf
<1>6. TraceOf(f, 0)' => TraceOf(pkt.sent, Left)'
  BY <1>1, <1>3 DEF TraceOf
<1> QED
  BY <1>1, <1>3, <1>4, <1>5, <1>6 DEF Traced

LEMMA IngressTrace ==
    ASSUME Inv, TraceInv, Ingress
    PROVE  TraceInv'
<1> SUFFICES ASSUME pkt' # NoPacket, pkt'.settled, pkt'.dst \in Hosts PROVE Traced'
  BY DEF TraceInv
<1>1. /\ pkt \in Packets /\ OnItsWay /\ pkt.at \in Switches /\ pkt.stage = "ingress"
      /\ ~Drops(pkt) /\ written' = written
      /\ pkt'.stage = "egress" /\ pkt'.dst = pkt.dst /\ pkt'.from = pkt.from
      /\ pkt'.ttl = pkt.ttl - 1 /\ pkt'.ttl0 = pkt.ttl0
      /\ pkt'.sent = pkt.sent /\ pkt'.settled = pkt.settled /\ pkt'.stack = pkt.stack
      /\ pkt'.head = [pkt.head EXCEPT !.sum = "bad"]
  BY IngressMoves
<1>2. pkt # NoPacket
  BY <1>1 DEF NoPacket, Switches
<1>3. Hops' = Hops + 1 /\ Hops \in Nat
  BY <1>1, <1>2, HopsAreNatural DEF Hops
<1>4. Left' = Left /\ Left = Hops /\ Path' = Path
  BY <1>1, <1>3 DEF Left, Path
<1>5. Traced
  BY <1>1, <1>2 DEF TraceInv
<1>6. AllReady'
  BY <1>1, <1>5 DEF Traced, AllReady, Ready
<1>7. Parses(pkt.sent) /\ pkt.sent.sum = "good"
  <2>1. Parses(pkt.head) /\ pkt.head.sum # "bad" /\ pkt.head \in Fields
    BY <1>1 DEF Drops, Packets
  <2>2. pkt.head.sum = "good"
    BY <2>1, FieldsAre
  <2> QED
    BY <1>3, <1>5, <2>1, <2>2 DEF Traced
<1>8. /\ pkt'.head.num = pkt.head.num /\ pkt'.head.totLen = pkt.head.totLen
      /\ pkt'.head.opt = pkt.head.opt /\ pkt'.head.ihl = pkt.head.ihl
  BY <1>1 DEF Packets, Fields
<1>9. HasInt(pkt.sent) => TraceOf(pkt.sent, Left)'
  BY <1>1, <1>4, <1>5, <1>7, <1>8 DEF Traced, TraceOf
<1>10. HasInt(pkt'.head) <=> HasInt(pkt.head)
  BY <1>8 DEF HasInt
<1> QED
  BY <1>1, <1>3, <1>5, <1>6, <1>7, <1>9, <1>10 DEF Traced

LEMMA EgressTrace ==
    ASSUME Inv, RouteInv, TraceInv, Egress, Inv'
    PROVE  TraceInv'
<1> SUFFICES ASSUME pkt'.settled, pkt'.dst \in Hosts PROVE Traced'
  BY DEF TraceInv
<1>1. /\ pkt \in Packets /\ OnItsWay /\ pkt.at \in Switches /\ pkt.stage = "egress"
      /\ written' = written /\ pkt'.stage = "ingress"
      /\ pkt'.dst = pkt.dst /\ pkt'.from = pkt.from
      /\ pkt'.ttl = pkt.ttl /\ pkt'.ttl0 = pkt.ttl0
      /\ pkt'.sent = pkt.sent /\ pkt'.settled = pkt.settled
      /\ pkt'.stack = Grown /\ pkt'.head = Recompute(Stamped)
  BY EgressMoves
<1>2. pkt # NoPacket
  BY <1>1 DEF NoPacket, Switches
<1>3. /\ Traced /\ Follows /\ Hops \in Nat /\ Hops > 0
  <2>1. Traced /\ Follows /\ Hops \in Nat
    BY <1>1, <1>2, HopsAreNatural DEF TraceInv, RouteInv
  <2>2. Hops # 0
    BY <1>1, <2>1 DEF Traced
  <2> QED
    BY <2>1, <2>2
<1>4. /\ Hops' = Hops /\ Path' = Path /\ Left = Hops - 1 /\ Left' = Hops /\ Left \in Nat
  BY <1>1, <1>3 DEF Hops, Path, Left
<1>5. AllReady'
  BY <1>1, <1>3 DEF Traced, AllReady, Ready
<1>6. Parses(pkt.sent) /\ pkt.sent.sum = "good" /\ (HasInt(pkt.head) <=> HasInt(pkt.sent))
  BY <1>3 DEF Traced
<1>7. /\ pkt.head \in Fields /\ Parses(pkt.head) /\ pkt.sent \in Fields
      /\ pkt.stack \in Seq(Records) /\ Ready(pkt.at)
  BY <1>1, <1>3 DEF OnItsWay, Packets, Traced, AllReady
<1> DEFINE f == pkt.sent
           g == Recompute(Stamped)
<1>8. CASE ~HasInt(f)
  <2>1. ~Stamps /\ Stamped = pkt.head
    BY <1>6, <1>8 DEF Stamps, Stamped, HasRoom
  <2>2. HasInt(g) <=> HasInt(pkt.head)
    BY <1>7, <2>1, EveryCountHasItsCase
  <2> HIDE DEF g
  <2>3. pkt'.head = g /\ ~HasInt(pkt'.head)
    BY <1>1, <1>6, <1>8, <2>2 DEF g
  <2> QED
    BY <1>1, <1>3, <1>4, <1>5, <1>6, <1>8, <2>3 DEF Traced
<1>9. CASE HasInt(f)
  <2> DEFINE k == Left
             n == Take(f, k)
             m == Take(f, k + 1)
             Longer == /\ pkt'.head.num = f.num + m /\ pkt'.head.totLen = f.totLen + 4 * m
                       /\ Len(Grown) = f.num + m
                       /\ \A i \in 1..m : Grown[i] = Path[m + 1 - i]
                       /\ \A i \in m + 1 .. Len(Grown) : Grown[i] = Old
  <2>1. /\ f.num \in Nat /\ f.totLen \in Nat /\ f.num <= MaxHeaders /\ MaxHeaders \in 0..9
        /\ n \in Nat /\ k \in Nat
    <3>1. f.num \in Nat /\ f.totLen \in Nat /\ MaxHeaders \in 0..9 /\ k \in Nat
      BY <1>4, <1>7, FieldsAre, MaxHeadersAssumption
    <3>2. f.num <= MaxHeaders
      BY <1>6, <1>9 DEF Parses
    <3> QED
      BY <1>7, <3>1, <3>2, TakeIsLeast
  <2>2. /\ pkt.head.num = f.num + n /\ pkt.head.totLen = f.totLen + 4 * n
        /\ Len(pkt.stack) = f.num + n
        /\ \A i \in 1..n : pkt.stack[i] = Path[n + 1 - i]
        /\ \A i \in n + 1 .. Len(pkt.stack) : pkt.stack[i] = Old
    BY <1>3, <1>6, <1>9 DEF Traced, TraceOf
  <2>3. Stamps <=> More(f, k)
    <3>1. HasInt(pkt.head)
      BY <1>6, <1>9
    <3>2. More(f, k) <=> f.num + n < MaxHeaders /\ f.totLen + 4 * n <= 65531
      BY <1>7, <2>1, TakeNext
    <3> QED
      BY <1>7, <2>2, <3>1, <3>2 DEF Stamps, HasRoom
  <2>4. ASSUME HasInt(Stamped), Stamped \in Fields, Parses(Stamped)
        PROVE  g.num = Stamped.num /\ g.totLen = Stamped.totLen /\ HasInt(g)
    <3>1. HasInt(g) <=> HasInt(Stamped)
      BY <2>4, EveryCountHasItsCase
    <3>2. g.num = Stamped.num /\ g.totLen = Stamped.totLen
      BY <2>4 DEF Recompute, Fields
    <3> QED
      BY <2>4, <3>1, <3>2
  <2>5. ASSUME More(f, k) PROVE Longer /\ HasInt(pkt'.head)
    <3>1. Stamps /\ n = k /\ m = k + 1
      BY <1>7, <2>1, <2>3, <2>5, TakeNext
    <3>2. HasRoom(pkt.head) /\ Len(pkt.stack) < MaxHeaders /\ pkt.head.totLen <= 65531
      BY <2>2, <3>1 DEF Stamps, HasRoom
    <3>3. <<pkt.at, pkt.port>> \in Records /\ <<pkt.at, pkt.port>> = Path[k + 1]
      <4>1. pkt.port \in 1..3
        BY <1>1, PeersExist DEF OnItsWay
      <4>2. Path[Hops] = <<pkt.at, pkt.port>> /\ Hops = k + 1
        BY <1>1, <1>3, <1>4 DEF Follows
      <4> QED
        BY <1>1, <4>1, <4>2 DEF Records
    <3> DEFINE r == <<pkt.at, pkt.port>>
    <3> HIDE DEF r
    <3>4. /\ Grown \in Seq(Records) /\ Len(Grown) = Len(pkt.stack) + 1 /\ Grown[1] = r
          /\ \A i \in 1..Len(pkt.stack) : Grown[i + 1] = pkt.stack[i]
      <4>1. Grown = Push(r, pkt.stack) /\ r \in Records
        BY <3>1, <3>3 DEF Grown, r
      <4>2. pkt.stack \in Seq(Records) /\ Len(pkt.stack) < MaxHeaders
        BY <1>7, <3>2
      <4> DEFINE old == pkt.stack
      <4> HIDE DEF old
      <4>3. /\ Push(r, old) \in Seq(Records) /\ Len(Push(r, old)) = Len(old) + 1
            /\ Push(r, old)[1] = r /\ \A i \in 1..Len(old) : Push(r, old)[i + 1] = old[i]
        <5>1. r \in Records /\ old \in Seq(Records) /\ Len(old) < MaxHeaders
          BY <4>1, <4>2 DEF old
        <5> QED
          BY ONLY <5>1, PushPuts
      <4> QED
        BY <4>1, <4>3 DEF old
    <3>5. /\ Stamped \in Fields /\ Parses(Stamped) /\ HasInt(Stamped)
          /\ Stamped.num = pkt.head.num + 1 /\ Stamped.totLen = pkt.head.totLen + 4
      <4>1. Len(Grown) - Len(pkt.stack) = 1
        <5>1. Len(pkt.stack) \in Nat
          BY <1>7
        <5> QED
          BY <3>4, <5>1
      <4>2. Stamped = Stamp(pkt.head, 1)
        BY <3>1, <4>1 DEF Stamped
      <4>3. (pkt.head.totLen + 4) % 65536 = pkt.head.totLen + 4
        <5>1. pkt.head.totLen \in Nat
          BY <1>7, FieldsAre
        <5> QED
          BY <3>2, <5>1
      <4>4. Stamp(pkt.head, 1).totLen = pkt.head.totLen + 4
        BY <1>7, <4>3 DEF Stamp, Fields
      <4> QED
        BY <1>7, <3>2, <4>2, <4>4, StampKeepsForm
    <3>6. pkt'.head.num = f.num + (k + 1) /\ pkt'.head.totLen = f.totLen + 4 * (k + 1) /\ HasInt(pkt'.head)
      <4>1. /\ pkt'.head.num = pkt.head.num + 1 /\ pkt'.head.totLen = pkt.head.totLen + 4
            /\ HasInt(pkt'.head)
        BY <1>1, <2>4, <3>5
      <4>2. /\ pkt'.head.num = (f.num + n) + 1 /\ pkt'.head.totLen = (f.totLen + 4 * n) + 4
            /\ n = k /\ f.num \in Nat /\ f.totLen \in Nat /\ k \in Nat
        BY <2>1, <2>2, <3>1, <4>1
      <4> HIDE DEF n, k, f
      <4>3. /\ (f.num + n) + 1 = f.num + (k + 1)
            /\ (f.totLen + 4 * n) + 4 = f.totLen + 4 * (k + 1)
        BY <4>2
      <4> QED
        BY <4>1, <4>2, <4>3
    <3>7. \A i \in 1..(k + 1) : Grown[i] = Path[(k + 1) + 1 - i]
      <4> SUFFICES ASSUME NEW i \in 1..(k + 1) PROVE Grown[i] = Path[(k + 1) + 1 - i]
        OBVIOUS
      <4>1. CASE i = 1
        <5>1. (k + 1) + 1 - i = k + 1
          BY <2>1, <4>1
        <5> QED
          BY <3>3, <3>4, <4>1, <5>1 DEF r
      <4>2. CASE i # 1
        <5>1. i - 1 \in 1..k /\ (i - 1) + 1 = i /\ k + 1 - (i - 1) = (k + 1) + 1 - i
          BY <2>1, <4>2
        <5>2. i - 1 \in 1..Len(pkt.stack)
          BY <2>1, <2>2, <3>1, <5>1
        <5>3. Grown[(i - 1) + 1] = pkt.stack[i - 1]
          BY <3>4, <5>2
        <5>4. pkt.stack[i - 1] = Path[k + 1 - (i - 1)]
          BY <2>2, <3>1, <5>1
        <5> QED
          BY <5>1, <5>3, <5>4
      <4> QED
        BY <4>1, <4>2
    <3>8. \A i \in (k + 1) + 1 .. Len(Grown) : Grown[i] = Old
      <4> SUFFICES ASSUME NEW i \in (k + 1) + 1 .. Len(Grown) PROVE Grown[i] = Old
        OBVIOUS
      <4>1. Len(Grown) = f.num + k + 1 /\ Len(pkt.stack) = f.num + k
        BY <2>1, <2>2, <3>1, <3>4
      <4>2. i - 1 \in k + 1 .. Len(pkt.stack) /\ i - 1 \in 1..Len(pkt.stack) /\ (i - 1) + 1 = i
        BY <2>1, <4>1
      <4>3. Grown[(i - 1) + 1] = pkt.stack[i - 1] /\ pkt.stack[i - 1] = Old
        BY <2>2, <3>1, <3>4, <4>2
      <4> QED
        BY <4>2, <4>3
    <3>9. Len(Grown) = f.num + (k + 1)
      BY <2>1, <2>2, <3>1, <3>4
    <3> HIDE DEF k, n, m, f
    <3> QED
      BY <3>1, <3>6, <3>7, <3>8, <3>9
  <2>6. ASSUME ~More(f, k) PROVE Longer /\ HasInt(pkt'.head)
    <3>1. ~Stamps /\ m = n /\ Stamped = pkt.head /\ Grown = pkt.stack
      <4>1. m = n
        BY <1>7, <2>1, <2>6, TakeNext
      <4>2. ~Stamps
        BY <2>3, <2>6
      <4> QED
        BY <4>1, <4>2 DEF Stamped, Grown
    <3>2. /\ pkt'.head.num = pkt.head.num /\ pkt'.head.totLen = pkt.head.totLen
          /\ HasInt(pkt'.head)
      BY <1>1, <1>6, <1>7, <1>9, <2>4, <3>1
    <3> HIDE DEF k, n, m, f
    <3> QED
      BY <2>2, <3>1, <3>2
  <2>7. TraceOf(pkt.sent, Left)' /\ HasInt(pkt'.head)
    <3>1. Left' = k + 1 /\ pkt'.sent = f /\ pkt'.stack = Grown /\ Path' = Path
      BY <1>1, <1>3, <1>4
    <3>2. Longer /\ HasInt(pkt'.head)
      BY <2>5, <2>6
    <3>3. Take(pkt'.sent, Left') = m
      BY <3>1
    <3> HIDE DEF m
    <3> QED
      BY <3>1, <3>2, <3>3 DEF TraceOf
  <2> QED
    BY <1>1, <1>3, <1>4, <1>5, <1>6, <1>9, <2>7 DEF Traced
<1> QED
  BY <1>8, <1>9

LEMMA WriteTrace ==
    ASSUME Inv, TraceInv, NEW s \in Switches, Write(s)
    PROVE  TraceInv'
<1>1. pkt' = pkt /\ ~AllReady
  BY DEF Write, AllReady, Ready, Inv, TypeOK
<1> QED
  BY <1>1 DEF TraceInv, Traced

LEMMA TraceStep == Inv /\ Inv' /\ RouteInv /\ TraceInv /\ [Next]_vars => TraceInv'
<1> SUFFICES ASSUME Inv, Inv', RouteInv, TraceInv, [Next]_vars PROVE TraceInv'
  OBVIOUS
<1>1. CASE Receive
  BY <1>1 DEF Receive, TraceInv
<1>2. CASE UNCHANGED vars
  BY <1>2 DEF vars, TraceInv, Traced, TraceOf, Left, Hops, Path, AllReady, Ready
<1> QED
  BY <1>1, <1>2, WriteTrace, SendTrace, IngressTrace, EgressTrace DEF Next

LEMMA TraceInvariance == Spec => [](Inv /\ RouteInv /\ TraceInv)
<1>1. Init => TraceInv
  BY DEF Init, TraceInv
<1> QED
  BY RouteInvariance, <1>1, TraceStep, PTL DEF Spec

\* The trace of a packet that set out once all were ready is its path from
\* the last hop to the first, as far as there was room, before the records it
\* came with (check_forwarded, expected_trace_count), for every capacity up to
\* nine and whatever hosts send.
THEOREM TraceIsComplete == Spec => []TraceIsPath
<1>1. Inv /\ RouteInv /\ TraceInv => TraceIsPath
  <2> SUFFICES ASSUME Inv, RouteInv, TraceInv, pkt # NoPacket, pkt.at \in Hosts, pkt.settled
               PROVE  LET path == Paths[pkt.from][pkt.at]
                          k == Taken(pkt.sent, path)
                      IN  /\ pkt.ttl = pkt.ttl0 - Len(path)
                          /\ HasInt(pkt.sent) =>
                                /\ Len(pkt.stack) = pkt.sent.num + k
                                /\ \A i \in 1..k : pkt.stack[i] = path[k + 1 - i]
                                /\ \A i \in k + 1 .. Len(pkt.stack) : pkt.stack[i] = Old
    BY DEF TraceIsPath
  <2>1. pkt.at \notin Switches /\ pkt \in Packets /\ OnItsWay
    BY DEF Hosts, Switches, Inv, TypeOK
  <2>2. pkt.dst = pkt.at /\ Follows /\ Traced
    BY <2>1 DEF RouteInv, Follows, Strays, TraceInv
  <2>3. /\ Hops = Len(Path) /\ Path = Paths[pkt.from][pkt.at] /\ Len(Path) \in 1..3
    BY <2>2, PathIs DEF Follows, Path
  <2>4. pkt.stage = "ingress" /\ pkt.ttl \in Nat /\ pkt.ttl0 \in Nat
    BY <2>1, HopsAreNatural DEF OnItsWay, Packets
  <2>5. Left = Len(Path) /\ pkt.ttl = pkt.ttl0 - Len(Path) /\ Hops > 0
    <3> DEFINE n == Len(Path)
    <3>1. Hops = n /\ n \in 1..3
      BY <2>3
    <3> HIDE DEF n
    <3>2. Left = n /\ pkt.ttl = pkt.ttl0 - n /\ Hops > 0
      BY <2>4, <3>1 DEF Left, Hops
    <3> QED
      BY <3>2 DEF n
  <2>6. HasInt(pkt.sent) => TraceOf(pkt.sent, Len(Path))
    BY <2>2, <2>5 DEF Traced
  <2>7. Taken(pkt.sent, Path) = Take(pkt.sent, Len(Path))
    BY DEF Taken, Take
  <2> QED
    BY <2>3, <2>5, <2>6, <2>7 DEF TraceOf
<1> QED
  BY TraceInvariance, <1>1, PTL

\* Once all are ready, no switch drops a well-formed packet for a host that
\* can afford the hops of its path.
THEOREM ReadyNetworkDelivers == Spec => NothingLostWhenReady
<1>1. ASSUME Inv, RouteInv, TraceInv, [Next]_vars,
             pkt # NoPacket, pkt' = NoPacket, pkt.settled, pkt.dst \in Hosts,
             Parses(pkt.sent), pkt.sent.sum = "good",
             pkt.ttl0 > Len(Paths[pkt.from][pkt.dst])
      PROVE  pkt.at = pkt.dst
  <2>1. Follows /\ Traced /\ pkt \in Packets /\ OnItsWay
    BY <1>1 DEF RouteInv, TraceInv, Inv, TypeOK
  <2>2. CASE Receive
    BY <2>1, <2>2 DEF Receive, Follows
  <2>3. ASSUME Ingress PROVE FALSE
    <3>1. pkt.at \in Switches /\ pkt.stage = "ingress"
      BY <2>3 DEF Ingress
    <3>2. Drops(pkt)
      <4> DEFINE r == Longest(pkt.at, pkt.dst)
                 p == [pkt EXCEPT !.stage = "egress", !.port = r.port, !.mac = r.mac,
                                  !.ttl = @ - 1, !.head.sum = "bad"]
      <4>1. p.at \in Switches
        BY <2>1, <3>1 DEF Packets
      <4>2. p # NoPacket
        <5> HIDE DEF p
        <5> QED
          BY <4>1 DEF NoPacket, Switches
      <4> QED
        BY <1>1, <2>3, <4>2 DEF Ingress
    <3>3. HasPipeline(pkt.at) /\ Matching(pkt.at, pkt.dst) # {}
      <4>1. written[pkt.at] = Routes(pkt.at) + 3 /\ Routes(pkt.at) \in Nat
        <5>1. Ready(pkt.at)
          BY <2>1, <3>1 DEF Traced, AllReady
        <5>2. Routes(pkt.at) \in Nat
          BY <3>1 DEF Routes, ConfigFor, Switches
        <5> QED
          BY <5>1, <5>2 DEF Ready, LastWrite
      <4>2. /\ Choice(pkt.at, pkt.dst) \in 1..Routes(pkt.at)
            /\ pkt.dst \in Net(ConfigFor[pkt.at][Choice(pkt.at, pkt.dst)].net)
        BY <1>1, <3>1, ChoiceIsBest
      <4> QED
        BY <4>1, <4>2 DEF HasPipeline, Matching, Installed
    <3>4. Parses(pkt.head) /\ pkt.head.sum = "good"
      <4>1. Hops \in Nat /\ pkt.ttl \in Nat /\ pkt.ttl0 \in Nat
        BY <1>1, HopsAreNatural
      <4>2. CASE Hops = 0
        BY <1>1, <2>1, <4>2 DEF Traced
      <4>3. CASE Hops # 0
        <5>1. pkt.ttl < pkt.ttl0
          BY <2>1, <4>1, <4>3 DEF OnItsWay, Hops
        <5> QED
          BY <2>1, <3>1, <5>1 DEF OnItsWay
      <4> QED
        BY <4>2, <4>3
    <3>5. ~(pkt.ttl <= 1)
      <4>1. pkt.ttl \in Nat /\ pkt.ttl0 \in Nat /\ Len(Path) \in 1..3
        BY <1>1, <2>1, HopsAreNatural, PathIs DEF Follows
      <4>2. Hops < Len(Path) /\ pkt.ttl0 > Len(Path)
        BY <1>1, <2>1, <3>1 DEF Follows, Path
      <4> QED
        BY <4>1, <4>2 DEF Hops
    <3> QED
      BY <3>2, <3>3, <3>4, <3>5 DEF Drops
  <2>4. ~Egress
    <3>1. ASSUME Egress PROVE FALSE
      <4>1. pkt'.at = Peers[pkt.at][pkt.port] /\ pkt.at \in Switches /\ pkt.stage = "egress"
        BY <1>1, <3>1, EgressMoves
      <4>2. pkt'.at \in Switches \cup Hosts
        BY <2>1, <4>1, PeersExist DEF OnItsWay
      <4> QED
        BY <1>1, <4>2 DEF NoPacket, Switches, Hosts
    <3> QED
      BY <3>1
  <2> QED
    BY <1>1, <2>2, <2>3, <2>4 DEF Next, Write, Send, vars
<1>2. Inv /\ RouteInv /\ TraceInv /\ [Next]_vars =>
        [pkt # NoPacket /\ pkt' = NoPacket /\ pkt.settled /\ pkt.dst \in Hosts
          /\ Parses(pkt.sent) /\ pkt.sent.sum = "good"
          /\ pkt.ttl0 > Len(Paths[pkt.from][pkt.dst])
       => pkt.at = pkt.dst]_vars
  BY <1>1
<1> QED
  BY TraceInvariance, <1>2, PTL DEF Spec, NothingLostWhenReady
=============================================================================
