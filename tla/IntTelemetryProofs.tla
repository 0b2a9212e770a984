------------------------- MODULE IntTelemetryProofs -------------------------
(***************************************************************************)
(* Proofs about IntTelemetry, for every capacity of the trace up to nine   *)
(* records, every set of headers hosts may send and every time to live.    *)
(***************************************************************************)
EXTENDS IntTelemetry, TLAPS

\* Between ingress and egress a packet has a header that parsed and a port
\* that leads somewhere; after its first hop its header stays well-formed;
\* its stack is as long as its count says whenever the parser would agree.
OnItsWay ==
    /\ pkt.ttl <= pkt.ttl0
    /\ pkt.stage = "egress" =>
         /\ pkt.at \in Switches /\ pkt.port \in 1..Len(Peers[pkt.at])
         /\ Parses(pkt.head) /\ pkt.ttl < pkt.ttl0
    /\ pkt.ttl < pkt.ttl0 =>
         /\ Parses(pkt.head)
         /\ pkt.stage = "ingress" => pkt.head.sum = "good"
    /\ Parses(pkt.head) /\ HasInt(pkt.head) => Len(pkt.stack) = pkt.head.num

Inv == TypeOK /\ (pkt # NoPacket => OnItsWay)

-----------------------------------------------------------------------------
\* The numbers of a field that holds k values.
LEMMA Widths == \A k \in Nat : \A n : n \in Below(k) <=> n \in Nat /\ n < k
BY DEF Below

\* A field that is large enough does not wrap.
LEMMA NoWrap ==
    ASSUME NEW n \in Nat, NEW w \in {16, 256, 65536}, n < w
    PROVE  n % w = n
<1>1. CASE w = 16
  BY <1>1
<1>2. CASE w = 256
  BY <1>2
<1>3. CASE w = 65536
  BY <1>3
<1> QED
  BY <1>1, <1>2, <1>3

\* The ranges of a header, as the arithmetic below uses them.
LEMMA FieldsAre ==
    ASSUME NEW h \in Fields
    PROVE  /\ h.num \in Nat /\ h.num < 65536 /\ h.ihl \in Nat /\ h.ihl < 16
           /\ h.optLen \in Nat /\ h.optLen < 256 /\ h.totLen \in Nat /\ h.totLen < 65536
           /\ h.wire \in Nat /\ h.opt \in {"int", "other"} /\ h.sum \in {"good", "bad"}
<1>1. /\ h.num \in Below(65536) /\ h.ihl \in Below(16) /\ h.optLen \in Below(256) /\ h.totLen \in Below(65536)
      /\ h.wire \in Nat /\ h.opt \in {"int", "other"} /\ h.sum \in {"good", "bad"}
  BY DEF Fields
<1> QED
  BY <1>1, Widths

\* A record that has room keeps the header well-formed: no field wraps.
LEMMA StampKeepsForm ==
    ASSUME NEW h \in Fields, Parses(h), HasRoom(h)
    PROVE  /\ Stamp(h, 1) \in Fields /\ Parses(Stamp(h, 1)) /\ HasInt(Stamp(h, 1))
           /\ Stamp(h, 1).num = h.num + 1
<1>1. /\ h.num \in Nat /\ h.ihl \in Nat /\ h.optLen \in Nat /\ h.totLen \in Nat
      /\ h.wire \in Nat /\ h.sum \in {"good", "bad"}
  BY FieldsAre
<1>2. /\ h.num < MaxHeaders /\ MaxHeaders \in Nat /\ MaxHeaders <= 9
      /\ h.totLen <= 65531 /\ h.ihl > 5 /\ h.opt = "int"
  BY MaxHeadersAssumption DEF HasRoom, HasInt
<1>3. /\ h.totLen >= h.ihl * 4 /\ h.totLen <= h.wire
      /\ h.optLen = (4 + h.num * 4) % 256 /\ h.optLen = (h.ihl - 5) * 4
  BY <1>2 DEF Parses, HasInt
<1>4. (4 + h.num * 4) % 256 = 4 + h.num * 4
  <2>1. 4 + h.num * 4 \in Nat /\ 4 + h.num * 4 < 256
    BY <1>1, <1>2
  <2> QED
    BY <2>1, NoWrap
<1>5. h.ihl = 6 + h.num /\ h.optLen = 4 + h.num * 4
  <2>1. h.optLen = 4 + h.num * 4
    BY <1>3, <1>4
  <2>2. 4 + h.num * 4 = (h.ihl - 5) * 4
    BY <1>3, <2>1
  <2>3. \A x, i \in Nat : 4 + x * 4 = (i - 5) * 4 => i = 6 + x
    OBVIOUS
  <2> QED
    BY <1>1, <2>1, <2>2, <2>3
<1>6. /\ (h.num + 1) % 65536 = h.num + 1 /\ (h.ihl + 1) % 16 = h.ihl + 1
      /\ (h.optLen + 4) % 256 = h.optLen + 4 /\ (h.totLen + 4) % 65536 = h.totLen + 4
  <2>1. /\ h.num + 1 < 65536 /\ h.ihl + 1 < 16 /\ h.optLen + 4 < 256 /\ h.totLen + 4 < 65536
    BY <1>1, <1>2, <1>5
  <2>2. /\ h.num + 1 \in Nat /\ h.ihl + 1 \in Nat /\ h.optLen + 4 \in Nat /\ h.totLen + 4 \in Nat
    BY <1>1
  <2> QED
    BY <2>1, <2>2, NoWrap
<1> DEFINE g == Stamp(h, 1)
<1>7. /\ g.num = h.num + 1 /\ g.ihl = h.ihl + 1 /\ g.optLen = h.optLen + 4
      /\ g.totLen = h.totLen + 4 /\ g.wire = h.wire + 4 /\ g.opt = h.opt
  BY <1>1, <1>6 DEF Stamp, Fields
<1>8. /\ h.num + 1 \in Below(65536) /\ h.ihl + 1 \in Below(16) /\ h.optLen + 4 \in Below(256)
      /\ h.totLen + 4 \in Below(65536) /\ h.wire + 4 \in Nat
  <2>1. /\ h.num + 1 < 65536 /\ h.ihl + 1 < 16 /\ h.optLen + 4 < 256 /\ h.totLen + 4 < 65536
    BY <1>1, <1>2, <1>5
  <2> QED
    BY <1>1, <2>1, Widths
<1>9. g \in Fields
  <2> DEFINE g1 == [h EXCEPT !.num = (@ + 1) % 65536]
             g2 == [g1 EXCEPT !.ihl = (@ + 1) % 16]
             g3 == [g2 EXCEPT !.optLen = (@ + 4) % 256]
             g4 == [g3 EXCEPT !.totLen = (@ + 4) % 65536]
             g5 == [g4 EXCEPT !.wire = @ + 4 * 1]
  <2>1. g = g5
    BY DEF Stamp
  <2>2. g1 \in Fields /\ g1.ihl = h.ihl /\ g1.optLen = h.optLen /\ g1.totLen = h.totLen
        /\ g1.wire = h.wire
    BY <1>6, <1>8 DEF Fields
  <2>3. g2 \in Fields /\ g2.optLen = h.optLen /\ g2.totLen = h.totLen /\ g2.wire = h.wire
    <3> HIDE DEF g1
    <3> QED
      BY <1>6, <1>8, <2>2 DEF Fields
  <2>4. g3 \in Fields /\ g3.totLen = h.totLen /\ g3.wire = h.wire
    <3> HIDE DEF g2
    <3> QED
      BY <1>6, <1>8, <2>3 DEF Fields
  <2>5. g4 \in Fields /\ g4.wire = h.wire
    <3> HIDE DEF g3
    <3> QED
      BY <1>6, <1>8, <2>4 DEF Fields
  <2>6. g5 \in Fields
    <3> HIDE DEF g4
    <3> QED
      BY <1>8, <2>5 DEF Fields
  <2> HIDE DEF g5, g
  <2> QED
    BY <2>1, <2>6
<1> HIDE DEF g
<1>10. /\ g.ihl >= 5 /\ g.totLen >= g.ihl * 4 /\ g.totLen <= g.wire
       /\ g.num <= MaxHeaders /\ g.optLen = (g.ihl - 5) * 4
       /\ g.ihl > 5
  BY <1>1, <1>2, <1>3, <1>5, <1>7
<1>11. g.optLen = (4 + g.num * 4) % 256
  <2>1. 4 + g.num * 4 \in Nat /\ 4 + g.num * 4 < 256
    BY <1>1, <1>2, <1>7
  <2>2. (4 + g.num * 4) % 256 = 4 + g.num * 4
    BY <2>1, NoWrap
  <2> QED
    BY <1>1, <1>5, <1>7, <2>2
<1>12. Parses(g) /\ HasInt(g)
  BY <1>2, <1>7, <1>10, <1>11 DEF Parses, HasInt
<1> QED
  BY <1>7, <1>9, <1>12 DEF g

\* One of the cases of MyComputeChecksum fits every header that parses.
LEMMA EveryCountHasItsCase ==
    ASSUME NEW h \in Fields, Parses(h)
    PROVE  /\ Recompute(h) \in Fields /\ Recompute(h).sum = "good"
           /\ Parses(Recompute(h)) /\ (HasInt(Recompute(h)) <=> HasInt(h))
           /\ Recompute(h).num = h.num
<1> DEFINE g == [h EXCEPT !.sum = "good"]
<1>1. h.num <= 9 \/ ~HasInt(h)
  BY FieldsAre, MaxHeadersAssumption DEF Parses
<1>2. Recompute(h) = g
  BY <1>1, FieldsAre DEF Recompute
<1>3. g \in Fields
  BY DEF Fields
<1>4. /\ g.sum = "good" /\ g.num = h.num /\ g.opt = h.opt /\ g.ihl = h.ihl
      /\ g.optLen = h.optLen /\ g.totLen = h.totLen /\ g.wire = h.wire
  BY DEF Fields
<1> HIDE DEF g
<1>5. HasInt(g) <=> HasInt(h)
  BY <1>4 DEF HasInt
<1>6. Parses(g)
  BY <1>4, <1>5 DEF Parses
<1> QED
  BY <1>2, <1>3, <1>4, <1>5, <1>6

\* A stack with room takes the record whole.
LEMMA PushGrows ==
    ASSUME NEW r \in Records, NEW stack \in Seq(Records), Len(stack) < MaxHeaders
    PROVE  Push(r, stack) \in Seq(Records) /\ Len(Push(r, stack)) = Len(stack) + 1
<1>1. <<r>> \o stack \in Seq(Records) /\ Len(<<r>> \o stack) = Len(stack) + 1
  OBVIOUS
<1>2. Push(r, stack) = SubSeq(<<r>> \o stack, 1, Len(stack) + 1)
  BY DEF Push
<1> QED
  BY <1>1, <1>2

\* The routes of the three switches lead to ports that are wired.
LEMMA RoutesAreWired ==
    ASSUME NEW s \in Switches, NEW i \in 1..Routes(s)
    PROVE  /\ ConfigFor[s][i].port \in 1..Len(Peers[s])
           /\ ConfigFor[s][i].mac \in Macs
<1>1. CASE s = "s1"
  <2>1. i \in {1, 2, 3} /\ Len(Peers[s]) = 3
    BY <1>1 DEF Routes, ConfigFor, Peers
  <2>2. ConfigFor[s][i].port \in {1, 2, 3} /\ ConfigFor[s][i].mac \in Macs
    <3>1. CASE i = 1
      BY <1>1, <3>1 DEF ConfigFor, Macs, Addresses, Hosts
    <3>2. CASE i = 2
      BY <1>1, <3>2 DEF ConfigFor, Macs, Addresses, Hosts
    <3>3. CASE i = 3
      BY <1>1, <3>3 DEF ConfigFor, Macs, Addresses, Hosts
    <3> QED
      BY <2>1, <3>1, <3>2, <3>3
  <2> QED
    BY <2>1, <2>2
<1>2. CASE s = "s2"
  <2>1. i \in {1, 2} /\ Len(Peers[s]) = 2
    BY <1>2 DEF Routes, ConfigFor, Peers
  <2>2. ConfigFor[s][i].port \in {1, 2} /\ ConfigFor[s][i].mac \in Macs
    <3>1. CASE i = 1
      BY <1>2, <3>1 DEF ConfigFor, Macs, Addresses, Hosts
    <3>2. CASE i = 2
      BY <1>2, <3>2 DEF ConfigFor, Macs, Addresses, Hosts
    <3> QED
      BY <2>1, <3>1, <3>2
  <2> QED
    BY <2>1, <2>2
<1>3. CASE s = "s3"
  <2>1. i \in {1, 2, 3} /\ Len(Peers[s]) = 3
    BY <1>3 DEF Routes, ConfigFor, Peers
  <2>2. ConfigFor[s][i].port \in {1, 2, 3} /\ ConfigFor[s][i].mac \in Macs
    <3>1. CASE i = 1
      BY <1>3, <3>1 DEF ConfigFor, Macs, Addresses, Hosts
    <3>2. CASE i = 2
      BY <1>3, <3>2 DEF ConfigFor, Macs, Addresses, Hosts
    <3>3. CASE i = 3
      BY <1>3, <3>3 DEF ConfigFor, Macs, Addresses, Hosts
    <3> QED
      BY <2>1, <3>1, <3>2, <3>3
  <2> QED
    BY <2>1, <2>2
<1> QED
  BY <1>1, <1>2, <1>3 DEF Switches

\* A wired port leads to a switch or a host.
LEMMA PeersExist ==
    ASSUME NEW s \in Switches, NEW p \in 1..Len(Peers[s])
    PROVE  Peers[s][p] \in Switches \cup Hosts /\ p \in 1..3
<1>1. CASE s = "s1"
  <2>1. p \in {1, 2, 3}
    BY <1>1 DEF Peers
  <2> QED
    BY <1>1, <2>1 DEF Peers, Switches, Hosts
<1>2. CASE s = "s2"
  <2>1. p \in {1, 2}
    BY <1>2 DEF Peers
  <2> QED
    BY <1>2, <2>1 DEF Peers, Switches, Hosts
<1>3. CASE s = "s3"
  <2>1. p \in {1, 2, 3}
    BY <1>3 DEF Peers
  <2> QED
    BY <1>3, <2>1 DEF Peers, Switches, Hosts
<1> QED
  BY <1>1, <1>2, <1>3 DEF Switches

\* The longest match is one of the routes that cover the address.
LEMMA LongestIsRoute ==
    ASSUME NEW s \in Switches, NEW d, Matching(s, d) # {}
    PROVE  \E i \in 1..Routes(s) : /\ Longest(s, d) = ConfigFor[s][i]
                                   /\ d \in Net(ConfigFor[s][i].net)
<1> DEFINE M == Matching(s, d)
           len(i) == Length(ConfigFor[s][i].net)
<1>1. M \subseteq {i \in 1..Routes(s) : d \in Net(ConfigFor[s][i].net)}
  BY DEF Matching, Installed
<1>2. \A i \in M : len(i) \in {16, 24, 32}
  BY DEF Length
<1>3. \E i \in M : TRUE
  OBVIOUS
<1>4. \E i \in M : \A j \in M : len(j) <= len(i)
  <2> HIDE DEF M, len
  <2>1. CASE \E i \in M : len(i) = 32
    BY <1>2, <2>1
  <2>2. CASE (\A i \in M : len(i) # 32) /\ \E i \in M : len(i) = 24
    BY <1>2, <2>2
  <2>3. CASE \A i \in M : len(i) # 32 /\ len(i) # 24
    BY <1>2, <1>3, <2>3
  <2> QED
    BY <2>1, <2>2, <2>3
<1>5. (CHOOSE i \in M : \A j \in M : len(j) <= len(i)) \in M
  <2> HIDE DEF M, len
  <2> QED
    BY <1>4
<1> QED
  BY <1>1, <1>5 DEF Longest

-----------------------------------------------------------------------------
\* Invariance of Inv: the initial state, a stutter, one lemma per action.
LEMMA LastWrites == \A s \in Switches : LastWrite(s) \in {5, 6}
<1> SUFFICES ASSUME NEW s \in Switches PROVE LastWrite(s) \in {5, 6}
  OBVIOUS
<1>1. Routes(s) \in {2, 3}
  BY DEF Routes, ConfigFor, Switches
<1> QED
  BY <1>1 DEF LastWrite

LEMMA InitInv == Init => Inv
<1> SUFFICES ASSUME Init PROVE Inv
  OBVIOUS
<1>1. \A s \in Switches : LastWrite(s) \in {5, 6}
  BY LastWrites
<1> QED
  BY <1>1 DEF Init, Inv, TypeOK

LEMMA StutterInv == Inv /\ UNCHANGED vars => Inv'
BY DEF Inv, TypeOK, OnItsWay, vars

LEMMA WriteInv ==
    ASSUME Inv, NEW s \in Switches, Write(s)
    PROVE  Inv'
<1>1. pkt' = pkt /\ written' = [written EXCEPT ![s] = @ + 1] /\ written[s] < LastWrite(s)
  BY DEF Write
<1>2. written \in [Switches -> 0..6] /\ \A t \in Switches : written[t] <= LastWrite(t)
  BY DEF Inv, TypeOK
<1>3. \A t \in Switches : LastWrite(t) \in {5, 6}
  BY LastWrites
<1>4. written' \in [Switches -> 0..6] /\ \A t \in Switches : written'[t] <= LastWrite(t)
  BY <1>1, <1>2, <1>3
<1>5. (pkt # NoPacket => pkt \in Packets /\ OnItsWay)'
  BY <1>1 DEF Inv, TypeOK, OnItsWay
<1> QED
  BY <1>4, <1>5 DEF Inv, TypeOK, LastWrite, Routes

LEMMA ReceiveInv == ASSUME Inv, Receive PROVE Inv'
BY DEF Inv, TypeOK, Receive

LEMMA SendInv ==
    ASSUME Inv, NEW h \in Hosts, NEW d \in Addresses, NEW f \in Formats, NEW t \in Ttls,
           Send(h, d, f, t)
    PROVE  Inv'
<1>1. f \in Fields /\ t \in Below(256) /\ t \in Nat
  BY FormatsAssumption, TtlsAssumption, Widths
<1> DEFINE st == IF Parses(f) /\ HasInt(f) THEN [i \in 1..f.num |-> Old] ELSE <<>>
<1>2. st \in Seq(Records) /\ (Parses(f) /\ HasInt(f) => Len(st) = f.num)
  <2>1. f.num \in Nat /\ Old \in Records
    BY <1>1, FieldsAre DEF Records
  <2> HIDE DEF Records, Old
  <2> QED
    BY <2>1
<1>3. AllReady \in BOOLEAN
  BY DEF AllReady
<1>4. Attached[h] \in Switches /\ d \in Macs
  BY DEF Attached, Switches, Hosts, Macs
<1> HIDE DEF st
<1> DEFINE p == [at |-> Attached[h], stage |-> "ingress", port |-> 0, dst |-> d,
                 mac |-> d, ttl |-> t, head |-> f, stack |-> st,
                 sent |-> f, ttl0 |-> t, from |-> h, settled |-> AllReady]
<1>5. pkt' = p /\ written' = written
  BY DEF Send, st
<1>6. p \in Packets
  <2> HIDE DEF AllReady
  <2> QED
    BY <1>1, <1>2, <1>3, <1>4 DEF Packets
<1>7. p.ttl = t /\ p.ttl0 = t /\ p.stage = "ingress" /\ p.head = f /\ p.stack = st
  OBVIOUS
<1> HIDE DEF p
<1>8. OnItsWay'
  BY <1>1, <1>2, <1>5, <1>7 DEF OnItsWay, Parses, HasInt
<1> QED
  BY <1>5, <1>6, <1>8 DEF Inv, TypeOK, LastWrite

LEMMA IngressInv == ASSUME Inv, Ingress PROVE Inv'
<1>1. /\ pkt \in Packets /\ OnItsWay /\ pkt.at \in Switches /\ pkt.stage = "ingress"
      /\ written' = written
  <2>1. pkt.at \in Switches /\ pkt.stage = "ingress" /\ written' = written
    BY DEF Ingress
  <2>2. pkt # NoPacket
    BY <2>1 DEF NoPacket, Switches
  <2> QED
    BY <2>1, <2>2 DEF Inv, TypeOK
<1>2. CASE Drops(pkt)
  BY <1>1, <1>2 DEF Ingress, Inv, TypeOK
<1>3. CASE ~Drops(pkt)
  <2> DEFINE r == Longest(pkt.at, pkt.dst)
             p1 == [pkt EXCEPT !.stage = "egress"]
             p2 == [p1 EXCEPT !.port = r.port]
             p3 == [p2 EXCEPT !.mac = r.mac]
             p4 == [p3 EXCEPT !.ttl = @ - 1]
             p5 == [p4 EXCEPT !.head.sum = "bad"]
  <2>1. pkt' = p5
    BY <1>3 DEF Ingress
  <2>2. /\ Parses(pkt.head) /\ pkt.ttl > 1 /\ Matching(pkt.at, pkt.dst) # {}
    <3>1. pkt.ttl \in Nat
      BY <1>1, Widths DEF Packets
    <3> QED
      BY <1>3, <3>1 DEF Drops
  <2>3. r.port \in 1..Len(Peers[pkt.at]) /\ r.mac \in Macs /\ r.port \in 0..3
    <3>1. PICK i \in 1..Routes(pkt.at) : r = ConfigFor[pkt.at][i]
      BY <1>1, <2>2, LongestIsRoute
    <3>2. r.port \in 1..Len(Peers[pkt.at]) /\ r.mac \in Macs
      BY <1>1, <3>1, RoutesAreWired
    <3> QED
      BY <1>1, <3>2, PeersExist
  <2>4. pkt.ttl \in Nat /\ pkt.ttl0 \in Nat /\ pkt.ttl - 1 \in Below(256)
    BY <1>1, <2>2, Widths DEF Packets
  <2> DEFINE g == [pkt.head EXCEPT !.sum = "bad"]
  <2>5. g \in Fields /\ Parses(g) /\ (HasInt(g) <=> HasInt(pkt.head)) /\ g.num = pkt.head.num
    <3>1. pkt.head \in Fields
      BY <1>1 DEF Packets
    <3>2. g \in Fields
      BY <3>1 DEF Fields
    <3>3. /\ g.num = pkt.head.num /\ g.opt = pkt.head.opt /\ g.ihl = pkt.head.ihl
          /\ g.optLen = pkt.head.optLen /\ g.totLen = pkt.head.totLen /\ g.wire = pkt.head.wire
      BY <3>1 DEF Fields
    <3> HIDE DEF g
    <3>4. HasInt(g) <=> HasInt(pkt.head)
      BY <3>3 DEF HasInt
    <3> QED
      BY <2>2, <3>2, <3>3, <3>4 DEF Parses
  <2>6. /\ p5.at = pkt.at /\ p5.stage = "egress" /\ p5.port = r.port /\ p5.ttl = pkt.ttl - 1
        /\ p5.ttl0 = pkt.ttl0 /\ p5.stack = pkt.stack
    <3> HIDE DEF r
    <3> QED
      BY <1>1 DEF Packets
  <2>7. p5.head = g
    <3> HIDE DEF r
    <3> QED
      BY <1>1 DEF Packets
  <2>8. p5 \in Packets
    <3> HIDE DEF r
    <3>1. p1 \in Packets /\ p1.ttl = pkt.ttl /\ p1.head = pkt.head
      BY <1>1 DEF Packets
    <3>2. p2 \in Packets /\ p2.ttl = pkt.ttl /\ p2.head = pkt.head
      <4> HIDE DEF p1
      <4> QED
        BY <2>3, <3>1 DEF Packets
    <3>3. p3 \in Packets /\ p3.ttl = pkt.ttl /\ p3.head = pkt.head
      <4> HIDE DEF p2
      <4> QED
        BY <2>3, <3>2 DEF Packets
    <3>4. p4 \in Packets /\ p4.head = pkt.head
      <4> HIDE DEF p3
      <4> QED
        BY <2>4, <3>3 DEF Packets
    <3>5. p5 = [p4 EXCEPT !.head = g]
      <4> HIDE DEF p4
      <4> QED
        BY <3>4 DEF Packets
    <3> QED
      <4> HIDE DEF p4, p5, g
      <4> QED
        BY <2>5, <3>4, <3>5 DEF Packets
  <2> HIDE DEF p5, g, r
  <2>9. OnItsWay'
    BY <1>1, <2>1, <2>2, <2>3, <2>4, <2>5, <2>6, <2>7 DEF OnItsWay
  <2> QED
    BY <1>1, <2>1, <2>8, <2>9 DEF Inv, TypeOK, LastWrite
<1> QED
  BY <1>2, <1>3

LEMMA EgressInv == ASSUME Inv, Egress PROVE Inv'
<1>1. /\ pkt \in Packets /\ OnItsWay /\ pkt.at \in Switches /\ pkt.stage = "egress"
      /\ written' = written
  <2>1. pkt.at \in Switches /\ pkt.stage = "egress" /\ written' = written
    BY DEF Egress
  <2>2. pkt # NoPacket
    BY <2>1 DEF NoPacket, Switches
  <2> QED
    BY <2>1, <2>2 DEF Inv, TypeOK
<1>2. /\ pkt.head \in Fields /\ pkt.stack \in Seq(Records) /\ Parses(pkt.head)
      /\ pkt.port \in 1..Len(Peers[pkt.at]) /\ pkt.ttl < pkt.ttl0
      /\ pkt.ttl <= pkt.ttl0
      /\ HasInt(pkt.head) => Len(pkt.stack) = pkt.head.num
  BY <1>1 DEF Packets, OnItsWay
<1>3. Peers[pkt.at][pkt.port] \in Switches \cup Hosts /\ pkt.port \in 1..3
  BY <1>1, <1>2, PeersExist
<1> DEFINE stamps == Ready(pkt.at) /\ HasRoom(pkt.head)
           stack == IF stamps THEN Push(<<pkt.at, pkt.port>>, pkt.stack) ELSE pkt.stack
           head == IF stamps THEN Stamp(pkt.head, Len(stack) - Len(pkt.stack)) ELSE pkt.head
<1>4. /\ head \in Fields /\ Parses(head) /\ stack \in Seq(Records)
      /\ HasInt(head) => Len(stack) = head.num
  <2>1. CASE stamps
    <3>1. Len(pkt.stack) < MaxHeaders /\ Len(pkt.stack) = pkt.head.num
      BY <1>2, <2>1 DEF HasRoom
    <3>2. <<pkt.at, pkt.port>> \in Records
      BY <1>1, <1>3 DEF Records
    <3>3. stack \in Seq(Records) /\ Len(stack) = Len(pkt.stack) + 1
      BY <1>2, <2>1, <3>1, <3>2, PushGrows
    <3>4. Len(stack) - Len(pkt.stack) = 1
      <4> HIDE DEF stack
      <4> QED
        BY <1>2, <3>3
    <3>5. head = Stamp(pkt.head, 1)
      BY <2>1, <3>4
    <3>6. /\ Stamp(pkt.head, 1) \in Fields /\ Parses(Stamp(pkt.head, 1))
          /\ Stamp(pkt.head, 1).num = pkt.head.num + 1
      BY <1>2, <2>1, StampKeepsForm
    <3> HIDE DEF stack, head
    <3> QED
      BY <3>1, <3>3, <3>5, <3>6
  <2>2. CASE ~stamps
    BY <1>2, <2>2
  <2> QED
    BY <2>1, <2>2
<1> DEFINE g == Recompute(head)
<1>5. g \in Fields /\ Parses(g) /\ g.sum = "good" /\ (HasInt(g) => Len(stack) = g.num)
  <2> HIDE DEF head, stack
  <2> QED
    BY <1>4, EveryCountHasItsCase
<1> DEFINE p1 == [pkt EXCEPT !.at = Peers[pkt.at][pkt.port]]
           p2 == [p1 EXCEPT !.stage = "ingress"]
           p3 == [p2 EXCEPT !.head = g]
           p4 == [p3 EXCEPT !.stack = stack]
<1>6. pkt' = p4
  BY DEF Egress
<1> HIDE DEF g, stack, head
<1>7. /\ p4.stage = "ingress" /\ p4.ttl = pkt.ttl /\ p4.ttl0 = pkt.ttl0 /\ p4.head = g
      /\ p4.stack = stack
  BY <1>1 DEF Packets
<1>8. p4 \in Packets
  <2>1. p1 \in Packets
    <3> HIDE DEF Peers
    <3> QED
      BY <1>1, <1>3 DEF Packets
  <2>2. p2 \in Packets
    <3> HIDE DEF p1
    <3> QED
      BY <2>1 DEF Packets
  <2>3. p3 \in Packets
    <3> HIDE DEF p2
    <3> QED
      BY <1>5, <2>2 DEF Packets
  <2> QED
    <3> HIDE DEF p3
    <3> QED
      BY <1>4, <2>3 DEF Packets
<1> HIDE DEF p4
<1>9. OnItsWay'
  BY <1>2, <1>5, <1>6, <1>7 DEF OnItsWay
<1> QED
  BY <1>1, <1>6, <1>8, <1>9 DEF Inv, TypeOK, LastWrite

LEMMA NextInv == Inv /\ [Next]_vars => Inv'
BY StutterInv, WriteInv, SendInv, IngressInv, EgressInv, ReceiveInv DEF Next

\* Every packet the network holds is well-typed, and no controller writes past
\* the end of its set-up (configFor, mustWriteRoutes, mustSetIntDefault).
THEOREM IntTypeCorrect == Spec => []TypeOK
<1>1. Inv => TypeOK
  BY DEF Inv
<1> QED
  BY InitInv, NextInv, <1>1, PTL DEF Spec

\* What a switch sends on, the parser of the next accepts, with a right
\* checksum and a stack as long as its count (add_int_header, MyEgress,
\* MyComputeChecksum): for every capacity up to nine records and whatever
\* hosts send, also while the tables are being filled.
THEOREM NextParserAccepts == Spec => []EmitsWellFormed
<1>1. Inv => EmitsWellFormed
  BY DEF Inv, OnItsWay, EmitsWellFormed
<1> QED
  BY InitInv, NextInv, <1>1, PTL DEF Spec
=============================================================================
