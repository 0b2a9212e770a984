--------------------------- MODULE CasePipelines ---------------------------
(***************************************************************************)
(* The data planes of the table-driven cases and the entries their         *)
(* controllers install: for each case the parser and the code before the   *)
(* first lookup (Arrive..), what each lookup's result does to the frame    *)
(* (Apply..), and the entries in the order main.go writes them (Writes..). *)
(* Constant data for module TableSwitch.                                   *)
(*                                                                         *)
(* Host i is on port i; a MAC or an IPv4 address stands as the number of   *)
(* its host, 0 for one that belongs to none.  Multicast groups, the clone  *)
(* session and the meter are tables too: what is not there when a frame    *)
(* asks for it is a miss.                                                  *)
(***************************************************************************)
EXTENDS Integers, Sequences

NHosts == 3          \* --hosts of cases 03 and 04
Drop == 511          \* mark_to_drop
CpuPort == 510
MaxInnerFrame == 65499

\* A copy that leaves: its port, and what the program put in front of it.
Copy(p) == [port |-> p, outer |-> <<>>]

At(table, h) == [at |-> table, hdr |-> h, eg |-> 0, out |-> {}]
Goto(s, table) == [s EXCEPT !.at = table]
Forward(s, p) == [s EXCEPT !.eg = p]

\* Ingress ends: one copy to egress_spec, unless no interface has that number.
Out(s) == [s EXCEPT !.at = "out", !.out = IF s.eg \in 1..NHosts THEN {Copy(s.eg)} ELSE {}]
Dropped(s) == Out(Forward(s, Drop))

\* The action of the entry a lookup found.
Act(found) == (CHOOSE e \in found : TRUE).act

Entry(table, match, rank, act) ==
  [table |-> table, match |-> match, rank |-> rank, act |-> act]

-----------------------------------------------------------------------------
(* Parsers.  A verify that fails, or an extract past the frame's end, ends *)
(* parsing with a parser error.                                            *)

Ethernet(f) == f.len >= 14

\* parse_ipv4 and parse_options; totalLen within the frame leaves room for
\* the options.
Ipv4(f) == /\ f.len >= 14 + 20 /\ f.version = 4 /\ f.ihl >= 5
           /\ f.total >= f.ihl * 4 /\ f.total <= f.len - 14

Fragment(f) == f.more \/ f.offset # 0

\* Case 09: ports are read, and lengths verified, of whole UDP and TCP only;
\* f.span is the UDP length or the TCP header's.
Transport09(f) ==
  LET n == f.total - f.ihl * 4
  IN  \/ Fragment(f) \/ f.proto \notin {6, 17}
      \/ n >= (IF f.proto = 17 THEN 8 ELSE 20)
         /\ f.span >= (IF f.proto = 17 THEN 8 ELSE 20) /\ f.span <= n

Ports09(f) == IF Fragment(f) \/ f.proto \notin {6, 17} THEN <<0, 0>> ELSE f.ports

\* Case 10: no fragment is accepted, TCP and UDP headers must fit.
Transport10(f) == /\ ~Fragment(f)
                  /\ f.proto = 6 => f.total >= f.ihl * 4 + 20
                  /\ f.proto = 17 => f.total >= f.ihl * 4 + 8

Ipv6(f) == /\ f.len >= 14 + 40 /\ f.version = 6
           /\ f.payload <= f.len - 54

\* BMv2's crc16 of the five-tuple: a fixed function of it, here a short one.
Crc16(src, dst, proto, ports) == src + dst + proto + ports[1] + ports[2]

-----------------------------------------------------------------------------
(* 01, 02, 08 (indirect counter): no table.                                *)

Arrive01(f) ==
  IF Ethernet(f) THEN Out(Forward(At("none", [in |-> f.in]), f.in))
                 ELSE Dropped(At("none", [in |-> f.in]))

Arrive02(f) ==
  LET s == At("none", [in |-> f.in])
  IN  IF Ethernet(f) /\ f.in \in {1, 2} THEN Out(Forward(s, 3 - f.in)) ELSE Dropped(s)

(* 08 (direct counter): count_table forwards by ingress port.              *)
Arrive08(f) ==
  LET s == At("count_table", [in |-> f.in]) IN IF Ethernet(f) THEN s ELSE Dropped(s)
Apply08(s, found) == IF found = {} THEN Dropped(s) ELSE Out(Forward(s, Act(found).port))
Writes08 == [p \in 1..2 |-> Entry("count_table", [in |-> p], 0, [port |-> 3 - p])]

(* 03: dmac; a frame is never sent back where it came from.                *)
Arrive03(f) ==
  LET s == At("dmac", [in |-> f.in, dst |-> f.dst]) IN IF Ethernet(f) THEN s ELSE Dropped(s)
Apply03(s, found) ==
  IF found = {} \/ Act(found).port = s.hdr.in THEN Dropped(s)
                                              ELSE Out(Forward(s, Act(found).port))
Writes03 == [n \in 1..NHosts |-> Entry("dmac", [dst |-> n], 0, [port |-> n])]

(* 04: dmac, or the multicast group of the ingress port; "pre" is the      *)
(* packet replication engine.                                              *)
Apply04(s, found) ==
  CASE s.at = "dmac" ->
         IF found = {} THEN Goto(s, "select_mcast_grp") ELSE Apply03(s, found)
    [] s.at = "select_mcast_grp" ->
         IF found = {} THEN Dropped(s)
         ELSE Goto([s EXCEPT !.hdr = [in |-> s.hdr.in, group |-> Act(found).group]], "pre")
    [] s.at = "pre" ->
         [Out(s) EXCEPT !.out = IF found = {} THEN {} ELSE {Copy(p) : p \in Act(found).ports}]
Writes04 ==
  Writes03
  \o [n \in 1..NHosts |-> Entry("pre", [group |-> n], 0, [ports |-> 1..NHosts \ {n}])]
  \o [n \in 1..NHosts |-> Entry("select_mcast_grp", [in |-> n], 0, [group |-> n])]

(* 07: m_read meters the source, m_filter lets green through.  An index    *)
(* without a configuration is green; with one, BMv2's token bucket decides *)
(* (f.colour).                                                             *)
Arrive07(f) == Forward(At("m_read", [src |-> f.src, colour |-> f.colour, tag |-> 0]), 2)
Apply07(s, found) ==
  CASE s.at = "m_read" ->
         IF found = {} THEN Goto(s, "m_filter")
         ELSE Goto([s EXCEPT !.hdr = [colour |-> s.hdr.colour, index |-> Act(found).index]], "meter")
    [] s.at = "meter" ->
         Goto([s EXCEPT !.hdr = [tag |-> IF found = {} THEN 0 ELSE s.hdr.colour]], "m_filter")
    [] s.at = "m_filter" -> IF found = {} THEN Dropped(s) ELSE Out(s)
Writes07 == << Entry("m_read", [src |-> "metered"], 0, [index |-> 0]),
               Entry("m_filter", [tag |-> 0], 0, [none |-> TRUE]),
               Entry("meter", [index |-> 0], 0, [none |-> TRUE]) >>

-----------------------------------------------------------------------------
(* 09: longest prefix, then the ECMP member.  An IPv4 address is its       *)
(* network (10 for 10.0.0.0/24) and host part.                             *)
Arrive09(f) ==
  IF f.eth # "ipv4" \/ ~Ipv4(f) \/ ~Transport09(f) \/ ~f.checksum \/ f.ttl <= 1
  THEN Dropped(At("none", [in |-> f.in]))
  ELSE At("ipv4_lpm", [net |-> f.net, host |-> f.host,
                       hash |-> Crc16(f.src, f.host, f.proto, Ports09(f))])
Apply09(s, found) ==
  CASE found = {} -> Dropped(s)
    [] found # {} /\ "count" \in DOMAIN Act(found) ->
         Goto([s EXCEPT !.hdr = [select |-> Act(found).base + (s.hdr.hash % Act(found).count)]],
              "ecmp_nhop")
    [] OTHER -> Out(Forward(s, Act(found).port))
Routes09 == [n \in 1..3 |-> Entry("ipv4_lpm", [net |-> 10, host |-> n], 32, [port |-> n])]
Group09 == << Entry("ipv4_lpm", [net |-> 10], 24, [base |-> 0, count |-> 2]) >>
Members09 == [i \in 1..2 |-> Entry("ecmp_nhop", [select |-> i - 1], 0, [port |-> i + 1])]
\* Seeded fault: the group's route comes before the hosts'.
WritesGroupFirst == Group09 \o Members09 \o Routes09
Writes09 == Routes09 \o Group09 \o Members09

(* 10: dmac (a miss leaves egress_spec 0), then acl, which permits by      *)
(* default and sees IPv4 only.                                             *)
Arrive10(f) ==
  IF f.eth = "ipv4" /\ ~(Ipv4(f) /\ Transport10(f)) THEN Dropped(At("none", [in |-> f.in]))
  ELSE At("dmac", [mac |-> f.dst, ip |-> f.eth = "ipv4", src |-> f.in, dst |-> f.dst,
                   proto |-> f.proto, dport |-> IF f.proto \in {6, 17} THEN f.dport ELSE 0])
Apply10(s, found) ==
  CASE s.at = "dmac" ->
         LET t == IF found = {} THEN s ELSE Forward(s, Act(found).port)
         IN  IF s.hdr.ip THEN Goto(t, "acl") ELSE Out(t)
    [] s.at = "acl" -> IF found # {} /\ Act(found).deny THEN Dropped(s) ELSE Out(s)
Rule(match, priority, deny) == Entry("acl", match, priority, [deny |-> deny])
Writes10 ==
  [n \in 1..2 |-> Entry("dmac", [mac |-> n], 0, [port |-> n])]
  \o << Rule([dst |-> 2, proto |-> 6, dport |-> 22], 100, TRUE),
        Rule([dst |-> 2, proto |-> 6], 90, FALSE),
        Rule([src |-> 1, proto |-> 17, dport |-> 5000], 80, TRUE) >>

(* 11: the encapsulation's two 16-bit lengths.                             *)
Arrive11(f) ==
  LET s == At("vtep", [dst |-> f.dst, len |-> f.len])
  IN  IF ~Ethernet(f) \/ f.len > MaxInnerFrame THEN Dropped(s) ELSE s
Apply11(s, found) ==
  IF found = {} THEN Dropped(s)
  ELSE [Out(s) EXCEPT !.out = {[port |-> Act(found).port,
                                outer |-> <<(s.hdr.len + 36) % 2^16, (s.hdr.len + 16) % 2^16>>]}]
Writes11 == << Entry("vtep", [dst |-> 2], 0, [port |-> 2]) >>

(* 13: forward as in 02 and clone to session 99, that is to the CPU port,  *)
(* the ingress port in front of the copy.                                  *)
Arrive13(f) ==
  LET s == At("clone", [in |-> f.in, session |-> 99])
  IN  IF f.in \in {1, 2} THEN Forward(s, 3 - f.in) ELSE Dropped(s)
Apply13(s, found) ==
  IF found = {} THEN Out(s)
  ELSE [Out(s) EXCEPT !.out = @ \cup {[port |-> Act(found).port, outer |-> <<s.hdr.in>>]}]
Writes13 == << Entry("clone", [session |-> 99], 0, [port |-> CpuPort]) >>

(* 14: IPv6 longest prefix; an address is its /64 and its host part.       *)
Arrive14(f) ==
  IF f.eth # "ipv6" \/ ~Ipv6(f) \/ f.hop <= 1 THEN Dropped(At("none", [in |-> f.in]))
  ELSE At("ipv6_lpm", [net |-> f.net, host |-> f.host])
Writes14 ==
  [n \in 1..3 |-> Entry("ipv6_lpm", [net |-> n], 64, [port |-> n])]
  \o << Entry("ipv6_lpm", [net |-> 3, host |-> 42], 128, [port |-> 2]) >>

-----------------------------------------------------------------------------
ArriveAt(c, f) ==
  CASE c = "reflector" -> Arrive01(f)
    [] c \in {"repeater", "indirect_counter"} -> Arrive02(f)
    [] c \in {"l2_forwarding", "l2_broadcast"} -> Arrive03(f)
    [] c = "meter" -> Arrive07(f)
    [] c = "direct_counter" -> Arrive08(f)
    [] c = "ecmp" -> Arrive09(f)
    [] c = "firewall" -> Arrive10(f)
    [] c = "vxlan" -> Arrive11(f)
    [] c = "clone_to_cpu" -> Arrive13(f)
    [] c = "ipv6_lpm" -> Arrive14(f)

ApplyTable(c, s, found) ==
  CASE c = "l2_forwarding" -> Apply03(s, found)
    [] c = "l2_broadcast" -> Apply04(s, found)
    [] c = "meter" -> Apply07(s, found)
    [] c \in {"direct_counter", "ipv6_lpm"} -> Apply08(s, found)
    [] c = "ecmp" -> Apply09(s, found)
    [] c = "firewall" -> Apply10(s, found)
    [] c = "vxlan" -> Apply11(s, found)
    [] c = "clone_to_cpu" -> Apply13(s, found)

AllWrites ==
  [c \in {"reflector", "repeater", "indirect_counter", "direct_counter", "l2_forwarding",
          "l2_broadcast", "meter", "ecmp", "firewall", "vxlan", "clone_to_cpu", "ipv6_lpm"} |->
     CASE c = "l2_forwarding" -> Writes03
       [] c = "l2_broadcast" -> Writes04
       [] c = "meter" -> Writes07
       [] c = "direct_counter" -> Writes08
       [] c = "ecmp" -> Writes09
       [] c = "firewall" -> Writes10
       [] c = "vxlan" -> Writes11
       [] c = "clone_to_cpu" -> Writes13
       [] c = "ipv6_lpm" -> Writes14
       [] OTHER -> <<>>]
=============================================================================
