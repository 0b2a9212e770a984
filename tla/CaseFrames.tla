----------------------------- MODULE CaseFrames -----------------------------
(***************************************************************************)
(* The frames of the cases' tests, as the builders in packets.py (or       *)
(* topology.py) lay them out, each with the copies the test demands of it  *)
(* in field "to".  A label comes from the test (allowed, receiver,         *)
(* expected_host), the header fields from the builder's arithmetic: what   *)
(* the parsers of module CasePipelines make of them is theirs.             *)
(*                                                                         *)
(* in is the ingress port, that is the sender; len the frame's length.     *)
(***************************************************************************)
EXTENDS CasePipelines, TLC

Copies(P) == {Copy(p) : p \in P}

\* ljust(60): frames shorter than Ethernet's minimum are padded.
Padded(n) == IF n < 60 THEN 60 ELSE n

-----------------------------------------------------------------------------
Frames01 == {[in |-> s, len |-> n, to |-> Copies({s})] : s \in 1..2, n \in {60, 1514}}

\* 02 and 08: everything crosses over.
Frames02 == {[in |-> s, len |-> n, to |-> Copies({3 - s})] : s \in 1..2, n \in {60, 1514}}

\* 13: the peer's copy, and one printed packet-in that names the ingress port.
Frames13 ==
  {[in |-> s, len |-> 60,
    to |-> Copies({3 - s}) \cup {[port |-> CpuPort, outer |-> <<s>>]}] : s \in 1..2}

\* 03: every pair, the sender's own address, addresses of no host.
Frames03 ==
  {[in |-> s, dst |-> d, len |-> 60,
    to |-> IF d \in 1..NHosts \ {s} THEN Copies({d}) ELSE {}] : s \in 1..NHosts, d \in 0..NHosts}

\* 04: the same, and what belongs to no host is flooded.
Frames04 ==
  {[in |-> s, dst |-> d, len |-> 60,
    to |-> IF d = s THEN {} ELSE IF d = 0 THEN Copies(1..NHosts \ {s}) ELSE Copies({d})] :
       s \in 1..NHosts, d \in 0..NHosts}

\* 07: metered frames within the burst and beyond it, unmetered ones.
Frames07 ==
  {[in |-> 1, src |-> src, colour |-> colour,
    to |-> IF src = "metered" /\ colour # 0 THEN {} ELSE Copies({2})] :
       src \in {"metered", "unmetered"}, colour \in {0, 2}}

\* 11: the test's sizes, and the largest that struct.pack("!H") of
\* encapsulate accepts and the next.
Sizes11 == {60, 64, 128, 512, 1500, 1514, 65499, 65500}
Frames11 ==
  {[in |-> 1, dst |-> d, len |-> n,
    to |-> IF d = 2 /\ 36 + n < 2^16
           THEN {[port |-> 2, outer |-> <<36 + n, 16 + n>>]} ELSE {}] : d \in {0, 2}, n \in Sizes11}

-----------------------------------------------------------------------------
(* 09.  make_frame with its keyword arguments as a record of changes.      *)

Plain09 ==
  [in |-> 1, eth |-> "ipv4", version |-> 4, net |-> 10, host |-> 100, src |-> 77, proto |-> 17,
   ports |-> <<1000, 5000>>, options |-> 0, tcpoptions |-> 0, payload |-> 24, ttl |-> 64,
   more |-> FALSE, offset |-> 0, checksum |-> TRUE]

\* The transport segment: header and payload, or the bytes given (fragments,
\* other protocols).
Segment09(a) ==
  a.payload + (CASE a.proto = 17 -> 8 [] a.proto = 6 -> 20 + a.tcpoptions [] OTHER -> 0)

\* The frame as sent; a raw segment has no transport header to add.
Frame09(changes, n) ==
  LET a == changes @@ Plain09
  IN  a @@
      [ihl |-> 5 + a.options \div 4, total |-> 20 + a.options + n,
       len |-> Padded(34 + a.options + n),
       span |-> IF a.proto = 6 THEN 20 + a.tcpoptions ELSE n]

\* expected_host: a host's own address, or by the hash of the five-tuple
\* with the ports of whole TCP and UDP datagrams.
Expected09(f) ==
  IF f.host \in 1..3 THEN f.host
  ELSE LET ports == IF ~f.more /\ f.offset = 0 /\ f.proto \in {6, 17} THEN f.ports ELSE <<0, 0>>
       IN  2 + (Crc16(f.src, f.host, f.proto, ports) % 2)

Allowed09(f) == f @@ [to |-> Copies({Expected09(f)})]
Refused09(f) == f @@ [to |-> {}]
Add09(changes) == Frame09(changes, Segment09(changes @@ Plain09))

Direct09 ==
  {Allowed09(Add09([in |-> s, host |-> r, proto |-> p])) :
     s \in 1..3, r \in 1..3, p \in {6, 17}}
Flows09 ==
  {Allowed09(Add09([proto |-> p, ports |-> <<1000 + flow, 5000>>, in |-> 1 + repeat,
                    options |-> <<0, 4, 40>>[1 + repeat],
                    tcpoptions |-> IF repeat = 2 /\ p = 6 THEN 4 ELSE 0,
                    payload |-> <<24, 127, 1376>>[1 + repeat], ttl |-> 64 + repeat])) :
     p \in {6, 17}, flow \in 0..1, repeat \in 0..2}
Opaque09 ==
  {Allowed09(Frame09([proto |-> p, options |-> 4 * repeat], 16 + repeat * 8)) :
     p \in {1, 253}, repeat \in 0..2}
Fragments09 ==
  {Allowed09(Frame09([proto |-> p, host |-> h, offset |-> piece * 2, more |-> piece < 2,
                    options |-> 4], 16)) : p \in {6, 17}, h \in {2, 100}, piece \in 0..2}
Ttl09 ==
  {Allowed09(Add09([host |-> h, ttl |-> t])) : h \in {2, 100}, t \in {2, 255}}
  \cup {Refused09(Add09([host |-> h, ttl |-> t])) : h \in {2, 100}, t \in {0, 1}}
Minimum09 == {Allowed09(Add09([proto |-> p, payload |-> 0])) : p \in {6, 17}}
Faulty09 ==
  { Refused09(Add09([net |-> 192, host |-> 1])),                          \* unknown-route
    Refused09(Add09([eth |-> "other"])),                                  \* non-ipv4
    Refused09(Add09([version |-> 6])),
    Refused09([Add09([ttl |-> 64]) EXCEPT !.ihl = 4]),                    \* short-ihl
    Refused09([Add09([options |-> 4]) EXCEPT !.total = 20]),              \* short-total
    Refused09([Add09([ttl |-> 64]) EXCEPT !.total = 600]),                \* long-total
    Refused09([Add09([ttl |-> 64]) EXCEPT !.len = 30]),                   \* truncated-ip
    Refused09([Add09([options |-> 40]) EXCEPT !.len = 60]),               \* truncated-options
    Refused09(Add09([checksum |-> FALSE])),
    Refused09(Add09([checksum |-> FALSE, options |-> 40])),
    Refused09(Frame09([proto |-> 17], 7)), Refused09(Frame09([proto |-> 6], 19)) }
  \cup {Refused09([Add09([proto |-> 17]) EXCEPT !.span = v]) : v \in {7, 80}}
  \cup {Refused09([Add09([proto |-> 6]) EXCEPT !.span = v]) : v \in {16, 60}}

Frames09 ==
  {f \in Direct09 : f.in # f.host} \cup Flows09 \cup Opaque09 \cup Fragments09 \cup Ttl09
    \cup Minimum09 \cup Faulty09

-----------------------------------------------------------------------------
(* 12.  The rounds of the register test, few frames of each kind: flows    *)
(* that differ in one field, two flows of one slot from each host, frames  *)
(* that are not counted, and a seeded slot that wraps.                     *)
Frame12(s, changes) ==
  LET a == changes @@ [in |-> s, src |-> s, dst |-> 3 - s, ports |-> <<1111, 2222>>] @@ Plain09
  IN  Frame09(a, IF "raw" \in DOMAIN a THEN a.raw ELSE Segment09(a))
Counted12(s, changes) == Frame12(s, changes) @@ [allowed |-> TRUE, counted |-> TRUE]
Ignored12(s, changes) == Frame12(s, changes) @@ [allowed |-> TRUE, counted |-> FALSE]
Bad12(f) == f @@ [allowed |-> FALSE, counted |-> FALSE]

\* ports_for_slot: a source port that hashes to the slot.
PortFor(s, slot, size, k) ==
  CHOOSE p \in 10000 + size * k .. 10000 + size * (k + 1) - 1 :
    Crc16(s, 3 - s, 0, <<p, 2222>>) % size = slot

Flows12 == << Counted12(1, [options |-> 4]), Counted12(2, [options |-> 40, payload |-> 127]),
              Counted12(1, [ports |-> <<3001, 2222>>]), Counted12(2, [payload |-> 0, ttl |-> 0]) >>
Collisions12(size) ==
  << Counted12(1, [ports |-> <<PortFor(1, size - 1, size, 0), 2222>>]),
     Counted12(1, [ports |-> <<PortFor(1, size - 1, size, 1), 2222>>]),
     Counted12(2, [ports |-> <<PortFor(2, 0, size, 0), 2222>>]),
     Counted12(2, [ports |-> <<PortFor(2, 0, size, 1), 2222>>]) >>
Excluded12 ==
  << Ignored12(1, [proto |-> 6]), Ignored12(1, [eth |-> "other"]),
     Ignored12(1, [more |-> TRUE, options |-> 4, raw |-> 16]),
     Bad12(Frame12(1, [checksum |-> FALSE, options |-> 40])),
     Bad12([Frame12(1, [options |-> 0]) EXCEPT !.ihl = 15]),
     Ignored12(2, [offset |-> 2, more |-> TRUE, raw |-> 16]),
     Bad12(Frame12(2, [raw |-> 7])), Bad12([Frame12(2, [options |-> 0]) EXCEPT !.span = 80]),
     Bad12([Frame12(2, [options |-> 40]) EXCEPT !.len = 60]) >>
Wrapping12(size) ==
  LET flow == [src |-> 1, dst |-> 2, ports |-> <<PortFor(1, 0, size, 0), 2222>>]
  IN  << Counted12(1, flow), Counted12(1, flow), Counted12(2, flow), Counted12(2, flow) >>

Rounds12(size, modulus) ==
  << [seed |-> <<size - 1, 42 % modulus>>, frames |-> <<>>],
     [seed |-> <<>>, frames |-> Flows12],
     [seed |-> <<>>, frames |-> Collisions12(size)],
     [seed |-> <<>>, frames |-> Excluded12],
     [seed |-> <<0, modulus - 2>>, frames |-> Wrapping12(size)] >>

-----------------------------------------------------------------------------
(* 10.  make_frame of case 10: 11 bytes of payload, padded to eight-byte   *)
(* units in a first fragment; the faults overwrite header fields or cut    *)
(* the frame.                                                              *)
Frame10(s, proto, dport, options, fault, more, offset, allowed) ==
  LET head == CASE proto = 6 -> 20 [] proto = 17 -> 8 [] proto = 1 -> 8 [] OTHER -> 0
      body == IF more THEN 11 + ((-(head + 11)) % 8) ELSE 11
      ihl == IF fault = "short-ihl" THEN 4 ELSE 5 + options \div 4
      size == 34 + options + head + body
      n == CASE fault = "truncated-ip" -> 26
             [] fault = "truncated-options" -> 36
             [] OTHER -> Padded(size)
  IN  [in |-> s, dst |-> 3 - s, eth |-> IF proto = 0 THEN "arp" ELSE "ipv4",
       version |-> IF fault = "bad-version" THEN 6 ELSE 4, ihl |-> ihl,
       total |-> CASE fault = "short-total" -> 20
                   [] fault = "long-total" -> 65535
                   [] fault = "short-tcp" -> ihl * 4 + 19
                   [] fault = "short-udp" -> ihl * 4 + 7
                   [] OTHER -> 20 + options + head + body,
       len |-> n, proto |-> proto, dport |-> dport, more |-> more, offset |-> offset,
       to |-> IF allowed THEN Copies({3 - s}) ELSE {}]

Flows10 == {<<6, 80, TRUE>>, <<6, 22, FALSE>>, <<17, 5000, FALSE>>, <<17, 1234, TRUE>>}
Frames10 ==
  {Frame10(1, flow[1], flow[2], options, "", FALSE, 0, flow[3]) :
     flow \in Flows10, options \in {0, 4, 40}}
  \cup {Frame10(2, flow[1], flow[2], options, "", FALSE, 0, TRUE) :
          flow \in Flows10, options \in {0, 40}}
  \cup {Frame10(1, 1, 0, options, "", FALSE, 0, TRUE) : options \in {0, 40}}
  \cup {Frame10(1, 0, 0, 0, "", FALSE, 0, TRUE)}                          \* ARP
  \cup {Frame10(1, 6, 80, IF fault \in {"short-total", "truncated-options"} THEN 40 ELSE 0,
                fault, FALSE, 0, FALSE) :
          fault \in {"bad-version", "short-ihl", "short-total", "long-total", "truncated-ip",
                     "truncated-options", "short-tcp"}}
  \cup {Frame10(1, 17, 1234, 0, "short-udp", FALSE, 0, FALSE)}
  \cup {Frame10(1, flow[1], flow[2], 0, "", offset = 0, offset, FALSE) :
          flow \in {<<6, 80>>, <<17, 1234>>}, offset \in {0, 1}}

-----------------------------------------------------------------------------
(* 14.  A destination is <<its /64, its host part>>; 4 and above are        *)
(* networks without a route.                                               *)
Plain14 == [eth |-> "ipv6", version |-> 6, hop |-> 64, net |-> 2, host |-> 1]
Frame14(s, changes, body) ==
  (changes @@ Plain14) @@ [in |-> s, payload |-> body, len |-> Padded(54 + body)]

Expected14(f) ==
  IF f.net = 3 /\ f.host = 42 THEN Copies({2}) ELSE IF f.net \in 1..3 THEN Copies({f.net}) ELSE {}

Allowed14(f) == f @@ [to |-> Expected14(f)]
Refused14(f) == f @@ [to |-> {}]

Frames14 ==
  UNION { {Allowed14(Frame14(s, [net |-> n, host |-> h], 32)) : n \in 1..3, h \in {0, 1, 41, 42, 43}}
          \cup {Allowed14(Frame14(s, [hop |-> l], 32)) : l \in {2, 255}}
          \cup {Allowed14(Frame14(s, [net |-> 2], b)) : b \in {0, 8, 14, 1460}}
          \cup {Refused14(Frame14(s, [net |-> n, hop |-> l], 32)) : n \in 1..3, l \in {0, 1}}
          \cup {Refused14(Frame14(s, [net |-> n, host |-> 42], 32)) : n \in 4..5}
          \cup {Refused14(Frame14(s, [version |-> v], 32)) : v \in {4, 15}}
          \cup {Refused14(Frame14(s, [eth |-> "other"], 32))}
          \cup {Refused14([Frame14(s, [net |-> 2], 32) EXCEPT !.payload = 65535])}
          \cup {Refused14([Frame14(s, [net |-> 2], 32) EXCEPT !.len = n]) : n \in {22, 53, 74}}
          \cup {Refused14([Frame14(s, [net |-> 2], 0) EXCEPT !.payload = 7])} : s \in 1..3 }

-----------------------------------------------------------------------------
AllFrames ==
  [c \in DOMAIN AllWrites |->
     CASE c = "reflector" -> Frames01
       [] c \in {"repeater", "indirect_counter", "direct_counter"} -> Frames02
       [] c = "l2_forwarding" -> Frames03
       [] c = "l2_broadcast" -> Frames04
       [] c = "meter" -> Frames07
       [] c = "ecmp" -> Frames09
       [] c = "firewall" -> Frames10
       [] c = "vxlan" -> Frames11
       [] c = "clone_to_cpu" -> Frames13
       [] c = "ipv6_lpm" -> Frames14]
=============================================================================
