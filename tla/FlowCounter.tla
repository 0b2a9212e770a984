---------------------------- MODULE FlowCounter ----------------------------
(***************************************************************************)
(* Case 12: the switch counts whole UDP packets per flow in a register of  *)
(* RegisterSize slots of Modulus values, picked by a hash, and the test    *)
(* compares register dumps around every batch of frames (main.p4,          *)
(* topology.py).  Two hosts send at once; ingress is one thread that hands *)
(* frames to egress through a queue; the test reads and seeds the register *)
(* over Thrift beside them, and takes its second dump once the receivers   *)
(* have what they wait for, while frames that are to be dropped may still  *)
(* be in the switch.  Faults of the probes are in module ProbeDriver.      *)
(***************************************************************************)
EXTENDS Integers, Sequences, FiniteSets

CONSTANTS
  RegisterSize,  \* slots (1024)
  Modulus,       \* values of a slot (2^32)
  Batches        \* the test's rounds [seed, frames]: a slot and its value or <<>>,
                 \* and the frames with the test's labels allowed and counted

P == INSTANCE CasePipelines
Slots == 0..(RegisterSize - 1)
Senders == {1, 2}

\* The places of round b's frames; frame <<b, i>> is the one at place i of it.
Places(b) == 1..Len(Batches[b].frames)
Frame(t) == Batches[t[1]].frames[t[2]]

\* parse_udp is reached by whole UDP packets only.
Udp(f) == f.eth = "ipv4" /\ f.proto = 17 /\ ~P!Fragment(f)

\* Neither parser error nor checksum error; f.span is the UDP length field.
Valid(f) ==
  f.eth = "ipv4" =>
    /\ P!Ipv4(f)
    /\ Udp(f) => /\ f.total >= f.ihl * 4 + 8
                 /\ f.span \in 8..(f.total - f.ihl * 4)
    /\ f.checksum

\* The slot of a flow: crc16 of addresses and ports, modulo the register's size.
Slot(f) == P!Crc16(f.src, f.dst, 0, f.ports) % RegisterSize

ASSUME SizeAssumption == RegisterSize \in Nat \ {0} /\ Modulus \in Nat \ {0}

\* There are rounds; a seed names a slot; fewer frames of a round are counted
\* than a slot has values.
ASSUME BatchesAssumption ==
  /\ Len(Batches) \in Nat \ {0}
  /\ \A b \in 1..Len(Batches) :
       /\ Batches[b].seed = <<>> \/ Batches[b].seed \in Slots \X (0..(Modulus - 1))
       /\ Len(Batches[b].frames) \in Nat
       /\ Cardinality({i \in Places(b) : Frame(<<b, i>>).counted}) < Modulus

\* The test's labels say what the program does with a frame: it forwards the
\* valid ones and counts the UDP packets among them.
ASSUME LabelsAssumption ==
  \A b \in 1..Len(Batches) : \A i \in Places(b) :
    LET f == Frame(<<b, i>>)
    IN  /\ f.in \in Senders /\ P!Crc16(f.src, f.dst, 0, f.ports) \in Nat
        /\ f.allowed <=> Valid(f)
        /\ f.counted <=> Valid(f) /\ Udp(f)

-----------------------------------------------------------------------------
VARIABLES
  register,  \* the slots of flow_counter
  batch, pc, \* the test: its round and what it does next
  before,    \* its last dump
  sent,      \* the places of the round that were sent
  inq, outq, \* frames on the way into ingress and into egress
  captured   \* frames the receivers have, of this round

vars == <<register, batch, pc, before, sent, inq, outq, captured>>

Round == Batches[batch]
Of(s) == {i \in Places(batch) : Round.frames[i].in = s}
Allowed == {<<batch, i>> : i \in {j \in Places(batch) : Round.frames[j].allowed}}
Copies(T, f) == Cardinality({t \in T : Frame(t) = f})
Expected(s) ==
  Cardinality({i \in Places(batch) : Round.frames[i].counted /\ Slot(Round.frames[i]) = s})

Init ==
  /\ register = [s \in Slots |-> 0] /\ before = register
  /\ batch = 1 /\ pc = "seed"
  /\ sent = {} /\ inq = <<>> /\ outq = <<>> /\ captured = {}

\* seed_register, its first dump; a round without a seed starts at once.
SeedRead ==
  /\ pc = "seed"
  /\ IF Round.seed = <<>> THEN pc' = "before" /\ UNCHANGED before
                          ELSE pc' = "write" /\ before' = register
  /\ UNCHANGED <<register, batch, sent, inq, outq, captured>>

\* register_write and the second dump in one Thrift session: only the
\* requested slot may differ from the first dump.
SeedWrite ==
  /\ pc = "write"
  /\ register' = [register EXCEPT ![Round.seed[1]] = Round.seed[2]]
  /\ pc' = IF register' = [before EXCEPT ![Round.seed[1]] = Round.seed[2]]
           THEN "before" ELSE "failed"
  /\ UNCHANGED <<batch, before, sent, inq, outq, captured>>

\* run_batch's dump, before the senders start.  The first round sends nothing
\* and compares with seed_register's second dump: the register it reads is
\* the one this step reads.
DumpBefore ==
  /\ pc = "before"
  /\ before' = register /\ pc' = "probe"
  /\ UNCHANGED <<register, batch, sent, inq, outq, captured>>

\* A host's probe sends the next of its frames; the two senders run side by side.
Send(s) ==
  /\ pc = "probe"
  /\ \E i \in Of(s) \ sent :
       /\ \A j \in Of(s) \ sent : i <= j
       /\ sent' = sent \cup {i}
       /\ inq' = Append(inq, <<batch, i>>)
  /\ UNCHANGED <<register, batch, pc, before, outq, captured>>

\* Seeded fault: the counter is incremented before the errors are looked at.
IngressCountsFirst ==
  /\ inq # <<>>
  /\ LET f == Frame(Head(inq))
     IN  /\ register' = IF Udp(f) THEN [register EXCEPT ![Slot(f)] = (@ + 1) % Modulus]
                                  ELSE register
         /\ outq' = IF Valid(f) THEN Append(outq, Head(inq)) ELSE outq
  /\ inq' = Tail(inq)
  /\ UNCHANGED <<batch, pc, before, sent, captured>>

\* Ingress of the next frame: drop it, or choose the other port, count it if
\* it is UDP, and hand it to egress.
Ingress ==
  /\ inq # <<>>
  /\ LET f == Frame(Head(inq))
     IN  IF Valid(f)
         THEN /\ register' = IF Udp(f) THEN [register EXCEPT ![Slot(f)] = (@ + 1) % Modulus]
                                       ELSE register
              /\ outq' = Append(outq, Head(inq))
         ELSE UNCHANGED <<register, outq>>
  /\ inq' = Tail(inq)
  /\ UNCHANGED <<batch, pc, before, sent, captured>>

\* The receiver at the other port captures a frame from egress (the order
\* between the two ports does not matter to a capture).
Deliver ==
  /\ outq # <<>>
  /\ outq' = Tail(outq) /\ captured' = captured \cup {Head(outq)}
  /\ UNCHANGED <<register, batch, pc, before, sent, inq>>

\* The counts the test accepts: check_counts of the dump before and this one.
CountsRight == \A s \in Slots : (register[s] - before[s]) % Modulus = Expected(s)

\* check_delivery: the receivers have each allowed frame as often as it was
\* sent, and nothing else.
DeliveryRight ==
  /\ Cardinality(captured) = Cardinality(Allowed)
  /\ \A t \in Allowed : Copies(captured, Frame(t)) = Copies(Allowed, Frame(t))

\* The senders have confirmed, the receivers have every frame they wait for:
\* check_delivery, the second dump, check_counts; then the next round.
Check ==
  /\ pc = "probe"
  /\ sent = Places(batch)
  /\ Cardinality(captured) >= Cardinality(Allowed)
  /\ IF DeliveryRight /\ CountsRight
     THEN IF batch < Len(Batches)
          THEN batch' = batch + 1 /\ pc' = "seed"
          ELSE batch' = batch /\ pc' = "done"
     ELSE batch' = batch /\ pc' = "failed"
  /\ sent' = {} /\ captured' = {}
  /\ UNCHANGED <<register, before, inq, outq>>

\* The test is over; the switch drains.
Done ==
  /\ pc \in {"done", "failed"} /\ inq = <<>> /\ outq = <<>>
  /\ UNCHANGED vars

Next ==
  \/ SeedRead \/ SeedWrite \/ DumpBefore
  \/ \E s \in Senders : Send(s)
  \/ Ingress \/ Deliver \/ Check
  \/ Done

Spec == Init /\ [][Next]_vars

-----------------------------------------------------------------------------
(* The dumps around a batch differ, slot by slot and modulo the counter's  *)
(* range, by exactly the frames the test labels as counted, and the seeds  *)
(* change their slot alone: two flows that share a slot, two senders, the  *)
(* wraparound, malformed frames of an earlier batch still in the switch.   *)
DeltasAreExact == pc # "failed"
=============================================================================
