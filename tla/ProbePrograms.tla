---------------------------- MODULE ProbePrograms ----------------------------
(***************************************************************************)
(* The fourteen tests as programs of module ProbeDriver: for each case the *)
(* steps of its run_test and main in the order its topology.py takes them, *)
(* and a small instance of the batches its packets.py makes.  The cases    *)
(* differ where it matters: what is checked inside the temporary directory *)
(* or after it, whether finally or the directory's with is outermost,      *)
(* whether senders run side by side or in turn, when the controller's life *)
(* is asked for, and whether a batch has a marker of its own.              *)
(***************************************************************************)
EXTENDS Integers, Sequences, SequencesExt

Do(op) == <<[op |-> op, on |-> ""]>>
Ask(what) == <<[op |-> "ask", on |-> what]>>
Setup(what) == <<[op |-> "setup", on |-> what]>>
At(op, h) == [op |-> op, on |-> h]

\* One command in the namespace of each node, in run_test or in main.
AskEach(nodes) == [i \in 1..Len(nodes) |-> At("ask", nodes[i])]
SetupEach(nodes) == [i \in 1..Len(nodes) |-> At("setup", nodes[i])]
Each(op, hosts) == [i \in 1..Len(hosts) |-> At(op, hosts[i])]

\* All senders are started, then all are confirmed; or one after the other.
SideBySide(hosts) == Each("send", hosts) \o Each("confirm", hosts)
InTurn(hosts) ==
  FlattenSeq([i \in 1..Len(hosts) |-> <<At("send", hosts[i]), At("confirm", hosts[i])>>])

\* A probe, a batch, and the hosts that have something to send in it.
P(from, to) == [from |-> from, to |-> to]
B(listen, probes) == [listen |-> listen, probes |-> probes, burst |-> 0, own |-> TRUE]
Shared(b) == [b EXCEPT !.own = FALSE]
Senders(b, hosts) ==
  SelectSeq(hosts, LAMBDA h : \E i \in 1..Len(b.probes) : b.probes[i].from = h)

H2 == <<"h1", "h2">>
H3 == <<"h1", "h2", "h3">>
H4 == <<"h1", "h2", "h3", "h4">>

\* Start a receiver on each host, wait for the ready files, let the senders go.
Exchange(hosts, senders) ==
  Do("enter") \o Each("receive", hosts) \o Do("await") \o senders \o Each("collect", hosts)

\* run_probes of 01 to 04 and 14: one batch, checked after the directory is gone.
OneBatch(hosts, senders) ==
  Do("alive") \o Exchange(hosts, SideBySide(senders))
  \o Do("leave") \o Do("check") \o Do("alive") \o Do("finally")

\* The controller is started and its banner awaited.
Launch == Do("start") \o Do("ready")

-----------------------------------------------------------------------------
(* 01: every frame returns to its sender. *)
Batches01 == <<B({"h1", "h2"}, <<P("h1", {"h1"}), P("h2", {"h2"})>>)>>
RunProbes01 == OneBatch(H2, Senders(Batches01[1], H2))
Configure01 == AskEach(Append(H2, "s1"))
RunTest01 == Do("alive") \o Configure01 \o RunProbes01 \o Do("alive")
Launch01 == Launch
Main01 == Setup("ports") \o Setup("network") \o Launch01 \o RunTest01

(* 02: the two ports repeat each other's frames. *)
Batches02 == <<B({"h1", "h2"}, <<P("h1", {"h2"}), P("h2", {"h1"})>>)>>
RunProbes02 == OneBatch(H2, Senders(Batches02[1], H2))
Configure02 == AskEach(Append(H2, "s1"))
RunTest02 == Do("alive") \o Configure02 \o RunProbes02 \o Ask("pingAll") \o Do("alive")
Launch02 == Launch
Main02 == Setup("ports") \o Setup("network") \o Launch02 \o RunTest02

(* 03: known destinations only. *)
Batches03 ==
  <<B({"h1", "h2", "h3"}, <<P("h1", {"h2"}), P("h2", {}), P("h3", {"h1"})>>)>>
RunProbes03 == OneBatch(H3, Senders(Batches03[1], H3))
Configure03 == AskEach(Append(H3, "s1"))
RunTest03 == Do("alive") \o Configure03 \o RunProbes03 \o Ask("pingAll") \o Do("alive")
PopulateArp03 == SetupEach(H3)
Launch03 == Launch
Main03 ==
  Setup("ports") \o Setup("network") \o PopulateArp03 \o Launch03 \o RunTest03

(* 04: unknown destinations are flooded; ARP is resolved by the flood. *)
Batches04 ==
  <<B({"h1", "h2", "h3"}, <<P("h1", {"h2"}), P("h2", {"h1", "h3"}), P("h3", {})>>)>>
RunProbes04 == OneBatch(H3, Senders(Batches04[1], H3))
CheckArp04 == AskEach(H3)
Configure04 == AskEach(Append(H3, "s1"))
RunTest04 ==
  Do("alive") \o Configure04 \o AskEach(H3) \o Ask("pingAll") \o CheckArp04
  \o RunProbes04 \o Do("alive")
Launch04 == Launch
Main04 == Setup("ports") \o Setup("network") \o Launch04 \o RunTest04

(* 05: flooding before learning, unicast after it; a token for each batch, *)
(* finally inside the directory, and no look at the controller's life.     *)
Batches05 ==
  <<B({"h1", "h2", "h3"}, <<P("h1", {"h2", "h3"}), P("h1", {"h2", "h3"})>>),
    B({"h1", "h2", "h3"}, <<P("h1", {"h2"})>>),
    B({"h1", "h2", "h3"}, <<P("h2", {"h1"})>>)>>
ProbeForwarding05(sender) ==
  Exchange(H3, InTurn(<<sender>>)) \o Do("check") \o Do("finally") \o Do("leave")
WaitLearning05 == Ask("s1")
RunTest05 ==
  ProbeForwarding05("h1") \o Ask("pingAll") \o WaitLearning05 \o Ask("pingAll")
  \o ProbeForwarding05("h1") \o ProbeForwarding05("h2") \o Ask("drain")
Launch05 == Launch
Main05 == Setup("network") \o Launch05 \o RunTest05

(* 06: three switches and controllers, every sender in turn. *)
Batches06 ==
  <<B({"h1", "h2", "h3", "h4"},
      <<P("h1", {"h3"}), P("h2", {"h4"}), P("h3", {}), P("h4", {"h1"})>>)>>
RunTest06 ==
  Do("alive") \o Exchange(H4, InTurn(H4))
  \o Do("leave") \o Do("check") \o Do("alive") \o Do("finally")
PopulateArp06 == SetupEach(H4)
Launch06 == Do("start") \o Do("start") \o Do("start") \o Do("ready")
Main06 ==
  Setup("ports") \o Setup("network") \o PopulateArp06 \o Launch06 \o RunTest06

(* 07: a burst of each kind; the receiver keeps frames by source address,  *)
(* which an earlier burst had too.                                         *)
Batches07 ==
  LET b == B({"h2"}, <<P("h1", {"h2"}), P("h1", {"h2"})>>)
      metered == B({"h2"}, <<P("h1", {"h2"}), P("h1", {"h2"}), P("h1", {"h2"})>>)
  IN <<b, [metered EXCEPT !.burst = 1], Shared(b), Shared(b)>>
RunBurst07 ==
  Exchange(<<"h2">>, InTurn(<<"h1">>)) \o Do("check") \o Do("leave") \o Do("finally")
RunTest07 ==
  Do("alive") \o RunBurst07 \o Do("alive") \o RunBurst07
  \o Do("alive") \o RunBurst07 \o Do("alive") \o RunBurst07 \o Do("alive")
Launch07 == Launch
Main07 == Setup("network") \o Launch07 \o RunTest07

(* 08: each burst between two counter dumps; one prefix for the whole run. *)
Batches08 ==
  <<Shared(B({"h1", "h2"}, <<>>)),
    Shared(B({"h1", "h2"}, <<P("h1", {"h2"}), P("h1", {"h2"})>>)),
    Shared(B({"h1", "h2"}, <<P("h2", {"h1"}), P("h2", {"h1"})>>))>>
DumpCounters08 == Ask("dump")
CheckCounters08 == Ask("counters")
RunBurst08(b) ==
  DumpCounters08 \o Exchange(H2, InTurn(Senders(b, H2)))
  \o Do("check") \o Do("leave") \o Do("finally")
  \o DumpCounters08 \o CheckCounters08 \o Do("alive")
RunTest08 ==
  Do("alive") \o RunBurst08(Batches08[1]) \o RunBurst08(Batches08[2])
  \o RunBurst08(Batches08[3])
Configure08 == SetupEach(Append(H2, "s1"))
Launch08 == Launch
Main08 == Setup("network") \o Configure08 \o Launch08 \o RunTest08

(* 09: ECMP and direct routes. *)
Batches09 ==
  <<B({"h1", "h2", "h3"}, <<P("h1", {"h2"}), P("h1", {"h3"}), P("h2", {"h1"}), P("h3", {})>>)>>
RunTest09 ==
  Do("alive") \o Exchange(H3, InTurn(H3))
  \o Do("leave") \o Do("check") \o Do("alive") \o Do("finally")
PopulateArp09 == SetupEach(H3)
Launch09 == Launch
Main09 ==
  Setup("ports") \o Setup("network") \o PopulateArp09 \o Launch09 \o RunTest09

(* 10: permitted and denied frames. *)
Batches10 == <<B({"h1", "h2"}, <<P("h1", {"h2"}), P("h1", {}), P("h2", {"h1"})>>)>>
RunTest10 ==
  Exchange(H2, InTurn(H2)) \o Do("check") \o Do("alive") \o Do("leave") \o Do("finally")
Launch10 == Launch
Main10 == Setup("network") \o Launch10 \o RunTest10

(* 11: only h1 sends; what is not encapsulated is dropped. *)
Batches11 == <<B({"h1", "h2"}, <<P("h1", {"h2"}), P("h1", {}), P("h1", {"h2"})>>)>>
RunTest11 ==
  Exchange(H2, InTurn(<<"h1">>)) \o Do("check") \o Do("alive") \o Do("leave") \o Do("finally")
ConfigureMtu11 == SetupEach(<<"h1", "s1", "h2", "s1">>)
Launch11 == Launch
Main11 == Setup("network") \o ConfigureMtu11 \o Launch11 \o RunTest11

(* 12: four batches under one prefix, each between two register dumps. *)
Batches12 ==
  <<Shared(B({"h1", "h2"}, <<P("h1", {"h2"}), P("h2", {"h1"})>>)),
    Shared(B({"h1", "h2"}, <<P("h1", {"h2"}), P("h1", {"h2"})>>)),
    Shared(B({"h1", "h2"}, <<P("h1", {"h2"}), P("h1", {})>>)),
    Shared(B({"h1", "h2"}, <<P("h1", {"h2"}), P("h2", {"h1"})>>))>>
Dump12 == Ask("dump")
CheckCounts12 == Ask("counts")
Seed12 == Dump12 \o Ask("seed")
RunBatch12(b) ==
  Do("alive") \o Dump12 \o Exchange(H2, SideBySide(Senders(b, H2)))
  \o Do("leave") \o Do("check") \o Dump12 \o CheckCounts12 \o Do("alive") \o Do("finally")
Configure12 == AskEach(Append(H2, "s1"))
RunTest12 ==
  Do("alive") \o Configure12 \o Seed12 \o Dump12 \o CheckCounts12
  \o RunBatch12(Batches12[1]) \o RunBatch12(Batches12[2]) \o RunBatch12(Batches12[3])
  \o Seed12 \o RunBatch12(Batches12[4])
Launch12 == Launch
Main12 == Setup("ports") \o Setup("network") \o Launch12 \o RunTest12

(* 13: every frame reaches the other host and the controller. *)
Batches13 ==
  <<B({"h2", "cpu"}, <<P("h1", {"h2", "cpu"}), P("h1", {"h2", "cpu"})>>),
    B({"h1", "cpu"}, <<P("h2", {"h1", "cpu"})>>)>>
CheckDirection13(sender, receiver) ==
  Do("enter") \o Each("receive", <<receiver>>) \o Do("await") \o InTurn(<<sender>>)
  \o Do("observe") \o Each("collect", <<receiver>>)
  \o Do("check") \o Do("alive") \o Do("finally") \o Do("leave")
RunTest13 == CheckDirection13("h1", "h2") \o CheckDirection13("h2", "h1")
Launch13 == Launch
Main13 == Setup("network") \o Launch13 \o RunTest13

(* 14: longest-prefix routes. *)
Batches14 ==
  <<B({"h1", "h2", "h3"}, <<P("h1", {"h2"}), P("h1", {"h3"}), P("h2", {"h1"}), P("h2", {})>>)>>
RunProbes14 == OneBatch(H3, Senders(Batches14[1], H3))
Configure14 == AskEach(Append(H3, "s1"))
RunTest14 == Do("alive") \o Configure14 \o RunProbes14
Launch14 == Launch
Main14 == Setup("ports") \o Setup("network") \o Launch14 \o RunTest14

-----------------------------------------------------------------------------
AllPrograms ==
  <<Main01, Main02, Main03, Main04, Main05, Main06, Main07, Main08, Main09,
    Main10, Main11, Main12, Main13, Main14>>
AllBatches ==
  <<Batches01, Batches02, Batches03, Batches04, Batches05, Batches06, Batches07,
    Batches08, Batches09, Batches10, Batches11, Batches12, Batches13, Batches14>>
=============================================================================
