--------------------------- MODULE LearningSwitch ---------------------------
(***************************************************************************)
(* Case 05, digest variant: the BMv2 pipeline of main_digest.p4, the       *)
(* digest stream between the switch and the Go controller, and the         *)
(* controller of controller/main.go from the accepted pipeline to its end. *)
(*                                                                         *)
(* The switch handles one frame at a time, one table lookup per step, so   *)
(* controller writes fall between the lookups of a frame.  A digest list   *)
(* holds one sample (MaxListSize 1); the switch does not repeat a sample   *)
(* until its list is acknowledged or the ack timeout passes.               *)
(***************************************************************************)
EXTENDS Naturals, Sequences, FiniteSets

CONSTANTS
    Macs,           \* source and destination addresses of frames
    UnicastMacs,    \* those that are non-zero unicast addresses
    N,              \* the -ports flag: host ports are 1..N
    SwitchPorts,    \* ports wired on the switch, the host ports among them
    TableSize,      \* size of smac and of dmac (256 in the P4 program)
    QueueCap,       \* capacity of the pending channel (256 in the code)
    WireBound       \* BOUND: lists the gRPC stream holds at once

ASSUME NAssumption == N \in Nat /\ N >= 2
ASSUME PortsAssumption == SwitchPorts \subseteq Nat \ {0} /\ 1..N \subseteq SwitchPorts
ASSUME MacsAssumption == UnicastMacs \subseteq Macs
ASSUME BoundsAssumption ==
    TableSize \in Nat /\ QueueCap \in Nat \ {0} /\ WireBound \in Nat \ {0}

VARIABLES
    \* Forwarding state of the switch.
    groups,         \* multicast group -> ports it replicates to
    broadcast,      \* ingress port -> multicast group, NoGroup when absent
    dmac,           \* destination -> egress port, NoPort when absent
    smac,           \* sources with an entry (action NoAction)
    frame,          \* the frame between two lookups, or NoFrame
    \* Digest engine of the switch and the stream to the controller.
    digestOn,       \* a DigestEntry for learn_t is installed
    unacked,        \* samples reported and waiting for an ack
    wire,           \* lists sent and not yet delivered, oldest first
    \* The controller.
    pc,             \* where main() is
    next,           \* loop index while it installs groups and entries
    subscribed,     \* OnDigest has registered the callback
    pending,        \* the channel between the callback and the main loop
    cur,            \* the list the main loop works on
    step,           \* which write of installLearned is in progress
    late,           \* learnCtx has expired
    cancelled,      \* SIGINT or SIGTERM has cancelled ctx
    learned,        \* macLearner.learned, NoPort when absent
    \* History, read by no action.
    seen            \* pairs <<source, ingress port>> the switch received

tables == <<groups, broadcast, dmac, smac>>
stream == <<digestOn, unacked, wire>>
ctl == <<pc, next, subscribed, pending, cur, step, late, cancelled, learned>>
vars == <<tables, frame, stream, ctl, seen>>

NoPort == 0
NoGroup == 0
HostPorts == 1..N
Samples == Macs \X SwitchPorts

\* A digest list carries one sample; live says that the switch still waits
\* for the ack of this list (it stands for comparing list ids).
Lists == [mac : Macs, port : SwitchPorts, live : BOOLEAN]
SampleOf(l) == <<l.mac, l.port>>
NoList == [mac |-> "none", port |-> NoPort, live |-> FALSE]

\* A frame between two lookups: to holds the ports its copies leave by.
NoFrame == [at |-> "none"]
Frames == [at : {"dmac", "broadcast", "egress"}, in : SwitchPorts,
           dst : Macs, to : SUBSET SwitchPorts]

BootPhases == {"groups", "broadcast", "subscribe", "enable"}
WritePhases == {"insert", "modify"}
Phases == BootPhases \cup WritePhases \cup {"idle", "ack", "exited"}

TypeOK ==
    /\ groups \in [HostPorts -> SUBSET SwitchPorts]
    /\ broadcast \in [SwitchPorts -> HostPorts \cup {NoGroup}]
    /\ dmac \in [Macs -> HostPorts \cup {NoPort}]
    /\ smac \subseteq Macs
    /\ frame \in Frames \cup {NoFrame}
    /\ digestOn \in BOOLEAN
    /\ unacked \subseteq Samples
    /\ wire \in Seq(Lists)
    /\ pc \in Phases
    /\ next \in 1..N
    /\ subscribed \in BOOLEAN
    /\ pending \in Seq(Lists)
    /\ cur \in Lists \cup {NoList}
    /\ step \in 1..2
    /\ late \in BOOLEAN
    /\ cancelled \in BOOLEAN
    /\ learned \in [Macs -> HostPorts \cup {NoPort}]
    /\ seen \subseteq Samples

-----------------------------------------------------------------------------
(***************************************************************************)
(* The data plane.                                                         *)
(***************************************************************************)

\* mac_learn: a digest reaches the stream when learn_t is enabled, a
\* controller is connected, and the sample is not already waiting for an ack.
Reports(s) == digestOn /\ pc # "exited" /\ s \notin unacked

\* A frame enters and goes through smac: its default action is mac_learn.
\* BOUND: while the stream is full no frame that would add to it is taken.
Arrive(m, p, d) ==
    /\ frame = NoFrame
    /\ frame' = [at |-> "dmac", in |-> p, dst |-> d, to |-> {}]
    /\ seen' = seen \cup {<<m, p>>}
    /\ IF m \notin smac /\ Reports(<<m, p>>)
         THEN /\ Len(wire) < WireBound
              /\ unacked' = unacked \cup {<<m, p>>}
              /\ wire' = Append(wire, [mac |-> m, port |-> p, live |-> TRUE])
         ELSE UNCHANGED <<unacked, wire>>
    /\ UNCHANGED <<tables, digestOn, ctl>>

\* dmac.apply(): a hit forwards to one port, a miss falls to broadcast.
LookupDmac ==
    /\ frame.at = "dmac"
    /\ frame' = IF dmac[frame.dst] # NoPort
                  THEN [frame EXCEPT !.at = "egress", !.to = {dmac[frame.dst]}]
                  ELSE [frame EXCEPT !.at = "broadcast"]
    /\ UNCHANGED <<tables, stream, ctl, seen>>

\* broadcast.apply(), then the replication of the multicast group.
LookupBroadcast ==
    /\ frame.at = "broadcast"
    /\ LET g == broadcast[frame.in]
       IN  frame' = [frame EXCEPT !.at = "egress",
                                  !.to = IF g = NoGroup THEN {} ELSE groups[g]]
    /\ UNCHANGED <<tables, stream, ctl, seen>>

Transmit ==
    /\ frame.at = "egress"
    /\ frame' = NoFrame
    /\ UNCHANGED <<tables, stream, ctl, seen>>

\* The lists of sequence q that carry sample s are no longer waited for.
Outdate(q, s) ==
    [i \in 1..Len(q) |-> IF SampleOf(q[i]) = s THEN [q[i] EXCEPT !.live = FALSE] ELSE q[i]]

\* Seeded fault: lists are waited for forever.
NoAckTimeout(s) == FALSE /\ UNCHANGED vars

\* AckTimeoutNs passes: the switch may report the sample again.
AckTimeout(s) ==
    /\ s \in unacked
    /\ unacked' = unacked \ {s}
    /\ wire' = Outdate(wire, s)
    /\ pending' = Outdate(pending, s)
    /\ cur' = IF SampleOf(cur) = s THEN [cur EXCEPT !.live = FALSE] ELSE cur
    /\ UNCHANGED <<tables, frame, digestOn, pc, next, subscribed, step, late,
                   cancelled, learned, seen>>

-----------------------------------------------------------------------------
(***************************************************************************)
(* The controller, start-up.  A write that fails ends it (log.Fatalf).     *)
(***************************************************************************)

\* Seeded fault: the sender is not left out of its group.
ReplicasWithSender(g) == HostPorts

\* Group g replicates to every host port but g.
Replicas(g) == HostPorts \ {g}

\* Seeded fault: the digest is enabled before the callback is registered.
PhaseAfterEnableFirst == [groups |-> "broadcast", broadcast |-> "enable",
                          enable |-> "subscribe", subscribe |-> "idle"]

\* The order main() goes through: the callback is registered before the
\* digest is enabled.
PhaseAfter == [groups |-> "broadcast", broadcast |-> "subscribe",
               subscribe |-> "enable", enable |-> "idle"]

\* Seeded fault: the loop runs once too often.
TurnPastEnd ==
    IF next <= N
      THEN next' = next + 1 /\ pc' = pc
      ELSE next' = 1 /\ pc' = PhaseAfter[pc]

\* One turn of a start-up loop "for ingress := 1; ingress <= ports".
Turn ==
    IF next < N
      THEN next' = next + 1 /\ pc' = pc
      ELSE next' = 1 /\ pc' = PhaseAfter[pc]

InsertGroup ==
    /\ pc = "groups" /\ ~cancelled
    /\ groups' = [groups EXCEPT ![next] = Replicas(next)]
    /\ Turn
    /\ UNCHANGED <<broadcast, dmac, smac, frame, stream, subscribed, pending,
                   cur, step, late, cancelled, learned, seen>>

InsertBroadcast ==
    /\ pc = "broadcast" /\ ~cancelled
    /\ broadcast' = [broadcast EXCEPT ![next] = next]
    /\ Turn
    /\ UNCHANGED <<groups, dmac, smac, frame, stream, subscribed, pending,
                   cur, step, late, cancelled, learned, seen>>

OnDigest ==
    /\ pc = "subscribe"
    /\ subscribed' = TRUE
    /\ pc' = PhaseAfter[pc]
    /\ UNCHANGED <<tables, frame, stream, next, pending, cur, step, late,
                   cancelled, learned, seen>>

EnableDigest ==
    /\ pc = "enable" /\ ~cancelled
    /\ digestOn' = TRUE
    /\ pc' = PhaseAfter[pc]
    /\ UNCHANGED <<tables, frame, unacked, wire, next, subscribed, pending,
                   cur, step, late, cancelled, learned, seen>>

\* The process ends: the stream closes and everything queued is lost.
Exit ==
    /\ pc' = "exited"
    /\ wire' = <<>> /\ pending' = <<>> /\ cur' = NoList
    /\ UNCHANGED <<tables, frame, digestOn, unacked, next, subscribed, step,
                   late, cancelled, learned, seen>>

\* log.Fatalf: a start-up write failed, with or without having been applied
\* (main never reads what it wrote, so only the latter is of interest).
BootFails ==
    /\ pc \in BootPhases \ {"subscribe"}
    /\ Exit

-----------------------------------------------------------------------------
(***************************************************************************)
(* The controller, learning.                                               *)
(***************************************************************************)

\* The callback of OnDigest: it queues the list, or skips it when the
\* channel is full or ctx is done; without a callback the list is dropped.
Deliver ==
    /\ pc # "exited" /\ wire # <<>>
    /\ wire' = Tail(wire)
    /\ \/ /\ subscribed /\ Len(pending) < QueueCap
          /\ pending' = Append(pending, Head(wire))
       \/ /\ ~subscribed \/ cancelled \/ Len(pending) >= QueueCap
          /\ UNCHANGED pending
    /\ UNCHANGED <<tables, frame, digestOn, unacked, pc, next, subscribed, cur,
                   step, late, cancelled, learned, seen>>

\* Seeded faults: no check against learned; no check of the address.
LearnableAgain(m, p) == m \in UnicastMacs /\ p \in HostPorts
LearnableAnySource(m, p) == p \in HostPorts /\ learned[m] = NoPort

\* The checks of macLearner.learn before it writes anything.
Learnable(m, p) == m \in UnicastMacs /\ p \in HostPorts /\ learned[m] = NoPort

\* The main loop receives a list; what learn() refuses, or holds already,
\* goes straight to the ack.
Take ==
    /\ pc = "idle" /\ pending # <<>>
    /\ cur' = Head(pending)
    /\ pending' = Tail(pending)
    /\ pc' = IF Learnable(Head(pending).mac, Head(pending).port) THEN "insert" ELSE "ack"
    /\ UNCHANGED <<tables, frame, stream, next, subscribed, step, late, cancelled,
                   learned, seen>>

\* Seeded fault: suppression first.
WriteOrderSuppressFirst == <<"smac", "dmac">>

\* installLearned: forwarding first, suppression second.
WriteOrder == <<"dmac", "smac">>
Target == WriteOrder[step]

EntryExists ==
    IF Target = "dmac" THEN dmac[cur.mac] # NoPort ELSE cur.mac \in smac

TableFull ==
    IF Target = "dmac" THEN Cardinality({m \in Macs : dmac[m] # NoPort}) >= TableSize
                       ELSE Cardinality(smac) >= TableSize

\* The switch accepts the write in progress: an INSERT of a new entry that
\* fits, or a MODIFY of an existing one.
Accepts ==
    \/ pc = "insert" /\ ~EntryExists /\ ~TableFull
    \/ pc = "modify"

SetEntry ==
    IF Target = "dmac"
      THEN dmac' = [dmac EXCEPT ![cur.mac] = cur.port] /\ smac' = smac
      ELSE smac' = smac \cup {cur.mac} /\ dmac' = dmac

\* After a successful write: the next table, or the record in learned.
Advance ==
    IF step < Len(WriteOrder)
      THEN step' = step + 1 /\ pc' = "insert" /\ UNCHANGED learned
      ELSE pc' = "ack" /\ learned' = [learned EXCEPT ![cur.mac] = cur.port]
           /\ UNCHANGED step

WriteApplied ==
    /\ pc \in WritePhases /\ ~cancelled
    /\ Accepts
    /\ SetEntry
    /\ Advance
    /\ UNCHANGED <<groups, broadcast, frame, stream, next, subscribed, pending,
                   cur, late, cancelled, seen>>

\* The write is applied, but learnCtx expires before the answer arrives.
AnswerLost ==
    /\ pc \in WritePhases /\ ~cancelled
    /\ Accepts
    /\ SetEntry
    /\ pc' = "ack" /\ late' = TRUE
    /\ UNCHANGED <<groups, broadcast, frame, stream, next, subscribed, pending,
                   cur, step, cancelled, learned, seen>>

\* Seeded fault: an existing entry is taken for the wanted one.
AlreadyExistsIsSuccess ==
    /\ pc = "insert" /\ ~cancelled
    /\ EntryExists
    /\ Advance
    /\ UNCHANGED <<tables, frame, stream, next, subscribed, pending, cur, late,
                   cancelled, seen>>

\* upsertEntry: ALREADY_EXISTS, plain or inside UNKNOWN, turns into MODIFY.
AlreadyExists ==
    /\ pc = "insert" /\ ~cancelled
    /\ EntryExists
    /\ pc' = "modify"
    /\ UNCHANGED <<tables, frame, stream, next, subscribed, pending, cur, step,
                   late, cancelled, learned, seen>>

\* The write is not applied: the table is full, the RPC fails, learnCtx
\* expires first, or ctx is cancelled.
WriteFails ==
    /\ pc \in WritePhases
    /\ pc' = "ack"
    /\ late' \in BOOLEAN
    /\ UNCHANGED <<tables, frame, stream, next, subscribed, pending, cur, step,
                   cancelled, learned, seen>>

\* Ack reaches the switch, which forgets the sample if it still waits for
\* this list; it fails when its context is done or the stream breaks.  The
\* list's context ends with it (learnCancel).
Ack ==
    /\ pc = "ack"
    /\ pc' = "idle" /\ cur' = NoList /\ step' = 1 /\ late' = FALSE
    /\ \/ /\ ~late /\ ~cancelled
          /\ unacked' = IF cur.live THEN unacked \ {SampleOf(cur)} ELSE unacked
       \/ UNCHANGED unacked
    /\ UNCHANGED <<tables, frame, digestOn, wire, next, subscribed, pending,
                   cancelled, learned, seen>>

\* SIGINT or SIGTERM cancels ctx; the main loop notices between lists.
Cancel ==
    /\ pc # "exited" /\ ~cancelled
    /\ cancelled' = TRUE
    /\ UNCHANGED <<tables, frame, stream, pc, next, subscribed, pending, cur,
                   step, late, learned, seen>>

Shutdown == pc = "idle" /\ cancelled /\ Exit

-----------------------------------------------------------------------------
Init ==
    /\ groups = [g \in HostPorts |-> {}]
    /\ broadcast = [p \in SwitchPorts |-> NoGroup]
    /\ dmac = [m \in Macs |-> NoPort]
    /\ smac = {}
    /\ frame = NoFrame
    /\ digestOn = FALSE
    /\ unacked = {}
    /\ wire = <<>>
    /\ pc = "groups"
    /\ next = 1
    /\ subscribed = FALSE
    /\ pending = <<>>
    /\ cur = NoList
    /\ step = 1
    /\ late = FALSE
    /\ cancelled = FALSE
    /\ learned = [m \in Macs |-> NoPort]
    /\ seen = {}

Pipeline == LookupDmac \/ LookupBroadcast \/ Transmit
Boot == InsertGroup \/ InsertBroadcast \/ OnDigest \/ EnableDigest \/ BootFails
Learning ==
    Take \/ WriteApplied \/ AnswerLost \/ AlreadyExists \/ WriteFails \/ Ack

Next ==
    \/ \E m, d \in Macs, p \in SwitchPorts : Arrive(m, p, d)
    \/ Pipeline
    \/ \E s \in Samples : AckTimeout(s)
    \/ Boot
    \/ Deliver
    \/ Learning
    \/ Cancel
    \/ Shutdown

Spec == Init /\ [][Next]_vars

-----------------------------------------------------------------------------
(***************************************************************************)
(* Properties.                                                             *)
(***************************************************************************)

\* "Install forwarding before suppressing future digests" (main.go:258): at
\* no instant, whatever write failed, timed out or was retried, is a source
\* silenced whose frames the switch cannot forward.
ForwardBeforeSuppress == \A m \in smac : dmac[m] # NoPort

\* What macLearner.learned holds is what the switch does: a MAC recorded for
\* a port is forwarded to that port and silenced, also when an earlier
\* attempt for another port was applied and its answer lost.
LearnedIsInstalled ==
    \A m \in Macs : learned[m] # NoPort => dmac[m] = learned[m] /\ m \in smac

\* Only unicast addresses are forwarded, and only to a port they were seen on
\* as a source: a queued, repeated or stale list never invents a binding.
ForwardsWhereSeen ==
    \A m \in Macs : dmac[m] # NoPort => m \in UnicastMacs /\ <<m, dmac[m]>> \in seen

\* The callback is in place before any sample is reported (main.go:135), so
\* no list is dropped for want of one.
SubscribedBeforeReports == unacked # {} => subscribed

\* The port of a learned MAC is final in the controller and in the switch
\* (main.go:244-248, README 106): later sightings elsewhere change nothing.
FirstPortIsFinal ==
    [][\A m \in Macs : learned[m] # NoPort =>
            learned'[m] = learned[m] /\ dmac'[m] = dmac[m]]_vars

\* Frames with an unknown destination reach every host port but the one they
\* came from once the switch is ready, and before that either all of those
\* or none (main.go:6-8): never a part of them, never the sender.
FloodsToAllOthers ==
    [][frame.at = "broadcast" /\ frame'.at = "egress" =>
          LET others == HostPorts \ {frame.in}
          IN  IF frame.in \in HostPorts /\ digestOn
                THEN frame'.to = others
                ELSE frame'.to \in {{}, others}]_vars

\* The switch and its controller implement the abstract learning switch.
Abs == INSTANCE MacLearning WITH
          forwarding <- dmac, suppressed <- smac, bound <- learned
RefinesMacLearning == Abs!AbsSpec

-----------------------------------------------------------------------------
(***************************************************************************)
(* Liveness.  Processes keep running (weak fairness); a host that sends    *)
(* keeps sending, and a write that is tried again and again is answered    *)
(* at last (strong fairness).                                              *)
(***************************************************************************)
Fairness ==
    /\ WF_vars(Pipeline)
    /\ WF_vars(InsertGroup \/ InsertBroadcast \/ OnDigest \/ EnableDigest)
    /\ WF_vars(Deliver)
    /\ WF_vars(Take)
    /\ WF_vars(Learning)
    /\ \A s \in Samples : WF_vars(AckTimeout(s))
    /\ \A m \in UnicastMacs :
         /\ SF_vars(\E p \in HostPorts, d \in Macs : Arrive(m, p, d))
         /\ \A table \in {"dmac", "smac"} :
               SF_vars(cur.mac = m /\ Target = table /\ WriteApplied)
         /\ SF_vars(cur.mac = m /\ AlreadyExists)

FairSpec == Spec /\ Fairness

\* A host that keeps sending is learned in the end, whatever lists were
\* skipped on a full queue, writes failed or acks lost: the ack timeout
\* keeps the chance to try again (main.go:141-149, 198).
EventuallyLearned ==
    \A m \in UnicastMacs :
        <>(pc = "exited" \/ cancelled \/ (m \in smac /\ dmac[m] # NoPort))
=============================================================================
