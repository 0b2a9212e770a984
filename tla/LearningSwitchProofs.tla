------------------------ MODULE LearningSwitchProofs ------------------------
(***************************************************************************)
(* Proofs about LearningSwitch, for any addresses, ports, table sizes and  *)
(* queue capacities that satisfy its assumptions.                          *)
(***************************************************************************)
EXTENDS LearningSwitch, TLAPS

USE DEF NoPort, NoGroup, HostPorts

-----------------------------------------------------------------------------
(***************************************************************************)
(* Type correctness.                                                       *)
(***************************************************************************)

\* Marking lists as outdated keeps a queue's length, order and samples.
LEMMA OutdateKeepsSamples ==
    ASSUME NEW q \in Seq(Lists), NEW s
    PROVE  /\ Outdate(q, s) \in Seq(Lists)
           /\ Len(Outdate(q, s)) = Len(q)
           /\ \A i \in 1..Len(q) : SampleOf(Outdate(q, s)[i]) = SampleOf(q[i])
<1>1. \A i \in 1..Len(q) :
         /\ Outdate(q, s)[i] \in Lists
         /\ SampleOf(Outdate(q, s)[i]) = SampleOf(q[i])
  <2> TAKE i \in 1..Len(q)
  <2>1. q[i] \in Lists
    OBVIOUS
  <2>2. [q[i] EXCEPT !.live = FALSE] \in Lists
    BY <2>1 DEF Lists
  <2>3. SampleOf([q[i] EXCEPT !.live = FALSE]) = SampleOf(q[i])
    BY <2>1 DEF SampleOf, Lists
  <2> QED
    BY <2>1, <2>2, <2>3 DEF Outdate
<1>2. Outdate(q, s) \in [1..Len(q) -> Lists]
  BY <1>1 DEF Outdate
<1>3. Len(q) \in Nat
  OBVIOUS
<1>4. /\ Outdate(q, s) \in Seq(Lists)
      /\ Len(Outdate(q, s)) = Len(q)
  BY <1>2, <1>3 DEF Outdate
<1> QED
  BY <1>1, <1>4

\* The current list is never a placeholder while something is written for it.
CurIsList ==
    /\ pc \in WritePhases \cup {"ack"} => cur \in Lists
    /\ pc \in WritePhases => cur.mac \in UnicastMacs /\ cur.port \in HostPorts

TypeInv == TypeOK /\ CurIsList /\ (pc \in BootPhases \cup {"idle"} => step = 1)

LEMMA TypeInit == Init => TypeInv
<1> SUFFICES ASSUME Init PROVE TypeInv
  OBVIOUS
<1> USE DEF Init
<1>1. wire \in Seq(Lists) /\ pending \in Seq(Lists)
  OBVIOUS
<1>2. 1 \in 1..N
  BY NAssumption
<1>3. TypeOK
  <2>1. /\ groups \in [HostPorts -> SUBSET SwitchPorts]
        /\ broadcast \in [SwitchPorts -> HostPorts \cup {NoGroup}]
        /\ dmac \in [Macs -> HostPorts \cup {NoPort}]
        /\ learned \in [Macs -> HostPorts \cup {NoPort}]
    OBVIOUS
  <2>2. pc \in Phases
    BY DEF BootPhases, Phases
  <2>3. smac \subseteq Macs /\ unacked \subseteq Samples /\ seen \subseteq Samples
    OBVIOUS
  <2>4. frame \in Frames \cup {NoFrame} /\ cur \in Lists \cup {NoList}
    OBVIOUS
  <2>5. next \in 1..N /\ step \in 1..2
    BY <1>2
  <2>6. /\ digestOn \in BOOLEAN /\ subscribed \in BOOLEAN
        /\ late \in BOOLEAN /\ cancelled \in BOOLEAN
    OBVIOUS
  <2> QED
    BY <1>1, <2>1, <2>2, <2>3, <2>4, <2>5, <2>6 DEF TypeOK
<1> QED
  BY <1>3 DEF TypeInv, CurIsList, WritePhases

LEMMA ArriveType ==
    ASSUME TypeInv, NEW m \in Macs, NEW p \in SwitchPorts, NEW d \in Macs,
           Arrive(m, p, d)
    PROVE  TypeInv'
<1> USE DEF TypeInv, TypeOK, CurIsList, tables, ctl
<1>1. [mac |-> m, port |-> p, live |-> TRUE] \in Lists
  BY DEF Lists
<1>2. frame' \in Frames
  BY DEF Arrive, Frames
<1>3. seen' \subseteq Samples
  BY DEF Arrive, Samples
<1>4. unacked' \subseteq Samples /\ wire' \in Seq(Lists)
  <2>1. CASE m \notin smac /\ Reports(<<m, p>>)
    <3>1. wire' = Append(wire, [mac |-> m, port |-> p, live |-> TRUE])
      BY <2>1 DEF Arrive
    <3>2. wire' \in Seq(Lists)
      BY <1>1, <3>1
    <3>3. unacked' = unacked \cup {<<m, p>>}
      BY <2>1 DEF Arrive
    <3> QED
      BY <3>2, <3>3 DEF Samples
  <2>2. CASE ~(m \notin smac /\ Reports(<<m, p>>))
    BY <2>2 DEF Arrive
  <2> QED
    BY <2>1, <2>2
<1> QED
  BY <1>2, <1>3, <1>4 DEF Arrive

LEMMA PipelineType ==
    ASSUME TypeInv, Pipeline
    PROVE  TypeInv'
<1> USE DEF TypeInv, TypeOK, CurIsList, tables, stream, ctl
<1>1. CASE LookupDmac
  <2>1. frame \in Frames
    BY <1>1 DEF LookupDmac, NoFrame
  <2>2. dmac[frame.dst] # NoPort => {dmac[frame.dst]} \in SUBSET SwitchPorts
    BY <2>1, PortsAssumption DEF Frames
  <2>3. frame' \in Frames
    BY <1>1, <2>1, <2>2 DEF LookupDmac, Frames
  <2> QED
    BY <1>1, <2>3 DEF LookupDmac
<1>2. CASE LookupBroadcast
  <2>1. frame \in Frames
    BY <1>2 DEF LookupBroadcast, NoFrame
  <2>2. broadcast[frame.in] # NoGroup => groups[broadcast[frame.in]] \in SUBSET SwitchPorts
    BY <2>1 DEF Frames
  <2>3. frame' \in Frames
    BY <1>2, <2>1, <2>2 DEF LookupBroadcast, Frames
  <2> QED
    BY <1>2, <2>3 DEF LookupBroadcast
<1>3. CASE Transmit
  BY <1>3 DEF Transmit
<1> QED
  BY <1>1, <1>2, <1>3 DEF Pipeline

LEMMA AckTimeoutType ==
    ASSUME TypeInv, NEW s \in Samples, AckTimeout(s)
    PROVE  TypeInv'
<1> USE DEF TypeInv, TypeOK, CurIsList, tables
<1>1. wire' \in Seq(Lists) /\ pending' \in Seq(Lists)
  BY OutdateKeepsSamples DEF AckTimeout
<1>2. cur' \in Lists \cup {NoList} /\ (cur \in Lists => cur' \in Lists)
  <2>1. CASE cur \in Lists
    BY <2>1 DEF AckTimeout, Lists
  <2>2. CASE cur = NoList
    <3>1. SampleOf(cur) # s
      BY <2>2, PortsAssumption DEF SampleOf, NoList, Samples
    <3>2. NoList \notin Lists
      BY PortsAssumption DEF NoList, Lists
    <3> QED
      BY <2>2, <3>1, <3>2 DEF AckTimeout
  <2> QED
    BY <2>1, <2>2
<1> QED
  BY <1>1, <1>2 DEF AckTimeout

LEMMA BootType ==
    ASSUME TypeInv, Boot
    PROVE  TypeInv'
<1> USE DEF TypeInv, TypeOK, CurIsList, stream, tables, BootPhases, WritePhases, Phases
<1>1. CASE InsertGroup
  <2>1. groups' \in [HostPorts -> SUBSET SwitchPorts]
    BY <1>1, PortsAssumption DEF InsertGroup, Replicas
  <2> QED
    BY <1>1, <2>1, NAssumption DEF InsertGroup, Turn, PhaseAfter
<1>2. CASE InsertBroadcast
  <2>1. broadcast' \in [SwitchPorts -> HostPorts \cup {NoGroup}]
    BY <1>2, PortsAssumption DEF InsertBroadcast
  <2> QED
    BY <1>2, <2>1, NAssumption DEF InsertBroadcast, Turn, PhaseAfter
<1>3. CASE OnDigest
  BY <1>3 DEF OnDigest, PhaseAfter
<1>4. CASE EnableDigest
  BY <1>4 DEF EnableDigest, PhaseAfter
<1>5. CASE BootFails
  BY <1>5 DEF BootFails, Exit
<1> QED
  BY <1>1, <1>2, <1>3, <1>4, <1>5 DEF Boot

LEMMA DeliverType ==
    ASSUME TypeInv, Deliver
    PROVE  TypeInv'
<1> USE DEF TypeInv, TypeOK, CurIsList, tables
<1>1. Head(wire) \in Lists /\ Tail(wire) \in Seq(Lists)
  BY DEF Deliver
<1>2. wire' \in Seq(Lists) /\ pending' \in Seq(Lists)
  <2>1. CASE pending' = Append(pending, Head(wire))
    BY <1>1, <2>1 DEF Deliver
  <2>2. CASE UNCHANGED pending
    BY <1>1, <2>2 DEF Deliver
  <2> QED
    BY <2>1, <2>2 DEF Deliver
<1> QED
  BY <1>2 DEF Deliver

LEMMA LearningType ==
    ASSUME TypeInv, Learning
    PROVE  TypeInv'
<1> USE DEF TypeInv, TypeOK, CurIsList, stream, tables, BootPhases, WritePhases, Phases
<1>1. CASE Take
  <2>1. Head(pending) \in Lists /\ Tail(pending) \in Seq(Lists)
    BY <1>1 DEF Take
  <2> QED
    BY <1>1, <2>1 DEF Take, Learnable
<1>2. CASE WriteFails
  BY <1>2 DEF WriteFails
<1>3. CASE AlreadyExists
  BY <1>3 DEF AlreadyExists
<1>4. CASE Ack
  <2>1. unacked' \subseteq Samples
    BY <1>4 DEF Ack
  <2>2. /\ pc' = "idle" /\ cur' = NoList /\ step' = 1 /\ late' = FALSE
        /\ UNCHANGED <<tables, frame, digestOn, wire, next, subscribed, pending,
                       cancelled, learned, seen>>
    BY <1>4 DEF Ack
  <2>3. late' \in BOOLEAN
    BY <2>2, Zenon
  <2>4. step' \in 1..2 /\ pc' \in Phases
    BY <2>2
  <2>5. TypeOK'
    BY <2>1, <2>2, <2>3, <2>4
  <2> QED
    BY <2>2, <2>5
<1>5. ASSUME pc \in WritePhases, SetEntry
      PROVE  /\ dmac' \in [Macs -> HostPorts \cup {NoPort}]
             /\ smac' \subseteq Macs
  <2>1. cur \in Lists /\ cur.port \in HostPorts
    BY <1>5
  <2> QED
    BY <1>5, <2>1 DEF SetEntry, Lists
<1>6. CASE WriteApplied
  <2>1. cur \in Lists /\ cur.port \in HostPorts
    BY <1>6 DEF WriteApplied
  <2>2. learned' \in [Macs -> HostPorts \cup {NoPort}]
    BY <1>6, <2>1 DEF WriteApplied, Advance, Lists
  <2>3. step' \in 1..2
    BY <1>6 DEF WriteApplied, Advance, WriteOrder
  <2> QED
    BY <1>5, <1>6, <2>1, <2>2, <2>3 DEF WriteApplied, Advance
<1>7. CASE AnswerLost
  BY <1>5, <1>7 DEF AnswerLost
<1> QED
  BY <1>1, <1>2, <1>3, <1>4, <1>6, <1>7 DEF Learning

LEMMA TypeStep ==
    ASSUME TypeInv, [Next]_vars
    PROVE  TypeInv'
<1>1. CASE Next
  <2>1. CASE Cancel
    BY <2>1 DEF Cancel, TypeInv, TypeOK, CurIsList, tables, stream
  <2>2. CASE Shutdown
    BY <2>2 DEF Shutdown, Exit, TypeInv, TypeOK, CurIsList, tables,
                BootPhases, WritePhases, Phases
  <2> QED
    BY <1>1, <2>1, <2>2, ArriveType, PipelineType, AckTimeoutType, BootType,
       DeliverType, LearningType DEF Next
<1>2. CASE UNCHANGED vars
  BY <1>2 DEF vars, tables, stream, ctl, TypeInv, TypeOK, CurIsList
<1> QED
  BY <1>1, <1>2

LEMMA TypeInvariant == Spec => []TypeInv
  BY TypeInit, TypeStep, PTL DEF Spec

\* Every variable of the switch, the stream and the controller stays in its
\* range, whatever the interleaving of frames, lists, writes and time-outs.
THEOREM TypeCorrect == Spec => []TypeOK
<1>1. TypeInv => TypeOK
  BY DEF TypeInv
<1> QED
  BY TypeInvariant, <1>1, PTL

-----------------------------------------------------------------------------
(***************************************************************************)
(* Learning.  The safety properties are not inductive: they rest on every  *)
(* queued list telling of a frame that was received, and on the address    *)
(* that is being written not being learned yet and already forwarded when  *)
(* its suppression is next.                                                *)
(***************************************************************************)
QueueSeen(q) == \A i \in 1..Len(q) : SampleOf(q[i]) \in seen

CurInv ==
    pc \in WritePhases =>
        /\ SampleOf(cur) \in seen
        /\ learned[cur.mac] = NoPort
        /\ step = 2 => dmac[cur.mac] = cur.port

LearnInv ==
    /\ QueueSeen(wire)
    /\ QueueSeen(pending)
    /\ CurInv
    /\ ForwardBeforeSuppress
    /\ LearnedIsInstalled
    /\ ForwardsWhereSeen

LEMMA LearnInit == Init => LearnInv
  BY DEF Init, LearnInv, QueueSeen, CurInv, ForwardBeforeSuppress,
         LearnedIsInstalled, ForwardsWhereSeen, WritePhases

\* Steps that leave tables and learned alone keep the three table properties
\* as long as seen only grows.
LEMMA TablesKept ==
    ASSUME LearnInv, UNCHANGED <<dmac, smac, learned>>, seen \subseteq seen'
    PROVE  /\ ForwardBeforeSuppress'
           /\ LearnedIsInstalled'
           /\ ForwardsWhereSeen'
  BY DEF LearnInv, ForwardBeforeSuppress, LearnedIsInstalled, ForwardsWhereSeen

LEMMA ArriveLearn ==
    ASSUME TypeInv, LearnInv, NEW m \in Macs, NEW p \in SwitchPorts,
           NEW d \in Macs, Arrive(m, p, d)
    PROVE  LearnInv'
<1>1. /\ seen' = seen \cup {<<m, p>>}
      /\ UNCHANGED <<dmac, smac, learned, pc, cur, step, pending>>
  BY DEF Arrive, tables, ctl
<1>2. QueueSeen(wire)'
  <2>1. CASE m \notin smac /\ Reports(<<m, p>>)
    <3> DEFINE l == [mac |-> m, port |-> p, live |-> TRUE]
    <3>1. l \in Lists /\ SampleOf(l) = <<m, p>>
      BY DEF Lists, SampleOf
    <3>2. wire' = Append(wire, l) /\ wire \in Seq(Lists)
      BY <2>1 DEF Arrive, TypeInv, TypeOK
    <3>3. ASSUME NEW i \in 1..Len(wire')
          PROVE  SampleOf(wire'[i]) \in seen'
      <4> HIDE DEF l
      <4>1. CASE i \in 1..Len(wire)
        <5>1. wire'[i] = wire[i]
          BY <3>1, <3>2, <4>1
        <5> QED
          BY <1>1, <4>1, <5>1 DEF LearnInv, QueueSeen
      <4>2. CASE i = Len(wire) + 1
        <5>1. wire'[i] = l
          BY <3>1, <3>2, <4>2
        <5> QED
          BY <1>1, <3>1, <5>1
      <4>3. Len(wire') = Len(wire) + 1
        BY <3>1, <3>2
      <4> QED
        BY <3>2, <4>1, <4>2, <4>3
    <3> QED
      BY <3>3 DEF QueueSeen
  <2>2. CASE ~(m \notin smac /\ Reports(<<m, p>>))
    BY <1>1, <2>2 DEF Arrive, LearnInv, QueueSeen
  <2> QED
    BY <2>1, <2>2
<1>3. QueueSeen(pending)' /\ CurInv'
  BY <1>1 DEF LearnInv, QueueSeen, CurInv
<1> QED
  BY <1>1, <1>2, <1>3, TablesKept DEF LearnInv

LEMMA AckTimeoutLearn ==
    ASSUME TypeInv, LearnInv, NEW s \in Samples, AckTimeout(s)
    PROVE  LearnInv'
<1>1. UNCHANGED <<dmac, smac, learned, pc, step, seen>>
  BY DEF AckTimeout, tables
<1>2. wire \in Seq(Lists) /\ pending \in Seq(Lists)
  BY DEF TypeInv, TypeOK
<1>3. QueueSeen(wire)'
  BY <1>1, <1>2, OutdateKeepsSamples DEF AckTimeout, LearnInv, QueueSeen
<1>4. QueueSeen(pending)'
  BY <1>1, <1>2, OutdateKeepsSamples DEF AckTimeout, LearnInv, QueueSeen
<1>5. pc \in WritePhases => /\ SampleOf(cur') = SampleOf(cur)
                            /\ cur'.mac = cur.mac
                            /\ cur'.port = cur.port
  BY DEF AckTimeout, TypeInv, CurIsList, Lists, SampleOf
<1>6. CurInv'
  BY <1>1, <1>5 DEF LearnInv, CurInv
<1> QED
  BY <1>1, <1>3, <1>4, <1>6, TablesKept DEF LearnInv

LEMMA DeliverLearn ==
    ASSUME TypeInv, LearnInv, Deliver
    PROVE  LearnInv'
<1>1. UNCHANGED <<dmac, smac, learned, pc, cur, step, seen>>
  BY DEF Deliver, tables
<1>2. wire \in Seq(Lists) /\ pending \in Seq(Lists) /\ wire # <<>>
  BY DEF TypeInv, TypeOK, Deliver
<1>3. QueueSeen(wire)'
  BY <1>1, <1>2 DEF Deliver, LearnInv, QueueSeen
<1>4. Head(wire) \in Lists /\ SampleOf(Head(wire)) \in seen
  BY <1>2 DEF LearnInv, QueueSeen
<1>5. QueueSeen(pending)'
  <2>1. CASE pending' = Append(pending, Head(wire))
    BY <1>1, <1>2, <1>4, <2>1 DEF LearnInv, QueueSeen
  <2>2. CASE UNCHANGED pending
    BY <1>1, <2>2 DEF LearnInv, QueueSeen
  <2> QED
    BY <2>1, <2>2 DEF Deliver
<1>6. CurInv'
  BY <1>1 DEF LearnInv, CurInv
<1> QED
  BY <1>1, <1>3, <1>5, <1>6, TablesKept DEF LearnInv

LEMMA TakeLearn ==
    ASSUME TypeInv, LearnInv, Take
    PROVE  LearnInv'
<1>1. UNCHANGED <<dmac, smac, learned, step, seen, wire>>
  BY DEF Take, tables, stream
<1>2. pending \in Seq(Lists) /\ pending # <<>> /\ step = 1
  BY DEF TypeInv, TypeOK, Take
<1>3. QueueSeen(pending)'
  BY <1>1, <1>2 DEF Take, LearnInv, QueueSeen
<1>4. Head(pending) \in Lists /\ SampleOf(Head(pending)) \in seen
  BY <1>2 DEF LearnInv, QueueSeen
<1>5. CurInv'
  BY <1>1, <1>2, <1>4 DEF Take, CurInv, Learnable, WritePhases
<1>6. QueueSeen(wire)'
  BY <1>1 DEF LearnInv, QueueSeen
<1> QED
  BY <1>1, <1>3, <1>5, <1>6, TablesKept DEF LearnInv

\* One accepted write, whether or not its answer arrives.
LEMMA SetEntryLearn ==
    ASSUME TypeInv, LearnInv, pc \in WritePhases, SetEntry,
           UNCHANGED <<wire, pending, seen>>
    PROVE  /\ QueueSeen(wire)' /\ QueueSeen(pending)'
           /\ ForwardBeforeSuppress'
           /\ ForwardsWhereSeen'
           /\ UNCHANGED learned => LearnedIsInstalled'
           /\ step = 1 => dmac'[cur.mac] = cur.port
           /\ step = 2 => dmac' = dmac /\ smac' = smac \cup {cur.mac}
<1>1. /\ cur \in Lists /\ cur.mac \in UnicastMacs /\ cur.port \in HostPorts
      /\ dmac \in [Macs -> HostPorts \cup {NoPort}]
      /\ step \in 1..2
      /\ cur.mac \in Macs
  BY MacsAssumption DEF TypeInv, TypeOK, CurIsList
<1>2. <<cur.mac, cur.port>> \in seen /\ learned[cur.mac] = NoPort
  BY DEF LearnInv, CurInv, SampleOf
<1>3. step = 2 => dmac[cur.mac] = cur.port
  BY DEF LearnInv, CurInv
<1>4. CASE step = 1
  <2>1. dmac' = [dmac EXCEPT ![cur.mac] = cur.port] /\ smac' = smac
    BY <1>4 DEF SetEntry, Target, WriteOrder
  <2> QED
    BY <1>1, <1>2, <1>4, <2>1 DEF LearnInv, QueueSeen, ForwardBeforeSuppress,
       ForwardsWhereSeen, LearnedIsInstalled
<1>5. CASE step = 2
  <2>1. dmac' = dmac /\ smac' = smac \cup {cur.mac}
    BY <1>5 DEF SetEntry, Target, WriteOrder
  <2> QED
    BY <1>1, <1>2, <1>3, <1>5, <2>1 DEF LearnInv, QueueSeen,
       ForwardBeforeSuppress, ForwardsWhereSeen, LearnedIsInstalled
<1> QED
  BY <1>1, <1>4, <1>5

LEMMA WriteAppliedLearn ==
    ASSUME TypeInv, LearnInv, WriteApplied
    PROVE  LearnInv'
<1>1. pc \in WritePhases /\ SetEntry /\ UNCHANGED <<wire, pending, seen, cur>>
  BY DEF WriteApplied, stream
<1>2. /\ cur \in Lists /\ cur.mac \in Macs
      /\ learned \in [Macs -> HostPorts \cup {NoPort}]
      /\ step \in 1..2
  BY <1>1, MacsAssumption DEF TypeInv, TypeOK, CurIsList
<1>3. CASE step = 1
  <2>1. step' = 2 /\ UNCHANGED learned
    BY <1>3 DEF WriteApplied, Advance, WriteOrder
  <2>2. CurInv'
    BY <1>1, <1>3, <2>1, SetEntryLearn DEF LearnInv, CurInv
  <2> QED
    BY <1>1, <2>1, <2>2, SetEntryLearn DEF LearnInv
<1>4. CASE step = 2
  <2>1. learned' = [learned EXCEPT ![cur.mac] = cur.port] /\ pc' = "ack"
    BY <1>4 DEF WriteApplied, Advance, WriteOrder
  <2>2. dmac[cur.mac] = cur.port
    BY <1>1, <1>4 DEF LearnInv, CurInv
  <2>3. LearnedIsInstalled'
    BY <1>1, <1>2, <1>4, <2>1, <2>2, SetEntryLearn DEF LearnInv, LearnedIsInstalled
  <2>4. CurInv'
    BY <2>1 DEF CurInv, WritePhases
  <2> QED
    BY <1>1, <2>3, <2>4, SetEntryLearn DEF LearnInv
<1> QED
  BY <1>2, <1>3, <1>4

\* Only the steps above read or write the state of LearnInv; the rest either
\* keep it all or end the list (or the process) that was worked on.
LEMMA OtherLearn ==
    ASSUME LearnInv, UNCHANGED <<dmac, smac, learned, seen>>,
           UNCHANGED <<wire, pending>> \/ (wire' = <<>> /\ pending' = <<>>),
           UNCHANGED <<pc, cur, step>> \/ pc' \notin WritePhases
             \/ (pc \in WritePhases /\ UNCHANGED <<cur, step>>)
    PROVE  LearnInv'
<1>1. QueueSeen(wire)' /\ QueueSeen(pending)'
  BY DEF LearnInv, QueueSeen
<1>2. CurInv'
  BY DEF LearnInv, CurInv
<1> QED
  BY <1>1, <1>2, TablesKept DEF LearnInv

LEMMA LearnStep ==
    ASSUME TypeInv, LearnInv, [Next]_vars
    PROVE  LearnInv'
<1> USE DEF tables, stream, ctl, WritePhases
<1>1. CASE Pipeline
  BY <1>1, OtherLearn DEF Pipeline, LookupDmac, LookupBroadcast, Transmit
<1>2. CASE Boot
  <2>1. CASE InsertGroup \/ InsertBroadcast
    <3>1. pc' \notin WritePhases
      BY <2>1 DEF InsertGroup, InsertBroadcast, Turn, PhaseAfter
    <3> QED
      BY <2>1, <3>1, OtherLearn DEF InsertGroup, InsertBroadcast
  <2>2. CASE OnDigest \/ EnableDigest
    <3>1. pc' \notin WritePhases
      BY <2>2 DEF OnDigest, EnableDigest, PhaseAfter
    <3> QED
      BY <2>2, <3>1, OtherLearn DEF OnDigest, EnableDigest
  <2>3. CASE BootFails
    BY <2>3, OtherLearn DEF BootFails, Exit
  <2> QED
    BY <1>2, <2>1, <2>2, <2>3 DEF Boot
<1>3. CASE AnswerLost
  <2>1. /\ pc \in WritePhases /\ SetEntry /\ pc' = "ack"
        /\ UNCHANGED <<wire, pending, seen, cur, learned>>
    BY <1>3 DEF AnswerLost
  <2>2. CurInv'
    BY <2>1 DEF CurInv
  <2> QED
    BY <2>1, <2>2, SetEntryLearn DEF LearnInv
<1>4. CASE AlreadyExists
  BY <1>4, OtherLearn DEF AlreadyExists
<1>5. CASE WriteFails
  BY <1>5, OtherLearn DEF WriteFails
<1>6. CASE Ack
  BY <1>6, OtherLearn DEF Ack
<1>7. CASE Cancel
  BY <1>7, OtherLearn DEF Cancel
<1>8. CASE Shutdown
  BY <1>8, OtherLearn DEF Shutdown, Exit
<1>9. CASE UNCHANGED vars
  BY <1>9, OtherLearn DEF vars
<1> QED
  BY <1>1, <1>2, <1>3, <1>4, <1>5, <1>6, <1>7, <1>8, <1>9, ArriveLearn,
     AckTimeoutLearn, DeliverLearn, TakeLearn, WriteAppliedLearn
  DEF Next, Learning

LEMMA LearnInvariant == Spec => []LearnInv
  BY TypeInvariant, LearnInit, LearnStep, PTL DEF Spec

\* No source is silenced before its frames can be forwarded.
THEOREM NeverSilencedUnforwarded == Spec => []ForwardBeforeSuppress
<1>1. LearnInv => ForwardBeforeSuppress
  BY DEF LearnInv
<1> QED
  BY LearnInvariant, <1>1, PTL

\* The controller's record of a MAC is what the switch does with it.
THEOREM RecordMatchesSwitch == Spec => []LearnedIsInstalled
<1>1. LearnInv => LearnedIsInstalled
  BY DEF LearnInv
<1> QED
  BY LearnInvariant, <1>1, PTL

\* No binding is invented: only unicast sources, only where they were seen.
THEOREM NoInventedBinding == Spec => []ForwardsWhereSeen
<1>1. LearnInv => ForwardsWhereSeen
  BY DEF LearnInv
<1> QED
  BY LearnInvariant, <1>1, PTL

-----------------------------------------------------------------------------
(***************************************************************************)
(* The switch and controller implement MacLearning: a frame is a See, an   *)
(* accepted dmac write a Point, an accepted smac write a Suppress or, with *)
(* its answer, a Bind; every other step is a stutter.                      *)
(***************************************************************************)
LEMMA AbsStep ==
    ASSUME TypeInv, LearnInv, [Next]_vars
    PROVE  [Abs!AbsNext]_(Abs!absVars)
<1> USE DEF tables, stream, ctl, Abs!absVars
<1>1. ASSUME NEW m \in Macs, NEW p \in SwitchPorts, NEW d \in Macs, Arrive(m, p, d)
      PROVE  Abs!AbsNext
  BY <1>1 DEF Arrive, Abs!AbsNext, Abs!See
<1>2. ASSUME pc \in WritePhases, SetEntry, UNCHANGED seen
      PROVE  /\ step = 1 /\ UNCHANGED learned => Abs!AbsNext
             /\ step = 2 /\ UNCHANGED learned => Abs!AbsNext
             /\ step = 2 /\ learned' = [learned EXCEPT ![cur.mac] = cur.port]
                  => Abs!AbsNext
             /\ step \in 1..2
  <2> DEFINE m == cur.mac
             p == cur.port
  <2>1. /\ m \in Macs /\ m \in UnicastMacs /\ p \in HostPorts /\ step \in 1..2
        /\ p \in SwitchPorts /\ p # NoPort
    BY <1>2, MacsAssumption, PortsAssumption, NAssumption DEF TypeInv, TypeOK, CurIsList
  <2>2. /\ <<m, p>> \in seen /\ learned[m] = NoPort
        /\ step = 2 => dmac[m] = p
    BY <1>2 DEF LearnInv, CurInv, SampleOf
  <2>3. step = 1 => dmac' = [dmac EXCEPT ![m] = p] /\ smac' = smac
    BY <1>2 DEF SetEntry, Target, WriteOrder
  <2>4. step = 2 => dmac' = dmac /\ smac' = smac \cup {m}
    BY <1>2 DEF SetEntry, Target, WriteOrder
  <2> HIDE DEF m
  <2>5. step = 1 /\ UNCHANGED learned => Abs!Point(m, p)
    BY <1>2, <2>1, <2>2, <2>3 DEF Abs!Point, Abs!NoPort
  <2>6. step = 2 /\ UNCHANGED learned => Abs!Suppress(m)
    BY <1>2, <2>1, <2>2, <2>4 DEF Abs!Suppress, Abs!NoPort
  <2>7. step = 2 /\ learned' = [learned EXCEPT ![m] = p] => Abs!Bind(m)
    BY <1>2, <2>1, <2>2, <2>4 DEF Abs!Bind, Abs!NoPort
  <2> QED
    BY <2>1, <2>5, <2>6, <2>7 DEF Abs!AbsNext, m
<1>3. CASE WriteApplied
  <2>1. pc \in WritePhases /\ SetEntry /\ UNCHANGED seen
    BY <1>3 DEF WriteApplied
  <2>2. /\ step = 1 => UNCHANGED learned
        /\ step = 2 => learned' = [learned EXCEPT ![cur.mac] = cur.port]
    BY <1>3 DEF WriteApplied, Advance, WriteOrder
  <2> QED
    BY <1>2, <2>1, <2>2
<1>4. CASE AnswerLost
  BY <1>2, <1>4 DEF AnswerLost
<1>5. CASE Pipeline
  BY <1>5 DEF Pipeline, LookupDmac, LookupBroadcast, Transmit
<1>6. CASE \E s \in Samples : AckTimeout(s)
  BY <1>6 DEF AckTimeout
<1>7. CASE Boot
  BY <1>7 DEF Boot, InsertGroup, InsertBroadcast, OnDigest, EnableDigest,
              BootFails, Exit
<1>8. CASE Deliver
  BY <1>8 DEF Deliver
<1>9. CASE Take \/ AlreadyExists \/ WriteFails \/ Ack
  BY <1>9 DEF Take, AlreadyExists, WriteFails, Ack
<1>10. CASE Cancel \/ Shutdown
  BY <1>10 DEF Cancel, Shutdown, Exit
<1>11. CASE UNCHANGED vars
  BY <1>11 DEF vars
<1> QED
  BY <1>1, <1>3, <1>4, <1>5, <1>6, <1>7, <1>8, <1>9, <1>10, <1>11
  DEF Next, Learning

\* The detailed switch and controller implement the abstract learning switch.
THEOREM ImplementsMacLearning == Spec => RefinesMacLearning
<1>1. Init => Abs!AbsInit
  BY DEF Init, Abs!AbsInit, Abs!NoPort
<1> QED
  BY <1>1, TypeInvariant, LearnInvariant, AbsStep, PTL
  DEF Spec, RefinesMacLearning, Abs!AbsSpec

\* Once learned, the port of a MAC never changes, in the controller or in
\* the switch.
THEOREM LearnedPortIsFinal == Spec => FirstPortIsFinal
<1>1. ASSUME TypeInv, LearnInv, [Next]_vars
      PROVE  [\A m \in Macs : learned[m] # NoPort =>
                 learned'[m] = learned[m] /\ dmac'[m] = dmac[m]]_vars
  <2>1. [Abs!AbsNext]_(Abs!absVars)
    BY <1>1, AbsStep
  <2>2. dmac \in [Macs -> HostPorts \cup {NoPort}] /\ learned \in [Macs -> HostPorts \cup {NoPort}]
    BY <1>1 DEF TypeInv, TypeOK
  <2>3. LearnedIsInstalled
    BY <1>1 DEF LearnInv
  <2>4. LearnInv'
    BY <1>1, LearnStep
  <2>5. LearnedIsInstalled'
    BY <2>4 DEF LearnInv
  <2>6. \A m \in Macs : learned[m] # NoPort => learned'[m] = learned[m]
    BY <2>1, <2>2 DEF Abs!AbsNext, Abs!absVars, Abs!See, Abs!Point,
                      Abs!Suppress, Abs!Bind, Abs!NoPort
  <2> QED
    BY <2>3, <2>5, <2>6 DEF LearnedIsInstalled
<1> QED
  BY <1>1, TypeInvariant, LearnInvariant, PTL DEF Spec, FirstPortIsFinal

-----------------------------------------------------------------------------
(***************************************************************************)
(* Start-up.                                                               *)
(***************************************************************************)
SubscribeInv ==
    /\ digestOn \/ pc = "enable" => subscribed
    /\ unacked # {} => digestOn

LEMMA SubscribeStep ==
    ASSUME SubscribeInv, [Next]_vars
    PROVE  SubscribeInv'
<1> USE DEF SubscribeInv, tables, stream, ctl, WritePhases
<1>1. ASSUME NEW m \in Macs, NEW p \in SwitchPorts, NEW d \in Macs, Arrive(m, p, d)
      PROVE  SubscribeInv'
  BY <1>1 DEF Arrive, Reports
<1>2. CASE Pipeline
  BY <1>2 DEF Pipeline, LookupDmac, LookupBroadcast, Transmit
<1>3. CASE \E s \in Samples : AckTimeout(s)
  BY <1>3 DEF AckTimeout
<1>4. CASE Boot
  BY <1>4 DEF Boot, InsertGroup, InsertBroadcast, Turn, PhaseAfter, OnDigest,
              EnableDigest, BootFails, Exit
<1>5. CASE Deliver
  BY <1>5 DEF Deliver
<1>6. CASE WriteApplied \/ AnswerLost
  BY <1>6 DEF WriteApplied, Advance, AnswerLost
<1>7. CASE Take \/ AlreadyExists \/ WriteFails
  BY <1>7 DEF Take, AlreadyExists, WriteFails
<1>8. CASE Ack
  BY <1>8 DEF Ack
<1>9. CASE Cancel \/ Shutdown
  BY <1>9 DEF Cancel, Shutdown, Exit
<1>10. CASE UNCHANGED vars
  BY <1>10 DEF vars
<1> QED
  BY <1>1, <1>2, <1>3, <1>4, <1>5, <1>6, <1>7, <1>8, <1>9, <1>10 DEF Next, Learning

\* No list can arrive before its callback is registered.
THEOREM CallbackFirst == Spec => []SubscribedBeforeReports
<1>1. Init => SubscribeInv
  BY DEF Init, SubscribeInv
<1>2. SubscribeInv => SubscribedBeforeReports
  BY DEF SubscribeInv, SubscribedBeforeReports
<1> QED
  BY <1>1, <1>2, SubscribeStep, PTL DEF Spec

\* What is installed when: groups before entries, entries before digests.
FloodInv ==
    /\ \A p \in SwitchPorts : broadcast[p] # NoGroup =>
          p \in HostPorts /\ broadcast[p] = p /\ groups[p] = Replicas(p)
    /\ pc = "groups" =>
          /\ \A g \in HostPorts : g < next => groups[g] = Replicas(g)
          /\ \A p \in SwitchPorts : broadcast[p] = NoGroup
    /\ pc = "broadcast" =>
          /\ \A g \in HostPorts : groups[g] = Replicas(g)
          /\ \A p \in HostPorts : p < next => broadcast[p] = p
    /\ pc \in {"subscribe", "enable"} \/ digestOn =>
          \A p \in HostPorts : broadcast[p] = p

LEMMA FloodStep ==
    ASSUME TypeInv, FloodInv, [Next]_vars
    PROVE  FloodInv'
<1> USE DEF tables, stream, ctl, WritePhases
<1>1. CASE InsertGroup
  <2>1. /\ pc = "groups" /\ next \in 1..N /\ N \in Nat
        /\ groups \in [HostPorts -> SUBSET SwitchPorts]
        /\ groups' = [groups EXCEPT ![next] = Replicas(next)]
        /\ UNCHANGED <<broadcast, digestOn>>
    BY <1>1, NAssumption DEF InsertGroup, TypeInv, TypeOK
  <2>2. \A g \in HostPorts : g <= next => groups'[g] = Replicas(g)
    BY <2>1 DEF FloodInv
  <2>3. \A p \in SwitchPorts : broadcast'[p] = NoGroup
    BY <2>1 DEF FloodInv
  <2>4. CASE next < N
    <3>1. next' = next + 1 /\ pc' = "groups"
      BY <1>1, <2>1, <2>4 DEF InsertGroup, Turn
    <3>2. \A g \in HostPorts : g < next' => groups'[g] = Replicas(g)
      BY <2>1, <2>2, <3>1
    <3>3. ~digestOn
      BY <2>1, NAssumption, PortsAssumption DEF FloodInv
    <3> QED
      BY <2>1, <2>3, <3>1, <3>2, <3>3 DEF FloodInv, Replicas
  <2>5. CASE ~(next < N)
    <3>1. next = N /\ next' = 1 /\ pc' = "broadcast"
      BY <1>1, <2>1, <2>5 DEF InsertGroup, Turn, PhaseAfter
    <3>2. \A g \in HostPorts : groups'[g] = Replicas(g)
      BY <2>1, <2>2, <3>1
    <3>3. ~digestOn
      BY <2>1, NAssumption, PortsAssumption DEF FloodInv
    <3>4. \A p \in HostPorts : ~(p < next')
      BY <3>1
    <3> QED
      BY <2>1, <2>3, <3>1, <3>2, <3>3, <3>4 DEF FloodInv, Replicas
  <2> QED
    BY <2>4, <2>5
<1>2. CASE InsertBroadcast
  <2>1. /\ pc = "broadcast" /\ next \in 1..N /\ N \in Nat
        /\ broadcast \in [SwitchPorts -> HostPorts \cup {NoGroup}]
        /\ broadcast' = [broadcast EXCEPT ![next] = next]
        /\ UNCHANGED <<groups, digestOn>>
        /\ next \in SwitchPorts
    BY <1>2, NAssumption, PortsAssumption DEF InsertBroadcast, TypeInv, TypeOK
  <2>2. \A p \in HostPorts : p <= next => broadcast'[p] = p
    BY <2>1, PortsAssumption DEF FloodInv
  <2>3. \A p \in SwitchPorts : broadcast'[p] # NoGroup =>
          p \in HostPorts /\ broadcast'[p] = p /\ groups'[p] = Replicas(p)
    BY <2>1 DEF FloodInv
  <2>4. digestOn => \A p \in HostPorts : broadcast'[p] = p
    BY <2>1, PortsAssumption DEF FloodInv
  <2>5. \A g \in HostPorts : groups'[g] = Replicas(g)
    BY <2>1 DEF FloodInv
  <2>6. CASE next < N
    <3>1. next' = next + 1 /\ pc' = "broadcast"
      BY <1>2, <2>1, <2>6 DEF InsertBroadcast, Turn
    <3>2. \A p \in HostPorts : p < next' => broadcast'[p] = p
      BY <2>1, <2>2, <3>1
    <3> QED
      BY <2>1, <2>3, <2>4, <2>5, <3>1, <3>2 DEF FloodInv, Replicas
  <2>7. CASE ~(next < N)
    <3>1. next = N /\ pc' = "subscribe"
      BY <1>2, <2>1, <2>7 DEF InsertBroadcast, Turn, PhaseAfter
    <3>2. \A p \in HostPorts : broadcast'[p] = p
      BY <2>1, <2>2, <3>1
    <3> QED
      BY <2>1, <2>3, <3>1, <3>2 DEF FloodInv, Replicas
  <2> QED
    BY <2>6, <2>7
<1>3. CASE OnDigest \/ EnableDigest
  BY <1>3 DEF OnDigest, EnableDigest, PhaseAfter, FloodInv, Replicas
<1>4. ASSUME UNCHANGED <<groups, broadcast, digestOn>>, UNCHANGED <<pc, next>> \/ pc' \notin BootPhases
      PROVE  FloodInv'
  BY <1>4 DEF FloodInv, Replicas, BootPhases
<1>5. CASE BootFails \/ Shutdown
  BY <1>4, <1>5 DEF BootFails, Shutdown, Exit, BootPhases
<1>6. ASSUME NEW m \in Macs, NEW p \in SwitchPorts, NEW d \in Macs, Arrive(m, p, d)
      PROVE  FloodInv'
  BY <1>4, <1>6 DEF Arrive
<1>7. CASE Pipeline \/ Deliver \/ Cancel
  BY <1>4, <1>7 DEF Pipeline, LookupDmac, LookupBroadcast, Transmit, Deliver, Cancel
<1>8. CASE \E s \in Samples : AckTimeout(s)
  BY <1>4, <1>8 DEF AckTimeout
<1>9. CASE WriteApplied \/ AnswerLost
  BY <1>4, <1>9 DEF WriteApplied, Advance, AnswerLost, BootPhases
<1>10. CASE Take \/ AlreadyExists \/ WriteFails \/ Ack
  BY <1>4, <1>10 DEF Take, AlreadyExists, WriteFails, Ack, BootPhases
<1>11. CASE UNCHANGED vars
  BY <1>4, <1>11 DEF vars
<1> QED
  BY <1>1, <1>2, <1>3, <1>5, <1>6, <1>7, <1>8, <1>9, <1>10, <1>11
  DEF Next, Learning, Boot

\* A frame for an unknown destination is copied to all other host ports or,
\* while the controller still installs its entries, to none.
THEOREM FloodIsComplete == Spec => FloodsToAllOthers
<1>1. Init => FloodInv
  BY NAssumption DEF Init, FloodInv
<1>2. Spec => []FloodInv
  BY <1>1, TypeInvariant, FloodStep, PTL DEF Spec
<1>3. ASSUME TypeInv, FloodInv, [Next]_vars
      PROVE  [frame.at = "broadcast" /\ frame'.at = "egress" =>
                LET others == HostPorts \ {frame.in}
                IN  IF frame.in \in HostPorts /\ digestOn
                      THEN frame'.to = others
                      ELSE frame'.to \in {{}, others}]_vars
  <2>1. SUFFICES ASSUME frame.at = "broadcast", frame'.at = "egress", Next
                 PROVE  IF frame.in \in HostPorts /\ digestOn
                          THEN frame'.to = HostPorts \ {frame.in}
                          ELSE frame'.to \in {{}, HostPorts \ {frame.in}}
    BY <1>3
  <2>2. frame \in Frames
    BY <1>3, <2>1 DEF TypeInv, TypeOK, NoFrame
  <2>3. LookupBroadcast
    <3>1. frame' # frame
      BY <2>1
    <3>2. ~\E m, d \in Macs, p \in SwitchPorts : Arrive(m, p, d)
      <4>1. frame # NoFrame
        BY <2>1 DEF NoFrame
      <4> QED
        BY <4>1 DEF Arrive
    <3>3. ~LookupDmac /\ ~Transmit
      BY <2>1 DEF LookupDmac, Transmit
    <3>4. ~\E s \in Samples : AckTimeout(s)
      BY <3>1 DEF AckTimeout
    <3>5. ~Boot
      BY <3>1 DEF Boot, InsertGroup, InsertBroadcast, OnDigest, EnableDigest,
                  BootFails, Exit
    <3>6. ~Learning
      BY <3>1 DEF Learning, Take, WriteApplied, AnswerLost, AlreadyExists,
                  WriteFails, Ack
    <3>7. ~Deliver /\ ~Cancel /\ ~Shutdown
      BY <3>1 DEF Deliver, Cancel, Shutdown, Exit
    <3> QED
      BY <2>1, <3>2, <3>3, <3>4, <3>5, <3>6, <3>7 DEF Next, Pipeline
  <2>4. frame'.to = IF broadcast[frame.in] = NoGroup THEN {}
                      ELSE groups[broadcast[frame.in]]
    BY <2>2, <2>3 DEF LookupBroadcast, Frames
  <2>5. frame.in \in SwitchPorts
    BY <2>2 DEF Frames
  <2>6. frame.in \in HostPorts /\ digestOn => broadcast[frame.in] = frame.in
    BY <1>3 DEF FloodInv
  <2>7. broadcast[frame.in] # NoGroup =>
          broadcast[frame.in] = frame.in /\ groups[frame.in] = HostPorts \ {frame.in}
    BY <1>3, <2>5 DEF FloodInv, Replicas
  <2> QED
    BY <2>4, <2>6, <2>7
<1> QED
  BY <1>2, <1>3, TypeInvariant, PTL DEF Spec, FloodsToAllOthers
=============================================================================
