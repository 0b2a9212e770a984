------------------------- MODULE TableSwitchProofs -------------------------
(***************************************************************************)
(* For any cases, programs and entries that satisfy TableSwitch's          *)
(* assumptions: type correctness; a frame whose deciding entries are       *)
(* installed when it enters, or that enters after the banner, leaves as    *)
(* the complete tables would have it, however the writes fall between its  *)
(* lookups, and is received so as long as the controller that prints its   *)
(* packet-in runs; and in a case that is careful about the order of its writes no *)
(* frame ever goes elsewhere.                                              *)
(*                                                                         *)
(* Then for the programs and entries of module CasePipelines and any       *)
(* frames whatever: which cases are careful, and what the complete tables  *)
(* do to a frame, as a function of the frame.                              *)
(***************************************************************************)
EXTENDS TableSwitch, SequenceTheorems, TLAPS

\* The entries of case c among the first n.
Installed(c, n) == {Writes[c][i] : i \in 1..n}

LEMMA FullIsNat == ASSUME NEW c \in Cases PROVE Full(c) \in Nat
  BY RankAssumption DEF Full

LEMMA MoreInstalled ==
  ASSUME NEW c \in Cases, NEW n \in Nat, NEW m \in 0..n
  PROVE  Installed(c, m) \subseteq Installed(c, n)
  BY DEF Installed

LEMMA EntryRank ==
  ASSUME NEW c \in Cases, NEW n \in 0..Full(c), NEW e \in Installed(c, n)
  PROVE  e.rank \in Nat
<1>1. PICK i \in 1..n : e = Writes[c][i]  BY DEF Installed
<1>2. i \in 1..Full(c)  BY FullIsNat
<1> QED BY <1>1, <1>2, RankAssumption

(* What settles a lookup decides it: later writes cannot change what the   *)
(* table finds.                                                            *)
LEMMA FoundIsFinal ==
  ASSUME NEW c \in Cases, NEW n \in 0..Full(c), NEW m \in 0..n, NEW s,
         s.at # "out", Settled(c, m, s)
  PROVE  Found(c, n, s) = Found(c, Full(c), s)
<1> DEFINE All == Matching(c, Full(c), s)
           Some == Matching(c, n, s)
           Best == Found(c, Full(c), s)
<1>1. Full(c) \in Nat /\ n \in Nat  BY FullIsNat
<1>2. Some \subseteq All
  BY <1>1, MoreInstalled DEF Matching, Installed
<1>3. CASE All = {}
  BY <1>2, <1>3 DEF Found
<1>4. CASE Best # {} /\ Best \subseteq Installed(c, m)
  <2>1. Best \subseteq Some
    <3>1. Installed(c, m) \subseteq Installed(c, n)  BY <1>1, MoreInstalled
    <3> QED BY <3>1, <1>4 DEF Found, Matching, Installed
  <2>2. \A e \in All : e.rank \in Nat
    BY <1>1, EntryRank DEF Matching, Installed
  <2>3. Best \subseteq Found(c, n, s)
    BY <1>2, <2>1 DEF Found
  <2>4. Found(c, n, s) \subseteq Best
    <3>1. PICK w \in Best : TRUE  BY <1>4
    <3>2. ASSUME NEW e \in Found(c, n, s), NEW d \in All PROVE d.rank <= e.rank
      <4>1. e \in Some /\ e \in All  BY <1>2 DEF Found
      <4>2. w \in All /\ d.rank <= w.rank  BY <3>1 DEF Found
      <4>3. w.rank <= e.rank  BY <2>1, <3>1 DEF Found
      <4>4. d.rank \in Nat /\ w.rank \in Nat /\ e.rank \in Nat  BY <2>2, <4>1, <4>2
      <4> QED BY <4>2, <4>3, <4>4
    <3>3. \A e \in Found(c, n, s) : e \in All  BY <1>2 DEF Found
    <3> QED BY <3>2, <3>3 DEF Found
  <2> QED BY <2>3, <2>4
<1> QED BY <1>3, <1>4 DEF Settled, Installed

LEMMA LookupsOf ==
  ASSUME NEW c, NEW n, NEW s
  PROVE  /\ Lookups(c, n, s)[1] = s
         /\ \A i \in 1..3 : Lookups(c, n, s)[i + 1] = Lookup(c, n, Lookups(c, n, s)[i])
<1> DEFINE s1 == Lookup(c, n, s)
           s2 == Lookup(c, n, s1)
           s3 == Lookup(c, n, s2)
<1>1. Lookups(c, n, s) = <<s, s1, s2, s3>>  BY DEF Lookups
<1> HIDE DEF s1, s2, s3
<1>2. /\ Lookups(c, n, s)[1] = s /\ Lookups(c, n, s)[2] = s1
      /\ Lookups(c, n, s)[3] = s2 /\ Lookups(c, n, s)[4] = s3
  BY <1>1
<1>3. s1 = Lookup(c, n, s) /\ s2 = Lookup(c, n, s1) /\ s3 = Lookup(c, n, s2)
  BY DEF s1, s2, s3
<1>4. Lookups(c, n, s)[1 + 1] = Lookup(c, n, Lookups(c, n, s)[1])  BY <1>2, <1>3
<1>5. Lookups(c, n, s)[2 + 1] = Lookup(c, n, Lookups(c, n, s)[2])  BY <1>2, <1>3
<1>6. Lookups(c, n, s)[3 + 1] = Lookup(c, n, Lookups(c, n, s)[3])  BY <1>2, <1>3
<1>7. \A i \in 1..3 : i = 1 \/ i = 2 \/ i = 3  OBVIOUS
<1> QED BY <1>2, <1>4, <1>5, <1>6, <1>7

LEMMA PathIsLookups ==
  ASSUME NEW c, NEW n, NEW f
  PROVE  /\ Path(c, n, f)[1] = Arrive(c, f)
         /\ \A i \in 1..3 : Path(c, n, f)[i + 1] = Lookup(c, n, Path(c, n, f)[i])
  BY LookupsOf DEF Path

LEMMA PathEnds ==
  ASSUME NEW c \in Cases, NEW f \in Frames[c]
  PROVE  Path(c, Full(c), f)[4].at = "out"
<1>1. Arrive(c, f) \in Reach[c]  BY DEF Reach
<1> QED BY <1>1, LengthAssumption DEF Path

(* A frame that has left stays as it left.                                 *)
LEMMA OutIsLast ==
  ASSUME NEW c, NEW n, NEW f, NEW i \in 1..4, Path(c, n, f)[i].at = "out"
  PROVE  Path(c, n, f)[4] = Path(c, n, f)[i]
<1> DEFINE p(k) == Path(c, n, f)[k]
<1>1. \A k \in 1..3 : p(k + 1) = Lookup(c, n, p(k))  BY PathIsLookups
<1> HIDE DEF p
<1>2. \A k \in 1..3 : p(k).at = "out" => p(k + 1) = p(k)  BY <1>1 DEF Lookup
<1>3. p(1).at = "out" => p(2) = p(1)  BY <1>2
<1>4. p(2).at = "out" => p(3) = p(2)  BY <1>2
<1>5. p(3).at = "out" => p(4) = p(3)  BY <1>2
<1>6. i = 1 \/ i = 2 \/ i = 3 \/ i = 4  OBVIOUS
<1>7. p(i).at = "out"  BY DEF p
<1>8. p(4) = p(i)  BY <1>3, <1>4, <1>5, <1>6, <1>7
<1> QED BY <1>8 DEF p

-----------------------------------------------------------------------------
LEMMA ArriveReach ==
  ASSUME NEW c \in Cases, NEW f \in Frames[c] PROVE Arrive(c, f) \in Reach[c]
  BY DEF Reach

PacketType(c) ==
  [frame : Frames[c], entered : 0..Full(c), ready : BOOLEAN, stage : Reach[c]]

LEMMA TypeStep == TypeOK /\ [Next]_vars => TypeOK'
<1> SUFFICES ASSUME TypeOK, [Next]_vars PROVE TypeOK'  OBVIOUS
<1> USE DEF PacketType
<1>0. case \in Cases /\ Full(case) \in Nat  BY FullIsNat DEF TypeOK
<1>1. CASE Write  BY <1>0, <1>1 DEF Write, TypeOK
<1>2. CASE WriteFails  BY <1>0, <1>2 DEF WriteFails, TypeOK
<1>3. CASE Announce  BY <1>3 DEF Announce, TypeOK
<1>4. CASE Stop  BY <1>4 DEF Stop, TypeOK
<1>5. ASSUME NEW f \in Frames[case], Enter(f) PROVE TypeOK'
  <2>1. Arrive(case, f) \in Reach[case]  BY <1>0, ArriveReach
  <2>2. (ctrl \in {"ready", "stopped"}) \in BOOLEAN  OBVIOUS
  <2>3. pkt' \in PacketType(case)  BY <1>5, <2>1, <2>2 DEF Enter, TypeOK
  <2> QED BY <1>5, <2>3 DEF Enter, TypeOK
<1>6. CASE Step
  <2>1. pkt \in PacketType(case)  BY <1>6 DEF Step, TypeOK
  <2>2. Lookup(case, written, pkt.stage) \in Reach[case]
    BY <1>0, <2>1, ReachAssumption DEF TypeOK
  <2>3. pkt' \in PacketType(case)
    <3> DEFINE new == Lookup(case, written, pkt.stage)
    <3>1. pkt' = [pkt EXCEPT !.stage = new]  BY <1>6 DEF Step
    <3>2. new \in Reach[case]  BY <2>2
    <3> HIDE DEF new
    <3> QED BY <2>1, <3>1, <3>2
  <2> QED BY <1>6, <2>3 DEF Step, TypeOK
<1>7. CASE Leave
  <2>1. pkt \in PacketType(case)  BY <1>7 DEF Leave, TypeOK
  <2>2. Received(pkt.stage.out) \in SUBSET AllCopies[case]
    BY <1>0, <2>1 DEF Received, ToHosts, AllCopies
  <2> DEFINE got == Received(pkt.stage.out)
  <2>3. seen' = [frame |-> pkt.frame, ready |-> pkt.ready, copies |-> got]
    BY <1>7 DEF Leave
  <2> HIDE DEF got
  <2>4. seen' \in [frame : Frames[case], ready : BOOLEAN, copies : SUBSET AllCopies[case]]
    BY <2>1, <2>2, <2>3 DEF got
  <2> QED BY <1>7, <2>4 DEF Leave, TypeOK
<1>8. CASE UNCHANGED vars  BY <1>8 DEF vars, TypeOK
<1>9. CASE OnPacketIn  BY <1>9 DEF OnPacketIn, TypeOK
<1> QED BY <1>1, <1>2, <1>3, <1>4, <1>5, <1>6, <1>7, <1>8, <1>9 DEF Next

(* Every behaviour keeps TypeOK: the controller writes no more than its    *)
(* entries, and a frame is only ever in a stage of its case's program.     *)
THEOREM TypeCorrect == Spec => []TypeOK
<1>1. Init => TypeOK
  <2>1. Init => handler \in BOOLEAN  BY Zenon DEF Init
  <2> QED BY <2>1, FullIsNat DEF Init, TypeOK
<1> QED BY <1>1, TypeStep, PTL DEF Spec

-----------------------------------------------------------------------------
(* The inductive invariant: a frame entered after at most the writes made  *)
(* so far, and a governed frame stands somewhere on its final path.        *)
OnPath ==
  pkt # NoPacket =>
    /\ pkt.entered <= written
    /\ Governed(case, pkt.entered, pkt.frame) =>
         \E i \in 1..4 : pkt.stage = Path(case, Full(case), pkt.frame)[i]

LEMMA OnPathStep == TypeOK /\ OnPath /\ [Next]_vars => OnPath'
<1> SUFFICES ASSUME TypeOK, OnPath, [Next]_vars PROVE OnPath'  OBVIOUS
<1> USE DEF PacketType
<1>0. case \in Cases /\ Full(case) \in Nat /\ written \in 0..Full(case)
  BY FullIsNat DEF TypeOK
<1>1. ASSUME UNCHANGED <<case, pkt>>, written' \in {written, written + 1} PROVE OnPath'
  <2> SUFFICES ASSUME pkt # NoPacket
               PROVE /\ pkt.entered <= written'
                     /\ Governed(case, pkt.entered, pkt.frame) =>
                          \E i \in 1..4 : pkt.stage = Path(case, Full(case), pkt.frame)[i]
    BY <1>1 DEF OnPath
  <2>1. pkt.entered \in Nat  BY <1>0 DEF TypeOK
  <2> QED BY <1>0, <1>1, <2>1 DEF OnPath
<1>2. CASE Write  BY <1>1, <1>2 DEF Write
<1>3. CASE WriteFails  BY <1>1, <1>3 DEF WriteFails
<1>4. CASE Announce  BY <1>1, <1>4 DEF Announce
<1>5. CASE Stop  BY <1>1, <1>5 DEF Stop
<1>6. ASSUME NEW f \in Frames[case], Enter(f) PROVE OnPath'
  <2>1. /\ case' = case /\ written' = written
        /\ pkt'.entered = written /\ pkt'.frame = f /\ pkt'.stage = Arrive(case, f)
    BY <1>6 DEF Enter
  <2>2. pkt'.stage = Path(case, Full(case), f)[1]  BY <2>1, PathIsLookups
  <2>3. written <= written  BY <1>0
  <2> QED BY <2>1, <2>2, <2>3 DEF OnPath
<1>7. CASE Step
  <2>1. pkt \in PacketType(case) /\ pkt # NoPacket /\ pkt.stage.at # "out"
    BY <1>7 DEF Step, TypeOK
  <2>2. /\ case' = case /\ written' = written
        /\ pkt'.entered = pkt.entered /\ pkt'.frame = pkt.frame
        /\ pkt'.stage = Lookup(case, written, pkt.stage)
    <3> DEFINE new == Lookup(case, written, pkt.stage)
    <3>1. pkt' = [pkt EXCEPT !.stage = new] /\ case' = case /\ written' = written
      BY <1>7 DEF Step
    <3> HIDE DEF new
    <3>2. pkt'.entered = pkt.entered /\ pkt'.frame = pkt.frame /\ pkt'.stage = new
      BY <2>1, <3>1
    <3> QED BY <3>1, <3>2 DEF new
  <2>3. pkt.entered <= written  BY <2>1 DEF OnPath
  <2>4. ASSUME Governed(case, pkt.entered, pkt.frame)
        PROVE  \E i \in 1..4 : pkt'.stage = Path(case, Full(case), pkt.frame)[i]
    <3> DEFINE p(k) == Path(case, Full(case), pkt.frame)[k]
    <3>1. PICK i \in 1..4 : pkt.stage = p(i)  BY <2>1, <2>4 DEF OnPath
    <3>2. i # 4  BY <1>0, <2>1, <3>1, PathEnds
    <3>3. i \in 1..3 /\ i + 1 \in 1..4  BY <3>1, <3>2
    <3>4. Settled(case, pkt.entered, p(i))  BY <2>4, <3>3 DEF Governed
    <3>5. pkt.entered \in 0..written  BY <1>0, <2>1, <2>3
    <3>6. Found(case, written, pkt.stage) = Found(case, Full(case), pkt.stage)
      <4>1. Settled(case, pkt.entered, pkt.stage)  BY <3>1, <3>4
      <4> QED BY <1>0, <2>1, <3>5, <4>1, FoundIsFinal
    <3>7. Lookup(case, written, pkt.stage) = Lookup(case, Full(case), pkt.stage)
      BY <3>6, <2>1 DEF Lookup
    <3>8. p(i + 1) = Lookup(case, Full(case), p(i))  BY <3>3, PathIsLookups
    <3>9. pkt'.stage = p(i + 1)  BY <2>2, <3>1, <3>7, <3>8
    <3> QED BY <3>3, <3>9
  <2> QED BY <2>2, <2>3, <2>4 DEF OnPath
<1>8. CASE Leave  BY <1>8 DEF Leave, OnPath
<1>9. CASE UNCHANGED vars  BY <1>1, <1>9 DEF vars
<1>10. CASE OnPacketIn  BY <1>1, <1>10 DEF OnPacketIn
<1> QED BY <1>2, <1>3, <1>4, <1>5, <1>6, <1>7, <1>8, <1>9, <1>10 DEF Next

LEMMA OnPathIsFinal == TypeOK /\ OnPath => GovernedIsFinal
<1> SUFFICES ASSUME TypeOK, OnPath, pkt # NoPacket, pkt.stage.at = "out",
                    Governed(case, pkt.entered, pkt.frame)
             PROVE  pkt.stage.out = Final(case, pkt.frame)
  BY DEF GovernedIsFinal
<1>1. PICK i \in 1..4 : pkt.stage = Path(case, Full(case), pkt.frame)[i]  BY DEF OnPath
<1>2. Path(case, Full(case), pkt.frame)[4] = Path(case, Full(case), pkt.frame)[i]
  BY <1>1, OutIsLast
<1> QED BY <1>1, <1>2 DEF Final

(* A frame that enters once the entries deciding it are installed leaves   *)
(* as the complete tables would have it, in every behaviour and for every  *)
(* program of at most three lookups.                                       *)
THEOREM GovernedFramesAreFinal == Spec => []GovernedIsFinal
<1>1. Init => OnPath  BY DEF Init, OnPath
<1>2. TypeOK /\ OnPath /\ [Next]_vars => OnPath'  BY OnPathStep
<1>3. TypeOK /\ OnPath => GovernedIsFinal  BY OnPathIsFinal
<1> QED BY <1>1, <1>2, <1>3, TypeCorrect, PTL DEF Spec

-----------------------------------------------------------------------------
(* The banner comes after the last write, and a frame that arrives after   *)
(* it stands on its final path: every lookup sees the complete tables.     *)
ReadyOnPath ==
  /\ ctrl \in {"ready", "stopped"} => written = Full(case)
  /\ pkt # NoPacket /\ pkt.ready =>
       /\ ctrl \in {"ready", "stopped"}
       /\ \E i \in 1..4 : pkt.stage = Path(case, Full(case), pkt.frame)[i]

LEMMA ReadyStep == TypeOK /\ ReadyOnPath /\ [Next]_vars => ReadyOnPath'
<1> SUFFICES ASSUME TypeOK, ReadyOnPath, [Next]_vars PROVE ReadyOnPath'  OBVIOUS
<1> USE DEF PacketType
<1>0. case \in Cases  BY DEF TypeOK
<1>1. ASSUME UNCHANGED <<case, pkt>>, ctrl \notin {"ready", "stopped"},
             ctrl' \in {"ready", "stopped"} => written' = Full(case)
      PROVE  ReadyOnPath'
  BY <1>1 DEF ReadyOnPath
<1>2. CASE Write  BY <1>1, <1>2 DEF Write
<1>3. CASE WriteFails  BY <1>1, <1>3 DEF WriteFails
<1>4. CASE Announce  BY <1>1, <1>4 DEF Announce
<1>5. CASE Stop  BY <1>5 DEF Stop, ReadyOnPath
<1>6. ASSUME NEW f \in Frames[case], Enter(f) PROVE ReadyOnPath'
  <2>1. /\ UNCHANGED <<case, ctrl, written>>
        /\ pkt'.ready = (ctrl \in {"ready", "stopped"})
        /\ pkt'.frame = f /\ pkt'.stage = Arrive(case, f)
    BY <1>6 DEF Enter
  <2>2. pkt'.stage = Path(case, Full(case), f)[1]  BY <2>1, PathIsLookups
  <2>3. pkt'.ready => ctrl' \in {"ready", "stopped"}  BY <2>1, Zenon
  <2>4. ctrl' \in {"ready", "stopped"} => written' = Full(case')  BY <2>1 DEF ReadyOnPath
  <2>5. \E i \in 1..4 : pkt'.stage = Path(case', Full(case'), pkt'.frame)[i]  BY <2>1, <2>2
  <2> QED BY <2>3, <2>4, <2>5 DEF ReadyOnPath
<1>7. CASE Step
  <2>1. pkt \in PacketType(case) /\ pkt # NoPacket /\ pkt.stage.at # "out"
    BY <1>7 DEF Step, TypeOK
  <2>2. /\ UNCHANGED <<case, ctrl, written>>
        /\ pkt'.ready = pkt.ready /\ pkt'.frame = pkt.frame
        /\ pkt'.stage = Lookup(case, written, pkt.stage)
    <3> DEFINE new == Lookup(case, written, pkt.stage)
    <3>1. pkt' = [pkt EXCEPT !.stage = new] /\ UNCHANGED <<case, ctrl, written>>
      BY <1>7 DEF Step
    <3> HIDE DEF new
    <3>2. pkt'.ready = pkt.ready /\ pkt'.frame = pkt.frame /\ pkt'.stage = new
      BY <2>1, <3>1
    <3> QED BY <3>1, <3>2 DEF new
  <2>3. ASSUME pkt.ready
        PROVE  \E i \in 1..4 : pkt'.stage = Path(case, Full(case), pkt.frame)[i]
    <3> DEFINE p(k) == Path(case, Full(case), pkt.frame)[k]
    <3>1. PICK i \in 1..4 : pkt.stage = p(i)  BY <2>1, <2>3 DEF ReadyOnPath
    <3>2. i # 4  BY <1>0, <2>1, <3>1, PathEnds
    <3>3. i \in 1..3 /\ i + 1 \in 1..4  BY <3>1, <3>2
    <3>4. written = Full(case)  BY <2>1, <2>3 DEF ReadyOnPath
    <3>5. p(i + 1) = Lookup(case, Full(case), p(i))  BY <3>3, PathIsLookups
    <3>6. pkt'.stage = p(i + 1)  BY <2>2, <3>1, <3>4, <3>5
    <3> QED BY <3>3, <3>6
  <2> QED BY <2>1, <2>2, <2>3 DEF ReadyOnPath
<1>8. CASE Leave  BY <1>8 DEF Leave, ReadyOnPath
<1>9. CASE UNCHANGED vars  BY <1>9 DEF vars, ReadyOnPath
<1>10. CASE OnPacketIn  BY <1>1, <1>10 DEF OnPacketIn
<1> QED BY <1>2, <1>3, <1>4, <1>5, <1>6, <1>7, <1>8, <1>9, <1>10 DEF Next

LEMMA ReadyIsFinal ==
  ASSUME TypeOK, ReadyOnPath, pkt # NoPacket, pkt.stage.at = "out", pkt.ready
  PROVE  pkt.stage.out = Final(case, pkt.frame)
<1>1. PICK i \in 1..4 : pkt.stage = Path(case, Full(case), pkt.frame)[i]
  BY DEF ReadyOnPath
<1>2. Path(case, Full(case), pkt.frame)[4] = pkt.stage  BY <1>1, OutIsLast
<1> QED BY <1>2 DEF Final

(* The handler is there before the banner and until the controller ends,   *)
(* and what was received of a frame that entered after the banner is what  *)
(* the complete tables send, the copies for the controller left out only   *)
(* if it has ended.                                                        *)
Heard ==
  /\ ctrl = "ready" /\ case \in Listening => handler
  /\ seen # NoPacket /\ seen.ready =>
       /\ ctrl \in {"ready", "stopped"}
       /\ seen.copies \in {Final(case, seen.frame), ToHosts(Final(case, seen.frame))}
       /\ ctrl = "ready" /\ case \in Listening => seen.copies = Final(case, seen.frame)

LEMMA HeardStep == TypeOK /\ ReadyOnPath /\ Heard /\ [Next]_vars => Heard'
<1> SUFFICES ASSUME TypeOK, ReadyOnPath, Heard, [Next]_vars PROVE Heard'  OBVIOUS
<1>1. ASSUME UNCHANGED <<case, seen>>, ctrl \notin {"ready", "stopped"},
             ctrl' = "ready" /\ case \in Listening => handler'
      PROVE  Heard'
  BY <1>1 DEF Heard
<1>2. CASE Write  BY <1>1, <1>2 DEF Write
<1>3. CASE WriteFails  BY <1>1, <1>3 DEF WriteFails
<1>4. CASE OnPacketIn  BY <1>1, <1>4 DEF OnPacketIn
<1>5. CASE Announce  BY <1>1, <1>5 DEF Announce
<1>6. CASE Stop  BY <1>6 DEF Stop, Heard
<1>7. ASSUME NEW f \in Frames[case], Enter(f) PROVE Heard'
  BY <1>7 DEF Enter, Heard
<1>8. CASE Step  BY <1>8 DEF Step, Heard
<1>9. CASE Leave
  <2> DEFINE got == Received(pkt.stage.out)
  <2>1. seen' = [frame |-> pkt.frame, ready |-> pkt.ready, copies |-> got]
        /\ UNCHANGED <<case, ctrl, handler>> /\ pkt # NoPacket /\ pkt.stage.at = "out"
    BY <1>9 DEF Leave
  <2>2. pkt.ready => ctrl \in {"ready", "stopped"} /\ pkt.stage.out = Final(case, pkt.frame)
    BY <2>1, ReadyIsFinal DEF ReadyOnPath
  <2>3. got \in {pkt.stage.out, ToHosts(pkt.stage.out)} /\ (handler => got = pkt.stage.out)
    BY DEF Received
  <2> HIDE DEF got
  <2>4. seen'.frame = pkt.frame /\ seen'.ready = pkt.ready /\ seen'.copies = got  BY <2>1
  <2> QED BY <2>1, <2>2, <2>3, <2>4 DEF Heard
<1>10. CASE UNCHANGED vars  BY <1>10 DEF vars, Heard
<1> QED BY <1>2, <1>3, <1>4, <1>5, <1>6, <1>7, <1>8, <1>9, <1>10 DEF Next

\* The three invariants together hold in every behaviour.
LEMMA HeardAlways == Spec => [](TypeOK /\ ReadyOnPath /\ Heard)
<1>1. Init => ReadyOnPath /\ Heard  BY DEF Init, ReadyOnPath, Heard
<1> QED BY <1>1, ReadyStep, HeardStep, TypeCorrect, PTL DEF Spec

(* The complete tables do what the tests demand: a fact about the programs *)
(* and the entries alone, without their writes or a second frame.          *)
TablesMeetLabels ==
  \A c \in Cases : \A f \in Frames[c] : Final(c, f) = f.to

(* If the complete tables meet the tests' labels, so does what the hosts   *)
(* receive of every frame that enters after the banner: the controllers    *)
(* announce themselves no earlier, and neither a signal nor the            *)
(* controller's end undoes it.  What the label demands of the controller,  *)
(* a printed packet-in, is met as long as it runs when the copy arrives.   *)
THEOREM ReadyMeetsPolicy ==
  ASSUME TablesMeetLabels
  PROVE  Spec => []ReadyIsPolicy
<1>1. TypeOK /\ Heard => ReadyIsPolicy
  <2> SUFFICES ASSUME TypeOK, Heard, seen # NoPacket, seen.ready
               PROVE  /\ ToHosts(seen.copies) = ToHosts(seen.frame.to)
                      /\ ctrl = "ready" => seen.copies = seen.frame.to
    BY DEF ReadyIsPolicy
  <2>1. case \in Cases /\ seen.frame \in Frames[case]  BY DEF TypeOK
  <2>2. Final(case, seen.frame) = seen.frame.to  BY <2>1 DEF TablesMeetLabels
  <2>3. seen.copies \in {seen.frame.to, ToHosts(seen.frame.to)}  BY <2>2 DEF Heard
  <2>4. ToHosts(ToHosts(seen.frame.to)) = ToHosts(seen.frame.to)  BY DEF ToHosts
  <2>5. case \notin Listening => ToHosts(seen.frame.to) = seen.frame.to
    BY <2>1, ListeningAssumption
  <2>6. ctrl = "ready" /\ case \in Listening => seen.copies = seen.frame.to
    BY <2>2 DEF Heard
  <2> QED BY <2>3, <2>4, <2>5, <2>6
<1> QED BY <1>1, HeardAlways, PTL

-----------------------------------------------------------------------------
(* Before the banner.  A careful case writes the entry that wins first,    *)
(* and what a missing entry does to a frame opens no way that the complete *)
(* tables would not.                                                       *)

\* The copies the complete tables make of a frame that stands at stage s.
Ways(c, s) == Lookups(c, Full(c), s)[4].out

OrderedWrites(c) ==
  \A i, j \in 1..Full(c) : \A s \in Reach[c] :
    i < j /\ Matches(Writes[c][i], s) /\ Matches(Writes[c][j], s)
      => Writes[c][j].rank < Writes[c][i].rank

MissIsHarmless(c) ==
  \A s \in Reach[c] : s.at # "out" => Ways(c, Apply(c, s, {})) \subseteq Ways(c, s)

CarefulOrder == \A c \in Cases \cap Careful : OrderedWrites(c) /\ MissIsHarmless(c)

(* Where the winning entry is written first, the first entry that matches  *)
(* settles the lookup.                                                     *)
LEMMA FirstMatchWins ==
  ASSUME NEW c \in Cases, OrderedWrites(c), NEW n \in 0..Full(c), NEW s \in Reach[c],
         Matching(c, n, s) # {}
  PROVE  Found(c, n, s) = Found(c, Full(c), s)
<1> DEFINE All == Matching(c, Full(c), s)
           Some == Matching(c, n, s)
<1>1. Full(c) \in Nat /\ n \in Nat  BY FullIsNat
<1>2. Some \subseteq All  BY <1>1, MoreInstalled DEF Matching, Installed
<1>3. \A e \in All : e.rank \in Nat  BY <1>1, EntryRank DEF Matching, Installed
<1>4. ASSUME NEW e \in Some, NEW d \in All \ Some PROVE d.rank < e.rank
  <2>1. PICK i \in 1..n : e = Writes[c][i]  BY DEF Matching
  <2>2. PICK j \in 1..Full(c) : d = Writes[c][j]  BY DEF Matching
  <2>3. j \notin 1..n  BY <1>4, <2>2 DEF Matching
  <2>4. i \in 1..Full(c) /\ i < j  BY <1>1, <2>1, <2>2, <2>3
  <2>5. Matches(e, s) /\ Matches(d, s)  BY <1>4 DEF Matching
  <2> QED BY <2>1, <2>2, <2>4, <2>5 DEF OrderedWrites
<1>5. PICK w \in Some : TRUE  OBVIOUS
<1> HIDE DEF All, Some
<1>6. Found(c, n, s) = {e \in Some : \A d \in Some : d.rank <= e.rank}
  BY DEF Found, Some
<1>7. Found(c, Full(c), s) = {e \in All : \A d \in All : d.rank <= e.rank}
  BY DEF Found, All
<1>8. ASSUME NEW e \in Found(c, n, s) PROVE e \in Found(c, Full(c), s)
  <2>1. e \in Some /\ e \in All  BY <1>2, <1>6, <1>8
  <2>2. ASSUME NEW d \in All PROVE d.rank <= e.rank
    <3>1. CASE d \in Some  BY <1>6, <1>8, <3>1
    <3>2. CASE d \notin Some
      <4>1. d.rank < e.rank  BY <1>4, <2>1, <3>2
      <4> QED BY <1>3, <2>1, <4>1
    <3> QED BY <3>1, <3>2
  <2> QED BY <1>7, <2>1, <2>2
<1>9. ASSUME NEW e \in Found(c, Full(c), s) PROVE e \in Found(c, n, s)
  <2>1. e \in All /\ w \in All /\ w.rank <= e.rank  BY <1>2, <1>5, <1>7, <1>9
  <2>2. e \in Some
    <3> SUFFICES ASSUME e \notin Some PROVE FALSE  OBVIOUS
    <3>1. e.rank < w.rank  BY <1>4, <1>5, <2>1
    <3>2. e.rank \in Nat /\ w.rank \in Nat  BY <1>3, <2>1
    <3> QED BY <2>1, <3>1, <3>2
  <2> QED BY <1>2, <1>6, <1>7, <1>9, <2>2
<1> QED BY <1>8, <1>9

LEMMA WaysOut ==
  ASSUME NEW c, NEW s, s.at = "out"
  PROVE  Ways(c, s) = s.out
<1> DEFINE L(x) == Lookup(c, Full(c), x)
           p(i) == Lookups(c, Full(c), s)[i]
<1>1. p(1) = s /\ \A i \in 1..3 : p(i + 1) = L(p(i))  BY LookupsOf
<1>2. L(s) = s  BY DEF Lookup
<1> HIDE DEF L, p
<1>3. p(2) = L(p(1)) /\ p(3) = L(p(2)) /\ p(4) = L(p(3))  BY <1>1
<1>4. p(4) = s  BY <1>1, <1>2, <1>3
<1> QED BY <1>4 DEF Ways, p

LEMMA WaysNext ==
  ASSUME NEW c \in Cases, NEW s \in Reach[c]
  PROVE  Ways(c, Lookup(c, Full(c), s)) = Ways(c, s)
<1> DEFINE L(x) == Lookup(c, Full(c), x)
           p(i) == Lookups(c, Full(c), s)[i]
           q(i) == Lookups(c, Full(c), L(s))[i]
<1>1. p(1) = s /\ \A i \in 1..3 : p(i + 1) = L(p(i))  BY LookupsOf
<1>2. q(1) = L(s) /\ \A i \in 1..3 : q(i + 1) = L(q(i))  BY LookupsOf
<1>3. p(4).at = "out"  BY LengthAssumption
<1>4. L(p(4)) = p(4)  BY <1>3 DEF Lookup
<1> HIDE DEF L, p, q
<1>5. p(2) = L(p(1)) /\ p(3) = L(p(2)) /\ p(4) = L(p(3))  BY <1>1
<1>6. q(2) = L(q(1)) /\ q(3) = L(q(2)) /\ q(4) = L(q(3))  BY <1>2
<1>7. q(4) = p(4)  BY <1>1, <1>2, <1>4, <1>5, <1>6
<1> QED BY <1>7 DEF Ways, L, p, q

(* One lookup under any of a careful case's writes keeps to the ways that  *)
(* the complete tables leave open.                                         *)
LEMMA LookupNoDetour ==
  ASSUME NEW c \in Cases, OrderedWrites(c), MissIsHarmless(c),
         NEW n \in 0..Full(c), NEW s \in Reach[c], s.at # "out"
  PROVE  Ways(c, Lookup(c, n, s)) \subseteq Ways(c, s)
<1>1. CASE Matching(c, n, s) = {}
  <2>1. Found(c, n, s) = {}  BY <1>1 DEF Found
  <2>2. Lookup(c, n, s) = Apply(c, s, {})  BY <2>1 DEF Lookup
  <2> QED BY <2>2 DEF MissIsHarmless
<1>2. CASE Matching(c, n, s) # {}
  <2>1. Lookup(c, n, s) = Lookup(c, Full(c), s)  BY <1>2, FirstMatchWins DEF Lookup
  <2> QED BY <2>1, WaysNext
<1> QED BY <1>1, <1>2

\* The inductive invariant: what the complete tables would make of the frame
\* where it stands, they would have made of it on arrival.
NoDetour ==
  pkt # NoPacket /\ case \in Careful => Ways(case, pkt.stage) \subseteq Final(case, pkt.frame)

LEMMA NoDetourStep == CarefulOrder /\ TypeOK /\ NoDetour /\ [Next]_vars => NoDetour'
<1> SUFFICES ASSUME CarefulOrder, TypeOK, NoDetour, [Next]_vars PROVE NoDetour'  OBVIOUS
<1> USE DEF PacketType
<1>0. case \in Cases /\ Full(case) \in Nat /\ written \in 0..Full(case)
  BY FullIsNat DEF TypeOK
<1>1. ASSUME UNCHANGED <<case, pkt>> PROVE NoDetour'  BY <1>1 DEF NoDetour
<1>2. CASE Write  BY <1>1, <1>2 DEF Write
<1>3. CASE WriteFails  BY <1>1, <1>3 DEF WriteFails
<1>4. CASE Announce  BY <1>1, <1>4 DEF Announce
<1>5. CASE Stop  BY <1>1, <1>5 DEF Stop
<1>6. ASSUME NEW f \in Frames[case], Enter(f) PROVE NoDetour'
  <2>1. case' = case /\ pkt'.frame = f /\ pkt'.stage = Arrive(case, f)  BY <1>6 DEF Enter
  <2>2. Ways(case, Arrive(case, f)) = Final(case, f)  BY DEF Ways, Final, Path
  <2> QED BY <2>1, <2>2 DEF NoDetour
<1>7. CASE Step
  <2> DEFINE new == Lookup(case, written, pkt.stage)
  <2>1. pkt \in PacketType(case) /\ pkt # NoPacket /\ pkt.stage.at # "out"
    BY <1>7 DEF Step, TypeOK
  <2>2. pkt' = [pkt EXCEPT !.stage = new] /\ case' = case  BY <1>7 DEF Step
  <2>3. case \in Careful => Ways(case, new) \subseteq Ways(case, pkt.stage)
    BY <1>0, <2>1, LookupNoDetour DEF CarefulOrder
  <2> HIDE DEF new
  <2>4. pkt'.stage = new /\ pkt'.frame = pkt.frame  BY <2>1, <2>2
  <2> QED BY <2>1, <2>2, <2>3, <2>4 DEF NoDetour
<1>8. CASE Leave  BY <1>8 DEF Leave, NoDetour
<1>9. CASE UNCHANGED vars  BY <1>1, <1>9 DEF vars
<1>10. CASE OnPacketIn  BY <1>1, <1>10 DEF OnPacketIn
<1> QED BY <1>2, <1>3, <1>4, <1>5, <1>6, <1>7, <1>8, <1>9, <1>10 DEF Next

(* In a careful case a frame that meets half-written tables may be lost,   *)
(* but no copy of it goes where the complete tables would not send one,    *)
(* although each of its lookups may see a different number of writes.      *)
THEOREM CarefulNeverElsewhere ==
  ASSUME CarefulOrder
  PROVE  Spec => []NeverElsewhere
<1>1. Init => NoDetour  BY DEF Init, NoDetour
<1>2. TypeOK /\ NoDetour => NeverElsewhere
  <2> SUFFICES ASSUME TypeOK, NoDetour, pkt # NoPacket, pkt.stage.at = "out", case \in Careful
               PROVE  pkt.stage.out \subseteq Final(case, pkt.frame)
    BY DEF NeverElsewhere
  <2> QED BY WaysOut DEF NoDetour
<1> QED BY <1>1, <1>2, NoDetourStep, TypeCorrect, PTL DEF Spec
-----------------------------------------------------------------------------
(* The cases' own programs and entries (module CasePipelines), with any    *)
(* frames whose lengths and hashes are numbers.                            *)

P == INSTANCE CasePipelines

TheCases ==
  /\ Cases \subseteq DOMAIN P!AllWrites
  /\ \A c \in Cases : Writes[c] = P!AllWrites[c]
  /\ \A c \in Cases : \A f \in Frames[c] : Arrive(c, f) = P!ArriveAt(c, f)
  /\ \A c \in Cases : \A s, found : Apply(c, s, found) = P!ApplyTable(c, s, found)

Stage(at, hdr, eg, out) == [at |-> at, hdr |-> hdr, eg |-> eg, out |-> out]

(* The stages are the least set that holds the arrivals and is closed      *)
(* under lookups.                                                          *)
LEMMA ReachLeast ==
  ASSUME NEW c \in Cases, NEW S, \A f \in Frames[c] : Arrive(c, f) \in S,
         \A s \in S \cap Reach[c] : s.at # "out" =>
           \A n \in 0..Full(c) : Apply(c, s, Found(c, n, s)) \in S
  PROVE  Reach[c] \subseteq S
<1> DEFINE T == S \cap Reach[c]
           Next1(X) == X \cup {Lookup(c, n, s) : n \in 0..Full(c), s \in X}
<1>1. {Arrive(c, f) : f \in Frames[c]} \subseteq T  BY ArriveReach
<1>2. ASSUME NEW s \in T, NEW n \in 0..Full(c) PROVE Lookup(c, n, s) \in T
  <2>1. Lookup(c, n, s) \in Reach[c]  BY ReachAssumption
  <2>2. Lookup(c, n, s) \in S  BY DEF Lookup
  <2> QED BY <2>1, <2>2
<1> HIDE DEF T
<1>3. ASSUME NEW X, X \subseteq T PROVE Next1(X) \subseteq T  BY <1>2, <1>3
<1> HIDE DEF Next1
<1>4. Next1(Next1(Next1({Arrive(c, f) : f \in Frames[c]}))) \subseteq T  BY <1>1, <1>3
<1>5. Reach[c] = Next1(Next1(Next1({Arrive(c, f) : f \in Frames[c]})))  BY DEF Reach, Next1
<1> QED BY <1>4, <1>5 DEF T

(* The one entry that matches, or that outranks all others that do.        *)
LEMMA FoundBest ==
  ASSUME NEW c \in Cases, NEW s, NEW n \in 0..Full(c), NEW i \in 1..n,
         Matches(Writes[c][i], s),
         \A j \in 1..n : j # i /\ Matches(Writes[c][j], s) =>
           Writes[c][j].rank < Writes[c][i].rank
  PROVE  Found(c, n, s) = {Writes[c][i]} /\ P!Act(Found(c, n, s)) = Writes[c][i].act
<1> DEFINE best == Writes[c][i]
           all == Matching(c, n, s)
<1>1. best \in all  BY DEF Matching
<1>2. \A e \in all : e.rank \in Nat
  BY EntryRank DEF Matching, Installed
<1>3. \A e \in all : e = best \/ e.rank < best.rank  BY DEF Matching
<1> HIDE DEF all, best
<1>4. Found(c, n, s) = {e \in all : \A d \in all : d.rank <= e.rank}  BY DEF Found, all
<1>5. \A e \in all : e.rank <= best.rank /\ (best.rank <= e.rank => e = best)
  BY <1>1, <1>2, <1>3
<1>6. Found(c, n, s) = {best}  BY <1>1, <1>4, <1>5
<1>7. P!Act({best}) = best.act  BY DEF P!Act
<1> QED BY <1>6, <1>7 DEF best

LEMMA FoundNone ==
  ASSUME NEW c, NEW s, NEW n, \A i \in 1..n : ~Matches(Writes[c][i], s)
  PROVE  Found(c, n, s) = {}
  BY DEF Found, Matching

(* What a stage leads to, and the stages between, from its next lookup.    *)
LEMMA WaysApply ==
  ASSUME NEW c \in Cases, NEW s \in Reach[c], s.at # "out"
  PROVE  LET t == Apply(c, s, Found(c, Full(c), s))
         IN  t \in Reach[c] /\ Ways(c, s) = Ways(c, t)
<1>1. Lookup(c, Full(c), s) = Apply(c, s, Found(c, Full(c), s))  BY DEF Lookup
<1>2. Full(c) \in 0..Full(c)  BY FullIsNat
<1> QED BY <1>1, <1>2, WaysNext, ReachAssumption

-----------------------------------------------------------------------------
(* Sequences of entries put together.                                      *)
LEMMA Joined ==
  ASSUME NEW a, NEW b, NEW m \in Nat, NEW n \in Nat,
         a = [i \in 1..m |-> a[i]], b = [i \in 1..n |-> b[i]]
  PROVE  LET c == a \o b
         IN  /\ c = [i \in 1..(m + n) |-> c[i]] /\ Len(c) = m + n
             /\ \A i \in 1..m : c[i] = a[i]
             /\ \A i \in 1..n : c[m + i] = b[i]
<1> DEFINE S == {a[i] : i \in 1..m} \cup {b[i] : i \in 1..n}
           c == a \o b
<1>1. a \in Seq(S) /\ Len(a) = m  BY IsASeq
<1>2. b \in Seq(S) /\ Len(b) = n  BY IsASeq
<1> HIDE DEF S
<1>3. /\ c \in Seq(S) /\ Len(c) = m + n
      /\ \A i \in 1..(m + n) : c[i] = IF i <= m THEN a[i] ELSE b[i - m]
  BY <1>1, <1>2, ConcatProperties
<1> HIDE DEF c
<1>4. c = [i \in 1..(m + n) |-> c[i]]  BY <1>3, LenProperties
<1>5. \A i \in 1..m : i \in 1..(m + n) /\ i <= m  OBVIOUS
<1>6. \A i \in 1..n : m + i \in 1..(m + n) /\ ~(m + i <= m) /\ (m + i) - m = i  OBVIOUS
<1> QED BY <1>3, <1>4, <1>5, <1>6 DEF c

LEMMA Programs ==
  ASSUME TheCases, NEW c \in Cases
  PROVE  /\ c \in DOMAIN P!AllWrites
         /\ \A f \in Frames[c] : Arrive(c, f) = P!ArriveAt(c, f)
         /\ \A s, found : Apply(c, s, found) = P!ApplyTable(c, s, found)
         /\ Full(c) = Len(P!AllWrites[c])
  BY DEF TheCases, Full

-----------------------------------------------------------------------------
(* Cases 01, 02 and 08 (indirect counter): no table.                       *)
Untabled == {"reflector", "repeater", "indirect_counter"}

LEMMA UntabledOut ==
  ASSUME TheCases, NEW c \in Cases \cap Untabled
  PROVE  \A s \in Reach[c] : s.at = "out"
<1> DEFINE S == {s \in Reach[c] : s.at = "out"}
<1>1. ASSUME NEW f \in Frames[c] PROVE Arrive(c, f).at = "out"
  <2> DEFINE s == P!At("none", [in |-> f.in])
  <2>1. \A p, q : P!Out(P!Forward(s, p)).at = "out" /\ P!Dropped(s).at = "out"
    BY DEF P!Dropped, P!Out, P!Forward, P!At
  <2>2. P!Arrive01(f).at = "out" /\ P!Arrive02(f).at = "out"
    BY <2>1 DEF P!Arrive01, P!Arrive02
  <2>3. P!ArriveAt(c, f) \in {P!Arrive01(f), P!Arrive02(f)}  BY DEF Untabled, P!ArriveAt
  <2> QED BY <2>2, <2>3, Programs
<1>2. \A f \in Frames[c] : Arrive(c, f) \in S  BY <1>1, ArriveReach
<1>3. \A s \in S \cap Reach[c] : ~(s.at # "out")  OBVIOUS
<1> HIDE DEF S
<1>4. Reach[c] \subseteq S  BY <1>2, <1>3, ReachLeast
<1> QED BY <1>4 DEF S

LEMMA UntabledWrites ==
  ASSUME TheCases, NEW c \in Cases \cap Untabled
  PROVE  Full(c) = 0
  BY Programs DEF Untabled, P!AllWrites

-----------------------------------------------------------------------------
(* Stages have the four fields whatever is done to them.                   *)
IsStage(s) == s = Stage(s.at, s.hdr, s.eg, s.out)

LEMMA StageParts ==
  ASSUME NEW a, NEW h, NEW e, NEW o
  PROVE  LET s == Stage(a, h, e, o)
         IN  /\ IsStage(s) /\ s.at = a /\ s.hdr = h /\ s.eg = e /\ s.out = o
             /\ \A x : [s EXCEPT !.at = x] = Stage(x, h, e, o)
             /\ \A x : [s EXCEPT !.hdr = x] = Stage(a, x, e, o)
             /\ \A x : [s EXCEPT !.eg = x] = Stage(a, h, x, o)
             /\ \A x : [s EXCEPT !.out = x] = Stage(a, h, e, x)
  BY DEF IsStage, Stage

\* One copy by port p, if there is an interface of that number.
Sent(p) == IF p \in 1..3 THEN {P!Copy(p)} ELSE {}

\* What the programs do to a stage.
LEMMA StageSteps ==
  ASSUME NEW a, NEW h, NEW e, NEW o
  PROVE  LET s == Stage(a, h, e, o)
         IN  /\ \A x : P!Goto(s, x) = Stage(x, h, e, o)
             /\ \A x : P!Forward(s, x) = Stage(a, h, x, o)
             /\ P!Out(s) = Stage("out", h, e, Sent(e))
             /\ P!Dropped(s) = Stage("out", h, 511, {})
<1> DEFINE s == Stage(a, h, e, o)
<1>1. \A x : P!Goto(s, x) = Stage(x, h, e, o) /\ P!Forward(s, x) = Stage(a, h, x, o)
  BY StageParts DEF P!Goto, P!Forward
<1>2. ASSUME NEW x PROVE P!Out(Stage(a, h, x, o)) = Stage("out", h, x, Sent(x))
  <2> DEFINE r == Stage(a, h, x, o)
             q == Stage("out", h, x, o)
             w == Sent(r.eg)
  <2>1. P!Out(r) = [r EXCEPT !.at = "out", !.out = w]  BY DEF P!Out, P!NHosts, Sent
  <2>2. r.eg = x  BY StageParts
  <2>3. [r EXCEPT !.at = "out"] = q  BY StageParts
  <2> HIDE DEF w
  <2>4. [q EXCEPT !.out = w] = Stage("out", h, x, w)  BY StageParts
  <2> HIDE DEF r, q
  <2>5. P!Out(r) = Stage("out", h, x, w)  BY <2>1, <2>3, <2>4
  <2>6. w = Sent(x)  BY <2>2 DEF w
  <2> QED BY <2>5, <2>6 DEF r
<1>3. P!Dropped(s) = Stage("out", h, 511, {})
  <2>1. P!Forward(s, 511) = Stage(a, h, 511, o)  BY <1>1
  <2>2. Sent(511) = {}  BY DEF Sent
  <2>3. P!Out(Stage(a, h, 511, o)) = Stage("out", h, 511, {})  BY <1>2, <2>2
  <2> QED BY <2>1, <2>3 DEF P!Dropped, P!Drop
<1>4. P!Out(s) = Stage("out", h, e, Sent(e))  BY <1>2
<1> QED BY <1>1, <1>3, <1>4

LEMMA StageAt == \A table, h : P!At(table, h) = Stage(table, h, 0, {})
  BY DEF P!At, Stage

\* A miss drops the frame.
LEMMA MissDrops ==
  ASSUME TheCases,
         NEW c \in Cases \cap {"direct_counter", "l2_forwarding", "ecmp", "vxlan", "ipv6_lpm"},
         NEW s
  PROVE  Apply(c, s, {}) = P!Dropped(s)
<1>1. P!ApplyTable(c, s, {}) \in {P!Apply03(s, {}), P!Apply08(s, {}), P!Apply09(s, {}), P!Apply11(s, {})}
  BY DEF P!ApplyTable
<1>2. P!Apply03(s, {}) = P!Dropped(s) /\ P!Apply08(s, {}) = P!Dropped(s)
  BY DEF P!Apply03, P!Apply08
<1>3. P!Apply09(s, {}) = P!Dropped(s)  BY DEF P!Apply09
<1>4. P!Apply11(s, {}) = P!Dropped(s)  BY DEF P!Apply11
<1> QED BY <1>1, <1>2, <1>3, <1>4, Programs

-----------------------------------------------------------------------------
(* The entries of each case.                                               *)
LEMMA WritesOf ==
  ASSUME TheCases
  PROVE  /\ "direct_counter" \in Cases => Writes["direct_counter"] = P!Writes08
         /\ "l2_forwarding" \in Cases => Writes["l2_forwarding"] = P!Writes03
         /\ "l2_broadcast" \in Cases => Writes["l2_broadcast"] = P!Writes04
         /\ "meter" \in Cases => Writes["meter"] = P!Writes07
         /\ "ecmp" \in Cases => Writes["ecmp"] = P!Writes09
         /\ "firewall" \in Cases => Writes["firewall"] = P!Writes10
         /\ "vxlan" \in Cases => Writes["vxlan"] = P!Writes11
         /\ "clone_to_cpu" \in Cases => Writes["clone_to_cpu"] = P!Writes13
         /\ "ipv6_lpm" \in Cases => Writes["ipv6_lpm"] = P!Writes14
  BY DEF TheCases, P!AllWrites

LEMMA Entries08 ==
  ASSUME TheCases, "direct_counter" \in Cases
  PROVE  /\ Full("direct_counter") = 2
         /\ \A p \in 1..2 : Writes["direct_counter"][p] =
                              P!Entry("count_table", [in |-> p], 0, [port |-> 3 - p])
  BY WritesOf DEF Full, P!Writes08

LEMMA Entries03 ==
  ASSUME TheCases, "l2_forwarding" \in Cases
  PROVE  /\ Full("l2_forwarding") = 3
         /\ \A n \in 1..3 : Writes["l2_forwarding"][n] =
                              P!Entry("dmac", [dst |-> n], 0, [port |-> n])
  BY WritesOf DEF Full, P!Writes03, P!NHosts

LEMMA Entries11 ==
  ASSUME TheCases, "vxlan" \in Cases
  PROVE  /\ Full("vxlan") = 1
         /\ Writes["vxlan"][1] = P!Entry("vtep", [dst |-> 2], 0, [port |-> 2])
  BY WritesOf DEF Full, P!Writes11

LEMMA Entries13 ==
  ASSUME TheCases, "clone_to_cpu" \in Cases
  PROVE  /\ Full("clone_to_cpu") = 1
         /\ Writes["clone_to_cpu"][1] = P!Entry("clone", [session |-> 99], 0, [port |-> 510])
  BY WritesOf DEF Full, P!Writes13, P!CpuPort

LEMMA Entries07 ==
  ASSUME TheCases, "meter" \in Cases
  PROVE  /\ Full("meter") = 3
         /\ Writes["meter"][1] = P!Entry("m_read", [src |-> "metered"], 0, [index |-> 0])
         /\ Writes["meter"][2] = P!Entry("m_filter", [tag |-> 0], 0, [none |-> TRUE])
         /\ Writes["meter"][3] = P!Entry("meter", [index |-> 0], 0, [none |-> TRUE])
  BY WritesOf DEF Full, P!Writes07

LEMMA Entries09 ==
  ASSUME TheCases, "ecmp" \in Cases
  PROVE  /\ Full("ecmp") = 6
         /\ \A n \in 1..3 : Writes["ecmp"][n] =
                              P!Entry("ipv4_lpm", [net |-> 10, host |-> n], 32, [port |-> n])
         /\ Writes["ecmp"][4] = P!Entry("ipv4_lpm", [net |-> 10], 24, [base |-> 0, count |-> 2])
         /\ \A n \in 1..2 : Writes["ecmp"][4 + n] =
                              P!Entry("ecmp_nhop", [select |-> n - 1], 0, [port |-> n + 1])
<1> DEFINE R == P!Routes09
           G == P!Group09
           M == P!Members09
           RG == R \o G
           W == RG \o M
<1>1. /\ R = [n \in 1..3 |-> R[n]]
      /\ \A n \in 1..3 : R[n] = P!Entry("ipv4_lpm", [net |-> 10, host |-> n], 32, [port |-> n])
  BY DEF P!Routes09
<1>2. /\ G = [n \in 1..1 |-> G[n]]
      /\ G[1] = P!Entry("ipv4_lpm", [net |-> 10], 24, [base |-> 0, count |-> 2])
  BY DEF P!Group09
<1>3. /\ M = [n \in 1..2 |-> M[n]]
      /\ \A n \in 1..2 : M[n] = P!Entry("ecmp_nhop", [select |-> n - 1], 0, [port |-> n + 1])
  BY DEF P!Members09
<1>4. Writes["ecmp"] = W  BY WritesOf DEF P!Writes09
<1> HIDE DEF R, G, M
<1>5. /\ RG = [n \in 1..4 |-> RG[n]] /\ \A n \in 1..3 : RG[n] = R[n]
      /\ RG[4] = G[1]
  BY <1>1, <1>2, Joined
<1> HIDE DEF RG
<1>6. /\ Len(W) = 6 /\ \A n \in 1..4 : W[n] = RG[n]
      /\ \A n \in 1..2 : W[4 + n] = M[n]
  BY <1>3, <1>5, Joined
<1> QED BY <1>1, <1>2, <1>3, <1>4, <1>5, <1>6 DEF Full

LEMMA Entries10 ==
  ASSUME TheCases, "firewall" \in Cases
  PROVE  /\ Full("firewall") = 5
         /\ \A n \in 1..2 : Writes["firewall"][n] = P!Entry("dmac", [mac |-> n], 0, [port |-> n])
         /\ Writes["firewall"][3] =
              P!Entry("acl", [dst |-> 2, proto |-> 6, dport |-> 22], 100, [deny |-> TRUE])
         /\ Writes["firewall"][4] =
              P!Entry("acl", [dst |-> 2, proto |-> 6], 90, [deny |-> FALSE])
         /\ Writes["firewall"][5] =
              P!Entry("acl", [src |-> 1, proto |-> 17, dport |-> 5000], 80, [deny |-> TRUE])
<1> DEFINE D == [n \in 1..2 |-> P!Entry("dmac", [mac |-> n], 0, [port |-> n])]
           r1 == P!Entry("acl", [dst |-> 2, proto |-> 6, dport |-> 22], 100, [deny |-> TRUE])
           r2 == P!Entry("acl", [dst |-> 2, proto |-> 6], 90, [deny |-> FALSE])
           r3 == P!Entry("acl", [src |-> 1, proto |-> 17, dport |-> 5000], 80, [deny |-> TRUE])
           A == <<r1, r2, r3>>
           W == D \o A
<1>1. Writes["firewall"] = W  BY WritesOf DEF P!Writes10, P!Rule
<1>2. D = [n \in 1..2 |-> D[n]]
      /\ \A n \in 1..2 : D[n] = P!Entry("dmac", [mac |-> n], 0, [port |-> n])
  OBVIOUS
<1> HIDE DEF D, r1, r2, r3
<1>3. A = [n \in 1..3 |-> A[n]] /\ A[1] = r1 /\ A[2] = r2 /\ A[3] = r3  OBVIOUS
<1> HIDE DEF A
<1>4. /\ Len(W) = 5 /\ \A n \in 1..2 : W[n] = D[n]
      /\ W[3] = A[1] /\ W[4] = A[2] /\ W[5] = A[3]
  BY <1>2, <1>3, Joined
<1> QED BY <1>1, <1>2, <1>3, <1>4 DEF Full, r1, r2, r3

LEMMA Entries14 ==
  ASSUME TheCases, "ipv6_lpm" \in Cases
  PROVE  /\ Full("ipv6_lpm") = 4
         /\ \A n \in 1..3 : Writes["ipv6_lpm"][n] =
                              P!Entry("ipv6_lpm", [net |-> n], 64, [port |-> n])
         /\ Writes["ipv6_lpm"][4] =
              P!Entry("ipv6_lpm", [net |-> 3, host |-> 42], 128, [port |-> 2])
<1> DEFINE R == [n \in 1..3 |-> P!Entry("ipv6_lpm", [net |-> n], 64, [port |-> n])]
           e == P!Entry("ipv6_lpm", [net |-> 3, host |-> 42], 128, [port |-> 2])
           L == <<e>>
           W == R \o L
<1>1. Writes["ipv6_lpm"] = W  BY WritesOf DEF P!Writes14
<1>2. R = [n \in 1..3 |-> R[n]]
      /\ \A n \in 1..3 : R[n] = P!Entry("ipv6_lpm", [net |-> n], 64, [port |-> n])
  OBVIOUS
<1> HIDE DEF R, e
<1>3. L = [n \in 1..1 |-> L[n]] /\ L[1] = e  OBVIOUS
<1> HIDE DEF L
<1>4. Len(W) = 4 /\ (\A n \in 1..3 : W[n] = R[n]) /\ W[4] = L[1]
  BY <1>2, <1>3, Joined
<1> QED BY <1>1, <1>2, <1>3, <1>4 DEF Full, e

LEMMA Entries04 ==
  ASSUME TheCases, "l2_broadcast" \in Cases
  PROVE  /\ Full("l2_broadcast") = 9
         /\ \A n \in 1..3 :
              /\ Writes["l2_broadcast"][n] = P!Entry("dmac", [dst |-> n], 0, [port |-> n])
              /\ Writes["l2_broadcast"][3 + n] =
                   P!Entry("pre", [group |-> n], 0, [ports |-> 1..3 \ {n}])
              /\ Writes["l2_broadcast"][6 + n] =
                   P!Entry("select_mcast_grp", [in |-> n], 0, [group |-> n])
<1> DEFINE D == P!Writes03
           G == [n \in 1..3 |-> P!Entry("pre", [group |-> n], 0, [ports |-> 1..3 \ {n}])]
           M == [n \in 1..3 |-> P!Entry("select_mcast_grp", [in |-> n], 0, [group |-> n])]
           DG == D \o G
           W == DG \o M
<1>1. Writes["l2_broadcast"] = W
  BY WritesOf DEF P!Writes04, P!NHosts
<1>2. D = [n \in 1..3 |-> D[n]]
      /\ \A n \in 1..3 : D[n] = P!Entry("dmac", [dst |-> n], 0, [port |-> n])
  BY DEF P!Writes03, P!NHosts
<1>3. G = [n \in 1..3 |-> G[n]]
      /\ \A n \in 1..3 : G[n] = P!Entry("pre", [group |-> n], 0, [ports |-> 1..3 \ {n}])
  OBVIOUS
<1>4. M = [n \in 1..3 |-> M[n]]
      /\ \A n \in 1..3 : M[n] = P!Entry("select_mcast_grp", [in |-> n], 0, [group |-> n])
  OBVIOUS
<1> HIDE DEF D, G, M
<1>5. /\ DG = [n \in 1..6 |-> DG[n]] /\ \A n \in 1..3 : DG[n] = D[n] /\ DG[3 + n] = G[n]
  BY <1>2, <1>3, Joined
<1> HIDE DEF DG
<1>6. /\ Len(W) = 9 /\ \A n \in 1..6 : W[n] = DG[n]
      /\ \A n \in 1..3 : W[6 + n] = M[n]
  BY <1>4, <1>5, Joined
<1>7. \A n \in 1..3 : W[n] = D[n] /\ W[3 + n] = G[n]  BY <1>5, <1>6
<1> QED BY <1>1, <1>2, <1>3, <1>4, <1>6, <1>7 DEF Full

-----------------------------------------------------------------------------
(* Every stage of the cases' programs has the four fields.                 *)
LEMMA StageKept ==
  ASSUME NEW s, IsStage(s)
  PROVE  /\ \A x : /\ IsStage(P!Goto(s, x)) /\ IsStage(P!Forward(s, x))
                   /\ IsStage([s EXCEPT !.hdr = x]) /\ IsStage([s EXCEPT !.out = x])
         /\ IsStage(P!Out(s)) /\ IsStage(P!Dropped(s))
<1>1. PICK a, h, e, o : s = Stage(a, h, e, o)  BY DEF IsStage
<1>2. \A x, y, z, u : IsStage(Stage(x, y, z, u))  BY StageParts
<1> DEFINE r == Stage(a, h, e, o)
<1>3. /\ \A x : P!Goto(r, x) = Stage(x, h, e, o) /\ P!Forward(r, x) = Stage(a, h, x, o)
      /\ P!Out(r) = Stage("out", h, e, Sent(e))
      /\ P!Dropped(r) = Stage("out", h, 511, {})
  BY StageSteps
<1>4. /\ \A x : [r EXCEPT !.hdr = x] = Stage(a, x, e, o)
      /\ \A x : [r EXCEPT !.out = x] = Stage(a, h, e, x)
  BY StageParts
<1>5. /\ \A x : /\ IsStage(P!Goto(r, x)) /\ IsStage(P!Forward(r, x))
                /\ IsStage([r EXCEPT !.hdr = x]) /\ IsStage([r EXCEPT !.out = x])
      /\ IsStage(P!Out(r)) /\ IsStage(P!Dropped(r))
  <2>1. ASSUME NEW x PROVE IsStage([r EXCEPT !.hdr = x]) /\ IsStage([r EXCEPT !.out = x])
    <3> DEFINE p == [r EXCEPT !.hdr = x]
               q == [r EXCEPT !.out = x]
    <3>1. p = Stage(a, x, e, o) /\ q = Stage(a, h, e, x)  BY <1>4
    <3> HIDE DEF p, q
    <3>2. IsStage(p) /\ IsStage(q)  BY <1>2, <3>1
    <3> QED BY <3>2 DEF p, q
  <2> HIDE DEF r
  <2>2. /\ \A x : IsStage(P!Goto(r, x)) /\ IsStage(P!Forward(r, x))
        /\ IsStage(P!Out(r)) /\ IsStage(P!Dropped(r))
    BY <1>2, <1>3
  <2> QED BY <2>1, <2>2
<1> QED BY <1>1, <1>5

LEMMA ArriveStage ==
  ASSUME TheCases, NEW c \in Cases, NEW f \in Frames[c]
  PROVE  IsStage(Arrive(c, f))
<1>1. \A table, h : IsStage(P!At(table, h))  BY StageAt, StageParts
<1>2. /\ IsStage(P!Arrive01(f)) /\ IsStage(P!Arrive02(f)) /\ IsStage(P!Arrive03(f))
      /\ IsStage(P!Arrive08(f)) /\ IsStage(P!Arrive11(f)) /\ IsStage(P!Arrive13(f))
  <2>1. /\ \A table, h : IsStage(P!Dropped(P!At(table, h)))
        /\ \A table, h, p : IsStage(P!Forward(P!At(table, h), p))
        /\ \A table, h, p : IsStage(P!Out(P!Forward(P!At(table, h), p)))
    BY <1>1, StageKept
  <2> QED BY <1>1, <2>1 DEF P!Arrive01, P!Arrive02, P!Arrive03, P!Arrive08, P!Arrive11, P!Arrive13
<1>3. /\ IsStage(P!Arrive07(f)) /\ IsStage(P!Arrive09(f)) /\ IsStage(P!Arrive10(f))
      /\ IsStage(P!Arrive14(f))
  BY <1>1, StageKept DEF P!Arrive07, P!Arrive09, P!Arrive10, P!Arrive14
<1>4. P!ArriveAt(c, f) \in {P!Arrive01(f), P!Arrive02(f), P!Arrive03(f), P!Arrive07(f),
                            P!Arrive08(f), P!Arrive09(f), P!Arrive10(f), P!Arrive11(f),
                            P!Arrive13(f), P!Arrive14(f)}
  BY Programs DEF P!ArriveAt, P!AllWrites
<1> QED BY <1>2, <1>3, <1>4, Programs

-----------------------------------------------------------------------------
(* The careful cases: no later write restricts an earlier one.             *)
Restricting == {"meter", "firewall", "ipv6_lpm", "l2_broadcast"}
OneTable == {"direct_counter", "l2_forwarding", "ecmp", "vxlan"}

LEMMA ApplyStage ==
  ASSUME TheCases, NEW c \in Cases, c \in OneTable \cup {"clone_to_cpu"},
         NEW s, IsStage(s), NEW found
  PROVE  IsStage(Apply(c, s, found))
<1>1. IsStage(P!Apply08(s, found))  BY StageKept DEF P!Apply08
<1>2. IsStage(P!Apply03(s, found))  BY StageKept DEF P!Apply03
<1>3. IsStage(P!Apply09(s, found))  BY StageKept DEF P!Apply09
<1>4. IsStage(P!Apply11(s, found))  BY StageKept DEF P!Apply11
<1>5. IsStage(P!Apply13(s, found))  BY StageKept DEF P!Apply13
<1>6. P!ApplyTable(c, s, found) \in {P!Apply03(s, found), P!Apply08(s, found), P!Apply09(s, found),
                                     P!Apply11(s, found), P!Apply13(s, found)}
  BY DEF P!ApplyTable, OneTable
<1> QED BY <1>1, <1>2, <1>3, <1>4, <1>5, <1>6, Programs

LEMMA ReachStages ==
  ASSUME TheCases, NEW c \in Cases, c \in OneTable \cup {"clone_to_cpu"}
  PROVE  \A s \in Reach[c] : IsStage(s)
<1> DEFINE S == {s \in Reach[c] : IsStage(s)}
<1>1. \A f \in Frames[c] : Arrive(c, f) \in S  BY ArriveStage, ArriveReach
<1>2. ASSUME NEW s \in S \cap Reach[c], s.at # "out", NEW n \in 0..Full(c)
      PROVE  Apply(c, s, Found(c, n, s)) \in S
  <2>1. IsStage(Apply(c, s, Found(c, n, s)))  BY ApplyStage
  <2>2. Lookup(c, n, s) \in Reach[c]  BY ReachAssumption
  <2>3. Lookup(c, n, s) = Apply(c, s, Found(c, n, s))  BY <1>2 DEF Lookup
  <2> QED BY <2>1, <2>2, <2>3
<1> HIDE DEF S
<1>3. Reach[c] \subseteq S  BY <1>1, <1>2, ReachLeast
<1> QED BY <1>3 DEF S

\* What ends with no copy opens no way.
LEMMA DroppedWays ==
  ASSUME NEW c, NEW s, IsStage(s)
  PROVE  Ways(c, P!Dropped(s)) = {}
<1>1. PICK a, h, e, o : s = Stage(a, h, e, o)  BY DEF IsStage
<1>2. P!Dropped(Stage(a, h, e, o)) = Stage("out", h, 511, {})  BY StageSteps
<1>3. Stage("out", h, 511, {}).at = "out" /\ Stage("out", h, 511, {}).out = {}  BY StageParts
<1> QED BY <1>1, <1>2, <1>3, WaysOut

LEMMA OneTableHarmless ==
  ASSUME TheCases, NEW c \in Cases \cap OneTable
  PROVE  MissIsHarmless(c)
<1> SUFFICES ASSUME NEW s \in Reach[c] PROVE Ways(c, Apply(c, s, {})) \subseteq Ways(c, s)
  BY DEF MissIsHarmless
<1>1. IsStage(s)  BY ReachStages
<1>2. Apply(c, s, {}) = P!Dropped(s)  BY MissDrops DEF OneTable
<1> QED BY <1>1, <1>2, DroppedWays

\* Case 13: with its clone session or without, the frame itself is forwarded.
LEMMA CloneForwards ==
  ASSUME TheCases, "clone_to_cpu" \in Cases, NEW s, IsStage(s)
  PROVE  LET A(found) == Apply("clone_to_cpu", s, found)
         IN  /\ A({}).out = Sent(s.eg)
             /\ \A found : A(found).at = "out" /\ Sent(s.eg) \subseteq A(found).out
<1>1. PICK a, h, e, o : s = Stage(a, h, e, o)  BY DEF IsStage
<1>2. \A found : Apply("clone_to_cpu", s, found) = P!Apply13(s, found)
  BY Programs DEF P!ApplyTable
<1>3. s.at = a /\ s.eg = e  BY <1>1, StageParts
<1>4. P!Out(s) = Stage("out", h, e, Sent(e))  BY <1>1, StageSteps
<1>5. P!Out(s).at = "out" /\ P!Out(s).out = Sent(e)  BY <1>4, StageParts
<1>6. P!Apply13(s, {}) = P!Out(s)  BY DEF P!Apply13
<1>7. ASSUME NEW found, found # {}
      PROVE  P!Apply13(s, found).at = "out" /\ Sent(e) \subseteq P!Apply13(s, found).out
  <2> DEFINE r == P!Out(s)
             w == r.out \cup {[port |-> P!Act(found).port, outer |-> <<s.hdr.in>>]}
             t == [r EXCEPT !.out = w]
  <2>1. P!Apply13(s, found) = t  BY <1>7 DEF P!Apply13
  <2>2. Sent(e) \subseteq w  BY <1>5
  <2> HIDE DEF w
  <2>3. t = Stage("out", h, e, w)  BY <1>4, StageParts
  <2> HIDE DEF t
  <2>4. t.at = "out" /\ t.out = w  BY <2>3, StageParts
  <2> QED BY <2>1, <2>2, <2>4
<1> QED BY <1>2, <1>3, <1>5, <1>6, <1>7

LEMMA CloneHarmless ==
  ASSUME TheCases, "clone_to_cpu" \in Cases
  PROVE  MissIsHarmless("clone_to_cpu")
<1> DEFINE c == "clone_to_cpu"
           L(x) == Apply(c, x, Found(c, Full(c), x))
<1> SUFFICES ASSUME NEW s \in Reach[c], s.at # "out"
             PROVE  Ways(c, Apply(c, s, {})) \subseteq Ways(c, s)
  BY DEF MissIsHarmless
<1>0. IsStage(s)  BY ReachStages
<1>1. Ways(c, Apply(c, s, {})) = Sent(s.eg)  BY <1>0, CloneForwards, WaysOut
<1>2. L(s).at = "out" /\ Sent(s.eg) \subseteq L(s).out  BY <1>0, CloneForwards
<1>3. Ways(c, s) = Ways(c, L(s))  BY WaysApply
<1>4. Ways(c, L(s)) = L(s).out  BY <1>2, WaysOut
<1> QED BY <1>1, <1>2, <1>3, <1>4

\* The first n writes are in an order in which the winner comes first.
LEMMA OneTableOrdered ==
  ASSUME TheCases, NEW c \in Cases \cap OneTable
  PROVE  OrderedWrites(c)
<1> SUFFICES ASSUME NEW i \in 1..Full(c), NEW j \in 1..Full(c), NEW s, i < j,
                    Matches(Writes[c][i], s), Matches(Writes[c][j], s)
             PROVE  Writes[c][j].rank < Writes[c][i].rank
  BY DEF OrderedWrites
<1>1. CASE c = "direct_counter"
  BY <1>1, Entries08 DEF P!Entry, Matches
<1>2. CASE c = "l2_forwarding"
  BY <1>2, Entries03 DEF P!Entry, Matches
<1>3. CASE c = "vxlan"
  BY <1>3, Entries11
<1>4. CASE c = "ecmp"
  <2>1. i \in 1..6 /\ j \in 1..6  BY <1>4, Entries09
  <2>2. \A n \in 1..3 : Writes[c][n] = P!Entry("ipv4_lpm", [net |-> 10, host |-> n], 32, [port |-> n])
    BY <1>4, Entries09
  <2>3. Writes[c][4] = P!Entry("ipv4_lpm", [net |-> 10], 24, [base |-> 0, count |-> 2])
    BY <1>4, Entries09
  <2>4. \A n \in 1..2 : Writes[c][4 + n] = P!Entry("ecmp_nhop", [select |-> n - 1], 0, [port |-> n + 1])
    BY <1>4, Entries09
  <2>5. CASE i \in 1..3 /\ j \in 1..3
    BY <2>2, <2>5 DEF P!Entry, Matches
  <2>6. CASE i \in 1..3 /\ j = 4
    BY <2>2, <2>3, <2>6 DEF P!Entry, Matches
  <2>7. CASE i \in 1..4 /\ j \in 5..6
    <3>1. PICK n \in 1..2 : j = 4 + n  BY <2>7
    <3>2. s.at = "ecmp_nhop"  BY <2>4, <3>1 DEF P!Entry, Matches
    <3>3. Writes[c][i].table = "ipv4_lpm"  BY <2>2, <2>3, <2>7 DEF P!Entry
    <3> QED BY <3>2, <3>3 DEF Matches
  <2>8. CASE i = 5 /\ j = 6
    <3>1. /\ Writes[c][4 + 1] = P!Entry("ecmp_nhop", [select |-> 1 - 1], 0, [port |-> 1 + 1])
          /\ Writes[c][4 + 2] = P!Entry("ecmp_nhop", [select |-> 2 - 1], 0, [port |-> 2 + 1])
      BY <2>4
    <3> QED BY <2>8, <3>1 DEF P!Entry, Matches
  <2> QED BY <2>1, <2>5, <2>6, <2>7, <2>8
<1> QED BY <1>1, <1>2, <1>3, <1>4 DEF OneTable

LEMMA CloneOrdered ==
  ASSUME TheCases, "clone_to_cpu" \in Cases
  PROVE  OrderedWrites("clone_to_cpu")
  BY Entries13 DEF OrderedWrites, P!Entry, Matches

LEMMA CarefulPrograms ==
  ASSUME TheCases, Careful \cap Restricting = {}
  PROVE  CarefulOrder
<1> SUFFICES ASSUME NEW c \in Cases \cap Careful PROVE OrderedWrites(c) /\ MissIsHarmless(c)
  BY DEF CarefulOrder
<1>1. c \in Untabled \cup OneTable \cup {"clone_to_cpu"}
  BY Programs DEF P!AllWrites, Untabled, OneTable, Restricting
<1>2. CASE c \in Untabled
  <2>1. MissIsHarmless(c)  BY <1>2, UntabledOut DEF MissIsHarmless
  <2>2. OrderedWrites(c)
    <3>1. Full(c) = 0  BY <1>2, UntabledWrites
    <3> QED BY <3>1 DEF OrderedWrites
  <2> QED BY <2>1, <2>2
<1>3. CASE c \in OneTable  BY <1>3, OneTableHarmless, OneTableOrdered
<1>4. CASE c = "clone_to_cpu"  BY <1>4, CloneHarmless, CloneOrdered
<1> QED BY <1>1, <1>2, <1>3, <1>4

(* The controllers of cases 01-03, 08, 09, 11 and 13, for any frames: none *)
(* sends a frame, while it writes its entries, where it would not send it  *)
(* once they are complete.  Case 09 owes this to the order of its writes.  *)
THEOREM CasesNeverElsewhere ==
  ASSUME TheCases, Careful \cap Restricting = {}
  PROVE  Spec => []NeverElsewhere
  BY CarefulPrograms, CarefulNeverElsewhere

-----------------------------------------------------------------------------
(* What each case's parser, tables and entries amount to: the copies of a  *)
(* frame as a function of its fields, without a lookup.                    *)

\* Case 04: flooded unless the address is a host's.
Addressed(f) == IF f.dst \in 1..3 THEN {P!Copy(f.dst)}
                ELSE IF f.in \in 1..3 THEN {P!Copy(p) : p \in 1..3} ELSE {}

\* Case 09: what the parser and the checks before the first table accept.
Accepted09(f) ==
  /\ f.eth = "ipv4" /\ P!Ipv4(f) /\ P!Transport09(f) /\ f.checksum
  /\ ~(f.ttl <= 1)
Hash(f) == P!Crc16(f.src, f.host, f.proto, P!Ports09(f))

\* Case 10: IPv4 the parser refuses, and the two flows the rules name.
Refused10(f) == f.eth = "ipv4" /\ ~(P!Ipv4(f) /\ P!Transport10(f))
Denied10(f) ==
  /\ f.eth = "ipv4"
  /\ \/ f.dst = 2 /\ f.proto = 6 /\ f.dport = 22
     \/ f.in = 1 /\ f.proto = 17 /\ f.dport = 5000

Accepted14(f) == f.eth = "ipv6" /\ P!Ipv6(f) /\ ~(f.hop <= 1)
Next14(f) == IF f.net = 3 /\ f.host = 42 THEN 2 ELSE f.net

Policy(c, f) ==
  CASE c = "reflector" -> IF P!Ethernet(f) THEN Sent(f.in) ELSE {}
    [] c \in {"repeater", "indirect_counter", "direct_counter"} ->
         IF P!Ethernet(f) /\ f.in \in {1, 2} THEN {P!Copy(3 - f.in)} ELSE {}
    [] c = "l2_forwarding" -> IF P!Ethernet(f) /\ f.dst # f.in THEN Sent(f.dst) ELSE {}
    [] c = "l2_broadcast" -> IF P!Ethernet(f) THEN Addressed(f) \ {P!Copy(f.in)} ELSE {}
    [] c = "meter" -> IF f.src = "metered" /\ f.colour # 0 THEN {} ELSE {P!Copy(2)}
    [] c = "ecmp" ->
         IF Accepted09(f) /\ f.net = 10
         THEN {P!Copy(IF f.host \in 1..3 THEN f.host ELSE 2 + (Hash(f) % 2))} ELSE {}
    [] c = "firewall" ->
         IF f.dst \in 1..2 /\ ~Refused10(f) /\ ~Denied10(f) THEN {P!Copy(f.dst)} ELSE {}
    [] c = "vxlan" ->
         IF P!Ethernet(f) /\ f.len <= P!MaxInnerFrame /\ f.dst = 2
         THEN {[port |-> 2, outer |-> <<f.len + 36, f.len + 16>>]} ELSE {}
    [] c = "clone_to_cpu" ->
         IF f.in \in {1, 2}
         THEN {P!Copy(3 - f.in), [port |-> P!CpuPort, outer |-> <<f.in>>]} ELSE {}
    [] c = "ipv6_lpm" ->
         IF Accepted14(f) /\ f.net \in 1..3 THEN {P!Copy(Next14(f))} ELSE {}

\* 16-bit lengths are of numbers, and a hash is one.
NumberedFrames ==
  /\ "vxlan" \in Cases => \A f \in Frames["vxlan"] : f.len \in Nat
  /\ "ecmp" \in Cases => \A f \in Frames["ecmp"] : Accepted09(f) => Hash(f) \in Nat

LEMMA FinalWays == \A c, f : Final(c, f) = Ways(c, Arrive(c, f))
  BY DEF Final, Path, Ways

LEMMA EndWays ==
  ASSUME NEW c, NEW a, NEW h, NEW e, NEW o
  PROVE  /\ Ways(c, P!Out(Stage(a, h, e, o))) = Sent(e)
         /\ Ways(c, P!Dropped(Stage(a, h, e, o))) = {}
<1>1. ASSUME NEW x, NEW w PROVE Ways(c, Stage("out", h, x, w)) = w
  BY StageParts, WaysOut
<1> QED BY <1>1, StageSteps

\* Before the first lookup.
LEMMA AtParts ==
  ASSUME NEW table, NEW h
  PROVE  P!At(table, h).at = table /\ P!At(table, h).hdr = h /\ P!At(table, h).eg = 0
  BY StageAt, StageParts

LEMMA AtDropped == \A c, table, h : Ways(c, P!Dropped(P!At(table, h))) = {}
  BY StageAt, EndWays

LEMMA AtSent ==
  ASSUME NEW c, NEW table, NEW h, NEW p
  PROVE  Ways(c, P!Out(P!Forward(P!At(table, h), p))) = Sent(p)
<1>1. P!Forward(P!At(table, h), p) = Stage(table, h, p, {})  BY StageAt, StageSteps
<1> QED BY <1>1, EndWays

\* A lookup of the complete tables whose best entry is known, and one that
\* finds nothing.
LEMMA LookupHit ==
  ASSUME TheCases, NEW c \in Cases, NEW s \in Reach[c], s.at # "out",
         NEW i \in 1..Full(c), Matches(Writes[c][i], s),
         \A j \in 1..Full(c) : j # i /\ Matches(Writes[c][j], s) =>
           Writes[c][j].rank < Writes[c][i].rank
  PROVE  \E F : /\ F # {} /\ P!Act(F) = Writes[c][i].act
                /\ P!ApplyTable(c, s, F) \in Reach[c]
                /\ Ways(c, s) = Ways(c, P!ApplyTable(c, s, F))
<1> DEFINE F == Found(c, Full(c), s)
<1>1. Full(c) \in 0..Full(c)  BY FullIsNat
<1>2. F = {Writes[c][i]} /\ P!Act(F) = Writes[c][i].act  BY <1>1, FoundBest
<1>3. Apply(c, s, F) \in Reach[c] /\ Ways(c, s) = Ways(c, Apply(c, s, F))  BY WaysApply
<1>4. Apply(c, s, F) = P!ApplyTable(c, s, F)  BY Programs
<1> HIDE DEF F
<1> QED BY <1>2, <1>3, <1>4

LEMMA LookupMiss ==
  ASSUME TheCases, NEW c \in Cases, NEW s \in Reach[c], s.at # "out",
         \A i \in 1..Full(c) : ~Matches(Writes[c][i], s)
  PROVE  /\ P!ApplyTable(c, s, {}) \in Reach[c]
         /\ Ways(c, s) = Ways(c, P!ApplyTable(c, s, {}))
<1> DEFINE F == Found(c, Full(c), s)
<1>1. F = {}  BY FoundNone
<1>2. Apply(c, s, F) \in Reach[c] /\ Ways(c, s) = Ways(c, Apply(c, s, F))  BY WaysApply
<1>3. Apply(c, s, F) = P!ApplyTable(c, s, F)  BY Programs
<1> HIDE DEF F
<1> QED BY <1>1, <1>2, <1>3

-----------------------------------------------------------------------------
LEMMA Policy01 ==
  ASSUME TheCases, NEW c \in Cases \cap Untabled, NEW f \in Frames[c]
  PROVE  Final(c, f) = Policy(c, f)
<1> DEFINE s == P!At("none", [in |-> f.in])
<1>1. Final(c, f) = Ways(c, P!ArriveAt(c, f))  BY FinalWays, Programs
<1>2. Ways(c, P!Dropped(s)) = {} /\ \A p : Ways(c, P!Out(P!Forward(s, p))) = Sent(p)
  BY AtDropped, AtSent
<1>3. CASE c = "reflector"
  <2>1. P!ArriveAt(c, f) = P!Arrive01(f)  BY <1>3 DEF P!ArriveAt
  <2> HIDE DEF s
  <2>2. P!Arrive01(f) = IF P!Ethernet(f) THEN P!Out(P!Forward(s, f.in)) ELSE P!Dropped(s)
    BY DEF s, P!Arrive01
  <2>3. Policy(c, f) = IF P!Ethernet(f) THEN Sent(f.in) ELSE {}  BY <1>3 DEF Policy
  <2> QED BY <1>1, <1>2, <2>1, <2>2, <2>3
<1>4. CASE c # "reflector"
  <2>1. P!ArriveAt(c, f) = P!Arrive02(f)  BY <1>4 DEF P!ArriveAt, Untabled
  <2> HIDE DEF s
  <2>2. P!Arrive02(f) = IF P!Ethernet(f) /\ f.in \in {1, 2} THEN P!Out(P!Forward(s, 3 - f.in))
                                                          ELSE P!Dropped(s)
    BY DEF s, P!Arrive02
  <2>3. Policy(c, f) = IF P!Ethernet(f) /\ f.in \in {1, 2} THEN {P!Copy(3 - f.in)} ELSE {}
    BY <1>4 DEF Policy, Untabled
  <2>4. f.in \in {1, 2} => Sent(3 - f.in) = {P!Copy(3 - f.in)}  BY DEF Sent
  <2> QED BY <1>1, <1>2, <2>1, <2>2, <2>3, <2>4
<1> QED BY <1>3, <1>4

LEMMA Policy08 ==
  ASSUME TheCases, "direct_counter" \in Cases, NEW f \in Frames["direct_counter"]
  PROVE  Final("direct_counter", f) = Policy("direct_counter", f)
<1> DEFINE c == "direct_counter"
           s == P!At("count_table", [in |-> f.in])
<1>1. Final(c, f) = Ways(c, P!Arrive08(f)) /\ P!Arrive08(f) \in Reach[c]
  BY FinalWays, Programs, ArriveReach DEF P!ArriveAt
<1>2. /\ s.at = "count_table" /\ s.hdr = [in |-> f.in]
      /\ Ways(c, P!Dropped(s)) = {} /\ \A p : Ways(c, P!Out(P!Forward(s, p))) = Sent(p)
  BY AtParts, AtDropped, AtSent
<1>3. P!Arrive08(f) = IF P!Ethernet(f) THEN s ELSE P!Dropped(s)  BY DEF P!Arrive08
<1>4. \A F : P!ApplyTable(c, s, F) =
               IF F = {} THEN P!Dropped(s) ELSE P!Out(P!Forward(s, P!Act(F).port))
  BY DEF P!ApplyTable, P!Apply08
<1>5. Policy(c, f) = IF P!Ethernet(f) /\ f.in \in {1, 2} THEN {P!Copy(3 - f.in)} ELSE {}
  BY DEF Policy
<1> HIDE DEF s
<1>6. /\ Full(c) = 2
      /\ \A p \in 1..2 : /\ Matches(Writes[c][p], s) <=> p = f.in
                         /\ Writes[c][p].act.port = 3 - p
  BY <1>2, Entries08 DEF P!Entry, Matches
<1>7. CASE ~P!Ethernet(f)  BY <1>1, <1>2, <1>3, <1>5, <1>7
<1>8. CASE P!Ethernet(f) /\ f.in \in {1, 2}
  <2>1. PICK F : /\ F # {} /\ P!Act(F) = Writes[c][f.in].act
                 /\ Ways(c, s) = Ways(c, P!ApplyTable(c, s, F))
    <3>1. s \in Reach[c] /\ s.at # "out"  BY <1>1, <1>2, <1>3, <1>8
    <3>2. f.in \in 1..Full(c) /\ Matches(Writes[c][f.in], s)  BY <1>6, <1>8
    <3>3. \A j \in 1..Full(c) : ~(j # f.in /\ Matches(Writes[c][j], s))  BY <1>6
    <3> QED BY <3>1, <3>2, <3>3, LookupHit
  <2>2. Ways(c, s) = Sent(3 - f.in)  BY <1>2, <1>4, <1>6, <1>8, <2>1
  <2>3. Sent(3 - f.in) = {P!Copy(3 - f.in)}  BY <1>8 DEF Sent
  <2> QED BY <1>1, <1>3, <1>5, <1>8, <2>2, <2>3
<1>9. CASE P!Ethernet(f) /\ f.in \notin {1, 2}
  <2>1. Ways(c, s) = Ways(c, P!ApplyTable(c, s, {}))
    <3>1. s \in Reach[c] /\ s.at # "out"  BY <1>1, <1>2, <1>3, <1>9
    <3>2. \A i \in 1..Full(c) : ~Matches(Writes[c][i], s)  BY <1>6, <1>9
    <3> QED BY <3>1, <3>2, LookupMiss
  <2> QED BY <1>1, <1>2, <1>3, <1>4, <1>5, <1>9, <2>1
<1> QED BY <1>7, <1>8, <1>9

LEMMA Policy03 ==
  ASSUME TheCases, "l2_forwarding" \in Cases, NEW f \in Frames["l2_forwarding"]
  PROVE  Final("l2_forwarding", f) = Policy("l2_forwarding", f)
<1> DEFINE c == "l2_forwarding"
           s == P!At("dmac", [in |-> f.in, dst |-> f.dst])
<1>1. Final(c, f) = Ways(c, P!Arrive03(f)) /\ P!Arrive03(f) \in Reach[c]
  BY FinalWays, Programs, ArriveReach DEF P!ArriveAt
<1>2. /\ s.at = "dmac" /\ s.hdr = [in |-> f.in, dst |-> f.dst]
      /\ Ways(c, P!Dropped(s)) = {} /\ \A p : Ways(c, P!Out(P!Forward(s, p))) = Sent(p)
  BY AtParts, AtDropped, AtSent
<1>3. P!Arrive03(f) = IF P!Ethernet(f) THEN s ELSE P!Dropped(s)  BY DEF P!Arrive03
<1>4. Policy(c, f) = IF P!Ethernet(f) /\ f.dst # f.in THEN Sent(f.dst) ELSE {}
  BY DEF Policy
<1> HIDE DEF s
<1>5. \A F : P!ApplyTable(c, s, F) = IF F = {} \/ P!Act(F).port = f.in THEN P!Dropped(s)
                                     ELSE P!Out(P!Forward(s, P!Act(F).port))
  BY <1>2 DEF P!ApplyTable, P!Apply03
<1>6. /\ Full(c) = 3
      /\ \A n \in 1..3 : /\ Matches(Writes[c][n], s) <=> n = f.dst
                         /\ Writes[c][n].act.port = n
  BY <1>2, Entries03 DEF P!Entry, Matches
<1>7. CASE ~P!Ethernet(f)  BY <1>1, <1>2, <1>3, <1>4, <1>7
<1>8. CASE P!Ethernet(f) /\ f.dst \in 1..3
  <2>1. PICK F : /\ F # {} /\ P!Act(F) = Writes[c][f.dst].act
                 /\ Ways(c, s) = Ways(c, P!ApplyTable(c, s, F))
    <3>1. s \in Reach[c] /\ s.at # "out"  BY <1>1, <1>2, <1>3, <1>8
    <3>2. f.dst \in 1..Full(c) /\ Matches(Writes[c][f.dst], s)  BY <1>6, <1>8
    <3>3. \A j \in 1..Full(c) : ~(j # f.dst /\ Matches(Writes[c][j], s))  BY <1>6
    <3> QED BY <3>1, <3>2, <3>3, LookupHit
  <2>2. P!Act(F).port = f.dst  BY <1>6, <1>8, <2>1
  <2> QED BY <1>1, <1>2, <1>3, <1>4, <1>5, <1>8, <2>1, <2>2
<1>9. CASE P!Ethernet(f) /\ f.dst \notin 1..3
  <2>1. Ways(c, s) = Ways(c, P!ApplyTable(c, s, {}))
    <3>1. s \in Reach[c] /\ s.at # "out"  BY <1>1, <1>2, <1>3, <1>9
    <3>2. \A i \in 1..Full(c) : ~Matches(Writes[c][i], s)  BY <1>6, <1>9
    <3> QED BY <3>1, <3>2, LookupMiss
  <2>2. Sent(f.dst) = {}  BY <1>9 DEF Sent
  <2> QED BY <1>1, <1>2, <1>3, <1>4, <1>5, <1>9, <2>1, <2>2
<1> QED BY <1>7, <1>8, <1>9

LEMMA SmallModulus ==
  ASSUME NEW M \in Nat \ {0}, NEW d \in Nat, d < M
  PROVE  d % M = d
  OBVIOUS

LEMMA NoWrap ==
  ASSUME NEW n \in Nat, n <= 65499, NEW k \in {16, 36}
  PROVE  (n + k) % 2^16 = n + k
<1>1. 2^16 = 65536  OBVIOUS
<1>2. n + k \in Nat /\ n + k < 65536  OBVIOUS
<1>3. (n + k) % 65536 = n + k  BY <1>2, SmallModulus
<1> QED BY <1>1, <1>3

(* The outer UDP and IPv4 lengths are 36 and 16 more than the frame, and   *)
(* no frame the program accepts makes them wrap.                           *)
LEMMA Policy11 ==
  ASSUME TheCases, "vxlan" \in Cases, NEW f \in Frames["vxlan"], f.len \in Nat
  PROVE  Final("vxlan", f) = Policy("vxlan", f)
<1> DEFINE c == "vxlan"
           s == P!At("vtep", [dst |-> f.dst, len |-> f.len])
<1>1. Final(c, f) = Ways(c, P!Arrive11(f)) /\ P!Arrive11(f) \in Reach[c]
  BY FinalWays, Programs, ArriveReach DEF P!ArriveAt
<1>2. /\ s.at = "vtep" /\ s.hdr = [dst |-> f.dst, len |-> f.len]
      /\ Ways(c, P!Dropped(s)) = {}
  BY AtParts, AtDropped
<1>3. P!Arrive11(f) = IF P!Ethernet(f) /\ f.len <= P!MaxInnerFrame THEN s ELSE P!Dropped(s)
  BY DEF P!Arrive11, P!MaxInnerFrame
<1>4. Policy(c, f) = IF P!Ethernet(f) /\ f.len <= P!MaxInnerFrame /\ f.dst = 2
                     THEN {[port |-> 2, outer |-> <<f.len + 36, f.len + 16>>]} ELSE {}
  BY DEF Policy
<1>5. P!Out(s) = Stage("out", s.hdr, 0, Sent(0))  BY StageAt, StageParts, StageSteps
<1> HIDE DEF s
<1>6. \A F : P!ApplyTable(c, s, F) = P!Apply11(s, F)  BY DEF P!ApplyTable
<1>7. Full(c) = 1 /\ (Matches(Writes[c][1], s) <=> f.dst = 2) /\ Writes[c][1].act.port = 2
  BY <1>2, Entries11 DEF P!Entry, Matches
<1>8. CASE ~(P!Ethernet(f) /\ f.len <= P!MaxInnerFrame)  BY <1>1, <1>2, <1>3, <1>4, <1>8
<1>9. CASE P!Ethernet(f) /\ f.len <= P!MaxInnerFrame /\ f.dst = 2
  <2>1. PICK F : /\ F # {} /\ P!Act(F) = Writes[c][1].act
                 /\ Ways(c, s) = Ways(c, P!ApplyTable(c, s, F))
    <3>1. s \in Reach[c] /\ s.at # "out"  BY <1>1, <1>2, <1>3, <1>9
    <3>2. 1 \in 1..Full(c) /\ Matches(Writes[c][1], s)  BY <1>7, <1>9
    <3>3. \A j \in 1..Full(c) : ~(j # 1 /\ Matches(Writes[c][j], s))  BY <1>7
    <3> QED BY <3>1, <3>2, <3>3, LookupHit
  <2> DEFINE w == {[port |-> 2, outer |-> <<f.len + 36, f.len + 16>>]}
  <2>2. (f.len + 36) % 2^16 = f.len + 36 /\ (f.len + 16) % 2^16 = f.len + 16
    <3>1. f.len <= 65499  BY <1>9 DEF P!MaxInnerFrame
    <3> QED BY <3>1, NoWrap
  <2>3. P!Apply11(s, F) = [P!Out(s) EXCEPT !.out = w]
    <3>1. P!Act(F).port = 2 /\ s.hdr.len = f.len  BY <1>2, <1>7, <2>1
    <3>2. P!Apply11(s, F) =
            [P!Out(s) EXCEPT !.out = {[port |-> P!Act(F).port,
                                       outer |-> <<(s.hdr.len + 36) % 2^16, (s.hdr.len + 16) % 2^16>>]}]
      BY <2>1 DEF P!Apply11
    <3> QED BY <2>2, <3>1, <3>2
  <2> HIDE DEF w
  <2>4. P!Apply11(s, F) = Stage("out", s.hdr, 0, w)  BY <1>5, <2>3, StageParts
  <2>5. Ways(c, P!Apply11(s, F)) = w
    <3> DEFINE t == P!Apply11(s, F)
    <3>1. t.at = "out" /\ t.out = w  BY <2>4, StageParts
    <3> HIDE DEF t
    <3>2. Ways(c, t) = w  BY <3>1, WaysOut
    <3> QED BY <3>2 DEF t
  <2> QED BY <1>1, <1>3, <1>4, <1>6, <1>9, <2>1, <2>5 DEF w
<1>10. CASE P!Ethernet(f) /\ f.len <= P!MaxInnerFrame /\ f.dst # 2
  <2>1. Ways(c, s) = Ways(c, P!ApplyTable(c, s, {}))
    <3>1. s \in Reach[c] /\ s.at # "out"  BY <1>1, <1>2, <1>3, <1>10
    <3>2. \A i \in 1..Full(c) : ~Matches(Writes[c][i], s)  BY <1>7, <1>10
    <3> QED BY <3>1, <3>2, LookupMiss
  <2>2. P!Apply11(s, {}) = P!Dropped(s)  BY DEF P!Apply11
  <2> QED BY <1>1, <1>2, <1>3, <1>4, <1>6, <1>10, <2>1, <2>2
<1> QED BY <1>8, <1>9, <1>10

LEMMA Policy13 ==
  ASSUME TheCases, "clone_to_cpu" \in Cases, NEW f \in Frames["clone_to_cpu"]
  PROVE  Final("clone_to_cpu", f) = Policy("clone_to_cpu", f)
<1> DEFINE c == "clone_to_cpu"
           h == [in |-> f.in, session |-> 99]
           s == Stage("clone", h, 3 - f.in, {})
           copy == [port |-> 510, outer |-> <<f.in>>]
<1>1. Final(c, f) = Ways(c, P!Arrive13(f)) /\ P!Arrive13(f) \in Reach[c]
  BY FinalWays, Programs, ArriveReach DEF P!ArriveAt
<1>2. P!Arrive13(f) = IF f.in \in {1, 2} THEN P!Forward(P!At("clone", h), 3 - f.in)
                                         ELSE P!Dropped(P!At("clone", h))
  BY DEF P!Arrive13
<1>3. Policy(c, f) = IF f.in \in {1, 2} THEN {P!Copy(3 - f.in), copy} ELSE {}
  BY DEF Policy, P!CpuPort
<1>4. CASE f.in \notin {1, 2}  BY <1>1, <1>2, <1>3, <1>4, AtDropped
<1>5. CASE f.in \in {1, 2}
  <2>1. P!Arrive13(f) = s
    <3>1. P!At("clone", h) = Stage("clone", h, 0, {})  BY StageAt
    <3>2. P!Forward(Stage("clone", h, 0, {}), 3 - f.in) = s  BY StageSteps
    <3> QED BY <1>2, <1>5, <3>1, <3>2
  <2>2. s.at = "clone" /\ s.hdr = h  BY StageParts
  <2>3. P!Out(s) = Stage("out", h, 3 - f.in, Sent(3 - f.in))  BY StageSteps
  <2> HIDE DEF s
  <2>4. PICK F : /\ F # {} /\ P!Act(F) = Writes[c][1].act
                 /\ Ways(c, s) = Ways(c, P!ApplyTable(c, s, F))
    <3>1. Full(c) = 1 /\ Matches(Writes[c][1], s)
      BY <2>2, Entries13 DEF P!Entry, Matches
    <3>2. s \in Reach[c] /\ s.at # "out" /\ 1 \in 1..Full(c)  BY <1>1, <2>1, <2>2, <3>1
    <3>3. \A j \in 1..Full(c) : ~(j # 1 /\ Matches(Writes[c][j], s))  BY <3>1
    <3> QED BY <3>1, <3>2, <3>3, LookupHit
  <2> DEFINE r == P!Out(s)
             w == Sent(3 - f.in) \cup {copy}
             u == [r EXCEPT !.out = w]
  <2>5. P!ApplyTable(c, s, F) = u
    <3>1. P!ApplyTable(c, s, F) = P!Apply13(s, F)  BY DEF P!ApplyTable
    <3>2. P!Apply13(s, F) = [r EXCEPT !.out = r.out \cup {[port |-> P!Act(F).port, outer |-> <<s.hdr.in>>]}]
      BY <2>4 DEF P!Apply13
    <3>3. r.out = Sent(3 - f.in)  BY <2>3, StageParts
    <3>4. s.hdr.in = f.in /\ P!Act(F).port = 510  BY <2>2, <2>4, Entries13 DEF P!Entry
    <3> QED BY <3>1, <3>2, <3>3, <3>4
  <2> HIDE DEF w
  <2>6. u = Stage("out", h, 3 - f.in, w)  BY <2>3, StageParts
  <2> HIDE DEF u
  <2>7. u.at = "out" /\ u.out = w  BY <2>6, StageParts
  <2>8. Ways(c, u) = w  BY <2>7, WaysOut
  <2>9. Sent(3 - f.in) = {P!Copy(3 - f.in)}  BY <1>5 DEF Sent
  <2> QED BY <1>1, <1>3, <1>5, <2>1, <2>4, <2>5, <2>8, <2>9 DEF w
<1> QED BY <1>4, <1>5

(* The longest prefix: host 42 of network 3 has a route of its own.        *)
LEMMA Policy14 ==
  ASSUME TheCases, "ipv6_lpm" \in Cases, NEW f \in Frames["ipv6_lpm"]
  PROVE  Final("ipv6_lpm", f) = Policy("ipv6_lpm", f)
<1> DEFINE c == "ipv6_lpm"
           s == P!At("ipv6_lpm", [net |-> f.net, host |-> f.host])
           i == IF f.net = 3 /\ f.host = 42 THEN 4 ELSE f.net
<1>1. Final(c, f) = Ways(c, P!Arrive14(f)) /\ P!Arrive14(f) \in Reach[c]
  BY FinalWays, Programs, ArriveReach DEF P!ArriveAt
<1>2. /\ s.at = "ipv6_lpm" /\ s.hdr = [net |-> f.net, host |-> f.host]
      /\ Ways(c, P!Dropped(s)) = {} /\ \A p : Ways(c, P!Out(P!Forward(s, p))) = Sent(p)
  BY AtParts, AtDropped, AtSent
<1>3. P!Arrive14(f) = IF Accepted14(f) THEN s ELSE P!Dropped(P!At("none", [in |-> f.in]))
  BY DEF P!Arrive14, Accepted14
<1>4. Ways(c, P!Dropped(P!At("none", [in |-> f.in]))) = {}  BY AtDropped
<1>5. Policy(c, f) = IF Accepted14(f) /\ f.net \in 1..3 THEN {P!Copy(Next14(f))} ELSE {}
  BY DEF Policy
<1> HIDE DEF s
<1>6. \A F : P!ApplyTable(c, s, F) = IF F = {} THEN P!Dropped(s)
                                     ELSE P!Out(P!Forward(s, P!Act(F).port))
  BY DEF P!ApplyTable, P!Apply08
<1>7. \A n \in 1..3 : /\ Matches(Writes[c][n], s) <=> n = f.net
                      /\ Writes[c][n].rank = 64 /\ Writes[c][n].act.port = n
  BY <1>2, Entries14 DEF P!Entry, Matches
<1>8. /\ Full(c) = 4
      /\ Matches(Writes[c][4], s) <=> (f.net = 3 /\ f.host = 42)
      /\ Writes[c][4].rank = 128 /\ Writes[c][4].act.port = 2
  BY <1>2, Entries14 DEF P!Entry, Matches
<1>9. CASE ~Accepted14(f)  BY <1>1, <1>3, <1>4, <1>5, <1>9
<1>10. CASE Accepted14(f) /\ f.net \in 1..3
  <2>1. PICK F : /\ F # {} /\ P!Act(F) = Writes[c][i].act
                 /\ Ways(c, s) = Ways(c, P!ApplyTable(c, s, F))
    <3>1. s \in Reach[c] /\ s.at # "out"  BY <1>1, <1>2, <1>3, <1>10
    <3>2. i \in 1..Full(c) /\ Matches(Writes[c][i], s)  BY <1>7, <1>8, <1>10
    <3>3. \A j \in 1..Full(c) : j # i /\ Matches(Writes[c][j], s) =>
                                  Writes[c][j].rank < Writes[c][i].rank
      BY <1>7, <1>8
    <3> HIDE DEF i
    <3> QED BY <3>1, <3>2, <3>3, LookupHit
  <2>2. P!Act(F).port = Next14(f)  BY <1>7, <1>8, <1>10, <2>1 DEF Next14
  <2>3. Sent(Next14(f)) = {P!Copy(Next14(f))}
    <3>1. Next14(f) \in 1..3  BY <1>10 DEF Next14
    <3> QED BY <3>1 DEF Sent
  <2> QED BY <1>1, <1>2, <1>3, <1>5, <1>6, <1>10, <2>1, <2>2, <2>3
<1>11. CASE Accepted14(f) /\ f.net \notin 1..3
  <2>1. Ways(c, s) = Ways(c, P!ApplyTable(c, s, {}))
    <3>1. s \in Reach[c] /\ s.at # "out"  BY <1>1, <1>2, <1>3, <1>11
    <3>2. \A n \in 1..Full(c) : ~Matches(Writes[c][n], s)  BY <1>7, <1>8, <1>11
    <3> QED BY <3>1, <3>2, LookupMiss
  <2> QED BY <1>1, <1>2, <1>3, <1>5, <1>6, <1>11, <2>1
<1> QED BY <1>9, <1>10, <1>11

LEMMA Policy07 ==
  ASSUME TheCases, "meter" \in Cases, NEW f \in Frames["meter"]
  PROVE  Final("meter", f) = Policy("meter", f)
<1> DEFINE c == "meter"
           h == [src |-> f.src, colour |-> f.colour, tag |-> 0]
           g == [colour |-> f.colour, index |-> 0]
           s == Stage("m_read", h, 2, {})
           t == Stage("meter", g, 2, {})
           u(x) == Stage("m_filter", x, 2, {})
<1>1. Final(c, f) = Ways(c, s) /\ s \in Reach[c]
  <2>1. P!Arrive07(f) = s
    <3>1. P!At("m_read", h) = Stage("m_read", h, 0, {})  BY StageAt
    <3>2. P!Forward(Stage("m_read", h, 0, {}), 2) = s  BY StageSteps
    <3> QED BY <3>1, <3>2 DEF P!Arrive07
  <2> QED BY <2>1, FinalWays, Programs, ArriveReach DEF P!ArriveAt
<1>2. Policy(c, f) = IF f.src = "metered" /\ f.colour # 0 THEN {} ELSE {P!Copy(2)}
  BY DEF Policy
<1>3. s.at = "m_read" /\ s.hdr = h /\ t.at = "meter" /\ t.hdr = g  BY StageParts
<1>4. \A F : P!ApplyTable(c, s, F) = P!Apply07(s, F) /\ P!ApplyTable(c, t, F) = P!Apply07(t, F)
  BY DEF P!ApplyTable
<1>5. P!Goto(s, "m_filter") = u(h)  BY StageSteps
<1>6. P!Goto([s EXCEPT !.hdr = g], "meter") = t
  <2>1. [s EXCEPT !.hdr = g] = Stage("m_read", g, 2, {})  BY StageParts
  <2>2. P!Goto(Stage("m_read", g, 2, {}), "meter") = t  BY StageSteps
  <2> QED BY <2>1, <2>2
<1>7. P!Goto([t EXCEPT !.hdr = [tag |-> f.colour]], "m_filter") = u([tag |-> f.colour])
  <2>1. [t EXCEPT !.hdr = [tag |-> f.colour]] = Stage("meter", [tag |-> f.colour], 2, {})
    BY StageParts
  <2>2. P!Goto(Stage("meter", [tag |-> f.colour], 2, {}), "m_filter") = u([tag |-> f.colour])
    BY StageSteps
  <2> QED BY <2>1, <2>2
<1> HIDE DEF s, t
\* m_filter lets tag 0 through.
<1>8. ASSUME NEW x, u(x) \in Reach[c], "tag" \in DOMAIN x
      PROVE  Ways(c, u(x)) = IF x.tag = 0 THEN {P!Copy(2)} ELSE {}
  <2> DEFINE v == u(x)
  <2>1. v.at = "m_filter" /\ v.hdr = x  BY StageParts
  <2>2. Ways(c, P!Out(v)) = {P!Copy(2)} /\ Ways(c, P!Dropped(v)) = {}
    <3>1. Sent(2) = {P!Copy(2)}  BY DEF Sent
    <3> QED BY <3>1, EndWays
  <2> HIDE DEF v
  <2>3. /\ Full(c) = 3 /\ ~Matches(Writes[c][1], v) /\ ~Matches(Writes[c][3], v)
        /\ Matches(Writes[c][2], v) <=> x.tag = 0
    BY <2>1, Entries07 DEF P!Entry, Matches
  <2>4. \A F : P!ApplyTable(c, v, F) = IF F = {} THEN P!Dropped(v) ELSE P!Out(v)
    <3>1. \A F : P!Apply07(v, F) = IF F = {} THEN P!Dropped(v) ELSE P!Out(v)
      BY <2>1 DEF P!Apply07
    <3> QED BY <3>1 DEF P!ApplyTable
  <2>5. v \in Reach[c] /\ v.at # "out"  BY <1>8, <2>1 DEF v
  <2>6. CASE x.tag = 0
    <3>1. PICK F : F # {} /\ Ways(c, v) = Ways(c, P!ApplyTable(c, v, F))
      <4>1. 2 \in 1..Full(c) /\ Matches(Writes[c][2], v)  BY <2>3, <2>6
      <4>2. \A j \in 1..Full(c) : ~(j # 2 /\ Matches(Writes[c][j], v))  BY <2>3
      <4> QED BY <2>5, <4>1, <4>2, LookupHit
    <3> QED BY <2>2, <2>4, <2>6, <3>1 DEF v
  <2>7. CASE x.tag # 0
    <3>1. \A j \in 1..Full(c) : ~Matches(Writes[c][j], v)  BY <2>3, <2>7
    <3>2. Ways(c, v) = Ways(c, P!ApplyTable(c, v, {}))  BY <2>5, <3>1, LookupMiss
    <3> QED BY <2>2, <2>4, <2>7, <3>2 DEF v
  <2> QED BY <2>6, <2>7
<1>9. CASE f.src # "metered"
  <2>1. Full(c) = 3 /\ \A j \in 1..3 : ~Matches(Writes[c][j], s)
    BY <1>3, <1>9, Entries07 DEF P!Entry, Matches
  <2>2. /\ P!ApplyTable(c, s, {}) \in Reach[c]
        /\ Ways(c, s) = Ways(c, P!ApplyTable(c, s, {}))
    BY <1>1, <1>3, <2>1, LookupMiss
  <2>3. P!Apply07(s, {}) = P!Goto(s, "m_filter")  BY <1>3 DEF P!Apply07
  <2>4. u(h) \in Reach[c] /\ Ways(c, s) = Ways(c, u(h))  BY <1>4, <1>5, <2>2, <2>3
  <2>5. "tag" \in DOMAIN h /\ h.tag = 0  OBVIOUS
  <2> HIDE DEF h, u
  <2> QED BY <1>1, <1>2, <1>8, <1>9, <2>4, <2>5
<1>10. CASE f.src = "metered"
  <2>1. t \in Reach[c] /\ Ways(c, s) = Ways(c, t)
    <3>1. PICK F : /\ F # {} /\ P!Act(F) = Writes[c][1].act
                   /\ P!ApplyTable(c, s, F) \in Reach[c]
                   /\ Ways(c, s) = Ways(c, P!ApplyTable(c, s, F))
      <4>1. /\ Full(c) = 3 /\ Matches(Writes[c][1], s)
            /\ ~Matches(Writes[c][2], s) /\ ~Matches(Writes[c][3], s)
        BY <1>3, <1>10, Entries07 DEF P!Entry, Matches
      <4>2. 1 \in 1..Full(c) /\ \A j \in 1..Full(c) : ~(j # 1 /\ Matches(Writes[c][j], s))
        BY <4>1
      <4> QED BY <1>1, <1>3, <4>1, <4>2, LookupHit
    <3>2. [colour |-> s.hdr.colour, index |-> P!Act(F).index] = g
      BY <1>3, <3>1, Entries07 DEF P!Entry
    <3>3. P!Apply07(s, F) =
            P!Goto([s EXCEPT !.hdr = [colour |-> s.hdr.colour, index |-> P!Act(F).index]], "meter")
      BY <1>3, <3>1 DEF P!Apply07
    <3> QED BY <1>4, <1>6, <3>1, <3>2, <3>3
  <2>2. LET x == [tag |-> f.colour] IN u(x) \in Reach[c] /\ Ways(c, t) = Ways(c, u(x))
    <3>1. PICK F : /\ F # {}
                   /\ P!ApplyTable(c, t, F) \in Reach[c]
                   /\ Ways(c, t) = Ways(c, P!ApplyTable(c, t, F))
      <4>1. /\ Full(c) = 3 /\ Matches(Writes[c][3], t)
            /\ ~Matches(Writes[c][1], t) /\ ~Matches(Writes[c][2], t)
        BY <1>3, Entries07 DEF P!Entry, Matches
      <4>2. 3 \in 1..Full(c) /\ \A j \in 1..Full(c) : ~(j # 3 /\ Matches(Writes[c][j], t))
        BY <4>1
      <4>3. t.at # "out"  BY <1>3
      <4> QED BY <2>1, <4>1, <4>2, <4>3, LookupHit
    <3>2. P!Apply07(t, F) = P!Goto([t EXCEPT !.hdr = [tag |-> f.colour]], "m_filter")
      <4>1. P!Apply07(t, F) = P!Goto([t EXCEPT !.hdr = [tag |-> IF F = {} THEN 0 ELSE t.hdr.colour]], "m_filter")
        BY <1>3 DEF P!Apply07
      <4>2. (IF F = {} THEN 0 ELSE t.hdr.colour) = f.colour  BY <1>3, <3>1
      <4> QED BY <4>1, <4>2
    <3> QED BY <1>4, <1>7, <3>1, <3>2
  <2> DEFINE x == [tag |-> f.colour]
  <2>3. "tag" \in DOMAIN x /\ x.tag = f.colour  OBVIOUS
  <2>4. u(x) \in Reach[c] /\ Ways(c, t) = Ways(c, u(x))  BY <2>2
  <2> HIDE DEF x, u
  <2> QED BY <1>1, <1>2, <1>8, <1>10, <2>1, <2>3, <2>4
<1> QED BY <1>9, <1>10

LEMMA Halves == \A n \in Nat : n % 2 \in {0, 1}
  OBVIOUS

(* The hosts' own routes outrank the group's, whose member the hash of the *)
(* five-tuple picks: only hosts 2 and 3.                                   *)
LEMMA Policy09 ==
  ASSUME TheCases, "ecmp" \in Cases, NEW f \in Frames["ecmp"],
         Accepted09(f) => Hash(f) \in Nat
  PROVE  Final("ecmp", f) = Policy("ecmp", f)
<1> DEFINE c == "ecmp"
           h == [net |-> f.net, host |-> f.host, hash |-> Hash(f)]
           k == Hash(f) % 2
           g == [select |-> k]
           s == Stage("ipv4_lpm", h, 0, {})
           t == Stage("ecmp_nhop", g, 0, {})
           i == IF f.host \in 1..3 THEN f.host ELSE 4
<1>1. Final(c, f) = Ways(c, P!Arrive09(f)) /\ P!Arrive09(f) \in Reach[c]
  BY FinalWays, Programs, ArriveReach DEF P!ArriveAt
<1>2. P!Arrive09(f) = IF Accepted09(f) THEN s ELSE P!Dropped(P!At("none", [in |-> f.in]))
  <2>1. P!At("ipv4_lpm", h) = s  BY StageAt
  <2> HIDE DEF s
  <2> QED BY <2>1 DEF P!Arrive09, Accepted09, Hash
<1>3. Policy(c, f) = IF Accepted09(f) /\ f.net = 10
                     THEN {P!Copy(IF f.host \in 1..3 THEN f.host ELSE 2 + k)} ELSE {}
  BY DEF Policy
<1>4. s.at = "ipv4_lpm" /\ s.hdr = h /\ t.at = "ecmp_nhop" /\ t.hdr = g  BY StageParts
<1>5. P!Goto([s EXCEPT !.hdr = g], "ecmp_nhop") = t
  <2>1. [s EXCEPT !.hdr = g] = Stage("ipv4_lpm", g, 0, {})  BY StageParts
  <2>2. P!Goto(Stage("ipv4_lpm", g, 0, {}), "ecmp_nhop") = t  BY StageSteps
  <2> QED BY <2>1, <2>2
<1>6. ASSUME NEW a, NEW x, NEW p
      PROVE  /\ Ways(c, P!Dropped(Stage(a, x, 0, {}))) = {}
             /\ Ways(c, P!Out(P!Forward(Stage(a, x, 0, {}), p))) = Sent(p)
  BY StageSteps, EndWays
<1>7. /\ Ways(c, P!Dropped(s)) = {}
      /\ \A p : Ways(c, P!Out(P!Forward(s, p))) = Sent(p)
      /\ \A p : Ways(c, P!Out(P!Forward(t, p))) = Sent(p)
  BY <1>6
<1>8. \A x, F : P!ApplyTable(c, x, F) = P!Apply09(x, F)  BY DEF P!ApplyTable
<1> HIDE DEF s, t
<1>9. ASSUME NEW x, NEW F, F # {}, P!Act(F) = [port |-> P!Act(F).port]
      PROVE  P!Apply09(x, F) = P!Out(P!Forward(x, P!Act(F).port))
  <2>1. "count" \notin DOMAIN P!Act(F)  BY <1>9
  <2> QED BY <1>9, <2>1 DEF P!Apply09
<1>10. \A n \in 1..3 : /\ Matches(Writes[c][n], s) <=> f.net = 10 /\ f.host = n
                       /\ Writes[c][n].rank = 32 /\ Writes[c][n].act = [port |-> n]
  BY <1>4, Entries09 DEF P!Entry, Matches
<1>11. /\ Full(c) = 6
       /\ Matches(Writes[c][4], s) <=> f.net = 10
       /\ Writes[c][4].rank = 24 /\ Writes[c][4].act = [base |-> 0, count |-> 2]
  BY <1>4, Entries09 DEF P!Entry, Matches
<1>12. \A n \in 1..2 : /\ ~Matches(Writes[c][4 + n], s)
                       /\ Matches(Writes[c][4 + n], t) <=> k = n - 1
                       /\ Writes[c][4 + n].act = [port |-> n + 1]
  BY <1>4, Entries09 DEF P!Entry, Matches
<1>13. \A n \in 1..4 : ~Matches(Writes[c][n], t)
  <2>1. \A n \in 1..3 : ~Matches(Writes[c][n], t)
    BY <1>4, Entries09 DEF P!Entry, Matches
  <2>2. ~Matches(Writes[c][4], t)
    BY <1>4, Entries09 DEF P!Entry, Matches
  <2> QED BY <2>1, <2>2
<1>14. \A j \in 1..6 : j \in 1..3 \/ j = 4 \/ \E n \in 1..2 : j = 4 + n  OBVIOUS
<1>15. CASE ~Accepted09(f)  BY <1>1, <1>2, <1>3, <1>15, AtDropped
<1>16. CASE Accepted09(f) /\ f.net # 10
  <2>1. \A j \in 1..Full(c) : ~Matches(Writes[c][j], s)  BY <1>10, <1>11, <1>12, <1>14, <1>16
  <2>2. Ways(c, s) = Ways(c, P!ApplyTable(c, s, {}))
    BY <1>1, <1>2, <1>4, <1>16, <2>1, LookupMiss
  <2>3. P!Apply09(s, {}) = P!Dropped(s)  BY DEF P!Apply09
  <2> QED BY <1>1, <1>2, <1>3, <1>7, <1>8, <1>16, <2>2, <2>3
<1>17. CASE Accepted09(f) /\ f.net = 10
  <2>1. PICK F : /\ F # {} /\ P!Act(F) = Writes[c][i].act
                 /\ P!ApplyTable(c, s, F) \in Reach[c]
                 /\ Ways(c, s) = Ways(c, P!ApplyTable(c, s, F))
    <3>1. s \in Reach[c] /\ s.at # "out"  BY <1>1, <1>2, <1>4, <1>17
    <3>2. i \in 1..Full(c) /\ Matches(Writes[c][i], s)  BY <1>10, <1>11, <1>17
    <3>3. \A j \in 1..Full(c) : j # i /\ Matches(Writes[c][j], s) =>
                                  Writes[c][j].rank < Writes[c][i].rank
      BY <1>10, <1>11, <1>12, <1>14
    <3> HIDE DEF i
    <3> QED BY <3>1, <3>2, <3>3, LookupHit
  <2>2. CASE f.host \in 1..3
    <3>1. P!Act(F) = [port |-> f.host]  BY <1>10, <2>1, <2>2
    <3>2. P!Apply09(s, F) = P!Out(P!Forward(s, f.host))  BY <1>9, <2>1, <3>1
    <3>3. Sent(f.host) = {P!Copy(f.host)}  BY <2>2 DEF Sent
    <3> QED BY <1>1, <1>2, <1>3, <1>7, <1>8, <1>17, <2>1, <2>2, <3>2, <3>3
  <2>3. CASE f.host \notin 1..3
    <3>1. P!Act(F) = [base |-> 0, count |-> 2]  BY <1>11, <2>1, <2>3
    <3>2. k \in {0, 1}
      <4>1. Hash(f) \in Nat  BY <1>17
      <4> QED BY <4>1, Halves
    <3>3. P!Apply09(s, F) = t
      <4>1. "count" \in DOMAIN P!Act(F) /\ P!Act(F).base = 0 /\ P!Act(F).count = 2
        BY <3>1
      <4>2. P!Apply09(s, F) =
              P!Goto([s EXCEPT !.hdr = [select |-> P!Act(F).base + (s.hdr.hash % P!Act(F).count)]],
                     "ecmp_nhop")
        BY <2>1, <4>1 DEF P!Apply09
      <4>3. P!Act(F).base + (s.hdr.hash % P!Act(F).count) = k
        <5>1. s.hdr.hash = Hash(f)  BY <1>4
        <5> HIDE DEF k
        <5>2. 0 + k = k  BY <3>2
        <5>3. Hash(f) % 2 = k  BY DEF k
        <5> QED BY <4>1, <5>1, <5>2, <5>3
      <4> QED BY <1>5, <4>2, <4>3
    <3> HIDE DEF k
    <3>4. k + 1 \in 1..2 /\ 2 + k \in 1..3  BY <3>2
    <3>5. PICK G : /\ G # {} /\ P!Act(G) = [port |-> 2 + k]
                   /\ Ways(c, t) = Ways(c, P!ApplyTable(c, t, G))
      <4> DEFINE m == 4 + (k + 1)
      <4>1. m \in 1..Full(c) /\ Matches(Writes[c][m], t)
        <5>1. k = (k + 1) - 1 /\ m \in 1..6  BY <3>2
        <5> QED BY <1>11, <1>12, <3>4, <5>1
      <4>2. \A j \in 1..Full(c) : ~(j # m /\ Matches(Writes[c][j], t))
        <5> SUFFICES ASSUME NEW j \in 1..6, Matches(Writes[c][j], t) PROVE j = m
          BY <1>11
        <5>1. PICK n \in 1..2 : j = 4 + n  BY <1>13, <1>14
        <5>2. k = n - 1  BY <1>12, <5>1
        <5> QED BY <3>2, <5>1, <5>2
      <4>3. Writes[c][m].act = [port |-> 2 + k]
        <5>1. Writes[c][m].act = [port |-> (k + 1) + 1]  BY <1>12, <3>4
        <5>2. (k + 1) + 1 = 2 + k  BY <3>2
        <5> QED BY <5>1, <5>2
      <4>4. t \in Reach[c] /\ t.at # "out"  BY <1>4, <1>8, <2>1, <3>3
      <4> HIDE DEF m
      <4> QED BY <4>1, <4>2, <4>3, <4>4, LookupHit
    <3>6. P!Apply09(t, G) = P!Out(P!Forward(t, 2 + k))  BY <1>9, <3>5
    <3>7. Sent(2 + k) = {P!Copy(2 + k)}  BY <3>4 DEF Sent
    <3> QED BY <1>1, <1>2, <1>3, <1>7, <1>8, <1>17, <2>1, <2>3, <3>3, <3>5, <3>6, <3>7
  <2> QED BY <2>2, <2>3
<1> QED BY <1>15, <1>16, <1>17

\* Case 10's dmac entries on their own, then its rules.
LEMMA Policy10 ==
  ASSUME TheCases, "firewall" \in Cases, NEW f \in Frames["firewall"]
  PROVE  Final("firewall", f) = Policy("firewall", f)
<1> DEFINE c == "firewall"
           ip == f.eth = "ipv4"
           h == [mac |-> f.dst, ip |-> f.eth = "ipv4", src |-> f.in, dst |-> f.dst,
                 proto |-> f.proto, dport |-> IF f.proto \in {6, 17} THEN f.dport ELSE 0]
           s == Stage("dmac", h, 0, {})
           t(e) == Stage("acl", h, e, {})
           ssh == f.dst = 2 /\ f.proto = 6 /\ f.dport = 22
           udp == f.in = 1 /\ f.proto = 17 /\ f.dport = 5000
<1>1. Final(c, f) = Ways(c, P!Arrive10(f)) /\ P!Arrive10(f) \in Reach[c]
  BY FinalWays, Programs, ArriveReach DEF P!ArriveAt
<1>2. P!Arrive10(f) = IF Refused10(f) THEN P!Dropped(P!At("none", [in |-> f.in])) ELSE s
  <2>1. P!At("dmac", h) = s  BY StageAt
  <2>2. P!Arrive10(f) = IF Refused10(f) THEN P!Dropped(P!At("none", [in |-> f.in]))
                                        ELSE P!At("dmac", h)
    BY DEF P!Arrive10, Refused10
  <2> QED BY <2>1, <2>2
<1>3. Policy(c, f) = IF f.dst \in 1..2 /\ ~Refused10(f) /\ ~Denied10(f) THEN {P!Copy(f.dst)} ELSE {}
  BY DEF Policy
<1>4. Denied10(f) <=> ip /\ (ssh \/ udp)  BY DEF Denied10
<1>5. \A e : t(e).at = "acl" /\ t(e).hdr = h /\ s.at = "dmac" /\ s.hdr = h  BY StageParts
<1>6. /\ h.mac = f.dst /\ h.ip = ip /\ h.src = f.in /\ h.dst = f.dst /\ h.proto = f.proto
      /\ f.proto \in {6, 17} => h.dport = f.dport
      /\ DOMAIN h = {"mac", "ip", "src", "dst", "proto", "dport"}
  OBVIOUS
<1>7. \A x, F : P!ApplyTable(c, x, F) = P!Apply10(x, F)  BY DEF P!ApplyTable
<1>8. /\ \A e : P!Goto(Stage("dmac", h, e, {}), "acl") = t(e)
      /\ \A e : P!Forward(s, e) = Stage("dmac", h, e, {})
  BY StageSteps
<1>9. \A e : /\ Ways(c, P!Out(t(e))) = Sent(e) /\ Ways(c, P!Dropped(t(e))) = {}
             /\ Ways(c, P!Out(Stage("dmac", h, e, {}))) = Sent(e)
  BY EndWays
<1> HIDE DEF h
<1>10. Full(c) = 5
  BY Entries10
\* The rules, whatever dmac decided.
<1>11. ASSUME NEW e, t(e) \in Reach[c]
       PROVE  Ways(c, t(e)) = IF ssh \/ udp THEN {} ELSE Sent(e)
  <2> DEFINE v == t(e)
  <2>1. v.at = "acl" /\ v.hdr = h /\ Ways(c, P!Out(v)) = Sent(e) /\ Ways(c, P!Dropped(v)) = {}
    BY <1>5, <1>9
  <2> HIDE DEF v
  <2>2. \A n \in 1..2 : ~Matches(Writes[c][n], v)
    BY <2>1, Entries10 DEF P!Entry, Matches
  <2>3. /\ Matches(Writes[c][3], v) <=> ssh
        /\ Writes[c][3].rank = 100 /\ Writes[c][3].act.deny = TRUE
    BY <1>6, <2>1, Entries10 DEF P!Entry, Matches
  <2>4. /\ Matches(Writes[c][4], v) <=> f.dst = 2 /\ f.proto = 6
        /\ Writes[c][4].rank = 90 /\ Writes[c][4].act.deny = FALSE
    BY <1>6, <2>1, Entries10 DEF P!Entry, Matches
  <2>5. /\ Matches(Writes[c][5], v) <=> udp
        /\ Writes[c][5].rank = 80 /\ Writes[c][5].act.deny = TRUE
    BY <1>6, <2>1, Entries10 DEF P!Entry, Matches
  <2>6. P!Apply10(v, {}) = P!Out(v)
        /\ \A F : F # {} => P!Apply10(v, F) = IF P!Act(F).deny THEN P!Dropped(v) ELSE P!Out(v)
    BY <2>1 DEF P!Apply10
  <2>7. v \in Reach[c] /\ v.at # "out"  BY <1>11, <2>1 DEF v
  <2>8. ASSUME NEW i \in 3..5, Matches(Writes[c][i], v),
               \A j \in 3..5 : j # i /\ Matches(Writes[c][j], v) =>
                 Writes[c][j].rank < Writes[c][i].rank
        PROVE  Ways(c, v) = IF Writes[c][i].act.deny THEN {} ELSE Sent(e)
    <3>1. PICK F : /\ F # {} /\ P!Act(F) = Writes[c][i].act
                   /\ Ways(c, v) = Ways(c, P!ApplyTable(c, v, F))
      <4>1. \A j \in 1..Full(c) : j \in 1..2 \/ j \in 3..5  BY <1>10
      <4>2. i \in 1..Full(c)  BY <1>10
      <4>3. \A j \in 1..Full(c) : j # i /\ Matches(Writes[c][j], v) =>
                                    Writes[c][j].rank < Writes[c][i].rank
        BY <2>2, <2>8, <4>1
      <4> QED BY <2>7, <2>8, <4>2, <4>3, LookupHit
    <3> QED BY <1>7, <2>1, <2>6, <3>1
  <2>9. \A j \in 3..5 : j = 3 \/ j = 4 \/ j = 5  OBVIOUS
  <2>10. CASE ssh
    <3>1. Ways(c, v) = IF Writes[c][3].act.deny THEN {} ELSE Sent(e)
      BY <2>3, <2>4, <2>5, <2>8, <2>9, <2>10
    <3> QED BY <2>3, <2>10, <3>1 DEF v
  <2>11. CASE ~ssh /\ f.dst = 2 /\ f.proto = 6
    <3>1. Ways(c, v) = IF Writes[c][4].act.deny THEN {} ELSE Sent(e)
      BY <2>3, <2>4, <2>5, <2>8, <2>9, <2>11
    <3> QED BY <2>4, <2>11, <3>1 DEF v
  <2>12. CASE udp
    <3>1. Ways(c, v) = IF Writes[c][5].act.deny THEN {} ELSE Sent(e)
      BY <2>3, <2>4, <2>5, <2>8, <2>9, <2>12
    <3> QED BY <2>5, <2>12, <3>1 DEF v
  <2>13. CASE ~ssh /\ ~(f.dst = 2 /\ f.proto = 6) /\ ~udp
    <3>1. \A j \in 1..Full(c) : j \in 1..2 \/ j \in 3..5  BY <1>10
    <3>2. \A j \in 1..Full(c) : ~Matches(Writes[c][j], v)
      BY <2>2, <2>3, <2>4, <2>5, <2>9, <2>13, <3>1
    <3>3. Ways(c, v) = Ways(c, P!ApplyTable(c, v, {}))  BY <2>7, <3>2, LookupMiss
    <3> QED BY <1>7, <2>1, <2>6, <2>13, <3>3 DEF v
  <2> QED BY <2>10, <2>11, <2>12, <2>13
\* What dmac decided, e, is all the rules leave or take.
<1>12. ASSUME NEW e, NEW F, P!ApplyTable(c, s, F) \in Reach[c],
              Ways(c, s) = Ways(c, P!ApplyTable(c, s, F)),
              P!Apply10(s, F) = IF h.ip THEN P!Goto(Stage("dmac", h, e, {}), "acl")
                                        ELSE P!Out(Stage("dmac", h, e, {}))
       PROVE  Ways(c, s) = IF ip /\ (ssh \/ udp) THEN {} ELSE Sent(e)
  <2>1. CASE ip
    <3>1. P!ApplyTable(c, s, F) = t(e)
      <4> DEFINE r == P!Goto(Stage("dmac", h, e, {}), "acl")
      <4>1. r = t(e)  BY <1>8
      <4> HIDE DEF r
      <4>2. h.ip  BY <1>6, <2>1
      <4>3. P!Apply10(s, F) = r  BY <1>12, <4>2 DEF r
      <4>4. P!ApplyTable(c, s, F) = P!Apply10(s, F)  BY <1>7
      <4> QED BY <4>1, <4>3, <4>4
    <3> QED BY <1>11, <1>12, <2>1, <3>1
  <2>2. CASE ~ip
    <3>1. P!ApplyTable(c, s, F) = P!Out(Stage("dmac", h, e, {}))  BY <1>6, <1>7, <1>12, <2>2
    <3> QED BY <1>9, <1>12, <2>2, <3>1
  <2> QED BY <2>1, <2>2
<1>13. /\ \A n \in 1..2 : /\ Matches(Writes[c][n], s) <=> n = f.dst
                          /\ Writes[c][n].act.port = n
       /\ \A n \in 3..5 : ~Matches(Writes[c][n], s)
  <2>1. s.at = "dmac" /\ s.hdr = h  BY <1>5
  <2> HIDE DEF s
  <2>2. ~Matches(Writes[c][3], s) /\ ~Matches(Writes[c][4], s) /\ ~Matches(Writes[c][5], s)
    BY <2>1, Entries10 DEF P!Entry, Matches
  <2>3. \A n \in 3..5 : n = 3 \/ n = 4 \/ n = 5  OBVIOUS
  <2>4. \A n \in 1..2 : /\ Matches(Writes[c][n], s) <=> n = f.dst
                        /\ Writes[c][n].act.port = n
    BY <1>6, <2>1, Entries10 DEF P!Entry, Matches
  <2> QED BY <2>2, <2>3, <2>4
<1>14. CASE Refused10(f)  BY <1>1, <1>2, <1>3, <1>14, AtDropped
<1>15. CASE ~Refused10(f) /\ f.dst \in 1..2
  <2>1. s \in Reach[c] /\ s.at # "out"  BY <1>1, <1>2, <1>5, <1>15
  <2>2. PICK F : /\ F # {} /\ P!Act(F) = Writes[c][f.dst].act
                 /\ P!ApplyTable(c, s, F) \in Reach[c]
                 /\ Ways(c, s) = Ways(c, P!ApplyTable(c, s, F))
    <3>1. f.dst \in 1..Full(c) /\ Matches(Writes[c][f.dst], s)  BY <1>10, <1>13, <1>15
    <3>2. \A j \in 1..Full(c) : ~(j # f.dst /\ Matches(Writes[c][j], s))
      <4>1. \A j \in 1..Full(c) : j \in 1..2 \/ j \in 3..5  BY <1>10
      <4> QED BY <1>13, <4>1
    <3> HIDE DEF s
    <3> QED BY <2>1, <3>1, <3>2, LookupHit
  <2>3. P!Apply10(s, F) = IF h.ip THEN P!Goto(Stage("dmac", h, f.dst, {}), "acl")
                                  ELSE P!Out(Stage("dmac", h, f.dst, {}))
    <3>1. s.at = "dmac" /\ s.hdr = h /\ P!Forward(s, f.dst) = Stage("dmac", h, f.dst, {})
      BY <1>5, <1>8
    <3>2. P!Act(F).port = f.dst  BY <1>13, <1>15, <2>2
    <3> HIDE DEF s
    <3> QED BY <2>2, <3>1, <3>2 DEF P!Apply10
  <2>4. Ways(c, s) = IF ip /\ (ssh \/ udp) THEN {} ELSE Sent(f.dst)  BY <1>12, <2>2, <2>3
  <2>5. Sent(f.dst) = {P!Copy(f.dst)}  BY <1>15 DEF Sent
  <2> QED BY <1>1, <1>2, <1>3, <1>4, <1>15, <2>4, <2>5
<1>16. CASE ~Refused10(f) /\ f.dst \notin 1..2
  <2>1. s \in Reach[c] /\ s.at # "out"  BY <1>1, <1>2, <1>5, <1>16
  <2>2. /\ P!ApplyTable(c, s, {}) \in Reach[c]
        /\ Ways(c, s) = Ways(c, P!ApplyTable(c, s, {}))
    <3>1. \A j \in 1..Full(c) : j \in 1..2 \/ j \in 3..5  BY <1>10
    <3>2. \A j \in 1..Full(c) : ~Matches(Writes[c][j], s)  BY <1>13, <1>16, <3>1
    <3> HIDE DEF s
    <3> QED BY <2>1, <3>2, LookupMiss
  <2>3. P!Apply10(s, {}) = IF h.ip THEN P!Goto(Stage("dmac", h, 0, {}), "acl")
                                   ELSE P!Out(Stage("dmac", h, 0, {}))
    <3>1. s.at = "dmac" /\ s.hdr = h  BY <1>5
    <3>2. P!Apply10(s, {}) = IF s.hdr.ip THEN P!Goto(s, "acl") ELSE P!Out(s)
      <4> HIDE DEF s
      <4> QED BY <3>1 DEF P!Apply10
    <3> QED BY <3>1, <3>2
  <2>4. Ways(c, s) = IF ip /\ (ssh \/ udp) THEN {} ELSE Sent(0)  BY <1>12, <2>2, <2>3
  <2>5. Sent(0) = {}  BY DEF Sent
  <2> QED BY <1>1, <1>2, <1>3, <1>16, <2>4, <2>5
<1> QED BY <1>14, <1>15, <1>16

LEMMA CopyPort == \A p, q : P!Copy(p) = P!Copy(q) <=> p = q
  BY DEF P!Copy

LEMMA Policy04 ==
  ASSUME TheCases, "l2_broadcast" \in Cases, NEW f \in Frames["l2_broadcast"]
  PROVE  Final("l2_broadcast", f) = Policy("l2_broadcast", f)
<1> DEFINE c == "l2_broadcast"
           h == [in |-> f.in, dst |-> f.dst]
           g == [in |-> f.in, group |-> f.in]
           s == Stage("dmac", h, 0, {})
           t == Stage("select_mcast_grp", h, 0, {})
           u == Stage("pre", g, 0, {})
<1>1. Final(c, f) = Ways(c, P!Arrive03(f)) /\ P!Arrive03(f) \in Reach[c]
  BY FinalWays, Programs, ArriveReach DEF P!ArriveAt
<1>2. /\ P!Arrive03(f) = IF P!Ethernet(f) THEN s ELSE P!Dropped(s)
      /\ Ways(c, P!Dropped(s)) = {} /\ Ways(c, P!Dropped(t)) = {}
  <2>1. P!At("dmac", h) = s  BY StageAt
  <2>2. P!Arrive03(f) = IF P!Ethernet(f) THEN P!At("dmac", h) ELSE P!Dropped(P!At("dmac", h))
    BY DEF P!Arrive03
  <2>3. Ways(c, P!Dropped(s)) = {} /\ Ways(c, P!Dropped(t)) = {}  BY EndWays
  <2> QED BY <2>1, <2>2, <2>3
<1>3. Policy(c, f) = IF P!Ethernet(f) THEN Addressed(f) \ {P!Copy(f.in)} ELSE {}
  BY DEF Policy
<1>4. /\ s.at = "dmac" /\ s.hdr = h /\ t.at = "select_mcast_grp" /\ t.hdr = h
      /\ u.at = "pre" /\ u.hdr = g
  BY StageParts
<1>5. \A p : Ways(c, P!Out(P!Forward(s, p))) = Sent(p)
  <2> SUFFICES ASSUME NEW p PROVE Ways(c, P!Out(P!Forward(s, p))) = Sent(p)  OBVIOUS
  <2>1. P!Forward(s, p) = Stage("dmac", h, p, {})  BY StageSteps
  <2>2. Ways(c, P!Out(Stage("dmac", h, p, {}))) = Sent(p)  BY EndWays
  <2> QED BY <2>1, <2>2
<1>6. P!Goto(s, "select_mcast_grp") = t  BY StageSteps
<1>7. P!Goto([t EXCEPT !.hdr = g], "pre") = u
  <2>1. [t EXCEPT !.hdr = g] = Stage("select_mcast_grp", g, 0, {})  BY StageParts
  <2>2. P!Goto(Stage("select_mcast_grp", g, 0, {}), "pre") = u  BY StageSteps
  <2> QED BY <2>1, <2>2
<1>8. P!Out(u) = Stage("out", g, 0, Sent(0))  BY StageSteps
<1>9. \A x, F : P!ApplyTable(c, x, F) = P!Apply04(x, F)  BY DEF P!ApplyTable
<1> HIDE DEF s, t, u
<1>10. Full(c) = 9  BY Entries04
<1>11. \A j \in 1..9 : \/ j \in 1..3
                       \/ \E n \in 1..3 : j = 3 + n
                       \/ \E n \in 1..3 : j = 6 + n
  <2> SUFFICES ASSUME NEW j \in 1..9, j \notin 1..3
               PROVE (\E n \in 1..3 : j = 3 + n) \/ (\E n \in 1..3 : j = 6 + n)
    OBVIOUS
  <2>1. j - 3 \in 1..3 \/ j - 6 \in 1..3  OBVIOUS
  <2>2. j = 3 + (j - 3) /\ j = 6 + (j - 6)  OBVIOUS
  <2> QED BY <2>1, <2>2
<1>12. \A n \in 1..3 : /\ Writes[c][n].act.port = n
                       /\ Matches(Writes[c][n], s) <=> n = f.dst
                       /\ ~Matches(Writes[c][n], t) /\ ~Matches(Writes[c][n], u)
  BY <1>4, Entries04 DEF P!Entry, Matches
<1>13. \A n \in 1..3 : /\ Writes[c][3 + n].act.ports = 1..3 \ {n}
                       /\ Matches(Writes[c][3 + n], u) <=> n = f.in
                       /\ ~Matches(Writes[c][3 + n], s) /\ ~Matches(Writes[c][3 + n], t)
  BY <1>4, Entries04 DEF P!Entry, Matches
<1>14. \A n \in 1..3 : /\ Writes[c][6 + n].act.group = n
                       /\ Matches(Writes[c][6 + n], t) <=> n = f.in
                       /\ ~Matches(Writes[c][6 + n], s) /\ ~Matches(Writes[c][6 + n], u)
  BY <1>4, Entries04 DEF P!Entry, Matches
<1>15. CASE ~P!Ethernet(f)  BY <1>1, <1>2, <1>3, <1>15
<1>16. CASE P!Ethernet(f) /\ f.dst \in 1..3
  <2>1. PICK F : /\ F # {} /\ P!Act(F) = Writes[c][f.dst].act
                 /\ Ways(c, s) = Ways(c, P!ApplyTable(c, s, F))
    <3>1. s \in Reach[c] /\ s.at # "out"  BY <1>1, <1>2, <1>4, <1>16
    <3>2. f.dst \in 1..Full(c) /\ Matches(Writes[c][f.dst], s)  BY <1>10, <1>12, <1>16
    <3>3. \A j \in 1..Full(c) : ~(j # f.dst /\ Matches(Writes[c][j], s))
      BY <1>10, <1>11, <1>12, <1>13, <1>14
    <3> QED BY <3>1, <3>2, <3>3, LookupHit
  <2>2. P!Apply04(s, F) = IF f.dst = f.in THEN P!Dropped(s) ELSE P!Out(P!Forward(s, f.dst))
    <3>1. P!Act(F).port = f.dst /\ s.hdr.in = f.in  BY <1>4, <1>12, <1>16, <2>1
    <3>2. P!Apply04(s, F) = P!Apply03(s, F)  BY <1>4, <2>1 DEF P!Apply04
    <3> QED BY <2>1, <3>1, <3>2 DEF P!Apply03
  <2>3. Sent(f.dst) = {P!Copy(f.dst)}  BY <1>16 DEF Sent
  <2>4. Addressed(f) = {P!Copy(f.dst)}  BY <1>16 DEF Addressed
  <2>5. Ways(c, s) = IF f.dst = f.in THEN {} ELSE {P!Copy(f.dst)}
    BY <1>2, <1>5, <1>9, <2>1, <2>2, <2>3
  <2>6. {P!Copy(f.dst)} \ {P!Copy(f.in)} = IF f.dst = f.in THEN {} ELSE {P!Copy(f.dst)}
    BY CopyPort
  <2> QED BY <1>1, <1>2, <1>3, <1>16, <2>4, <2>5, <2>6
<1>17. CASE P!Ethernet(f) /\ f.dst \notin 1..3
  <2>1. t \in Reach[c] /\ Ways(c, s) = Ways(c, t)
    <3>1. s \in Reach[c] /\ s.at # "out"  BY <1>1, <1>2, <1>4, <1>17
    <3>2. \A j \in 1..Full(c) : ~Matches(Writes[c][j], s)
      BY <1>10, <1>11, <1>12, <1>13, <1>14, <1>17
    <3>3. /\ P!ApplyTable(c, s, {}) \in Reach[c]
          /\ Ways(c, s) = Ways(c, P!ApplyTable(c, s, {}))
      BY <3>1, <3>2, LookupMiss
    <3>4. P!Apply04(s, {}) = P!Goto(s, "select_mcast_grp")  BY <1>4 DEF P!Apply04
    <3> QED BY <1>6, <1>9, <3>3, <3>4
  <2>2. t.at # "out" /\ u.at # "out"  BY <1>4
  <2>3. CASE f.in \notin 1..3
    <3>1. \A j \in 1..Full(c) : ~Matches(Writes[c][j], t)
      BY <1>10, <1>11, <1>12, <1>13, <1>14, <2>3
    <3>2. Ways(c, t) = Ways(c, P!ApplyTable(c, t, {}))  BY <2>1, <2>2, <3>1, LookupMiss
    <3>3. P!Apply04(t, {}) = P!Dropped(t)  BY <1>4 DEF P!Apply04
    <3>4. Addressed(f) = {}  BY <1>17, <2>3 DEF Addressed
    <3> QED BY <1>1, <1>2, <1>3, <1>9, <1>17, <2>1, <3>2, <3>3, <3>4
  <2>4. CASE f.in \in 1..3
    <3>1. u \in Reach[c] /\ Ways(c, t) = Ways(c, u)
      <4> DEFINE m == 6 + f.in
      <4>1. m \in 1..Full(c) /\ Matches(Writes[c][m], t) /\ Writes[c][m].act.group = f.in
        BY <1>10, <1>14, <2>4
      <4>2. \A j \in 1..Full(c) : ~(j # m /\ Matches(Writes[c][j], t))
        BY <1>10, <1>11, <1>12, <1>13, <1>14
      <4> HIDE DEF m
      <4>3. PICK F : /\ F # {} /\ P!Act(F) = Writes[c][m].act
                     /\ P!ApplyTable(c, t, F) \in Reach[c]
                     /\ Ways(c, t) = Ways(c, P!ApplyTable(c, t, F))
        BY <2>1, <2>2, <4>1, <4>2, LookupHit
      <4>4. P!Apply04(t, F) = P!Goto([t EXCEPT !.hdr = [in |-> t.hdr.in, group |-> P!Act(F).group]], "pre")
        BY <1>4, <4>3 DEF P!Apply04
      <4>5. [in |-> t.hdr.in, group |-> P!Act(F).group] = g  BY <1>4, <4>1, <4>3
      <4> QED BY <1>7, <1>9, <4>3, <4>4, <4>5
    <3>2. Ways(c, u) = {P!Copy(p) : p \in 1..3 \ {f.in}}
      <4> DEFINE m == 3 + f.in
                 w == {P!Copy(p) : p \in 1..3 \ {f.in}}
      <4>1. m \in 1..Full(c) /\ Matches(Writes[c][m], u) /\ Writes[c][m].act.ports = 1..3 \ {f.in}
        BY <1>10, <1>13, <2>4
      <4>2. \A j \in 1..Full(c) : ~(j # m /\ Matches(Writes[c][j], u))
        BY <1>10, <1>11, <1>12, <1>13, <1>14
      <4> HIDE DEF m
      <4>3. PICK F : /\ F # {} /\ P!Act(F) = Writes[c][m].act
                     /\ Ways(c, u) = Ways(c, P!ApplyTable(c, u, F))
        BY <2>2, <3>1, <4>1, <4>2, LookupHit
      <4>4. P!Apply04(u, F) = [P!Out(u) EXCEPT !.out = w]
        <5>1. P!Act(F).ports = 1..3 \ {f.in}  BY <4>1, <4>3
        <5>2. P!Apply04(u, F) =
                [P!Out(u) EXCEPT !.out = IF F = {} THEN {} ELSE {P!Copy(p) : p \in P!Act(F).ports}]
          BY <1>4 DEF P!Apply04
        <5> QED BY <4>3, <5>1, <5>2
      <4> DEFINE x == [P!Out(u) EXCEPT !.out = w]
      <4> HIDE DEF w
      <4>5. x = Stage("out", g, 0, w)  BY <1>8, StageParts
      <4> HIDE DEF x
      <4>6. Ways(c, x) = w
        <5>1. x.at = "out" /\ x.out = w  BY <4>5, StageParts
        <5> QED BY <5>1, WaysOut
      <4> QED BY <1>9, <4>3, <4>4, <4>6 DEF w, x
    <3>3. Addressed(f) = {P!Copy(p) : p \in 1..3}  BY <1>17, <2>4 DEF Addressed
    <3>4. {P!Copy(p) : p \in 1..3} \ {P!Copy(f.in)} = {P!Copy(p) : p \in 1..3 \ {f.in}}
      BY CopyPort
    <3> QED BY <1>1, <1>2, <1>3, <1>17, <2>1, <3>1, <3>2, <3>3, <3>4
  <2> QED BY <2>3, <2>4
<1> QED BY <1>15, <1>16, <1>17

LEMMA TablesComputePolicy ==
  ASSUME TheCases, NumberedFrames, NEW c \in Cases, NEW f \in Frames[c]
  PROVE  Final(c, f) = Policy(c, f)
<1>1. c \in Untabled \cup OneTable \cup Restricting \cup {"clone_to_cpu"}
  BY Programs DEF P!AllWrites, Untabled, OneTable, Restricting
<1>2. CASE c \in Untabled  BY <1>2, Policy01
<1>3. CASE c = "direct_counter"  BY <1>3, Policy08
<1>4. CASE c = "l2_forwarding"  BY <1>4, Policy03
<1>5. CASE c = "l2_broadcast"  BY <1>5, Policy04
<1>6. CASE c = "meter"  BY <1>6, Policy07
<1>7. CASE c = "ecmp"  BY <1>7, Policy09 DEF NumberedFrames
<1>8. CASE c = "firewall"  BY <1>8, Policy10
<1>9. CASE c = "vxlan"  BY <1>9, Policy11 DEF NumberedFrames
<1>10. CASE c = "clone_to_cpu"  BY <1>10, Policy13
<1>11. CASE c = "ipv6_lpm"  BY <1>11, Policy14
<1> QED BY <1>1, <1>2, <1>3, <1>4, <1>5, <1>6, <1>7, <1>8, <1>9, <1>10, <1>11
     DEF OneTable, Restricting

\* A frame that entered after the banner, or once its own entries were in,
\* leaves the switch by the policy, and what is received of one that entered
\* after the banner is the policy's but for the packet-in of a controller that
\* has ended.
LeavesByPolicy ==
  pkt # NoPacket /\ pkt.stage.at = "out"
    /\ (pkt.ready \/ Governed(case, pkt.entered, pkt.frame))
    => pkt.stage.out = Policy(case, pkt.frame)
ReceivedByPolicy ==
  seen # NoPacket /\ seen.ready =>
    /\ ToHosts(seen.copies) = ToHosts(Policy(case, seen.frame))
    /\ ctrl = "ready" /\ case \in Listening => seen.copies = Policy(case, seen.frame)
PolicyHolds == LeavesByPolicy /\ ReceivedByPolicy

(* The programs and entries of the twelve table-driven pipelines, for any  *)
(* frames: each frame leaves the switch by its pipeline's policy, from the *)
(* banner on, and before it from the write on that settles the frame's     *)
(* lookups.  In particular cases 03 and 04 never send a frame back to its  *)
(* sender, case 09 balances over hosts 2 and 3 alone, case 10 denies its   *)
(* two flows whatever their other fields, and case 11's 16-bit lengths do  *)
(* not wrap.  From the banner on the hosts receive their copies also when  *)
(* the controller has ended, and it prints its own while it runs.          *)
THEOREM CasesMeetPolicy ==
  ASSUME TheCases, NumberedFrames
  PROVE  Spec => []PolicyHolds
<1>1. TypeOK /\ ReadyOnPath /\ GovernedIsFinal => LeavesByPolicy
  <2> SUFFICES ASSUME TypeOK, ReadyOnPath, GovernedIsFinal, pkt # NoPacket,
                      pkt.stage.at = "out", pkt.ready \/ Governed(case, pkt.entered, pkt.frame)
               PROVE  pkt.stage.out = Policy(case, pkt.frame)
    BY DEF LeavesByPolicy
  <2>1. case \in Cases /\ pkt.frame \in Frames[case]  BY DEF TypeOK
  <2>2. pkt.stage.out = Final(case, pkt.frame)
    <3>1. CASE pkt.ready  BY <3>1, ReadyIsFinal
    <3>2. CASE Governed(case, pkt.entered, pkt.frame)  BY <3>2 DEF GovernedIsFinal
    <3> QED BY <3>1, <3>2
  <2> QED BY <2>1, <2>2, TablesComputePolicy
<1>2. TypeOK /\ Heard => ReceivedByPolicy
  <2> SUFFICES ASSUME TypeOK, Heard, seen # NoPacket, seen.ready
               PROVE  /\ ToHosts(seen.copies) = ToHosts(Policy(case, seen.frame))
                      /\ ctrl = "ready" /\ case \in Listening =>
                           seen.copies = Policy(case, seen.frame)
    BY DEF ReceivedByPolicy
  <2>1. case \in Cases /\ seen.frame \in Frames[case]  BY DEF TypeOK
  <2>2. Final(case, seen.frame) = Policy(case, seen.frame)  BY <2>1, TablesComputePolicy
  <2>3. \A out : ToHosts(ToHosts(out)) = ToHosts(out)  BY DEF ToHosts
  <2> QED BY <2>2, <2>3 DEF Heard
<1> QED BY <1>1, <1>2, HeardAlways, GovernedFramesAreFinal, PTL DEF PolicyHolds
=============================================================================
