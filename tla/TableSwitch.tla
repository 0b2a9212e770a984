---------------------------- MODULE TableSwitch ----------------------------
(***************************************************************************)
(* A table-driven case (01-04, 07-11, 13, 14) from the accepted pipeline   *)
(* on: the controller (<case>/controller/main.go) installs its entries one *)
(* write at a time, prints its banner and waits for a signal, while the    *)
(* switch already carries frames.  BMv2 locks one table per lookup, so     *)
(* writes fall between two lookups of a frame as well as between frames.   *)
(*                                                                         *)
(* The cases' programs (parser, tables, actions) and the controllers'      *)
(* entries are constants, given by module CasePipelines; the frames, with  *)
(* the copies the test demands of each, by module CaseFrames.  The tables  *)
(* are the switch's and stay when the controller ends.  The handler that   *)
(* prints a packet-in (case 13) is the controller's and ends with it.      *)
(*                                                                         *)
(* Ingress is one thread and no frame changes a table, so one frame in the *)
(* pipeline at a time shows everything a frame can meet.                   *)
(***************************************************************************)
EXTENDS Naturals, Sequences

CONSTANTS
  Cases,         \* the cases
  Writes,        \* case -> its entries [table, match, rank, act], in the order written
  Frames,        \* case -> its frames; the test wants f.to of frame f
  Arrive(_, _),  \* case, frame -> the stage at the first lookup, parsing done
  Apply(_, _, _),\* case, stage, what the lookup found (one entry, or none) -> next stage
  Careful,       \* the cases whose order of writes sends no frame astray
  Listening,     \* the cases whose controller prints packet-ins
  PacketInPort   \* where the switch hands a copy to the controller

Full(c) == Len(Writes[c])

-----------------------------------------------------------------------------
(* A stage of a frame is [at, hdr, eg, out]: the table it is looked up in  *)
(* next, or "out" once ingress is done; what the lookups read; the egress  *)
(* port so far; the copies that leave, each with its port.                 *)

Matches(e, s) ==
  /\ e.table = s.at
  /\ \A k \in DOMAIN e.match : e.match[k] = s.hdr[k]

\* The entries among the first n writes that match stage s.
Matching(c, n, s) == {e \in {Writes[c][i] : i \in 1..n} : Matches(e, s)}

\* Exact, longest-prefix and ternary lookups alike: the matching entry of
\* the highest rank (0, the prefix length, the priority).
Found(c, n, s) ==
  {e \in Matching(c, n, s) : \A d \in Matching(c, n, s) : d.rank <= e.rank}

Lookup(c, n, s) == IF s.at = "out" THEN s ELSE Apply(c, s, Found(c, n, s))

\* Stage s and the stages after the next three lookups, under the first n writes.
Lookups(c, n, s) ==
  LET s1 == Lookup(c, n, s)
      s2 == Lookup(c, n, s1)
  IN  <<s, s1, s2, Lookup(c, n, s2)>>

\* The lookups of frame f under the first n writes, at most three.
Path(c, n, f) == Lookups(c, n, Arrive(c, f))

\* The copies of f under all of the controller's entries.
Final(c, f) == Path(c, Full(c), f)[4].out

\* The first n writes settle the lookup of stage s: what the complete tables
\* find for it is installed, or they find nothing.
Settled(c, n, s) ==
  \/ s.at = "out"
  \/ Matching(c, Full(c), s) = {}
  \/ /\ Found(c, Full(c), s) # {}
     /\ Found(c, Full(c), s) \subseteq {Writes[c][i] : i \in 1..n}

\* They settle every lookup of f, the way all entries decide them.
Governed(c, n, f) == \A i \in 1..3 : Settled(c, n, Path(c, Full(c), f)[i])

\* Every stage a frame can reach, its lookups made under any of the writes.
Reach ==
  [c \in Cases |->
     LET Next1(S) == S \cup {Lookup(c, n, s) : n \in 0..Full(c), s \in S}
     IN  Next1(Next1(Next1({Arrive(c, f) : f \in Frames[c]})))]

ASSUME RankAssumption ==
  \A c \in Cases : /\ Writes[c] \in Seq({Writes[c][i] : i \in 1..Full(c)})
                   /\ \A i \in 1..Full(c) : Writes[c][i].rank \in Nat

\* No program applies more than three tables to a frame, whatever they hold.
ASSUME ReachAssumption ==
  \A c \in Cases : \A s \in Reach[c] : \A n \in 0..Full(c) : Lookup(c, n, s) \in Reach[c]

ASSUME LengthAssumption ==
  \A c \in Cases : \A s \in Reach[c] : Lookups(c, Full(c), s)[4].at = "out"

\* The copies meant for hosts, and those for the controller.
ToHosts(out) == {o \in out : o.port # PacketInPort}

\* Only of a controller that listens does a test demand a packet-in.
ASSUME ListeningAssumption ==
  \A c \in Cases \ Listening : \A f \in Frames[c] : ToHosts(f.to) = f.to

\* All copies the case can send.
AllCopies == [c \in Cases |-> UNION {s.out : s \in Reach[c]}]

-----------------------------------------------------------------------------
VARIABLES
  case,     \* the case that runs
  ctrl,     \* "writing", "ready" (banner printed), "stopped" by a signal or "failed"
  handler,  \* the controller's packet-in handler is registered, in its process
  written,  \* the writes the switch has applied
  pkt,      \* the frame in ingress, or NoPacket
  seen      \* what receivers got of the frame that left last, until the next enters

vars == <<case, ctrl, handler, written, pkt, seen>>

NoPacket == [frame |-> "none"]

\* What is received of the copies that leave: a packet-in is printed by the
\* handler, or by nobody.
Received(out) == IF handler THEN out ELSE ToHosts(out)

Init ==
  /\ case \in Cases
  /\ ctrl = "writing" /\ written = 0 /\ handler = FALSE
  /\ pkt = NoPacket /\ seen = NoPacket

\* Seeded fault: one write more than there are.
WriteOneMore ==
  /\ ctrl = "writing" /\ written <= Full(case)
  /\ written' = written + 1
  /\ UNCHANGED <<case, ctrl, handler, pkt, seen>>

\* The controller's next WriteTableEntry, InsertMulticastGroup,
\* InsertCloneSession or meter write succeeds.
Write ==
  /\ ctrl = "writing" /\ written < Full(case)
  /\ written' = written + 1
  /\ UNCHANGED <<case, ctrl, handler, pkt, seen>>

\* It fails, applied by the switch or not (a deadline, a signal, a lost
\* connection, or meter.Read's check of what was written): log.Fatalf.  What
\* is written stays.
WriteFails ==
  /\ ctrl = "writing" /\ written < Full(case)
  /\ written' \in {written, written + 1}
  /\ ctrl' = "failed"
  /\ UNCHANGED <<case, handler, pkt, seen>>

\* c.OnPacketIn, after the clone session; it cannot fail.
OnPacketIn ==
  /\ ctrl = "writing" /\ written = Full(case) /\ case \in Listening /\ ~handler
  /\ handler' = TRUE
  /\ UNCHANGED <<case, ctrl, written, pkt, seen>>

\* Seeded fault: the banner comes before the handler.
AnnounceUnheard ==
  /\ ctrl = "writing" /\ written = Full(case)
  /\ ctrl' = "ready"
  /\ UNCHANGED <<case, handler, written, pkt, seen>>

\* Everything is in: the banner that wait_ready looks for.
Announce ==
  /\ ctrl = "writing" /\ written = Full(case) /\ (case \in Listening => handler)
  /\ ctrl' = "ready"
  /\ UNCHANGED <<case, handler, written, pkt, seen>>

\* SIGINT or SIGTERM ends the controller, and its handler with it (deferred
\* c.Close()); the tables stay.
Stop ==
  /\ ctrl = "ready"
  /\ ctrl' = "stopped" /\ handler' = FALSE
  /\ UNCHANGED <<case, written, pkt, seen>>

\* A frame arrives and is parsed.
Enter(f) ==
  /\ pkt = NoPacket
  /\ pkt' = [frame |-> f, entered |-> written, ready |-> ctrl \in {"ready", "stopped"},
             stage |-> Arrive(case, f)]
  /\ seen' = NoPacket
  /\ UNCHANGED <<case, ctrl, handler, written>>

\* Seeded fault: the lowest rank wins, as if priorities were counted the
\* other way.
StepInverted ==
  /\ pkt # NoPacket /\ pkt.stage.at # "out"
  /\ LET all == Matching(case, written, pkt.stage)
     IN  pkt' = [pkt EXCEPT !.stage =
                   Apply(case, pkt.stage, {e \in all : \A d \in all : e.rank <= d.rank})]
  /\ UNCHANGED <<case, ctrl, handler, written, seen>>

\* One table.apply() of the frame in ingress, under what is written now.
Step ==
  /\ pkt # NoPacket /\ pkt.stage.at # "out"
  /\ pkt' = [pkt EXCEPT !.stage = Lookup(case, written, pkt.stage)]
  /\ UNCHANGED <<case, ctrl, handler, written, seen>>

\* The copies leave by their ports and reach their receivers: one at the CPU
\* port goes through the stream to the controller, later than ingress ends by
\* any number of the controller's steps.
Leave ==
  /\ pkt # NoPacket /\ pkt.stage.at = "out"
  /\ seen' = [frame |-> pkt.frame, ready |-> pkt.ready, copies |-> Received(pkt.stage.out)]
  /\ pkt' = NoPacket
  /\ UNCHANGED <<case, ctrl, handler, written>>

Next ==
  \/ Write \/ WriteFails \/ OnPacketIn \/ Announce \/ Stop
  \/ \E f \in Frames[case] : Enter(f)
  \/ Step \/ Leave

Spec == Init /\ [][Next]_vars

-----------------------------------------------------------------------------
(* The type invariant: no more writes than the controller makes, no stage  *)
(* the programs cannot reach (main.go and main.p4 of every case).          *)
TypeOK ==
  /\ case \in Cases
  /\ ctrl \in {"writing", "ready", "stopped", "failed"}
  /\ handler \in BOOLEAN
  /\ written \in 0..Full(case)
  /\ \/ pkt = NoPacket
     \/ pkt \in [frame : Frames[case], entered : 0..Full(case), ready : BOOLEAN,
                 stage : Reach[case]]
  /\ \/ seen = NoPacket
     \/ seen \in [frame : Frames[case], ready : BOOLEAN, copies : SUBSET AllCopies[case]]

(* A frame that enters once the entries that decide it are installed goes  *)
(* where the complete tables send it, whatever the controller writes       *)
(* between its lookups and whichever entries are still missing: a denied   *)
(* flow of case 10 is denied from its own rule on, a route of case 14 may  *)
(* be overridden only by a longer prefix.  Of case 13 this is the copy at  *)
(* the CPU port, whether or not a controller is there to print it.         *)
GovernedIsFinal ==
  pkt # NoPacket /\ pkt.stage.at = "out" /\ Governed(case, pkt.entered, pkt.frame)
    => pkt.stage.out = Final(case, pkt.frame)

(* Once the controller has announced itself, the hosts receive of every    *)
(* frame of the case's test exactly what the test's label says             *)
(* (make_probes, test_vectors, expected_host), malformed and fragmented    *)
(* ones included, and the controller's end does not change that.  The      *)
(* packet-in that case 13's label demands beside it is printed if the      *)
(* controller still runs then: its handler is there before the banner.     *)
ReadyIsPolicy ==
  seen # NoPacket /\ seen.ready =>
    /\ ToHosts(seen.copies) = ToHosts(seen.frame.to)
    /\ ctrl = "ready" => seen.copies = seen.frame.to

(* Before that, a frame of a careful case may be lost but goes nowhere it  *)
(* would not go later: /32 routes come before the /24 that would catch     *)
(* their frames (case 09).  Not so where a later write restricts an        *)
(* earlier one (the deny rules of case 10, the meter of 07, the /128 of    *)
(* 14), nor in 04, where a frame that missed dmac before its entry was in  *)
(* finds the flooding group that is written after it.                      *)
NeverElsewhere ==
  pkt # NoPacket /\ pkt.stage.at = "out" /\ case \in Careful
    => pkt.stage.out \subseteq Final(case, pkt.frame)
=============================================================================
