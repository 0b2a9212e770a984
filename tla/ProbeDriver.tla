---------------------------- MODULE ProbeDriver ----------------------------
(***************************************************************************)
(* The packet tests of the cases (<case>/topology.py with --run-test) and  *)
(* the probe processes they start.  Each case's main and run_test is a     *)
(* program, a sequence of steps (module ProbePrograms): set up hosts,      *)
(* start the controller and wait for its banner, then for every batch of   *)
(* probes open a temporary directory, start one receiver per host, wait    *)
(* until every ready file says so, start the senders, read what the        *)
(* senders confirm and what the receivers captured, compare, and stop      *)
(* every process on the way out, whatever raised.                          *)
(*                                                                         *)
(* The driver runs beside the receivers, the senders, the network and the  *)
(* controller.  A fault is a process that dies, a deadline that passes, a  *)
(* host command that fails, or a frame that is lost, doubled or delivered  *)
(* to a wrong host; a run has at most MaxFaults[case] of them, at any point.     *)
(***************************************************************************)
EXTENDS Integers, Sequences, FiniteSets

CONSTANTS
  Cases,      \* the cases whose test may run
  Program,    \* case -> its steps [op, on], from main to the end of run_test
  Batches,    \* case -> its batches [listen, probes, burst, own]
  Watched,    \* the cases whose test checks that the controller lives
  Hosts,      \* the hosts, and Cpu
  Cpu,        \* the controller's packet-in output, read like a receiver
  MaxProbes,  \* probes of a batch, at most
  MaxCopies,  \* copies of one frame on the way to one host, at most
  MaxFaults   \* case -> faults of its run, at most

Ops == {"setup", "start", "ready", "ask", "alive", "enter", "receive", "await",
        "send", "confirm", "collect", "observe", "check", "leave", "finally"}

Rows == 0..MaxProbes     \* row 0: frames of earlier batches still on the way
Cells == Rows \X Hosts
Count == 0..MaxCopies

Op(c, p) == Program[c][p].op

\* No batch begins in a..b.
SameBatch(c, a, b) == \A r \in a..b : Op(c, r) # "enter"

\* A cleanup step op lies ahead of p in p's own batch.
Ahead(c, p, op) == \E q \in p..Len(Program[c]) : Op(c, q) = op /\ SameBatch(c, p, q)

\* A step op lies behind p in p's own batch.
Behind(c, p, op) == \E q \in 1..(p - 1) : Op(c, q) = op /\ SameBatch(c, q, p - 1)

\* A receiver of host h was started behind p in p's own batch.
Received(c, p, h) ==
  \E q \in 1..(p - 1) :
    Op(c, q) = "receive" /\ Program[c][q].on = h /\ SameBatch(c, q, p - 1)

ASSUME ProgramAssumption ==
  \A c \in Cases : Program[c] \in Seq([op : Ops, on : STRING])

ASSUME BatchAssumption ==
  \A c \in Cases : Len(Batches[c]) \in Nat /\ \A b \in 1..Len(Batches[c]) :
    /\ Batches[c][b].listen \subseteq Hosts
    /\ Len(Batches[c][b].probes) \in Rows
    /\ \A i \in 1..Len(Batches[c][b].probes) :
         /\ Batches[c][b].probes[i].from \in Hosts
         /\ Batches[c][b].probes[i].to \subseteq Hosts

ASSUME BoundsAssumption ==
  /\ MaxProbes \in Nat /\ MaxCopies \in Nat \ {0} /\ MaxFaults \in [Cases -> Nat]
  /\ Cpu \in Hosts /\ Hosts \subseteq STRING
  /\ Watched \subseteq Cases

(***************************************************************************)
(* The shape of a test, which TLC checks of all fourteen programs: a       *)
(* process is started only where a finally stops it, a directory is opened *)
(* only where a with closes it, receivers come once for each host and      *)
(* before the wait for them, and senders after it; a batch ends with a     *)
(* check; a watched case asks for the controller's life after it has read  *)
(* any reply; the set-up in main comes before the first batch.             *)
(***************************************************************************)
ASSUME ShapeAssumption ==
  \A c \in Cases : \A p \in 1..Len(Program[c]) :
    /\ Op(c, p) \in {"receive", "send", "confirm", "collect"} =>
         Program[c][p].on \in Hosts \ {Cpu}
    /\ Op(c, p) \in {"receive", "send"} => Ahead(c, p, "finally")
    /\ Op(c, p) = "enter" => p < Len(Program[c]) /\ Ahead(c, p + 1, "leave")
    /\ Op(c, p) \in {"setup", "start", "ready"} =>
         ~ Ahead(c, p, "finally") /\ ~ Ahead(c, p, "leave")
    /\ Op(c, p) = "receive" =>
         ~ Behind(c, p, "await") /\ ~ Received(c, p, Program[c][p].on)
    /\ Op(c, p) = "send" => Behind(c, p, "await")
    /\ Op(c, p) = "finally" => Behind(c, p, "check")
    /\ Op(c, p) = "start" => \A q \in 1..p : Op(c, q) \notin {"collect", "observe"}
    /\ Op(c, p) \in {"collect", "observe"} =>
         /\ ~ Behind(c, p, "check")
         /\ c \in Watched => \E q \in p..Len(Program[c]) : Op(c, q) = "alive"

VARIABLES
  case,       \* the case under test
  pc,         \* the driver's next step
  raised,     \* an exception is on its way out
  verdict,    \* what main ends with
  batch,      \* the current batch, 0 before the first
  dir,        \* the batch's temporary directory exists
  ready,      \* hosts whose ready file says "ready\n"
  rx, tx,     \* the receiver and the sender of each host
  sent,       \* the probes of the batch that were sent
  wire,       \* copies on the way, by row and host
  heard,      \* copies captured, by row and host
  collected,  \* hosts whose capture the driver has read
  ctrlUp,     \* the controller (06: every controller) is alive
  faults,     \* faults so far
  unseen,     \* history: a copy reached a host before its receiver was open
  wrong,      \* history: a batch ended with other captures than expected
  blind       \* history: a capture was read after the controller's death

net == <<sent, wire, heard>>
procs == <<ready, rx, tx>>
history == <<unseen, wrong, blind>>
driver == <<pc, raised, verdict>>
vars == <<case, pc, raised, verdict, batch, dir, ready, rx, tx, sent, wire, heard,
          collected, ctrlUp, faults, unseen, wrong, blind>>

Verdicts == {"none", "SUCCESS", "FAILURE", "NOT_READY", "ERROR"}
RxStates == {"off", "starting", "bound", "listening", "done", "dead", "stopped"}
TxStates == {"off", "sending", "done", "dead", "stopped"}

TypeOK ==
  /\ case \in Cases
  /\ pc \in 1..(Len(Program[case]) + 1)
  /\ raised \in BOOLEAN /\ verdict \in Verdicts
  /\ batch \in 0..Len(Batches[case])
  /\ dir \in BOOLEAN
  /\ ready \subseteq Hosts
  /\ rx \in [Hosts -> RxStates] /\ tx \in [Hosts -> TxStates]
  /\ sent \subseteq Rows
  /\ wire \in [Cells -> Count] /\ heard \in [Cells -> Count]
  /\ collected \subseteq Hosts
  /\ ctrlUp \in BOOLEAN
  /\ faults \in 0..MaxFaults[case]
  /\ unseen \in BOOLEAN /\ wrong \in BOOLEAN /\ blind \in BOOLEAN

Nowhere == [x \in Cells |-> 0]

Init ==
  /\ case \in Cases
  /\ pc = 1 /\ raised = FALSE /\ verdict = "none"
  /\ batch = 0 /\ dir = FALSE
  /\ ready = {}
  /\ rx = [h \in Hosts |-> "off"] /\ tx = [h \in Hosts |-> "off"]
  /\ sent = {} /\ wire = Nowhere /\ heard = Nowhere
  /\ collected = {}
  /\ ctrlUp = FALSE
  /\ faults = 0
  /\ unseen = FALSE /\ wrong = FALSE /\ blind = FALSE

-----------------------------------------------------------------------------
(* The batch in hand. *)

NoBatch == [listen |-> {}, probes |-> <<>>, burst |-> 0, own |-> TRUE]
Batch == IF batch = 0 THEN NoBatch ELSE Batches[case][batch]
Listen == Batch.listen
Probes == 1..Len(Batch.probes)
Mine(h) == {i \in Probes : Batch.probes[i].from = h}

\* Copies of probe i that host h must capture.
Wanted(i, h) == IF h \in Batch.probes[i].to THEN 1 ELSE 0

\* Every capture holds exactly the expected frames, or, for a metered burst,
\* the committed burst once and not all of the rest.
ExactAt(h) == heard[<<0, h>>] = 0 /\ \A i \in Probes : heard[<<i, h>>] = Wanted(i, h)
MeteredAt(h) ==
  /\ heard[<<0, h>>] = 0
  /\ \A i \in Probes : heard[<<i, h>>] <= Wanted(i, h)
  /\ \A i \in 1..Batch.burst : i \in Probes => heard[<<i, h>>] = Wanted(i, h)
  /\ \E i \in Probes : heard[<<i, h>>] < Wanted(i, h)
Matches == \A h \in Listen : IF Batch.burst = 0 THEN ExactAt(h) ELSE MeteredAt(h)

RxLive(h) == h # Cpu /\ rx[h] \in {"starting", "bound", "listening"}
TxLive(h) == tx[h] = "sending"
Open(h) == rx[h] \in {"bound", "listening"}
NotYetOpen(h) == rx[h] \in {"off", "starting"}

-----------------------------------------------------------------------------
(* The driver. *)

Here == Program[case][pc]
At(op) == verdict = "none" /\ pc <= Len(Program[case]) /\ Here.op = op
Doing(op) == At(op) /\ ~ raised
Go == pc' = pc + 1 /\ UNCHANGED <<raised, verdict>>
Raise == raised' = TRUE /\ UNCHANGED <<pc, verdict>>
End(v) == verdict' = v /\ UNCHANGED <<pc, raised>>
Fault == faults < MaxFaults[case] /\ faults' = faults + 1

\* A host command, a register or counter read, pingAll, before or between
\* batches.
Ask ==
  /\ Doing("ask")
  /\ \/ Go /\ UNCHANGED faults
     \/ Raise /\ Fault
  /\ UNCHANGED <<case, batch, dir, procs, net, collected, ctrlUp, history>>

\* A step of main outside run_test's try: an exception ends the program.
Setup ==
  /\ Doing("setup")
  /\ \/ Go /\ UNCHANGED faults
     \/ End("ERROR") /\ Fault
  /\ UNCHANGED <<case, batch, dir, procs, net, collected, ctrlUp, history>>

\* Case 06 starts three: they are up while each that was started lives.
FirstStart == \A q \in 1..(pc - 1) : Op(case, q) # "start"
StartController ==
  /\ Doing("start")
  /\ \/ Go /\ ctrlUp' = (ctrlUp \/ FirstStart) /\ UNCHANGED faults
     \/ End("ERROR") /\ Fault /\ UNCHANGED ctrlUp
  /\ UNCHANGED <<case, batch, dir, procs, net, collected, history>>

\* The banner comes, or the controller is gone or late: sys.exit(2).
WaitReady ==
  /\ Doing("ready")
  /\ \/ ctrlUp /\ Go /\ UNCHANGED faults
     \/ ~ ctrlUp /\ End("NOT_READY") /\ UNCHANGED faults
     \/ End("NOT_READY") /\ Fault
  /\ UNCHANGED <<case, batch, dir, procs, net, collected, ctrlUp, history>>

Alive ==
  /\ Doing("alive")
  /\ IF ctrlUp THEN Go ELSE Raise
  /\ UNCHANGED <<case, batch, dir, procs, net, collected, ctrlUp, faults, history>>

\* Seeded fault: the captures of the last batch are kept.
EnterKeepingCaptures ==
  /\ Doing("enter")
  /\ batch < Len(Batches[case])
  /\ Go
  /\ batch' = batch + 1 /\ dir' = TRUE
  /\ ready' = {} /\ collected' = {} /\ sent' = {}
  /\ rx' = [h \in Hosts |-> IF h = Cpu /\ h \in Batches[case][batch + 1].listen
                            THEN IF ctrlUp THEN "listening" ELSE "done"
                            ELSE "off"]
  /\ tx' = [h \in Hosts |-> "off"]
  /\ wire' = [x \in Cells |->
               IF x[1] # 0 THEN 0
               ELSE IF \E i \in Rows : wire[<<i, x[2]>>] > 0 THEN 1 ELSE 0]
  /\ UNCHANGED <<case, heard, ctrlUp, faults, history>>

\* procs = [], a fresh directory; frames of the last batch may still be on
\* the way, and the packet-in output is there already.
EnterBatch ==
  /\ Doing("enter")
  /\ batch < Len(Batches[case])
  /\ Go
  /\ batch' = batch + 1 /\ dir' = TRUE
  /\ ready' = {} /\ collected' = {} /\ sent' = {} /\ heard' = Nowhere
  /\ rx' = [h \in Hosts |-> IF h = Cpu /\ h \in Batches[case][batch + 1].listen
                            THEN IF ctrlUp THEN "listening" ELSE "done"
                            ELSE "off"]
  /\ tx' = [h \in Hosts |-> "off"]
  /\ wire' = [x \in Cells |->
               IF x[1] # 0 THEN 0
               ELSE IF \E i \in Rows : wire[<<i, x[2]>>] > 0 THEN 1 ELSE 0]
  /\ UNCHANGED <<case, ctrlUp, faults, history>>

StartReceiver ==
  /\ Doing("receive")
  /\ \/ Go /\ rx' = [rx EXCEPT ![Here.on] = "starting"] /\ UNCHANGED faults
     \/ Raise /\ Fault /\ UNCHANGED rx
  /\ UNCHANGED <<case, batch, dir, ready, tx, net, collected, ctrlUp, history>>

\* Receivers whose ready file the driver waits for.
Awaited == Listen \ {Cpu}

\* Seeded fault: the first ready file is enough.
AwaitSome ==
  /\ Doing("await")
  /\ \/ (Awaited = {} \/ Awaited \cap ready # {}) /\ Go /\ UNCHANGED faults
     \/ /\ \E h \in Awaited : rx[h] \in {"done", "dead"}
        /\ Raise /\ UNCHANGED faults
  /\ UNCHANGED <<case, batch, dir, procs, net, collected, ctrlUp, history>>

AwaitReceivers ==
  /\ Doing("await")
  /\ \/ Awaited \subseteq ready /\ Go /\ UNCHANGED faults
     \/ /\ ~ (Awaited \subseteq ready)
        /\ \E h \in Awaited : rx[h] \in {"done", "dead"}
        /\ Raise /\ UNCHANGED faults
     \/ ~ (Awaited \subseteq ready) /\ Raise /\ Fault
  /\ UNCHANGED <<case, batch, dir, procs, net, collected, ctrlUp, history>>

\* The manifest is written, then the sender started.
StartSender ==
  /\ Doing("send")
  /\ \/ Go /\ tx' = [tx EXCEPT ![Here.on] = "sending"] /\ UNCHANGED faults
     \/ Raise /\ Fault /\ UNCHANGED tx
  /\ UNCHANGED <<case, batch, dir, ready, rx, net, collected, ctrlUp, history>>

\* Seeded fault: poll for the reply without a timeout or a look at the process.
ConfirmForever ==
  /\ Doing("confirm")
  /\ IF tx[Here.on] = "done" THEN Go ELSE UNCHANGED driver
  /\ UNCHANGED <<case, batch, dir, procs, net, collected, ctrlUp, faults, history>>

ConfirmSender ==
  /\ Doing("confirm")
  /\ \/ tx[Here.on] = "done" /\ Go /\ UNCHANGED faults
     \/ tx[Here.on] = "dead" /\ Raise /\ UNCHANGED faults
     \/ tx[Here.on] = "sending" /\ Raise /\ Fault
  /\ UNCHANGED <<case, batch, dir, procs, net, collected, ctrlUp, history>>

CollectReceiver ==
  /\ Doing("collect")
  /\ \/ /\ rx[Here.on] = "done" /\ Go
        /\ collected' = collected \cup {Here.on}
        /\ blind' = (blind \/ ~ ctrlUp)
        /\ UNCHANGED faults
     \/ /\ rx[Here.on] = "dead" /\ Raise
        /\ UNCHANGED <<collected, blind, faults>>
     \/ /\ RxLive(Here.on) /\ Raise /\ Fault
        /\ UNCHANGED <<collected, blind>>
  /\ UNCHANGED <<case, batch, dir, procs, net, ctrlUp, unseen, wrong>>

\* packet_ins reads the controller's output for three seconds; an output
\* that ended gives what it had. A malformed line, an overflow or an error of
\* the reader raises.
ObserveCpu ==
  /\ Doing("observe")
  /\ \/ /\ \/ rx[Cpu] = "done" /\ UNCHANGED faults
           \/ (\A i \in Rows : wire[<<i, Cpu>>] = 0) /\ UNCHANGED faults
           \/ Fault
        /\ Go
        /\ rx' = [rx EXCEPT ![Cpu] = "done"]
        /\ collected' = collected \cup {Cpu}
        /\ blind' = (blind \/ ~ ctrlUp)
     \/ Raise /\ Fault /\ UNCHANGED <<rx, collected, blind>>
  /\ UNCHANGED <<case, batch, dir, ready, tx, net, ctrlUp, unseen, wrong>>

\* Seeded fault: hosts that expect no frame are not compared.
CheckWantedHosts ==
  /\ Doing("check")
  /\ \/ /\ IF /\ collected = Listen
              /\ \A h \in Listen : (\E i \in Probes : Wanted(i, h) = 1) => ExactAt(h) \/ MeteredAt(h)
           THEN Go ELSE Raise
        /\ UNCHANGED faults
     \/ Raise /\ Fault
  /\ UNCHANGED <<case, batch, dir, procs, net, collected, ctrlUp, history>>

\* Whatever was captured, a reply may be malformed or, in case 07, a burst have
\* taken more than its time, or more of it have passed than that time allows.
CheckDelivery ==
  /\ Doing("check")
  /\ \/ /\ IF collected = Listen /\ Matches THEN Go ELSE Raise
        /\ UNCHANGED faults
     \/ Raise /\ Fault
  /\ UNCHANGED <<case, batch, dir, procs, net, collected, ctrlUp, history>>

LeaveDirectory ==
  /\ At("leave")
  /\ Go /\ dir' = FALSE
  /\ UNCHANGED <<case, batch, procs, net, collected, ctrlUp, faults, history>>

\* finally: stop_probe terminates, or kills, each process that still runs ...
StopProbe ==
  /\ At("finally")
  /\ \E h \in Hosts :
       \/ RxLive(h) /\ rx' = [rx EXCEPT ![h] = "stopped"] /\ UNCHANGED tx
       \/ TxLive(h) /\ tx' = [tx EXCEPT ![h] = "stopped"] /\ UNCHANGED rx
  /\ UNCHANGED <<case, driver, batch, dir, ready, net, collected, ctrlUp, faults, history>>

AllStopped == \A h \in Hosts : ~ RxLive(h) /\ ~ TxLive(h)

\* Seeded fault: only the receivers are stopped.
EndReceivers ==
  /\ At("finally")
  /\ \A h \in Hosts : ~ RxLive(h)
  /\ Go
  /\ wrong' = (wrong \/ ~ Matches \/ \E h \in Listen : rx[h] # "done")
  /\ UNCHANGED <<case, batch, dir, procs, net, collected, ctrlUp, faults, unseen, blind>>

\* ... and the batch is over.
EndFinally ==
  /\ At("finally")
  /\ AllStopped
  /\ Go
  /\ wrong' = (wrong \/ ~ Matches \/ \E h \in Listen : rx[h] # "done")
  /\ UNCHANGED <<case, batch, dir, procs, net, collected, ctrlUp, faults, unseen, blind>>

\* An exception passes the steps that are no cleanup, up to run_test's except.
Unwind ==
  /\ raised /\ verdict = "none"
  /\ IF pc > Len(Program[case]) \/ Here.op = "enter"
     THEN End("FAILURE")
     ELSE Here.op \notin {"leave", "finally"} /\ Go
  /\ UNCHANGED <<case, batch, dir, procs, net, collected, ctrlUp, faults, history>>

Succeed ==
  /\ verdict = "none" /\ ~ raised /\ pc = Len(Program[case]) + 1
  /\ End("SUCCESS")
  /\ UNCHANGED <<case, batch, dir, procs, net, collected, ctrlUp, faults, history>>

Driver ==
  \/ Setup \/ StartController \/ WaitReady \/ Ask \/ Alive
  \/ EnterBatch \/ StartReceiver \/ AwaitReceivers \/ StartSender
  \/ ConfirmSender \/ CollectReceiver \/ ObserveCpu \/ CheckDelivery
  \/ LeaveDirectory \/ StopProbe \/ EndFinally \/ Unwind \/ Succeed

-----------------------------------------------------------------------------
(* The receivers, the senders, the network and the controller. *)

\* The socket captures from here on, before the ready file is written.
BindSocket(h) ==
  /\ rx[h] = "starting"
  /\ rx' = [rx EXCEPT ![h] = "bound"]
  /\ UNCHANGED <<case, driver, batch, dir, ready, tx, net, collected, ctrlUp, faults, history>>

\* Without the directory the ready file cannot be written.
Announce(h) ==
  /\ rx[h] = "bound"
  /\ IF dir
     THEN rx' = [rx EXCEPT ![h] = "listening"] /\ ready' = ready \cup {h}
     ELSE rx' = [rx EXCEPT ![h] = "dead"] /\ UNCHANGED ready
  /\ UNCHANGED <<case, driver, batch, dir, tx, net, collected, ctrlUp, faults, history>>

\* Every receiver is open, the probes of the batch are all sent and none is
\* on the way.
Settled ==
  /\ Awaited \subseteq ready
  /\ Probes \subseteq sent
  /\ \A x \in Cells : wire[x] = 0

\* Seeded fault: the capture ends as soon as it is ready.
CloseAtOnce(h) ==
  /\ h # Cpu /\ rx[h] = "listening"
  /\ rx' = [rx EXCEPT ![h] = "done"]
  /\ UNCHANGED <<case, driver, batch, dir, ready, tx, net, collected, ctrlUp, faults, history>>

\* The capture window ends and the frames are printed.  The windows are
\* longer than a batch takes, unless the host is too slow for them.
CloseWindow(h) ==
  /\ h # Cpu /\ rx[h] = "listening"
  /\ (Settled /\ UNCHANGED faults) \/ Fault
  /\ rx' = [rx EXCEPT ![h] = "done"]
  /\ UNCHANGED <<case, driver, batch, dir, ready, tx, net, collected, ctrlUp, history>>

AsWanted(i) == [h \in Hosts |-> Wanted(i, h)]

\* What the switch makes of probe i: what the case expects ...
Carried(i) ==
  IF Batch.burst = 0 \/ i <= Batch.burst THEN {AsWanted(i)}
  ELSE {[h \in Hosts |-> 0]} \cup (IF i < Len(Batch.probes) THEN {AsWanted(i)} ELSE {})

\* ... or, with a fault, one copy less, one more, or one at a wrong host.
Miscarried(i) ==
  {[AsWanted(i) EXCEPT ![h] = n] : h \in Listen, n \in Count}

SendFrame(h, i) ==
  /\ tx[h] = "sending"
  /\ i \in Mine(h) \ sent
  /\ \A j \in Mine(h) \ sent : i <= j
  /\ \E copies \in Carried(i) \cup Miscarried(i) :
       /\ IF copies \in Carried(i) THEN UNCHANGED faults ELSE Fault
       /\ wire' = [x \in Cells |-> IF x[1] = i THEN copies[x[2]] ELSE wire[x]]
  /\ sent' = sent \cup {i}
  /\ tx' = [tx EXCEPT ![h] = IF Mine(h) \subseteq sent' THEN "done" ELSE @]
  /\ UNCHANGED <<case, driver, batch, dir, ready, rx, heard, collected, ctrlUp, history>>

\* A receiver keeps what its filter lets through: the frames of its batch
\* and, unless the batch has a marker of its own, late ones of earlier batches.
\* (Its own host's frames are PACKET_OUTGOING and never kept.)
Arrive(i, h) ==
  /\ wire[<<i, h>>] > 0
  /\ wire' = [wire EXCEPT ![<<i, h>>] = @ - 1]
  /\ heard' = IF Open(h) /\ (i # 0 \/ ~ Batch.own)
              THEN [heard EXCEPT ![<<i, h>>] = @ + 1]
              ELSE heard
  /\ unseen' = (unseen \/ (i # 0 /\ h \in Listen /\ NotYetOpen(h)))
  /\ UNCHANGED <<case, driver, batch, dir, procs, sent, collected, ctrlUp, faults, wrong, blind>>

ReceiverDies(h) ==
  /\ RxLive(h) /\ Fault
  /\ rx' = [rx EXCEPT ![h] = "dead"]
  /\ UNCHANGED <<case, driver, batch, dir, ready, tx, net, collected, ctrlUp, history>>

SenderDies(h) ==
  /\ TxLive(h) /\ Fault
  /\ tx' = [tx EXCEPT ![h] = "dead"]
  /\ UNCHANGED <<case, driver, batch, dir, ready, rx, net, collected, ctrlUp, history>>

\* Its output ends with it.
ControllerDies ==
  /\ ctrlUp /\ verdict = "none" /\ Fault
  /\ ctrlUp' = FALSE
  /\ rx' = [rx EXCEPT ![Cpu] = IF @ = "listening" THEN "done" ELSE @]
  /\ UNCHANGED <<case, driver, batch, dir, ready, tx, net, collected, history>>

Receiver(h) == BindSocket(h) \/ Announce(h) \/ CloseWindow(h) \/ ReceiverDies(h)
Sender(h) == SenderDies(h) \/ \E i \in Rows : SendFrame(h, i)
Network == \E i \in Rows, h \in Hosts : Arrive(i, h)
Over == verdict # "none" /\ UNCHANGED vars

Next ==
  \/ Driver
  \/ \E h \in Hosts : Receiver(h) \/ Sender(h)
  \/ Network
  \/ ControllerDies
  \/ Over

Safe == Init /\ [][Next]_vars

(***************************************************************************)
(* The driver's thread, every process it starts and the links make         *)
(* progress; nothing obliges a fault to happen.                            *)
(***************************************************************************)
Progress(h) ==
  \/ BindSocket(h) \/ Announce(h)
  \/ Settled /\ CloseWindow(h)
  \/ \E i \in Rows : SendFrame(h, i)

Spec ==
  /\ Safe
  /\ WF_vars(Driver)
  /\ \A h \in Hosts : WF_vars(Progress(h))
  /\ WF_vars(Network)
-----------------------------------------------------------------------------
(* Properties. *)

\* A test that prints SUCCESS is right: in every batch each host captured
\* exactly what the case expects (for a metered burst: the committed burst and
\* not all of the rest) through a receiver that lived to the end of its window,
\* and where the test looks after its controller (all but 05), the controller
\* lived until every capture had been read.
SuccessIsTrue == verdict = "SUCCESS" => ~ wrong /\ (case \in Watched => ~ blind)

\* No copy of a batch's frames reaches a host before that host's receiver has
\* opened its socket: a frame that should have been dropped is never missed
\* because nobody was listening yet.
NothingUnseen == ~ unseen

\* However a test ends, no probe process is left running and no temporary
\* directory is left behind.
NoProbeLeft == verdict # "none" => AllStopped /\ ~ dir

\* The test ends, whatever dies, is late, is lost or is doubled on the way.
Returns == <>(verdict # "none")

\* Without a fault the test succeeds: no order of processes and frames makes
\* it fail by itself.
FaultFreeSucceeds == <>(verdict = "SUCCESS" \/ faults > 0)
=============================================================================
