------------------------- MODULE ProbeDriverProofs -------------------------
(***************************************************************************)
(* Proofs about ProbeDriver for any programs of the shape ShapeAssumption  *)
(* states, any batches and any number of hosts, probes, copies and faults. *)
(***************************************************************************)
EXTENDS ProbeDriver, TLAPS

-----------------------------------------------------------------------------
(* Positions in a program. *)

\* A cleanup step that lies ahead is still ahead after a step that is neither
\* it nor the start of a batch; and no batch starts before it.
LEMMA AheadStep ==
  ASSUME NEW c \in Cases, NEW p \in 1..Len(Program[c]), NEW op,
         Ahead(c, p, op), Op(c, p) # op
  PROVE  Op(c, p) # "enter" /\ Ahead(c, p + 1, op)
<1>1. Len(Program[c]) \in Nat
  BY ProgramAssumption
<1>2. PICK q \in p..Len(Program[c]) : Op(c, q) = op /\ SameBatch(c, p, q)
  BY DEF Ahead
<1>3. q # p
  BY <1>2
<1>4. q \in (p + 1)..Len(Program[c]) /\ SameBatch(c, p + 1, q)
  BY <1>1, <1>2, <1>3 DEF SameBatch
<1>5. Op(c, p) # "enter"
  BY <1>1, <1>2 DEF SameBatch
<1> QED
  BY <1>2, <1>4, <1>5 DEF Ahead

\* What lies behind in the batch stays behind within the batch, and is itself
\* the last step when it was not behind before.
LEMMA BehindStep ==
  ASSUME NEW c \in Cases, NEW p \in 1..Len(Program[c]), NEW op
  PROVE  /\ Behind(c, p, op) /\ Op(c, p) # "enter" => Behind(c, p + 1, op)
         /\ Behind(c, p + 1, op) => Op(c, p) # "enter" \/ op = "enter"
         /\ Behind(c, p + 1, op) => Behind(c, p, op) \/ Op(c, p) = op
         /\ Op(c, p) = op /\ op # "enter" => Behind(c, p + 1, op)
<1>1. Len(Program[c]) \in Nat
  BY ProgramAssumption
<1>2. ASSUME Behind(c, p, op), Op(c, p) # "enter" PROVE Behind(c, p + 1, op)
  BY <1>1, <1>2 DEF Behind, SameBatch
<1>3. ASSUME Behind(c, p + 1, op) PROVE Op(c, p) # "enter" \/ op = "enter"
  BY <1>1, <1>3 DEF Behind, SameBatch
<1>4. ASSUME Behind(c, p + 1, op) PROVE Behind(c, p, op) \/ Op(c, p) = op
  <2>1. PICK q \in 1..p : Op(c, q) = op /\ SameBatch(c, q, p)
    BY <1>1, <1>4 DEF Behind
  <2>2. CASE q = p
    BY <2>1, <2>2
  <2>3. CASE q # p
    <3>1. q \in 1..(p - 1) /\ SameBatch(c, q, p - 1)
      BY <1>1, <2>1, <2>3 DEF SameBatch
    <3> QED
      BY <2>1, <3>1 DEF Behind
  <2> QED
    BY <2>2, <2>3
<1>5. ASSUME Op(c, p) = op, op # "enter" PROVE Behind(c, p + 1, op)
  <2>1. p \in 1..((p + 1) - 1) /\ SameBatch(c, p, (p + 1) - 1)
    BY <1>1, <1>5 DEF SameBatch
  <2> QED
    BY <1>5, <2>1 DEF Behind
<1> QED
  BY <1>2, <1>3, <1>4, <1>5

LEMMA ReceivedStep ==
  ASSUME NEW c \in Cases, NEW p \in 1..Len(Program[c]), NEW h, Op(c, p) # "enter"
  PROVE  /\ Received(c, p, h) => Received(c, p + 1, h)
         /\ Op(c, p) = "receive" /\ Program[c][p].on = h => Received(c, p + 1, h)
<1>1. Len(Program[c]) \in Nat
  BY ProgramAssumption
<1>2. ASSUME Received(c, p, h) PROVE Received(c, p + 1, h)
  BY <1>1, <1>2 DEF Received, SameBatch
<1>3. ASSUME Op(c, p) = "receive", Program[c][p].on = h PROVE Received(c, p + 1, h)
  <2>1. p \in 1..((p + 1) - 1) /\ SameBatch(c, p, (p + 1) - 1)
    BY <1>1, <1>3 DEF SameBatch
  <2> QED
    BY <1>3, <2>1 DEF Received
<1> QED
  BY <1>2, <1>3

\* The batch in hand is one of the case's, or the empty one.
LEMMA BatchFacts ==
  ASSUME TypeOK
  PROVE  /\ Listen \subseteq Hosts /\ Awaited \subseteq Hosts
         /\ Probes \subseteq Rows \ {0}
         /\ \A i \in Probes, h \in Hosts : Wanted(i, h) \in {0, 1}
         /\ \A h \in Hosts : Mine(h) \subseteq Probes
<1>1. CASE batch = 0
  <2>1. Listen = {} /\ Probes = {}
    BY <1>1 DEF Listen, Probes, Batch, NoBatch
  <2> QED
    BY <2>1 DEF Awaited, Mine, Wanted
<1>2. CASE batch # 0
  <2>1. batch \in 1..Len(Batches[case]) /\ case \in Cases
    BY <1>2 DEF TypeOK
  <2>2. Batch = Batches[case][batch]
    BY <1>2 DEF Batch
  <2>3. Batch.listen \subseteq Hosts /\ Len(Batch.probes) \in Rows
    BY <2>1, <2>2, BatchAssumption
  <2>4. Probes \subseteq Rows \ {0}
    BY <2>3, BoundsAssumption DEF Probes, Rows
  <2> QED
    BY <2>3, <2>4 DEF Listen, Awaited, Mine, Wanted, Probes
<1> QED
  BY <1>1, <1>2

-----------------------------------------------------------------------------
(* Types. *)

\* A cell holds at most MaxCopies, on the wire and captured together, and
\* nothing of a probe that was not sent.
Bounded == \A x \in Cells : wire[x] + heard[x] <= MaxCopies
Unsent ==
  \A i \in Rows, h \in Hosts :
    i # 0 /\ i \notin sent => wire[<<i, h>>] = 0 /\ heard[<<i, h>>] = 0
TypeInv == TypeOK /\ Bounded /\ Unsent

\* What the switch makes of a probe is a number of copies for each host.
LEMMA CopiesType ==
  ASSUME TypeOK, NEW i \in Probes, NEW copies \in Carried(i) \cup Miscarried(i)
  PROVE  copies \in [Hosts -> Count]
<1>1. {0, 1} \subseteq Count
  BY BoundsAssumption DEF Count
<1>2. AsWanted(i) \in [Hosts -> Count]
  BY <1>1, BatchFacts DEF AsWanted
<1>3. [h \in Hosts |-> 0] \in [Hosts -> Count]
  BY <1>1
<1>4. Carried(i) \subseteq [Hosts -> Count]
  BY <1>2, <1>3 DEF Carried
<1>5. Miscarried(i) \subseteq [Hosts -> Count]
  BY <1>2 DEF Miscarried
<1> QED
  BY <1>4, <1>5

\* The steps that leave the network and the processes alone.
Quiet ==
  \/ Ask \/ Setup \/ StartController \/ WaitReady \/ Alive \/ AwaitReceivers
  \/ ConfirmSender \/ CheckDelivery \/ LeaveDirectory \/ EndFinally \/ Unwind \/ Succeed

LEMMA QuietTypes ==
  ASSUME TypeInv, Quiet
  PROVE  TypeInv'
<1> USE DEF Quiet, TypeInv, TypeOK
<1>1. Len(Program[case]) \in Nat
  BY ProgramAssumption
<1>2. MaxFaults[case] \in Nat
  BY BoundsAssumption
<1>3. case' = case /\ batch' = batch /\ UNCHANGED <<procs, net>>
  BY DEF Ask, Setup, StartController, WaitReady, Alive, AwaitReceivers, ConfirmSender,
         CheckDelivery, LeaveDirectory, EndFinally, Unwind, Succeed, history
<1>12. /\ pc' = pc \/ (pc' = pc + 1 /\ pc <= Len(Program[case]))
       /\ raised' = raised \/ raised' = TRUE
       /\ verdict' = verdict \/ verdict' \in {"SUCCESS", "FAILURE", "NOT_READY", "ERROR"}
  BY <1>1 DEF Ask, Setup, StartController, WaitReady, Alive, AwaitReceivers, ConfirmSender,
         CheckDelivery, LeaveDirectory, EndFinally, Unwind, Succeed,
         Doing, At, Go, Raise, End
<1>4. pc' \in 1..(Len(Program[case]) + 1) /\ verdict' \in Verdicts
  BY <1>1, <1>12 DEF Verdicts
<1>13. raised' \in BOOLEAN
  BY <1>12, Zenon
<1>5. faults' \in 0..MaxFaults[case]
  BY <1>2 DEF Ask, Setup, StartController, WaitReady, Alive, AwaitReceivers, ConfirmSender,
         CheckDelivery, LeaveDirectory, EndFinally, Unwind, Succeed, Fault
<1>6. /\ dir' = dir \/ dir' = FALSE
      /\ collected' = collected /\ unseen' = unseen /\ blind' = blind
  BY DEF Ask, Setup, StartController, WaitReady, Alive, AwaitReceivers, ConfirmSender,
         CheckDelivery, LeaveDirectory, EndFinally, Unwind, Succeed, history
<1>11. dir' \in BOOLEAN
  BY <1>6, Zenon
<1>9. ctrlUp' \in BOOLEAN
  <2>1. CASE StartController
    BY <2>1, Zenon DEF StartController
  <2> QED
    BY <2>1 DEF Ask, Setup, WaitReady, Alive, AwaitReceivers, ConfirmSender,
         CheckDelivery, LeaveDirectory, EndFinally, Unwind, Succeed
<1>10. wrong' \in BOOLEAN
  <2>1. CASE EndFinally
    BY <2>1, Zenon DEF EndFinally
  <2> QED
    BY <2>1 DEF Ask, Setup, StartController, WaitReady, Alive, AwaitReceivers, ConfirmSender,
         CheckDelivery, LeaveDirectory, Unwind, Succeed, history
<1>7. TypeOK'
  BY <1>3, <1>4, <1>5, <1>6, <1>9, <1>10, <1>11, <1>13 DEF procs, net
<1>8. Bounded' /\ Unsent'
  BY <1>3 DEF Bounded, Unsent, net
<1> QED
  BY <1>7, <1>8

LEMMA EnterTypes ==
  ASSUME TypeInv, EnterBatch
  PROVE  TypeInv'
<1> USE DEF EnterBatch, TypeInv, TypeOK, history
<1>1. Len(Program[case]) \in Nat
  BY ProgramAssumption
<1>2. pc' \in 1..(Len(Program[case]) + 1) /\ raised' = raised /\ verdict' = verdict
  BY <1>1 DEF Doing, At, Go
<1>3. batch' \in 0..Len(Batches[case])
  OBVIOUS
<1>4. rx' \in [Hosts -> RxStates] /\ tx' \in [Hosts -> TxStates]
  BY DEF RxStates, TxStates
<1>5. wire' \in [Cells -> {0, 1}] /\ heard' \in [Cells -> {0}]
  BY DEF Nowhere
<1>6. {0, 1} \subseteq Count /\ MaxCopies \in Nat \ {0}
  BY BoundsAssumption DEF Count
<1>7. wire' \in [Cells -> Count] /\ heard' \in [Cells -> Count]
  BY <1>5, <1>6
<1>8. TypeOK'
  <2>1. sent' \subseteq Rows /\ ready' \subseteq Hosts /\ collected' \subseteq Hosts
    OBVIOUS
  <2>2. case' = case /\ ctrlUp' = ctrlUp /\ faults' = faults
        /\ unseen' = unseen /\ wrong' = wrong /\ blind' = blind
    OBVIOUS
  <2>3. dir' \in BOOLEAN
    BY Zenon
  <2> QED
    BY <1>2, <1>3, <1>4, <1>7, <2>1, <2>2, <2>3
<1>9. Bounded'
  BY <1>5, <1>6 DEF Bounded
<1>10. Unsent'
  BY DEF Unsent, Nowhere, Cells
<1> QED
  BY <1>8, <1>9, <1>10

\* The driver's steps that start, read or stop one process.
LEMMA ProcessTypes ==
  ASSUME TypeInv, StartReceiver \/ StartSender \/ CollectReceiver \/ ObserveCpu \/ StopProbe
  PROVE  TypeInv'
<1> USE DEF TypeInv, TypeOK
<1>1. Len(Program[case]) \in Nat
  BY ProgramAssumption
<1>2. MaxFaults[case] \in Nat
  BY BoundsAssumption
<1>3. UNCHANGED <<case, batch, dir, ready, net, ctrlUp, unseen, wrong>>
  BY DEF StartReceiver, StartSender, CollectReceiver, ObserveCpu, StopProbe, procs, history
<1>4. /\ pc' = pc \/ (pc' = pc + 1 /\ pc <= Len(Program[case]))
      /\ raised' = raised \/ raised' = TRUE
      /\ verdict' = verdict
  BY DEF StartReceiver, StartSender, CollectReceiver, ObserveCpu, StopProbe,
         Doing, At, Go, Raise, driver
<1>5. pc' \in 1..(Len(Program[case]) + 1)
  BY <1>1, <1>4
<1>6. raised' \in BOOLEAN
  BY <1>4, Zenon
<1>7. faults' \in 0..MaxFaults[case]
  BY <1>2 DEF StartReceiver, StartSender, CollectReceiver, ObserveCpu, StopProbe, Fault
<1>8. rx' \in [Hosts -> RxStates] /\ tx' \in [Hosts -> TxStates]
  BY DEF StartReceiver, StartSender, CollectReceiver, ObserveCpu, StopProbe, procs,
         RxStates, TxStates
<1>9. collected' \subseteq Hosts
  <2>1. CASE CollectReceiver
    <3>1. Here.on \in Hosts
      BY <2>1, <1>1, ShapeAssumption DEF CollectReceiver, Doing, At, Here, Op
    <3> QED
      BY <2>1, <3>1 DEF CollectReceiver
  <2>2. CASE ObserveCpu
    BY <2>2, BoundsAssumption DEF ObserveCpu
  <2> QED
    BY <2>1, <2>2 DEF StartReceiver, StartSender, StopProbe
<1>10. blind' \in BOOLEAN
  <2>1. blind' = blind \/ blind' = (blind \/ ~ ctrlUp)
    BY DEF StartReceiver, StartSender, CollectReceiver, ObserveCpu, StopProbe, history
  <2> QED
    BY <2>1, Zenon
<1>11. TypeOK'
  BY <1>3, <1>4, <1>5, <1>6, <1>7, <1>8, <1>9, <1>10 DEF net
<1>12. Bounded' /\ Unsent'
  BY <1>3 DEF Bounded, Unsent, net
<1> QED
  BY <1>11, <1>12

\* The steps of a process, and the end of the controller.
LEMMA OwnStepTypes ==
  ASSUME TypeInv,
         ControllerDies \/ \E h \in Hosts : BindSocket(h) \/ Announce(h) \/ CloseWindow(h)
                                            \/ ReceiverDies(h) \/ SenderDies(h)
  PROVE  TypeInv'
<1> USE DEF TypeInv, TypeOK
<1>1. MaxFaults[case] \in Nat
  BY BoundsAssumption
<1>2. UNCHANGED <<case, driver, batch, dir, net, collected, history>>
  BY DEF ControllerDies, BindSocket, Announce, CloseWindow, ReceiverDies, SenderDies
<1>3. faults' \in 0..MaxFaults[case]
  BY <1>1 DEF ControllerDies, BindSocket, Announce, CloseWindow, ReceiverDies, SenderDies, Fault
<1>4. rx' \in [Hosts -> RxStates] /\ tx' \in [Hosts -> TxStates] /\ ready' \subseteq Hosts
  <2>1. CASE ControllerDies
    BY <2>1 DEF ControllerDies, RxStates
  <2>2. ASSUME NEW h \in Hosts, BindSocket(h) \/ Announce(h) \/ CloseWindow(h)
                                \/ ReceiverDies(h) \/ SenderDies(h)
        PROVE  rx' \in [Hosts -> RxStates] /\ tx' \in [Hosts -> TxStates] /\ ready' \subseteq Hosts
    BY <2>2 DEF BindSocket, Announce, CloseWindow, ReceiverDies, SenderDies, RxStates, TxStates
  <2> QED
    BY <2>1, <2>2
<1>5. ctrlUp' = ctrlUp \/ ctrlUp' = FALSE
  BY DEF ControllerDies, BindSocket, Announce, CloseWindow, ReceiverDies, SenderDies
<1>6. ctrlUp' \in BOOLEAN
  BY <1>5, Zenon
<1>7. TypeOK'
  BY <1>2, <1>3, <1>4, <1>6 DEF driver, net, history
<1>8. Bounded' /\ Unsent'
  BY <1>2 DEF Bounded, Unsent, net
<1> QED
  BY <1>7, <1>8

LEMMA SendTypes ==
  ASSUME TypeInv, NEW h \in Hosts, NEW i \in Rows, SendFrame(h, i)
  PROVE  TypeInv'
<1> USE DEF TypeInv, TypeOK
<1>1. i \in Probes /\ i # 0 /\ i \notin sent
  BY BatchFacts DEF SendFrame
<1>2. PICK copies \in Carried(i) \cup Miscarried(i) :
        /\ IF copies \in Carried(i) THEN UNCHANGED faults ELSE Fault
        /\ wire' = [x \in Cells |-> IF x[1] = i THEN copies[x[2]] ELSE wire[x]]
  BY DEF SendFrame
<1>3. copies \in [Hosts -> Count]
  BY <1>1, CopiesType
<1>4. \A x \in Cells : x[1] \in Rows /\ x[2] \in Hosts /\ x = <<x[1], x[2]>>
  BY DEF Cells
<1>5. wire' \in [Cells -> Count]
  BY <1>2, <1>3, <1>4
<1>6. UNCHANGED <<case, driver, batch, dir, ready, rx, heard, collected, ctrlUp, history>>
  BY DEF SendFrame
<1>7. faults' \in 0..MaxFaults[case]
  BY <1>2, BoundsAssumption DEF Fault
<1>8. tx' \in [Hosts -> TxStates] /\ sent' \subseteq Rows
  BY DEF SendFrame, TxStates
<1>9. TypeOK'
  BY <1>5, <1>6, <1>7, <1>8 DEF driver, history
<1>10. Bounded'
  <2> SUFFICES ASSUME NEW x \in Cells PROVE wire'[x] + heard'[x] <= MaxCopies
    BY DEF Bounded
  <2>1. CASE x[1] = i
    <3>1. heard[x] = 0
      BY <1>1, <1>4, <2>1 DEF Unsent
    <3>2. wire'[x] \in Count /\ heard'[x] = 0
      BY <1>5, <1>6, <3>1
    <3> QED
      BY <3>2, BoundsAssumption DEF Count
  <2>2. CASE x[1] # i
    BY <1>2, <1>6, <2>2 DEF Bounded
  <2> QED
    BY <2>1, <2>2
<1>11. Unsent'
  <2> SUFFICES ASSUME NEW j \in Rows, NEW k \in Hosts, j # 0, j \notin sent'
               PROVE  wire'[<<j, k>>] = 0 /\ heard'[<<j, k>>] = 0
    BY DEF Unsent
  <2>1. j # i /\ j \notin sent /\ <<j, k>> \in Cells
    BY DEF SendFrame, Cells
  <2> QED
    BY <1>2, <1>6, <2>1 DEF Unsent
<1> QED
  BY <1>9, <1>10, <1>11

LEMMA ArriveTypes ==
  ASSUME TypeInv, NEW i \in Rows, NEW h \in Hosts, Arrive(i, h)
  PROVE  TypeInv'
<1> USE DEF TypeInv, TypeOK
<1> DEFINE x0 == <<i, h>>
<1>1. x0 \in Cells /\ MaxCopies \in Nat
  BY BoundsAssumption DEF Cells
<1>2. wire[x0] \in Nat /\ heard[x0] \in Nat /\ wire[x0] > 0 /\ wire[x0] + heard[x0] <= MaxCopies
  BY <1>1 DEF Arrive, Bounded, Count
<1>3. UNCHANGED <<case, driver, batch, dir, procs, sent, collected, ctrlUp, faults, wrong, blind>>
  BY DEF Arrive
<1>4. wire' = [wire EXCEPT ![x0] = @ - 1]
  BY DEF Arrive
<1>5. heard' = heard \/ heard' = [heard EXCEPT ![x0] = @ + 1]
  BY DEF Arrive
<1>12. wire[x0] - 1 \in Count /\ heard[x0] + 1 \in Count
  BY <1>1, <1>2 DEF Count
<1>6. wire' \in [Cells -> Count]
  BY <1>1, <1>4, <1>12
<1>7. heard' \in [Cells -> Count]
  BY <1>1, <1>5, <1>12
<1>8. unseen' \in BOOLEAN
  BY Zenon DEF Arrive
<1>9. TypeOK'
  BY <1>3, <1>6, <1>7, <1>8 DEF driver, procs
<1>10. Bounded'
  <2> SUFFICES ASSUME NEW x \in Cells PROVE wire'[x] + heard'[x] <= MaxCopies
    BY DEF Bounded
  <2>1. CASE x = x0
    <3>1. wire'[x0] = wire[x0] - 1 /\ heard'[x0] \in {heard[x0], heard[x0] + 1}
      BY <1>1, <1>4, <1>5
    <3> QED
      BY <1>1, <1>2, <2>1, <3>1
  <2>2. CASE x # x0
    <3>1. wire'[x] = wire[x] /\ heard'[x] = heard[x]
      BY <1>1, <1>4, <1>5, <2>2
    <3> QED
      BY <3>1 DEF Bounded
  <2> QED
    BY <2>1, <2>2
<1>11. Unsent'
  <2> SUFFICES ASSUME NEW j \in Rows, NEW k \in Hosts, j # 0, j \notin sent'
               PROVE  wire'[<<j, k>>] = 0 /\ heard'[<<j, k>>] = 0
    BY DEF Unsent
  <2>1. wire[<<j, k>>] = 0 /\ heard[<<j, k>>] = 0 /\ <<j, k>> \in Cells
    BY <1>3 DEF Unsent, Cells
  <2>2. <<j, k>> # x0
    BY <1>2, <2>1
  <2> QED
    BY <1>1, <1>4, <1>5, <2>1, <2>2
<1> QED
  BY <1>9, <1>10, <1>11

LEMMA TypeInit == Init => TypeInv
<1> SUFFICES ASSUME Init PROVE TypeInv
  OBVIOUS
<1>1. Len(Program[case]) \in Nat /\ MaxFaults[case] \in Nat
  BY ProgramAssumption, BoundsAssumption DEF Init
<1>2. 0 \in Count /\ MaxCopies \in Nat
  BY BoundsAssumption DEF Count
<1>3. wire \in [Cells -> {0}] /\ heard \in [Cells -> {0}]
  BY DEF Init, Nowhere
<1>4. TypeOK
  <2>1. 0 \in 0..Len(Batches[case])
    BY BatchAssumption DEF Init
  <2> QED
    <3>1. wire \in [Cells -> Count] /\ heard \in [Cells -> Count]
      BY <1>2, <1>3
    <3>2. rx \in [Hosts -> RxStates] /\ tx \in [Hosts -> TxStates] /\ verdict \in Verdicts
      BY DEF Init, RxStates, TxStates, Verdicts
    <3>3. pc \in 1..(Len(Program[case]) + 1) /\ faults \in 0..MaxFaults[case]
      BY <1>1 DEF Init
    <3> QED
      BY <2>1, <3>1, <3>2, <3>3 DEF Init, TypeOK
<1>5. Bounded /\ Unsent
  BY <1>2, <1>3 DEF Bounded, Unsent, Cells
<1> QED
  BY <1>4, <1>5 DEF TypeInv

LEMMA TypeStep == TypeInv /\ [Next]_vars => TypeInv'
<1> SUFFICES ASSUME TypeInv, [Next]_vars PROVE TypeInv'
  OBVIOUS
<1>1. CASE Quiet
  BY <1>1, QuietTypes
<1>2. CASE EnterBatch
  BY <1>2, EnterTypes
<1>3. CASE StartReceiver \/ StartSender \/ CollectReceiver \/ ObserveCpu \/ StopProbe
  BY <1>3, ProcessTypes
<1>4. CASE ControllerDies \/ \E h \in Hosts : BindSocket(h) \/ Announce(h) \/ CloseWindow(h)
                                              \/ ReceiverDies(h) \/ SenderDies(h)
  BY <1>4, OwnStepTypes
<1>5. CASE \E h \in Hosts, i \in Rows : SendFrame(h, i)
  BY <1>5, SendTypes
<1>6. CASE Network
  BY <1>6, ArriveTypes DEF Network
<1>7. CASE UNCHANGED vars
  BY <1>7 DEF vars, TypeInv, TypeOK, Bounded, Unsent
<1> QED
  BY <1>1, <1>2, <1>3, <1>4, <1>5, <1>6, <1>7
     DEF Next, Driver, Quiet, Receiver, Sender, Over

\* In every state the variables have their types: no capture ever holds more
\* copies of a frame than the network made, in this batch.
THEOREM TypeCorrect == Spec => []TypeOK
<1>1. TypeInv => TypeOK
  BY DEF TypeInv
<1> QED
  BY <1>1, TypeInit, TypeStep, PTL DEF Spec, Safe

THEOREM TypeInvariance == Spec => []TypeInv
  BY TypeInit, TypeStep, PTL DEF Spec, Safe

-----------------------------------------------------------------------------
(* Nothing is left behind. *)

\* A process that still runs has its finally ahead, and the directory its end.
CleanInv ==
  /\ ~ AllStopped => verdict = "none" /\ Ahead(case, pc, "finally")
  /\ dir => verdict = "none" /\ Ahead(case, pc, "leave")

LEMMA Position ==
  ASSUME TypeOK, NEW op, At(op)
  PROVE  /\ pc \in 1..Len(Program[case]) /\ case \in Cases
         /\ Op(case, pc) = op /\ Here = Program[case][pc]
         /\ verdict = "none" /\ Len(Program[case]) \in Nat
BY ProgramAssumption DEF TypeOK, At, Here, Op

LEMMA AheadInside ==
  ASSUME TypeOK, NEW op, Ahead(case, pc, op)
  PROVE  pc \in 1..Len(Program[case])
BY ProgramAssumption DEF TypeOK, Ahead

\* The steps that start no process, and neither stop one nor remove the directory.
Passing ==
  \/ Ask \/ Setup \/ StartController \/ WaitReady \/ Alive \/ AwaitReceivers
  \/ ConfirmSender \/ CollectReceiver \/ ObserveCpu \/ CheckDelivery \/ Succeed

LEMMA CleanPassing ==
  ASSUME TypeOK, CleanInv, Passing
  PROVE  CleanInv'
<1> USE DEF Passing
<1>1. /\ case' = case /\ dir' = dir /\ tx' = tx
      /\ \A h \in Hosts \ {Cpu} : rx'[h] = rx[h]
  BY DEF Ask, Setup, StartController, WaitReady, Alive, AwaitReceivers, ConfirmSender,
         CollectReceiver, ObserveCpu, CheckDelivery, Succeed, procs, TypeOK
<1>2. AllStopped' = AllStopped
  BY <1>1 DEF AllStopped, RxLive, TxLive
<1>3. CASE verdict' = verdict /\ pc' = pc
  BY <1>1, <1>2, <1>3 DEF CleanInv
<1>4. CASE pc' = pc + 1 /\ verdict' = verdict
  <2>1. PICK op \in Ops \ {"finally", "leave", "enter"} : At(op)
    BY <1>4 DEF Ask, Setup, StartController, WaitReady, Alive, AwaitReceivers, ConfirmSender,
         CollectReceiver, ObserveCpu, CheckDelivery, Succeed, Doing, End, Ops, TypeOK
  <2>2. /\ Ahead(case, pc, "finally") => Ahead(case, pc + 1, "finally")
        /\ Ahead(case, pc, "leave") => Ahead(case, pc + 1, "leave")
    BY <2>1, Position, AheadStep
  <2> QED
    BY <1>1, <1>2, <1>4, <2>2 DEF CleanInv
<1>5. CASE verdict' # verdict
  <2>1. \/ At("setup") \/ At("start") \/ At("ready") \/ pc = Len(Program[case]) + 1
    BY <1>5 DEF Ask, Setup, StartController, WaitReady, Alive, AwaitReceivers, ConfirmSender,
         CollectReceiver, ObserveCpu, CheckDelivery, Succeed, Doing, Go, Raise
  <2>2. ~ Ahead(case, pc, "finally") /\ ~ Ahead(case, pc, "leave")
    <3>1. CASE At("setup") \/ At("start") \/ At("ready")
      BY <3>1, Position, ShapeAssumption
    <3>2. CASE pc = Len(Program[case]) + 1
      BY <3>2, AheadInside, ProgramAssumption DEF TypeOK
    <3> QED
      BY <2>1, <3>1, <3>2
  <2> QED
    BY <1>1, <1>2, <2>2 DEF CleanInv
<1>6. (pc' = pc \/ pc' = pc + 1) /\ (verdict' # verdict => pc' = pc)
  BY DEF Ask, Setup, StartController, WaitReady, Alive, AwaitReceivers, ConfirmSender,
         CollectReceiver, ObserveCpu, CheckDelivery, Succeed, Go, Raise, End
<1> QED
  BY <1>3, <1>4, <1>5, <1>6

LEMMA CleanStart ==
  ASSUME TypeOK, CleanInv, StartReceiver \/ StartSender
  PROVE  CleanInv'
<1>1. PICK op \in {"receive", "send"} : At(op)
  BY DEF StartReceiver, StartSender, Doing
<1>2. case' = case /\ dir' = dir /\ verdict' = verdict /\ verdict = "none"
  BY <1>1, Position DEF StartReceiver, StartSender, Go, Raise
<1>3. Ahead(case, pc, "finally")
  BY <1>1, Position, ShapeAssumption
<1>4. Ahead(case, pc + 1, "finally") /\ (Ahead(case, pc, "leave") => Ahead(case, pc + 1, "leave"))
  BY <1>1, <1>3, Position, AheadStep
<1>5. pc' = pc \/ pc' = pc + 1
  BY DEF StartReceiver, StartSender, Go, Raise
<1> QED
  BY <1>2, <1>3, <1>4, <1>5 DEF CleanInv

LEMMA CleanEnter ==
  ASSUME TypeOK, CleanInv, EnterBatch
  PROVE  CleanInv'
<1>1. At("enter") /\ pc' = pc + 1 /\ case' = case /\ verdict' = "none"
  BY DEF EnterBatch, Doing, At, Go
<1>2. Ahead(case, pc + 1, "leave")
  BY <1>1, Position, ShapeAssumption
<1>3. AllStopped'
  BY DEF EnterBatch, AllStopped, RxLive, TxLive
<1> QED
  BY <1>1, <1>2, <1>3 DEF CleanInv

LEMMA CleanCleanup ==
  ASSUME TypeOK, CleanInv, LeaveDirectory \/ EndFinally
  PROVE  CleanInv'
<1>1. case' = case /\ rx' = rx /\ tx' = tx /\ pc' = pc + 1 /\ verdict' = verdict
  BY DEF LeaveDirectory, EndFinally, procs, Go
<1>2. AllStopped' = AllStopped
  BY <1>1 DEF AllStopped, RxLive, TxLive
<1>3. CASE LeaveDirectory
  <2>1. At("leave") /\ dir' = FALSE
    BY <1>3 DEF LeaveDirectory
  <2>2. Ahead(case, pc, "finally") => Ahead(case, pc + 1, "finally")
    BY <2>1, Position, AheadStep
  <2> QED
    BY <1>1, <1>2, <2>1, <2>2 DEF CleanInv
<1>4. CASE EndFinally
  <2>1. At("finally") /\ dir' = dir /\ AllStopped
    BY <1>4 DEF EndFinally
  <2>2. Ahead(case, pc, "leave") => Ahead(case, pc + 1, "leave")
    BY <2>1, Position, AheadStep
  <2> QED
    BY <1>1, <1>2, <2>1, <2>2 DEF CleanInv
<1> QED
  BY <1>3, <1>4

LEMMA CleanUnwind ==
  ASSUME TypeOK, CleanInv, Unwind
  PROVE  CleanInv'
<1>1. case' = case /\ dir' = dir /\ AllStopped' = AllStopped /\ verdict = "none"
  BY DEF Unwind, procs, AllStopped, RxLive, TxLive
<1>2. CASE pc > Len(Program[case]) \/ Here.op = "enter"
  <2>1. ~ Ahead(case, pc, "finally") /\ ~ Ahead(case, pc, "leave")
    <3>1. ASSUME NEW op \in {"finally", "leave"}, Ahead(case, pc, op) PROVE FALSE
      <4>1. pc \in 1..Len(Program[case]) /\ case \in Cases /\ Len(Program[case]) \in Nat
        BY <3>1, AheadInside, ProgramAssumption DEF TypeOK
      <4>2. Op(case, pc) = "enter"
        BY <1>2, <4>1 DEF Here, Op
      <4> QED
        BY <3>1, <4>1, <4>2, AheadStep
    <3> QED
      BY <3>1
  <2> QED
    BY <1>1, <2>1 DEF CleanInv
<1>3. CASE ~ (pc > Len(Program[case]) \/ Here.op = "enter")
  <2>1. pc' = pc + 1 /\ verdict' = verdict /\ Here.op \notin {"leave", "finally"}
    BY <1>3 DEF Unwind, Go
  <2>2. pc \in 1..Len(Program[case]) /\ case \in Cases /\ Here.op = Op(case, pc)
    BY <1>3, ProgramAssumption DEF TypeOK, Here, Op
  <2>3. /\ Ahead(case, pc, "finally") => Ahead(case, pc + 1, "finally")
        /\ Ahead(case, pc, "leave") => Ahead(case, pc + 1, "leave")
    BY <2>1, <2>2, AheadStep
  <2> QED
    BY <1>1, <2>1, <2>3 DEF CleanInv
<1> QED
  BY <1>2, <1>3

\* No process but the driver brings another to life.
LEMMA CleanOther ==
  ASSUME TypeOK, CleanInv,
         \/ StopProbe \/ ControllerDies \/ Network \/ UNCHANGED vars
         \/ \E h \in Hosts : Receiver(h) \/ Sender(h)
  PROVE  CleanInv'
<1>1. case' = case /\ pc' = pc /\ verdict' = verdict /\ dir' = dir
  BY DEF StopProbe, ControllerDies, Network, Arrive, vars, driver, Receiver, Sender,
         BindSocket, Announce, CloseWindow, ReceiverDies, SenderDies, SendFrame
<1>2. \A k \in Hosts : (RxLive(k)' => RxLive(k)) /\ (TxLive(k)' => TxLive(k))
  <2> SUFFICES ASSUME NEW k \in Hosts
               PROVE  (RxLive(k)' => RxLive(k)) /\ (TxLive(k)' => TxLive(k))
    OBVIOUS
  <2> USE DEF TypeOK, RxLive, TxLive
  <2>1. CASE StopProbe
    BY <2>1 DEF StopProbe
  <2>2. CASE ControllerDies
    BY <2>2 DEF ControllerDies
  <2>3. CASE Network
    BY <2>3 DEF Network, Arrive, procs
  <2>4. CASE UNCHANGED vars
    BY <2>4 DEF vars
  <2>5. ASSUME NEW h \in Hosts, Receiver(h) PROVE (RxLive(k)' => RxLive(k)) /\ (TxLive(k)' => TxLive(k))
    BY <2>5 DEF Receiver, BindSocket, Announce, CloseWindow, ReceiverDies
  <2>6. ASSUME NEW h \in Hosts, Sender(h) PROVE (RxLive(k)' => RxLive(k)) /\ (TxLive(k)' => TxLive(k))
    BY <2>6 DEF Sender, SenderDies, SendFrame
  <2> QED
    BY <2>1, <2>2, <2>3, <2>4, <2>5, <2>6
<1>3. AllStopped => AllStopped'
  BY <1>2 DEF AllStopped
<1> QED
  BY <1>1, <1>3 DEF CleanInv

LEMMA CleanStep == TypeOK /\ CleanInv /\ [Next]_vars => CleanInv'
<1> SUFFICES ASSUME TypeOK, CleanInv, [Next]_vars PROVE CleanInv'
  OBVIOUS
<1>1. CASE Passing
  BY <1>1, CleanPassing
<1>2. CASE StartReceiver \/ StartSender
  BY <1>2, CleanStart
<1>3. CASE EnterBatch
  BY <1>3, CleanEnter
<1>4. CASE LeaveDirectory \/ EndFinally
  BY <1>4, CleanCleanup
<1>5. CASE Unwind
  BY <1>5, CleanUnwind
<1>6. CASE \/ StopProbe \/ ControllerDies \/ Network \/ UNCHANGED vars
           \/ \E h \in Hosts : Receiver(h) \/ Sender(h)
  BY <1>6, CleanOther
<1> QED
  BY <1>1, <1>2, <1>3, <1>4, <1>5, <1>6 DEF Next, Driver, Passing, Over

\* However a test of this shape ends, by SUCCESS, by any exception at any step
\* or without a ready controller, no probe process runs and no directory is left.
THEOREM NothingIsLeft == Spec => []NoProbeLeft
<1>1. Init => CleanInv
  BY DEF Init, CleanInv, AllStopped, RxLive, TxLive
<1>2. CleanInv => NoProbeLeft
  BY DEF CleanInv, NoProbeLeft
<1> QED
  BY <1>1, <1>2, CleanStep, TypeCorrect, PTL DEF Spec, Safe

-----------------------------------------------------------------------------
(* No frame passes unseen. *)

\* Frames of the batch are on the way, or may be sent.
Traffic ==
  \/ \E h \in Hosts : tx[h] = "sending"
  \/ \E i \in Rows, h \in Hosts : i # 0 /\ wire[<<i, h>>] > 0

\* Every receiver the driver waits for is open, and the wait is behind.
AllOpen == Awaited \subseteq ready /\ Behind(case, pc, "await")

\* A ready file comes from an open socket; the wait ends with all of them;
\* traffic follows the wait; a receiver has been started in this batch.
OpenInv ==
  /\ \A h \in ready : ~ NotYetOpen(h)
  /\ ~ raised /\ Behind(case, pc, "await") => Awaited \subseteq ready
  /\ Traffic => AllOpen
  /\ Cpu \in Listen => ~ NotYetOpen(Cpu)
  /\ \A h \in Hosts \ {Cpu} : rx[h] # "off" => Received(case, pc, h)
  /\ ~ unseen

\* A step that starts neither a batch nor a receiver.
Calm ==
  /\ case' = case /\ batch' = batch
  /\ ready \subseteq ready'
  /\ \A h \in ready' \ ready : ~ NotYetOpen(h)'
  /\ \A h \in Hosts : rx'[h] = rx[h] \/ (~ NotYetOpen(h)' /\ (h = Cpu \/ rx[h] # "off"))
  /\ ~ raised' => ~ raised
  /\ Traffic' => Traffic \/ AllOpen
  /\ \/ pc' = pc
     \/ /\ pc' = pc + 1 /\ pc \in 1..Len(Program[case])
        /\ Op(case, pc) # "enter"
        /\ Op(case, pc) = "await" /\ ~ raised' => Awaited \subseteq ready
  /\ ~ unseen'

LEMMA CalmOpen ==
  ASSUME TypeOK, OpenInv, Calm
  PROVE  OpenInv'
<1>1. case' = case /\ Listen' = Listen /\ Awaited' = Awaited /\ case \in Cases
  BY DEF Calm, Listen, Awaited, Batch, TypeOK
<1>2. /\ Behind(case, pc, "await") => Behind(case, pc', "await")
      /\ \A h \in Hosts : Received(case, pc, h) => Received(case, pc', h)
  BY <1>1, BehindStep, ReceivedStep DEF Calm
<1>3. \A h \in ready' : ~ NotYetOpen(h)'
  <2> SUFFICES ASSUME NEW h \in ready' PROVE ~ NotYetOpen(h)'
    OBVIOUS
  <2>1. CASE h \notin ready
    BY <2>1 DEF Calm
  <2>2. CASE h \in ready
    BY <2>2 DEF Calm, OpenInv, NotYetOpen, TypeOK
  <2> QED
    BY <2>1, <2>2
<1>4. ASSUME ~ raised', Behind(case, pc', "await") PROVE Awaited \subseteq ready
  <2>1. CASE pc' = pc
    BY <1>4, <2>1 DEF Calm, OpenInv
  <2>2. CASE pc' # pc
    <3>1. Behind(case, pc, "await") \/ Op(case, pc) = "await"
      BY <1>1, <1>4, <2>2, BehindStep DEF Calm
    <3> QED
      BY <1>4, <2>2, <3>1 DEF Calm, OpenInv
  <2> QED
    BY <2>1, <2>2
<1>5. Traffic' => AllOpen'
  BY <1>1, <1>2 DEF Calm, OpenInv, AllOpen
<1>6. Cpu \in Listen => ~ NotYetOpen(Cpu)'
  BY BoundsAssumption DEF Calm, OpenInv, NotYetOpen
<1>7. \A h \in Hosts \ {Cpu} : rx'[h] # "off" => Received(case, pc', h)
  BY <1>2 DEF Calm, OpenInv
<1> QED
  <2>1. ~ raised' /\ Behind(case, pc', "await") => Awaited \subseteq ready'
    BY <1>4 DEF Calm
  <2>2. ~ unseen'
    BY DEF Calm
  <2> QED
    BY <1>1, <1>3, <1>5, <1>6, <1>7, <2>1, <2>2 DEF OpenInv

\* The driver's steps, but for the start of a batch, of a receiver and of a
\* sender.
LEMMA CalmDriver ==
  ASSUME TypeOK, OpenInv,
         \/ Ask \/ Setup \/ StartController \/ WaitReady \/ Alive \/ AwaitReceivers
         \/ ConfirmSender \/ CollectReceiver \/ ObserveCpu \/ CheckDelivery
         \/ LeaveDirectory \/ EndFinally \/ Unwind \/ Succeed
  PROVE  Calm
<1> USE DEF TypeOK
<1>1. /\ case' = case /\ batch' = batch /\ ready' = ready /\ tx' = tx /\ wire' = wire
      /\ unseen' = unseen
  BY DEF Ask, Setup, StartController, WaitReady, Alive, AwaitReceivers, ConfirmSender,
         CollectReceiver, ObserveCpu, CheckDelivery, LeaveDirectory, EndFinally, Unwind,
         Succeed, procs, net, history
<1>2. \A h \in Hosts : rx'[h] = rx[h] \/ (h = Cpu /\ rx'[h] = "done")
  BY DEF Ask, Setup, StartController, WaitReady, Alive, AwaitReceivers, ConfirmSender,
         CollectReceiver, ObserveCpu, CheckDelivery, LeaveDirectory, EndFinally, Unwind,
         Succeed, procs
<1>3. ~ raised' => ~ raised
  BY DEF Ask, Setup, StartController, WaitReady, Alive, AwaitReceivers, ConfirmSender,
         CollectReceiver, ObserveCpu, CheckDelivery, LeaveDirectory, EndFinally, Unwind,
         Succeed, Go, Raise, End
<1>4. Traffic' = Traffic
  BY <1>1 DEF Traffic
<1>5. ASSUME pc' # pc
      PROVE  /\ pc' = pc + 1 /\ pc \in 1..Len(Program[case])
             /\ Op(case, pc) # "enter"
             /\ Op(case, pc) = "await" /\ ~ raised' => Awaited \subseteq ready
  <2>1. CASE Unwind
    <3>1. ~ (pc > Len(Program[case]) \/ Here.op = "enter") /\ pc' = pc + 1 /\ raised'
      BY <1>5, <2>1 DEF Unwind, End, Go
    <3> QED
      BY <3>1, ProgramAssumption DEF Here, Op
  <2>2. CASE AwaitReceivers
    <3>1. At("await") /\ pc' = pc + 1 /\ Awaited \subseteq ready
      BY <1>5, <2>2 DEF AwaitReceivers, Doing, Go, Raise
    <3> QED
      BY <3>1, Position
  <2>3. CASE ~ Unwind /\ ~ AwaitReceivers
    <3>1. PICK op \in Ops \ {"enter", "await"} : At(op)
      BY <1>5, <2>3 DEF Ask, Setup, StartController, WaitReady, Alive, ConfirmSender,
         CollectReceiver, ObserveCpu, CheckDelivery, LeaveDirectory, EndFinally,
         Succeed, Doing, End, Ops
    <3>2. pc' = pc + 1
      BY <1>5, <2>3 DEF Ask, Setup, StartController, WaitReady, Alive, ConfirmSender,
         CollectReceiver, ObserveCpu, CheckDelivery, LeaveDirectory, EndFinally,
         Succeed, Go, Raise, End
    <3> QED
      BY <3>1, <3>2, Position
  <2> QED
    BY <2>1, <2>2, <2>3
<1> QED
  BY <1>1, <1>2, <1>3, <1>4, <1>5 DEF Calm, OpenInv, NotYetOpen

LEMMA CalmSender ==
  ASSUME TypeOK, OpenInv, StartSender
  PROVE  Calm
<1>1. At("send") /\ ~ raised
  BY DEF StartSender, Doing
<1>2. AllOpen
  BY <1>1, Position, ShapeAssumption DEF OpenInv, AllOpen
<1>3. /\ case' = case /\ batch' = batch /\ ready' = ready /\ rx' = rx /\ unseen' = unseen
      /\ pc' = pc \/ pc' = pc + 1
  BY DEF StartSender, history, Go, Raise
<1> QED
  BY <1>1, <1>2, <1>3, Position DEF Calm, OpenInv

\* What stops a process, and what the processes and the links do.
LEMMA CalmOther ==
  ASSUME TypeOK, OpenInv,
         \/ StopProbe \/ ControllerDies \/ Network \/ UNCHANGED vars
         \/ \E h \in Hosts : Receiver(h) \/ Sender(h)
  PROVE  Calm
<1> USE DEF TypeOK
<1>1. case' = case /\ pc' = pc /\ raised' = raised /\ batch' = batch
  BY DEF StopProbe, ControllerDies, Network, Arrive, vars, driver, Receiver, Sender,
         BindSocket, Announce, CloseWindow, ReceiverDies, SenderDies, SendFrame
<1>2. /\ ready \subseteq ready'
      /\ \A h \in ready' \ ready : ~ NotYetOpen(h)'
      /\ \A h \in Hosts : rx'[h] = rx[h] \/ (~ NotYetOpen(h)' /\ rx[h] # "off")
  <2> USE DEF NotYetOpen
  <2>1. CASE StopProbe
    BY <2>1 DEF StopProbe, RxLive
  <2>2. CASE ControllerDies
    BY <2>2 DEF ControllerDies
  <2>3. CASE Network
    BY <2>3 DEF Network, Arrive, procs
  <2>4. CASE UNCHANGED vars
    BY <2>4 DEF vars
  <2>5. ASSUME NEW h \in Hosts, BindSocket(h) \/ Announce(h) \/ CloseWindow(h)
        PROVE  /\ ready \subseteq ready'
               /\ \A k \in ready' \ ready : ~ NotYetOpen(k)'
               /\ \A k \in Hosts : rx'[k] = rx[k] \/ (~ NotYetOpen(k)' /\ rx[k] # "off")
    BY <2>5 DEF BindSocket, Announce, CloseWindow
  <2>6. ASSUME NEW h \in Hosts, ReceiverDies(h) \/ Sender(h)
        PROVE  /\ ready' = ready
               /\ \A k \in Hosts : rx'[k] = rx[k] \/ (~ NotYetOpen(k)' /\ rx[k] # "off")
    BY <2>6 DEF ReceiverDies, RxLive, Sender, SenderDies, SendFrame
  <2> QED
    BY <2>1, <2>2, <2>3, <2>4, <2>5, <2>6 DEF Receiver
<1>3. Traffic' => Traffic
  <2> USE DEF Traffic
  <2>1. CASE StopProbe
    BY <2>1 DEF StopProbe, net
  <2>2. CASE ControllerDies
    BY <2>2 DEF ControllerDies, net
  <2>3. CASE Network
    <3>1. PICK i \in Rows, h \in Hosts : Arrive(i, h)
      BY <2>3 DEF Network
    <3>2. tx' = tx /\ wire' = [wire EXCEPT ![<<i, h>>] = @ - 1] /\ wire[<<i, h>>] > 0
      BY <3>1 DEF Arrive, procs
    <3>3. \A j \in Rows, k \in Hosts : wire'[<<j, k>>] > 0 => wire[<<j, k>>] > 0
      BY <3>2 DEF Cells
    <3> QED
      BY <3>2, <3>3
  <2>4. CASE UNCHANGED vars
    BY <2>4 DEF vars
  <2>5. ASSUME NEW h \in Hosts, Receiver(h) PROVE Traffic' => Traffic
    BY <2>5 DEF Receiver, BindSocket, Announce, CloseWindow, ReceiverDies, net
  <2>6. ASSUME NEW h \in Hosts, Sender(h) PROVE Traffic' => Traffic
    <3>1. tx[h] = "sending"
      BY <2>6 DEF Sender, SenderDies, TxLive, SendFrame
    <3> QED
      BY <3>1
  <2> QED
    BY <2>1, <2>2, <2>3, <2>4, <2>5, <2>6
<1>4. ~ unseen'
  <2>1. CASE Network
    <3>1. PICK i \in Rows, h \in Hosts : Arrive(i, h)
      BY <2>1 DEF Network
    <3>2. ASSUME i # 0, h \in Listen, NotYetOpen(h) PROVE FALSE
      <4>1. Traffic
        BY <3>1, <3>2 DEF Arrive, Traffic
      <4>2. h \in Awaited
        BY <3>2 DEF Awaited, OpenInv
      <4> QED
        BY <3>2, <4>1, <4>2 DEF OpenInv, AllOpen
    <3> QED
      BY <3>1, <3>2 DEF Arrive, OpenInv
  <2>2. CASE ~ Network
    BY <2>2 DEF OpenInv, StopProbe, ControllerDies, vars, Receiver, Sender, history,
         BindSocket, Announce, CloseWindow, ReceiverDies, SenderDies, SendFrame
  <2> QED
    BY <2>1, <2>2
<1> QED
  BY <1>1, <1>2, <1>3, <1>4 DEF Calm

LEMMA OpenEnter ==
  ASSUME TypeOK, OpenInv, EnterBatch
  PROVE  OpenInv'
<1>1. At("enter") /\ pc' = pc + 1 /\ case' = case /\ ready' = {} /\ unseen' = unseen
  BY DEF EnterBatch, Doing, Go, history
<1>2. pc \in 1..Len(Program[case]) /\ case \in Cases /\ Op(case, pc) = "enter"
  BY <1>1, Position
<1>3. ~ Behind(case, pc + 1, "await")
  BY <1>2, BehindStep
<1>4. ~ Traffic'
  <2>1. \A h \in Hosts : tx'[h] # "sending"
    BY DEF EnterBatch
  <2>2. ASSUME NEW i \in Rows, NEW h \in Hosts, i # 0 PROVE wire'[<<i, h>>] = 0
    BY <2>2 DEF EnterBatch, Cells
  <2>3. \A i \in Rows, h \in Hosts : i # 0 => ~ (wire'[<<i, h>>] > 0)
    BY <2>2
  <2> QED
    BY <2>1, <2>3 DEF Traffic
<1>5. Cpu \in Listen' => ~ NotYetOpen(Cpu)'
  <2>1. batch' = batch + 1 /\ batch \in Nat
    BY BatchAssumption DEF EnterBatch, TypeOK
  <2>2. Listen' = Batches[case][batch + 1].listen
    BY <1>1, <2>1 DEF Listen, Batch
  <2> QED
    BY <2>2, BoundsAssumption DEF EnterBatch, NotYetOpen
<1>6. \A h \in Hosts \ {Cpu} : rx'[h] = "off"
  BY DEF EnterBatch
<1> QED
  BY <1>1, <1>3, <1>4, <1>5, <1>6 DEF OpenInv

LEMMA OpenReceiver ==
  ASSUME TypeOK, OpenInv, StartReceiver
  PROVE  OpenInv'
<1>1. At("receive") /\ ~ raised
  BY DEF StartReceiver, Doing
<1>2. /\ case' = case /\ batch' = batch /\ ready' = ready /\ tx' = tx /\ wire' = wire
      /\ unseen' = unseen
  BY DEF StartReceiver, net, history
<1>3. /\ pc \in 1..Len(Program[case]) /\ case \in Cases
      /\ Op(case, pc) = "receive" /\ Here = Program[case][pc]
  BY <1>1, Position
<1>4. /\ Here.on \in Hosts \ {Cpu} /\ ~ Behind(case, pc, "await")
      /\ ~ Received(case, pc, Here.on)
  BY <1>3, ShapeAssumption
<1>5. rx[Here.on] = "off"
  BY <1>4 DEF OpenInv
<1>6. Listen' = Listen /\ Awaited' = Awaited /\ Traffic' = Traffic
  BY <1>2 DEF Listen, Awaited, Batch, Traffic
<1>7. ~ Traffic /\ ~ Behind(case, pc + 1, "await")
  BY <1>3, <1>4, BehindStep DEF OpenInv, AllOpen
<1>8. pc' = pc \/ pc' = pc + 1
  BY DEF StartReceiver, Go, Raise
<1>9. \A h \in Hosts : h # Here.on => rx'[h] = rx[h]
  BY DEF StartReceiver, TypeOK
<1>10. Here.on \notin ready
  BY <1>5 DEF OpenInv, NotYetOpen
<1>11. \A h \in Hosts \ {Cpu} : rx'[h] # "off" => Received(case, pc', h)
  <2>1. CASE rx' = rx /\ pc' = pc
    BY <2>1 DEF OpenInv
  <2>2. CASE pc' = pc + 1
    BY <1>3, <1>9, <2>2, ReceivedStep DEF OpenInv
  <2> QED
    BY <2>1, <2>2 DEF StartReceiver, Go, Raise
<1>12. \A h \in ready : ~ NotYetOpen(h)'
  BY <1>9, <1>10 DEF OpenInv, NotYetOpen, TypeOK
<1>13. Cpu \in Listen => ~ NotYetOpen(Cpu)'
  BY <1>4, <1>9, BoundsAssumption DEF OpenInv, NotYetOpen
<1>14. ~ Behind(case, pc', "await")
  BY <1>4, <1>7, <1>8
<1> QED
  BY <1>2, <1>6, <1>7, <1>11, <1>12, <1>13, <1>14 DEF OpenInv

LEMMA OpenStep == TypeOK /\ OpenInv /\ [Next]_vars => OpenInv'
<1> SUFFICES ASSUME TypeOK, OpenInv, [Next]_vars PROVE OpenInv'
  OBVIOUS
<1>1. CASE EnterBatch
  BY <1>1, OpenEnter
<1>2. CASE StartReceiver
  BY <1>2, OpenReceiver
<1>3. CASE StartSender
  BY <1>3, CalmSender, CalmOpen
<1>4. CASE \/ StopProbe \/ ControllerDies \/ Network \/ UNCHANGED vars
           \/ \E h \in Hosts : Receiver(h) \/ Sender(h)
  BY <1>4, CalmOther, CalmOpen
<1>5. CASE \/ Ask \/ Setup \/ StartController \/ WaitReady \/ Alive \/ AwaitReceivers
           \/ ConfirmSender \/ CollectReceiver \/ ObserveCpu \/ CheckDelivery
           \/ LeaveDirectory \/ EndFinally \/ Unwind \/ Succeed
  BY <1>5, CalmDriver, CalmOpen
<1> QED
  BY <1>1, <1>2, <1>3, <1>4, <1>5 DEF Next, Driver, Over

LEMMA OpenInit == Init => OpenInv
<1> SUFFICES ASSUME Init PROVE OpenInv
  OBVIOUS
<1>1. Listen = {}
  BY DEF Init, Listen, Batch, NoBatch
<1>2. ASSUME NEW i \in Rows, NEW h \in Hosts PROVE ~ (wire[<<i, h>>] > 0)
  <2>1. wire[<<i, h>>] = 0
    BY DEF Init, Nowhere, Cells
  <2> QED
    BY <2>1
<1>3. \A h \in Hosts : tx[h] # "sending"
  BY DEF Init
<1>4. ~ Traffic
  BY <1>2, <1>3 DEF Traffic
<1> QED
  BY <1>1, <1>4 DEF Init, OpenInv, Awaited

\* In a test of this shape no frame of a batch reaches a host before that host's
\* receiver is open, however its processes and the links interleave and fail.
THEOREM NothingPassesUnseen == Spec => []NothingUnseen
<1>1. OpenInv => NothingUnseen
  BY DEF OpenInv, NothingUnseen
<1> QED
  BY <1>1, OpenInit, OpenStep, TypeCorrect, PTL DEF Spec, Safe

-----------------------------------------------------------------------------
(* SUCCESS is true: what the batches captured. *)

\* What was collected is complete; behind the check it is what was expected;
\* and no batch without an exception was wrong.
CaptureInv ==
  /\ \A h \in collected : rx[h] = "done"
  /\ ~ raised /\ Behind(case, pc, "check") => collected = Listen /\ Matches
  /\ ~ raised => ~ wrong

\* A step that starts no batch and leaves complete captures alone.
Held ==
  /\ case' = case /\ batch' = batch
  /\ ~ raised' => ~ raised
  /\ \A h \in Hosts : rx[h] = "done" =>
       rx'[h] = "done" /\ \A i \in Rows : heard'[<<i, h>>] = heard[<<i, h>>]
  /\ \/ collected' = collected
     \/ /\ pc \in 1..Len(Program[case]) /\ Op(case, pc) \in {"collect", "observe"}
        /\ \E h \in Hosts : collected' = collected \cup {h} /\ rx'[h] = "done"
  /\ \/ pc' = pc
     \/ /\ pc' = pc + 1 /\ pc \in 1..Len(Program[case])
        /\ Op(case, pc) # "enter"
        /\ Op(case, pc) = "check" /\ ~ raised' => collected = Listen /\ Matches
  /\ wrong' /\ ~ raised' =>
       \/ wrong
       \/ /\ pc \in 1..Len(Program[case]) /\ Op(case, pc) = "finally"
          /\ ~ Matches \/ \E h \in Listen : rx[h] # "done"

\* Whether the captures match depends on the batch and on what was captured.
LEMMA MatchesKept ==
  ASSUME TypeOK, case' = case, batch' = batch,
         \A h \in Listen, i \in Rows : heard'[<<i, h>>] = heard[<<i, h>>]
  PROVE  Listen' = Listen /\ (Matches' = Matches)
<1>1. Batch' = Batch /\ Listen' = Listen /\ Probes' = Probes
  BY DEF Batch, Listen, Probes
<1>2. 0 \in Rows /\ Probes \subseteq Rows /\ Listen \subseteq Hosts
  BY BatchFacts, BoundsAssumption DEF Rows
<1>3. \A i \in Probes, h \in Listen : Wanted(i, h)' = Wanted(i, h)
  BY <1>1 DEF Wanted
<1>4. ASSUME NEW h \in Listen
      PROVE  ExactAt(h)' = ExactAt(h) /\ MeteredAt(h)' = MeteredAt(h)
  <2>1. heard'[<<0, h>>] = heard[<<0, h>>]
        /\ \A i \in Probes : heard'[<<i, h>>] = heard[<<i, h>>] /\ Wanted(i, h)' = Wanted(i, h)
    BY <1>2, <1>3
  <2>2. ExactAt(h)' = ExactAt(h)
    BY <1>1, <2>1 DEF ExactAt
  <2>3. MeteredAt(h)' = MeteredAt(h)
    BY <1>1, <2>1 DEF MeteredAt
  <2> QED
    BY <2>2, <2>3
<1> QED
  BY <1>1, <1>4 DEF Matches

LEMMA HeldCaptures ==
  ASSUME TypeOK, CaptureInv, Held
  PROVE  CaptureInv'
<1>1. case' = case /\ Listen' = Listen /\ case \in Cases /\ Listen \subseteq Hosts
  BY BatchFacts DEF Held, Listen, Batch, TypeOK
<1>2. \A h \in collected' : rx'[h] = "done"
  BY DEF CaptureInv, Held, TypeOK
<1>3. ASSUME collected = Listen, Matches PROVE Matches'
  <2>1. \A h \in Listen, i \in Rows : heard'[<<i, h>>] = heard[<<i, h>>]
    BY <1>1, <1>3 DEF Held, CaptureInv
  <2> QED
    BY <1>3, <2>1, MatchesKept DEF Held
<1>4. ASSUME ~ raised', Behind(case, pc', "check")
      PROVE  collected' = Listen /\ Matches'
  <2>1. CASE pc' = pc
    <3>1. collected = Listen /\ Matches /\ Behind(case, pc, "check")
      BY <1>4, <2>1 DEF CaptureInv, Held
    <3>2. collected' = collected
      BY <1>1, <3>1, ShapeAssumption DEF Held
    <3> QED
      BY <1>3, <3>1, <3>2
  <2>2. CASE pc' # pc
    <3>1. pc' = pc + 1 /\ pc \in 1..Len(Program[case])
      BY <2>2 DEF Held
    <3>2. Behind(case, pc, "check") \/ Op(case, pc) = "check"
      BY <1>1, <1>4, <3>1, BehindStep
    <3>3. collected = Listen /\ Matches
      BY <1>4, <2>2, <3>2 DEF CaptureInv, Held
    <3>4. collected' = collected
      BY <1>1, <3>1, <3>2, ShapeAssumption DEF Held
    <3> QED
      BY <1>3, <3>3, <3>4
  <2> QED
    BY <2>1, <2>2
<1>5. ~ raised' => ~ wrong'
  <2> SUFFICES ASSUME ~ raised', wrong' PROVE FALSE
    OBVIOUS
  <2>1. ~ raised /\ ~ wrong
    BY DEF Held, CaptureInv
  <2>2. pc \in 1..Len(Program[case]) /\ Op(case, pc) = "finally"
        /\ (~ Matches \/ \E h \in Listen : rx[h] # "done")
    BY <2>1 DEF Held
  <2>3. Behind(case, pc, "check")
    BY <1>1, <2>2, ShapeAssumption
  <2> QED
    BY <2>1, <2>2, <2>3 DEF CaptureInv
<1> QED
  BY <1>1, <1>2, <1>4, <1>5 DEF CaptureInv

LEMMA HeldDriver ==
  ASSUME TypeOK,
         \/ Ask \/ Setup \/ StartController \/ WaitReady \/ Alive \/ AwaitReceivers
         \/ StartSender \/ ConfirmSender \/ CollectReceiver \/ ObserveCpu \/ CheckDelivery
         \/ LeaveDirectory \/ EndFinally \/ Unwind \/ Succeed
  PROVE  Held
<1> USE DEF TypeOK
<1>1. case' = case /\ batch' = batch /\ heard' = heard
  BY DEF Ask, Setup, StartController, WaitReady, Alive, AwaitReceivers, StartSender,
         ConfirmSender, CollectReceiver, ObserveCpu, CheckDelivery, LeaveDirectory,
         EndFinally, Unwind, Succeed, net
<1>2. \A h \in Hosts : rx'[h] = rx[h] \/ rx'[h] = "done"
  BY DEF Ask, Setup, StartController, WaitReady, Alive, AwaitReceivers, StartSender,
         ConfirmSender, CollectReceiver, ObserveCpu, CheckDelivery, LeaveDirectory,
         EndFinally, Unwind, Succeed, procs
<1>3. ~ raised' => ~ raised
  BY DEF Ask, Setup, StartController, WaitReady, Alive, AwaitReceivers, StartSender,
         ConfirmSender, CollectReceiver, ObserveCpu, CheckDelivery, LeaveDirectory,
         EndFinally, Unwind, Succeed, Go, Raise, End
<1>4. \/ collected' = collected
      \/ /\ pc \in 1..Len(Program[case]) /\ Op(case, pc) \in {"collect", "observe"}
         /\ \E h \in Hosts : collected' = collected \cup {h} /\ rx'[h] = "done"
  <2>1. CASE CollectReceiver
    <3>1. pc \in 1..Len(Program[case]) /\ Op(case, pc) = "collect" /\ Here.on \in Hosts
      BY <2>1, Position, ShapeAssumption DEF CollectReceiver, Doing
    <3> QED
      BY <2>1, <3>1 DEF CollectReceiver, procs
  <2>2. CASE ObserveCpu
    <3>1. pc \in 1..Len(Program[case]) /\ Op(case, pc) = "observe" /\ Cpu \in Hosts
      BY <2>2, Position, BoundsAssumption DEF ObserveCpu, Doing
    <3> QED
      BY <2>2, <3>1 DEF ObserveCpu
  <2>3. CASE ~ CollectReceiver /\ ~ ObserveCpu
    BY <2>3 DEF Ask, Setup, StartController, WaitReady, Alive, AwaitReceivers, StartSender,
         ConfirmSender, CheckDelivery, LeaveDirectory, EndFinally, Unwind, Succeed
  <2> QED
    BY <2>1, <2>2, <2>3
<1>5. ASSUME pc' # pc
      PROVE  /\ pc' = pc + 1 /\ pc \in 1..Len(Program[case])
             /\ Op(case, pc) # "enter"
             /\ Op(case, pc) = "check" /\ ~ raised' => collected = Listen /\ Matches
  <2>1. CASE Unwind
    <3>1. ~ (pc > Len(Program[case]) \/ Here.op = "enter") /\ pc' = pc + 1 /\ raised'
      BY <1>5, <2>1 DEF Unwind, End, Go
    <3> QED
      BY <3>1, ProgramAssumption DEF Here, Op
  <2>2. CASE CheckDelivery
    <3>1. At("check") /\ pc' = pc + 1 /\ collected = Listen /\ Matches
      BY <1>5, <2>2 DEF CheckDelivery, Doing, Go, Raise
    <3> QED
      BY <3>1, Position
  <2>3. CASE ~ Unwind /\ ~ CheckDelivery
    <3>1. PICK op \in Ops \ {"enter", "check"} : At(op)
      BY <1>5, <2>3 DEF Ask, Setup, StartController, WaitReady, Alive, AwaitReceivers,
         StartSender, ConfirmSender, CollectReceiver, ObserveCpu, LeaveDirectory,
         EndFinally, Succeed, Doing, End, Ops
    <3>2. pc' = pc + 1
      BY <1>5, <2>3 DEF Ask, Setup, StartController, WaitReady, Alive, AwaitReceivers,
         StartSender, ConfirmSender, CollectReceiver, ObserveCpu, LeaveDirectory,
         EndFinally, Succeed, Go, Raise, End
    <3> QED
      BY <3>1, <3>2, Position
  <2> QED
    BY <2>1, <2>2, <2>3
<1>6. wrong' => \/ wrong
                \/ /\ pc \in 1..Len(Program[case]) /\ Op(case, pc) = "finally"
                   /\ ~ Matches \/ \E h \in Listen : rx[h] # "done"
  <2>1. CASE EndFinally
    <3>1. pc \in 1..Len(Program[case]) /\ Op(case, pc) = "finally"
      BY <2>1, Position DEF EndFinally
    <3> QED
      BY <2>1, <3>1 DEF EndFinally
  <2>2. CASE ~ EndFinally
    BY <2>2 DEF Ask, Setup, StartController, WaitReady, Alive, AwaitReceivers, StartSender,
         ConfirmSender, CollectReceiver, ObserveCpu, CheckDelivery, LeaveDirectory,
         Unwind, Succeed, history
  <2> QED
    BY <2>1, <2>2
<1> QED
  BY <1>1, <1>2, <1>3, <1>4, <1>5, <1>6 DEF Held

LEMMA HeldReceiver ==
  ASSUME TypeOK, OpenInv, StartReceiver
  PROVE  Held
<1>1. /\ pc \in 1..Len(Program[case]) /\ case \in Cases
      /\ Op(case, pc) = "receive" /\ Here = Program[case][pc]
  BY Position DEF StartReceiver, Doing
<1>2. Here.on \in Hosts \ {Cpu} /\ ~ Received(case, pc, Here.on)
  BY <1>1, ShapeAssumption
<1>3. rx[Here.on] = "off"
  BY <1>2 DEF OpenInv
<1>4. \A h \in Hosts : rx[h] = "done" => rx'[h] = "done"
  BY <1>3 DEF StartReceiver, TypeOK
<1>5. /\ case' = case /\ batch' = batch /\ heard' = heard /\ collected' = collected
      /\ wrong' = wrong /\ (~ raised' => ~ raised) /\ (pc' = pc \/ pc' = pc + 1)
  BY DEF StartReceiver, net, history, Doing, Go, Raise
<1> QED
  BY <1>1, <1>4, <1>5 DEF Held

LEMMA HeldOther ==
  ASSUME TypeOK,
         \/ StopProbe \/ ControllerDies \/ Network \/ UNCHANGED vars
         \/ \E h \in Hosts : Receiver(h) \/ Sender(h)
  PROVE  Held
<1> USE DEF TypeOK
<1>1. /\ case' = case /\ pc' = pc /\ raised' = raised /\ batch' = batch
      /\ collected' = collected /\ wrong' = wrong
  BY DEF StopProbe, ControllerDies, Network, Arrive, vars, driver, Receiver, Sender, history,
         BindSocket, Announce, CloseWindow, ReceiverDies, SenderDies, SendFrame
<1>2. \A h \in Hosts : rx[h] = "done" => rx'[h] = "done"
  <2>1. CASE StopProbe
    BY <2>1 DEF StopProbe, RxLive
  <2>2. CASE ControllerDies
    BY <2>2 DEF ControllerDies
  <2>3. CASE Network
    BY <2>3 DEF Network, Arrive, procs
  <2>4. CASE UNCHANGED vars
    BY <2>4 DEF vars
  <2>5. ASSUME NEW k \in Hosts, Receiver(k)
        PROVE  \A h \in Hosts : rx[h] = "done" => rx'[h] = "done"
    BY <2>5 DEF Receiver, BindSocket, Announce, CloseWindow, ReceiverDies, RxLive
  <2>6. ASSUME NEW k \in Hosts, Sender(k) PROVE rx' = rx
    BY <2>6 DEF Sender, SenderDies, SendFrame
  <2> QED
    BY <2>1, <2>2, <2>3, <2>4, <2>5, <2>6
<1>3. ASSUME NEW h \in Hosts, rx[h] = "done", NEW i \in Rows
      PROVE  heard'[<<i, h>>] = heard[<<i, h>>]
  <2>1. CASE Network
    <3>1. PICK j \in Rows, k \in Hosts : Arrive(j, k)
      BY <2>1 DEF Network
    <3>2. heard' = heard \/ (k # h /\ heard' = [heard EXCEPT ![<<j, k>>] = @ + 1])
      BY <1>3, <3>1 DEF Arrive, Open
    <3>3. <<i, h>> \in Cells
      BY DEF Cells
    <3> QED
      BY <3>2, <3>3
  <2>2. CASE ~ Network
    <3>1. heard' = heard
      BY <2>2 DEF StopProbe, ControllerDies, vars, Receiver, Sender, net,
         BindSocket, Announce, CloseWindow, ReceiverDies, SenderDies, SendFrame
    <3> QED
      BY <3>1
  <2> QED
    BY <2>1, <2>2
<1> QED
  BY <1>1, <1>2, <1>3 DEF Held

LEMMA CaptureEnter ==
  ASSUME TypeOK, CaptureInv, EnterBatch
  PROVE  CaptureInv'
<1>1. /\ At("enter") /\ pc' = pc + 1 /\ case' = case /\ raised' = raised
      /\ wrong' = wrong /\ collected' = {}
  BY DEF EnterBatch, Doing, Go, history
<1>2. ~ Behind(case, pc + 1, "check")
  <2>1. case \in Cases /\ pc \in 1..Len(Program[case]) /\ Op(case, pc) = "enter"
    BY <1>1, Position
  <2>2. Behind(case, pc + 1, "check") => Op(case, pc) # "enter"
    BY <2>1, BehindStep
  <2> QED
    BY <2>1, <2>2
<1> QED
  BY <1>1, <1>2 DEF CaptureInv

LEMMA CaptureStep == TypeOK /\ OpenInv /\ CaptureInv /\ [Next]_vars => CaptureInv'
<1> SUFFICES ASSUME TypeOK, OpenInv, CaptureInv, [Next]_vars PROVE CaptureInv'
  OBVIOUS
<1>1. CASE EnterBatch
  BY <1>1, CaptureEnter
<1>2. CASE StartReceiver
  BY <1>2, HeldReceiver, HeldCaptures
<1>3. CASE \/ StopProbe \/ ControllerDies \/ Network \/ UNCHANGED vars
           \/ \E h \in Hosts : Receiver(h) \/ Sender(h)
  BY <1>3, HeldOther, HeldCaptures
<1>4. CASE \/ Ask \/ Setup \/ StartController \/ WaitReady \/ Alive \/ AwaitReceivers
           \/ StartSender \/ ConfirmSender \/ CollectReceiver \/ ObserveCpu \/ CheckDelivery
           \/ LeaveDirectory \/ EndFinally \/ Unwind \/ Succeed
  BY <1>4, HeldDriver, HeldCaptures
<1> QED
  BY <1>1, <1>2, <1>3, <1>4 DEF Next, Driver, Over

-----------------------------------------------------------------------------
(* SUCCESS is true: the controller. *)

\* A capture was read behind p.
ReadBehind(c, p) == \E q \in 1..(p - 1) : Op(c, q) \in {"collect", "observe"}

\* The test still asks for the controller's life.
AsksAhead(c, p) == \E q \in p..Len(Program[c]) : Op(c, q) = "alive"

\* A controller that died before a capture was read stays dead, and a watched
\* test meets it; SUCCESS is the end of the whole program.
BlindInv ==
  /\ blind => ~ ctrlUp /\ ReadBehind(case, pc)
  /\ blind /\ case \in Watched /\ ~ raised => AsksAhead(case, pc)
  /\ verdict = "SUCCESS" => ~ raised /\ pc = Len(Program[case]) + 1

\* A step that neither reads a capture nor starts a controller.
Dull ==
  /\ case' = case /\ blind' = blind
  /\ ctrlUp' => ctrlUp
  /\ ~ raised' => ~ raised
  /\ \/ pc' = pc
     \/ /\ pc' = pc + 1 /\ pc \in 1..Len(Program[case])
        /\ Op(case, pc) = "alive" /\ ~ raised' => ctrlUp

LEMMA DullBlind ==
  ASSUME TypeOK, BlindInv, Dull
  PROVE  /\ blind' => ~ ctrlUp' /\ ReadBehind(case', pc')
         /\ blind' /\ case' \in Watched /\ ~ raised' => AsksAhead(case', pc')
<1>1. Len(Program[case]) \in Nat /\ pc \in Nat
  BY ProgramAssumption DEF TypeOK
<1>2. ReadBehind(case, pc) => ReadBehind(case, pc')
  BY <1>1 DEF Dull, ReadBehind
<1>3. ASSUME AsksAhead(case, pc), ~ (pc' = pc + 1 /\ Op(case, pc) = "alive")
      PROVE  AsksAhead(case, pc')
  BY <1>1, <1>3 DEF Dull, AsksAhead
<1> QED
  BY <1>2, <1>3 DEF Dull, BlindInv

LEMMA DullDriver ==
  ASSUME TypeOK,
         \/ Ask \/ Setup \/ WaitReady \/ Alive \/ EnterBatch \/ StartReceiver
         \/ AwaitReceivers \/ StartSender \/ ConfirmSender \/ CheckDelivery
         \/ LeaveDirectory \/ EndFinally \/ Unwind \/ Succeed
  PROVE  Dull
<1>1. case' = case /\ blind' = blind /\ ctrlUp' = ctrlUp
  BY DEF Ask, Setup, WaitReady, Alive, EnterBatch, StartReceiver, AwaitReceivers,
         StartSender, ConfirmSender, CheckDelivery, LeaveDirectory, EndFinally, Unwind,
         Succeed, history
<1>2. ~ raised' => ~ raised
  BY DEF Ask, Setup, WaitReady, Alive, EnterBatch, StartReceiver, AwaitReceivers,
         StartSender, ConfirmSender, CheckDelivery, LeaveDirectory, EndFinally, Unwind,
         Succeed, Go, Raise, End
<1>3. ASSUME pc' # pc
      PROVE  /\ pc' = pc + 1 /\ pc \in 1..Len(Program[case])
             /\ Op(case, pc) = "alive" /\ ~ raised' => ctrlUp
  <2>1. CASE Unwind
    <3>1. ~ (pc > Len(Program[case]) \/ Here.op = "enter") /\ pc' = pc + 1 /\ raised'
      BY <1>3, <2>1 DEF Unwind, End, Go
    <3>2. pc \in 1..Len(Program[case])
      BY <3>1, ProgramAssumption DEF TypeOK
    <3> QED
      BY <3>1, <3>2
  <2>2. CASE Alive
    <3>1. At("alive") /\ pc' = pc + 1 /\ ctrlUp
      BY <1>3, <2>2 DEF Alive, Doing, Go, Raise
    <3> QED
      BY <3>1, Position
  <2>3. CASE ~ Unwind /\ ~ Alive
    <3>1. PICK op \in Ops \ {"alive"} : At(op)
      BY <1>3, <2>3 DEF Ask, Setup, WaitReady, EnterBatch, StartReceiver, AwaitReceivers,
         StartSender, ConfirmSender, CheckDelivery, LeaveDirectory, EndFinally,
         Succeed, Doing, End, Ops
    <3>2. pc' = pc + 1
      BY <1>3, <2>3 DEF Ask, Setup, WaitReady, EnterBatch, StartReceiver, AwaitReceivers,
         StartSender, ConfirmSender, CheckDelivery, LeaveDirectory, EndFinally,
         Succeed, Go, Raise, End
    <3> QED
      BY <3>1, <3>2, Position
  <2> QED
    BY <2>1, <2>2, <2>3
<1> QED
  BY <1>1, <1>2, <1>3 DEF Dull

LEMMA DullOther ==
  ASSUME TypeOK,
         \/ StopProbe \/ ControllerDies \/ Network \/ UNCHANGED vars
         \/ \E h \in Hosts : Receiver(h) \/ Sender(h)
  PROVE  Dull
<1>1. case' = case /\ pc' = pc /\ raised' = raised /\ blind' = blind
  BY DEF StopProbe, ControllerDies, Network, Arrive, vars, driver, Receiver, Sender, history,
         BindSocket, Announce, CloseWindow, ReceiverDies, SenderDies, SendFrame
<1>2. ctrlUp' = ctrlUp \/ ctrlUp' = FALSE
  BY DEF StopProbe, ControllerDies, Network, Arrive, vars, Receiver, Sender,
         BindSocket, Announce, CloseWindow, ReceiverDies, SenderDies, SendFrame
<1> QED
  BY <1>1, <1>2 DEF Dull

LEMMA BlindRead ==
  ASSUME TypeOK, BlindInv, CollectReceiver \/ ObserveCpu
  PROVE  /\ blind' => ~ ctrlUp' /\ ReadBehind(case', pc')
         /\ blind' /\ case' \in Watched /\ ~ raised' => AsksAhead(case', pc')
<1>1. PICK op \in {"collect", "observe"} : At(op)
  BY DEF CollectReceiver, ObserveCpu, Doing
<1>2. /\ pc \in 1..Len(Program[case]) /\ case \in Cases
      /\ Op(case, pc) \in {"collect", "observe"} /\ Len(Program[case]) \in Nat
  BY <1>1, Position
<1>3. case' = case /\ ctrlUp' = ctrlUp /\ (~ raised' => ~ raised)
  BY DEF CollectReceiver, ObserveCpu, Go, Raise
<1>4. ReadBehind(case, pc + 1) /\ (ReadBehind(case, pc) => ReadBehind(case, pc + 1))
  BY <1>2 DEF ReadBehind
<1>5. case \in Watched => AsksAhead(case, pc) /\ AsksAhead(case, pc + 1)
  <2>1. case \in Watched => \E q \in pc..Len(Program[case]) : Op(case, q) = "alive"
    BY <1>2, ShapeAssumption
  <2> QED
    BY <1>2, <2>1 DEF AsksAhead
<1>6. \/ pc' = pc /\ blind' = blind
      \/ pc' = pc + 1 /\ blind' = (blind \/ ~ ctrlUp)
  BY DEF CollectReceiver, ObserveCpu, Go, Raise
<1>7. CASE pc' = pc /\ blind' = blind
  BY <1>3, <1>5, <1>7 DEF BlindInv
<1>8. CASE pc' = pc + 1 /\ blind' = (blind \/ ~ ctrlUp)
  <2>1. blind' => ~ ctrlUp
    BY <1>8, Zenon DEF BlindInv
  <2> QED
    BY <1>3, <1>4, <1>5, <1>8, <2>1
<1> QED
  BY <1>6, <1>7, <1>8

LEMMA BlindStart ==
  ASSUME TypeOK, BlindInv, StartController
  PROVE  ~ blind'
<1>1. /\ pc \in 1..Len(Program[case]) /\ case \in Cases
      /\ Op(case, pc) = "start" /\ Len(Program[case]) \in Nat
  BY Position DEF StartController, Doing
<1>2. ~ ReadBehind(case, pc)
  BY <1>1, ShapeAssumption DEF ReadBehind
<1> QED
  BY <1>2 DEF BlindInv, StartController, history

\* Only the end of the program is called SUCCESS.
LEMMA SuccessStep ==
  ASSUME TypeOK, BlindInv, [Next]_vars
  PROVE  verdict' = "SUCCESS" => ~ raised' /\ pc' = Len(Program[case']) + 1
<1>1. case' = case
  BY DEF Next, Driver, Ask, Setup, StartController, WaitReady, Alive, EnterBatch,
         StartReceiver, AwaitReceivers, StartSender, ConfirmSender, CollectReceiver,
         ObserveCpu, CheckDelivery, LeaveDirectory, StopProbe, EndFinally, Unwind, Succeed,
         Receiver, BindSocket, Announce, CloseWindow, ReceiverDies, Sender, SenderDies,
         SendFrame, Network, Arrive, ControllerDies, Over, vars
<1>2. CASE Succeed
  BY <1>1, <1>2 DEF Succeed, End
<1>3. CASE UNCHANGED driver
  BY <1>1, <1>3 DEF BlindInv, driver
<1>4. CASE ~ Succeed /\ ~ (UNCHANGED driver)
  <2>1. verdict = "none"
    BY <1>4 DEF Next, Driver, Ask, Setup, StartController, WaitReady, Alive, EnterBatch,
         StartReceiver, AwaitReceivers, StartSender, ConfirmSender, CollectReceiver,
         ObserveCpu, CheckDelivery, LeaveDirectory, StopProbe, EndFinally, Unwind,
         Receiver, BindSocket, Announce, CloseWindow, ReceiverDies, Sender, SenderDies,
         SendFrame, Network, Arrive, ControllerDies, Over, vars, driver, Doing, At
  <2>2. verdict' \in {verdict, "FAILURE", "NOT_READY", "ERROR"}
    BY <1>4 DEF Next, Driver, Ask, Setup, StartController, WaitReady, Alive, EnterBatch,
         StartReceiver, AwaitReceivers, StartSender, ConfirmSender, CollectReceiver,
         ObserveCpu, CheckDelivery, LeaveDirectory, StopProbe, EndFinally, Unwind,
         Receiver, BindSocket, Announce, CloseWindow, ReceiverDies, Sender, SenderDies,
         SendFrame, Network, Arrive, ControllerDies, Over, vars, driver, Go, Raise, End
  <2> QED
    BY <2>1, <2>2
<1> QED
  BY <1>2, <1>3, <1>4

LEMMA BlindStep == TypeOK /\ BlindInv /\ [Next]_vars => BlindInv'
<1> SUFFICES ASSUME TypeOK, BlindInv, [Next]_vars PROVE BlindInv'
  OBVIOUS
<1>1. CASE CollectReceiver \/ ObserveCpu
  BY <1>1, BlindRead, SuccessStep DEF BlindInv
<1>2. CASE StartController
  BY <1>2, BlindStart, SuccessStep DEF BlindInv
<1>3. CASE \/ StopProbe \/ ControllerDies \/ Network \/ UNCHANGED vars
           \/ \E h \in Hosts : Receiver(h) \/ Sender(h)
  BY <1>3, DullOther, DullBlind, SuccessStep DEF BlindInv
<1>4. CASE \/ Ask \/ Setup \/ WaitReady \/ Alive \/ EnterBatch \/ StartReceiver
           \/ AwaitReceivers \/ StartSender \/ ConfirmSender \/ CheckDelivery
           \/ LeaveDirectory \/ EndFinally \/ Unwind \/ Succeed
  BY <1>4, DullDriver, DullBlind, SuccessStep DEF BlindInv
<1> QED
  BY <1>1, <1>2, <1>3, <1>4 DEF Next, Driver, Over

\* A test of this shape that prints SUCCESS is right, whatever died, was late, was
\* lost, doubled or misdelivered: in every batch each receiver lived to the end
\* of its window and captured what the case expects, and a test that asks for
\* its controller's life had a live one until every capture was read.
THEOREM SuccessIsRight == Spec => []SuccessIsTrue
<1>1. Init => CaptureInv /\ BlindInv
  <2>1. ASSUME Init PROVE ~ Behind(case, pc, "check")
    BY <2>1 DEF Init, Behind
  <2> QED
    BY <2>1 DEF Init, CaptureInv, BlindInv
<1>2. TypeOK /\ CaptureInv /\ BlindInv => SuccessIsTrue
  <2>1. TypeOK /\ pc = Len(Program[case]) + 1 => ~ AsksAhead(case, pc)
    BY ProgramAssumption DEF TypeOK, AsksAhead
  <2> QED
    BY <2>1 DEF CaptureInv, BlindInv, SuccessIsTrue
<1> QED
  BY <1>1, <1>2, OpenInit, OpenStep, CaptureStep, BlindStep, TypeCorrect, PTL DEF Spec, Safe
=============================================================================
