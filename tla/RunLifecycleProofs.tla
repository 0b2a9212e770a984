------------------------- MODULE RunLifecycleProofs -------------------------
(***************************************************************************)
(* Proofs about RunLifecycle, for every number of switches, controllers    *)
(* and signals, as long as no signal lands in one of the four windows.     *)
(***************************************************************************)
EXTENDS RunLifecycle, TLAPS

NoSignalInWindows == SignalPoints \cap Windows = {}

\* Where no process has been started yet, and where the program works with
\* both handlers in place.
Entering == {"none", "start", "install", "record"}
Working == {"build", "swSpawn", "swAssign", "swWait", "swStop", "swReap",
            "ctSpawn", "ctAssign", "ctReader", "ctClose", "ctAppend", "body"}

Quiet == alive = {} /\ known = {} /\ ~netUp

\* Process p is started and not recorded yet.
Starting(p) ==
    \/ pc = "swAssign" /\ p = Switch(n)
    \/ pc \in {"ctAssign", "ctReader", "ctClose", "ctAppend"} /\ p = Ctrl(n)

\* A running process is recorded or being started, nothing runs before the
\* handlers are in place, and what close() has passed is stopped.
ProcessInv ==
    /\ sh = "setup" => pc = "none"
    /\ \A p \in alive : p \in known \/ Starting(p)
    /\ pc \in Entering \cup {"restore"} => Quiet
    /\ pc \in {"build", "swSpawn", "swAssign", "swWait", "swStop", "swReap"} =>
         n \in 1..NumSwitches
    /\ pc \in {"ctSpawn", "ctAssign", "ctReader", "ctClose", "ctAppend"} => n \in 1..NumControllers
    /\ pc = "stopNet" => known \cap Controllers = {}
    /\ pc = "ended" => alive = {} /\ ~netUp
    /\ closed => pc \in {"ignore", "stopCt", "stopNet", "restore", "ended"}

\* A signal ends the program at once only while there is nothing to stop; it
\* raises only while close() would ignore it, and no more during teardown.
SignalInv ==
    /\ \A sig \in Signals : disp[sig] = "default" => Quiet
    /\ \A sig \in Signals :
         disp[sig] = "raise" => sig \in handlers \/ (pc = "record" /\ sig = Order[n])
    /\ pc \in Working => handlers = Signals /\ \A sig \in Signals : disp[sig] = "raise"
    /\ pc \in {"install", "record"} =>
         n \in {1, 2} /\ (n = 2 => "SIGINT" \in handlers /\ disp["SIGINT"] = "raise")
    /\ pc = "record" => disp[Order[n]] = "raise"
    /\ pc = "ignore" => n \in {1, 2} /\ (n = 2 => disp["SIGINT"] # "raise")
    /\ pc \in {"stopCt", "stopNet", "restore"} => \A sig \in Signals : disp[sig] # "raise"
    /\ disp["SIGINT"] # "default"
    /\ \A sig \in Signals :
         sig \in handlers \/ disp[sig] = Original[sig] \/ (pc = "record" /\ sig = Order[n])
    /\ closed /\ pc = "ended" => disp = Original

Inv == TypeOK /\ ProcessInv /\ SignalInv

-----------------------------------------------------------------------------
LEMMA ProcessKinds ==
    /\ \A i \in 1..NumSwitches : Switch(i) \in Switches
    /\ \A i \in 1..NumControllers : Ctrl(i) \in Controllers
    /\ \A p \in Controllers : \E i \in 1..NumControllers : p = Ctrl(i)
BY DEF Switches, Controllers

LEMMA InitInv == Init => Inv
<1> SUFFICES ASSUME Init PROVE Inv
  OBVIOUS
<1>1. TypeOK
  <2>1. disp \in [Signals -> {"default", "ignore", "raise"}]
    BY DEF Init, Original, Signals
  <2>2. topologyPid \in BOOLEAN /\ closed \in BOOLEAN /\ passed \in BOOLEAN /\ netUp \in BOOLEAN
    BY Zenon DEF Init
  <2> QED
    BY <2>1, <2>2, SignalsAssumption DEF Init, TypeOK, ShellSteps, Steps
<1>2. ProcessInv
  BY DEF Init, ProcessInv, Quiet, Entering
<1>3. SignalInv
  BY DEF Init, SignalInv, Quiet, Working, Original, Signals
<1> QED
  BY <1>1, <1>2, <1>3 DEF Inv

LEMMA EnterInv ==
    ASSUME Inv, Enter
    PROVE  Inv'
<1> USE DEF Inv, ProcessInv, SignalInv, Quiet, Starting, Entering, Working, shell, world
<1>1. CASE Start
  BY <1>1 DEF Start, Goto, TypeOK, Steps
<1>2. CASE Install
  BY <1>2 DEF Install, Goto, TypeOK, Steps, Order, Signals
<1>3. CASE Record
  <2>1. /\ n \in {1, 2} /\ pc = "record" /\ handlers' = handlers \cup {Order[n]}
        /\ n = 1 => pc' = "install" /\ n' = 2
        /\ n = 2 => pc' = "build" /\ n' = 1 /\ "SIGINT" \in handlers
        /\ UNCHANGED <<shell, disp, closed, status, passed, world, sent>>
    BY <1>3 DEF Record, Goto
  <2>2. Order[1] = "SIGINT" /\ Order[2] = "SIGTERM"
    BY DEF Order
  <2>3. CASE n = 1
    <3>1. handlers' = handlers \cup {"SIGINT"} /\ pc' = "install" /\ n' = 2
          /\ disp["SIGINT"] = "raise"
      BY <2>1, <2>2, <2>3
    <3>2. TypeOK'
      BY <2>1, <3>1 DEF TypeOK, Steps, Signals
    <3>3. ProcessInv'
      BY <2>1, <3>1
    <3>4. SignalInv'
      BY <2>1, <2>2, <2>3, <3>1
    <3> QED
      BY <3>2, <3>3, <3>4
  <2>4. CASE n = 2
    <3>1. /\ handlers' = handlers \cup {"SIGTERM"} /\ pc' = "build" /\ n' = 1
          /\ disp["SIGTERM"] = "raise" /\ "SIGINT" \in handlers /\ disp["SIGINT"] = "raise"
      BY <2>1, <2>2, <2>4
    <3>2. handlers' = Signals
      BY <3>1 DEF TypeOK, Signals
    <3>3. TypeOK'
      BY <2>1, <3>1, <3>2 DEF TypeOK, Steps
    <3>4. ProcessInv'
      BY <2>1, <3>1, CountsAssumption
    <3>5. SignalInv'
      BY <2>1, <3>1, <3>2 DEF Signals
    <3> QED
      BY <3>3, <3>4, <3>5
  <2> QED
    BY <2>1, <2>3, <2>4
<1>4. CASE Build
  BY <1>4, CountsAssumption DEF Build, Goto, Raise, Catch, TypeOK, Steps
<1> QED
  BY <1>1, <1>2, <1>3, <1>4 DEF Enter

LEMMA SwitchesInv ==
    ASSUME Inv, StartSwitches
    PROVE  Inv'
<1> USE ProcessKinds, CountsAssumption
        DEF Inv, ProcessInv, SignalInv, Quiet, Starting, Entering, Working, shell, world
<1>1. CASE SpawnSwitch
  BY <1>1 DEF SpawnSwitch, Goto, Raise, Catch, TypeOK, Steps
<1>2. CASE AssignSwitch
  BY <1>2 DEF AssignSwitch, Goto, TypeOK, Steps
<1>3. CASE WaitTcp
  BY <1>3 DEF WaitTcp, Goto, Raise, Catch, TypeOK, Steps
<1>4. CASE StopFailedSwitch
  BY <1>4 DEF StopFailedSwitch, Goto, TypeOK, Steps
<1>5. CASE ReapFailedSwitch
  BY <1>5 DEF ReapFailedSwitch, Goto, TypeOK, Steps
<1> QED
  BY <1>1, <1>2, <1>3, <1>4, <1>5 DEF StartSwitches

LEMMA ControllersInv ==
    ASSUME Inv, StartControllers
    PROVE  Inv'
<1> USE ProcessKinds, CountsAssumption
        DEF Inv, ProcessInv, SignalInv, Quiet, Starting, Entering, Working, shell, world
<1>1. CASE SpawnController
  BY <1>1 DEF SpawnController, Goto, Raise, Catch, TypeOK, Steps
<1>2. CASE AssignController
  BY <1>2 DEF AssignController, Goto, TypeOK, Steps
<1>3. CASE StartReader
  BY <1>3 DEF StartReader, Goto, Raise, Catch, TypeOK, Steps
<1>4. CASE CloseFailedController
  BY <1>4 DEF CloseFailedController, Goto, TypeOK, Steps
<1>5. CASE AppendController
  BY <1>5 DEF AppendController, Goto, TypeOK, Steps
<1> QED
  BY <1>1, <1>2, <1>3, <1>4, <1>5 DEF StartControllers

LEMMA TeardownInv ==
    ASSUME Inv, Teardown
    PROVE  Inv'
<1> USE DEF Inv, ProcessInv, SignalInv, Quiet, Starting, Entering, Working, shell, world
<1>1. CASE Close
  BY <1>1 DEF Close, Goto, TypeOK, Steps
<1>2. CASE Ignore
  BY <1>2 DEF Ignore, Goto, TypeOK, Steps, Order, Signals
<1>3. CASE StopController
  BY <1>3, ProcessKinds DEF StopController, Goto, TypeOK, Steps
<1>4. CASE StopNet
  BY <1>4 DEF StopNet, Goto, TypeOK, Steps
<1>5. CASE Restore
  BY <1>5 DEF Restore, Goto, TypeOK, Steps, Original, Signals
<1> QED
  BY <1>1, <1>2, <1>3, <1>4, <1>5 DEF Teardown

\* Where a signal that lands outside the windows leads: nowhere before the
\* start and after the end, to the end while nothing runs, else to close(),
\* maybe by way of the except clause around the step.
LEMMA SignalInvariance ==
    ASSUME NoSignalInWindows, Inv, NEW sig \in Signals, Receive(sig), Untouched,
           sh' # "setup", topologyPid' \in BOOLEAN /\ shStatus' \in Nat /\ sh' \in ShellSteps,
           sent' \in 0..MaxSignals
    PROVE  Inv'
<1> USE DEF Untouched, world
<1>1. pc' \in Steps /\ status' \in Nat
  BY DEF Receive, Unreached, Goto, Raise, Catch, Code, Inv, TypeOK, Steps
<1>2. \/ Unreached
      \/ disp[sig] = "default" /\ Goto("ended") /\ UNCHANGED world
      \/ disp[sig] = "raise" /\ pc' = Catch(pc) /\ Unwind
  BY DEF Receive, Raise
<1>3. alive' \subseteq alive /\ known' \subseteq known /\ netUp' = netUp
  BY <1>2 DEF Unreached, Unwind
<1>4. TypeOK'
  BY <1>1, <1>3 DEF Inv, TypeOK
<1>5. CASE Unreached
  BY <1>4, <1>5 DEF Unreached, Inv, ProcessInv, SignalInv, Quiet, Starting
<1>6. CASE ~Unreached
  <2>1. pc \notin Windows /\ pc \notin {"none", "ended"}
    BY <1>6 DEF Receive, NoSignalInWindows
  <2>2. CASE disp[sig] = "default" /\ Goto("ended") /\ UNCHANGED world
    <3>1. pc' = "ended" /\ Quiet /\ pc # "record"
      BY <2>1, <2>2 DEF Goto, Inv, SignalInv, Windows, RecordWindow
    <3>2. closed => disp = Original
      <4>1. closed => pc \in {"stopCt", "stopNet", "restore"}
        BY <2>1 DEF Inv, ProcessInv, Windows, CloseWindow
      <4>2. closed => disp["SIGINT"] = "ignore" /\ disp["SIGTERM"] = "default"
        BY <2>2, <4>1 DEF Inv, TypeOK, SignalInv, Signals
      <4> QED
        BY <4>2 DEF Inv, TypeOK, Signals, Original
    <3> QED
      BY <1>4, <2>2, <3>1, <3>2
         DEF Inv, ProcessInv, SignalInv, Quiet, Starting, Entering, Working
  <2>3. CASE disp[sig] = "raise" /\ pc' = Catch(pc) /\ Unwind /\ pc # "swReap"
    <3>1. UNCHANGED world
      BY <2>1, <2>3 DEF Unwind, Windows, SpawnWindow, StopWindow
    <3> QED
      BY <1>4, <2>1, <2>3, <3>1
         DEF Catch, Windows, SpawnWindow, StopWindow, RecordWindow, CloseWindow, Inv,
             ProcessInv, SignalInv, Quiet, Starting, Entering, Working
  <2>4. CASE disp[sig] = "raise" /\ pc' = Catch(pc) /\ Unwind /\ pc = "swReap"
    <3>1. /\ pc' = "close" /\ alive' = alive \ {Switch(n)} /\ known' = known \ {Switch(n)}
          /\ netUp' = netUp
      BY <2>4 DEF Catch, Unwind
    <3> QED
      BY <1>4, <2>4, <3>1 DEF Inv, ProcessInv, SignalInv, Quiet, Starting, Entering, Working
  <2> QED
    BY <1>2, <1>6, <2>2, <2>3, <2>4
<1> QED
  BY <1>5, <1>6

LEMMA ShellInv ==
    ASSUME NoSignalInWindows, Inv, RunShell
    PROVE  Inv'
<1> USE DEF shell, world
<1>1. CASE Fork
  BY <1>1 DEF Fork, Inv, TypeOK, ProcessInv, SignalInv, Quiet, Starting, Entering, Working,
              Steps, ShellSteps
<1>2. CASE KeepPid
  BY <1>2 DEF KeepPid, Inv, TypeOK, ProcessInv, SignalInv, Quiet, Starting, ShellSteps
<1>3. CASE SetupFails
  BY <1>3 DEF SetupFails, Inv, TypeOK, ProcessInv, SignalInv, Quiet, Starting, ShellSteps
<1>4. CASE Waited
  BY <1>4 DEF Waited, Inv, TypeOK, ProcessInv, SignalInv, Quiet, Starting, ShellSteps
<1>5. CASE KillTopology
  <2>1. /\ sh' \in {"reaping", "exited"} /\ Untouched
        /\ topologyPid' = topologyPid /\ shStatus' = shStatus /\ sent' = sent
        /\ Receive("SIGTERM") \/ Unreached
    BY <1>5 DEF KillTopology
  <2>2. CASE Receive("SIGTERM")
    BY <2>1, <2>2, SignalInvariance DEF Inv, TypeOK, ShellSteps, Signals
  <2>3. CASE Unreached
    BY <2>1, <2>3 DEF Untouched, Unreached, Inv, TypeOK, ProcessInv, SignalInv, Quiet, Starting, ShellSteps
  <2> QED
    BY <2>1, <2>2, <2>3
<1>6. CASE Reaped
  BY <1>6 DEF Reaped, Inv, TypeOK, ProcessInv, SignalInv, Quiet, Starting, ShellSteps
<1> QED
  BY <1>1, <1>2, <1>3, <1>4, <1>5, <1>6 DEF RunShell

\* A signal reaches the shell: it is in its EXIT trap or at its end then.
LEMMA TrapLeaves ==
    ASSUME TypeOK, NEW sig \in Signals, Trap(sig)
    PROVE  sh' \in {"trapped", "exited"} /\ topologyPid' = topologyPid /\ shStatus' \in Nat
BY DEF Trap, shell, TypeOK, Code

LEMMA OutsideInv ==
    ASSUME NoSignalInWindows, Inv, CtrlC \/ EndShell \/ EndProgram
    PROVE  Inv'
<1>1. sent' \in 0..MaxSignals /\ Untouched
  BY SignalsAssumption DEF CtrlC, EndShell, EndProgram, Send, Inv, TypeOK
<1>2. CASE CtrlC
  <2>1. Trap("SIGINT") /\ Receive("SIGINT") /\ "SIGINT" \in Signals
    BY <1>2 DEF CtrlC, Signals
  <2>2. sh' \in {"trapped", "exited"} /\ topologyPid' \in BOOLEAN /\ shStatus' \in Nat
    BY <2>1, TrapLeaves DEF Inv, TypeOK
  <2> QED
    BY <1>1, <2>1, <2>2, SignalInvariance DEF ShellSteps
<1>3. CASE EndShell
  <2>1. Trap("SIGTERM") /\ "SIGTERM" \in Signals /\ Unreached
    BY <1>3 DEF EndShell, Signals
  <2>2. sh' \in {"trapped", "exited"} /\ topologyPid' \in BOOLEAN /\ shStatus' \in Nat
    BY <2>1, TrapLeaves DEF Inv, TypeOK
  <2> QED
    BY <1>1, <2>1, <2>2
       DEF Untouched, Unreached, world, Inv, TypeOK, ProcessInv, SignalInv, Quiet, Starting, ShellSteps
<1>4. CASE EndProgram
  <2>1. PICK sig \in Signals : pc # "none" /\ Receive(sig) /\ UNCHANGED shell
    BY <1>4 DEF EndProgram
  <2>2. sh' # "setup" /\ topologyPid' \in BOOLEAN /\ shStatus' \in Nat /\ sh' \in ShellSteps
    BY <2>1 DEF shell, Inv, TypeOK, ProcessInv
  <2> QED
    BY <1>1, <2>1, <2>2, SignalInvariance
<1> QED
  BY <1>2, <1>3, <1>4

LEMMA NextInv ==
    ASSUME NoSignalInWindows, Inv, [Next]_vars
    PROVE  Inv'
<1>1. CASE EndBody
  <2>1. /\ pc = "body" /\ pc' = "close" /\ status' \in {0, 1, 2} /\ passed' \in BOOLEAN
        /\ UNCHANGED <<shell, n, disp, handlers, closed, world, sent>>
    BY <1>1 DEF EndBody, Goto, Inv, TypeOK
  <2>2. TypeOK'
    BY <2>1 DEF shell, world, Inv, TypeOK, Steps
  <2> QED
    BY <2>1, <2>2 DEF shell, world, Inv, ProcessInv, SignalInv, Quiet, Starting, Entering, Working
<1>2. CASE \E p \in alive : Die(p)
  BY <1>2 DEF Die, shell, Inv, TypeOK, ProcessInv, SignalInv, Quiet, Starting
<1>3. CASE UNCHANGED vars
  BY <1>3 DEF vars, shell, world, Inv, TypeOK, ProcessInv, SignalInv, Quiet, Starting
<1> QED
  BY <1>1, <1>2, <1>3, EnterInv, SwitchesInv, ControllersInv, TeardownInv, ShellInv,
     OutsideInv DEF Next

-----------------------------------------------------------------------------
\* All variables keep their types.
THEOREM LifecycleTypeCorrect ==
    ASSUME NoSignalInWindows
    PROVE  Spec => []TypeOK
<1>1. Inv => TypeOK
  BY DEF Inv
<1>2. Inv /\ [Next]_vars => Inv'
  BY NextInv
<1> QED
  BY InitInv, <1>1, <1>2, PTL DEF Spec

\* However the run fails and wherever signals land, except between a spawn and
\* its record, in stop() before its SIGTERM, between a handler and its record
\* and before close() ignores signals, the program ends with its processes
\* stopped and its network gone.
THEOREM CleanEnd ==
    ASSUME NoSignalInWindows
    PROVE  Spec => []NothingLeftBehind
<1>1. Inv => NothingLeftBehind
  BY DEF Inv, ProcessInv, NothingLeftBehind
<1>2. Inv /\ [Next]_vars => Inv'
  BY NextInv
<1> QED
  BY InitInv, <1>1, <1>2, PTL DEF Spec

\* While close() stops the network no controller runs.
THEOREM NetworkOutlivesControllers ==
    ASSUME NoSignalInWindows
    PROVE  Spec => []ControllersStopFirst
<1>1. Inv => ControllersStopFirst
  BY DEF Inv, ProcessInv, Starting, ControllersStopFirst
<1>2. Inv /\ [Next]_vars => Inv'
  BY NextInv
<1> QED
  BY InitInv, <1>1, <1>2, PTL DEF Spec

\* A program that went through close() ends with the handlers it found.
THEOREM HandlersComeBack ==
    ASSUME NoSignalInWindows
    PROVE  Spec => []HandlersRestored
<1>1. Inv => HandlersRestored
  BY DEF Inv, SignalInv, HandlersRestored
<1>2. Inv /\ [Next]_vars => Inv'
  BY NextInv
<1> QED
  BY InitInv, <1>1, <1>2, PTL DEF Spec

-----------------------------------------------------------------------------
(***************************************************************************)
(* The exit status, wherever signals land.                                 *)
(***************************************************************************)
Finishing == {"swStop", "swReap", "ctClose", "close", "ignore", "stopCt", "stopNet", "restore", "ended"}

\* Every way into the teardown but a good end of the body sets a status
\* other than 0, and so does every way out of run.sh but waiting.
StatusInv ==
    /\ pc \in Finishing /\ status = 0 => passed
    /\ sh \in {"trapped", "reaping"} => shStatus # 0
    /\ SuccessIsReal

LEMMA ReceiveStatus ==
    ASSUME StatusInv, NEW sig \in Signals, Receive(sig) \/ Unreached,
           passed' = passed
    PROVE  (pc \in Finishing /\ status = 0 => passed)'
BY DEF StatusInv, Receive, Unreached, Goto, Raise, Code

LEMMA TrapStatus ==
    ASSUME StatusInv, NEW sig \in Signals, Trap(sig), passed' = passed
    PROVE  (sh \in {"trapped", "reaping"} => shStatus # 0)' /\ SuccessIsReal'
BY DEF StatusInv, SuccessIsReal, Trap, shell, Code

LEMMA StatusStep ==
    ASSUME StatusInv, [Next]_vars
    PROVE  StatusInv'
<1> USE DEF StatusInv, SuccessIsReal, Finishing, Goto, Raise, shell
<1>1. CASE Enter
  BY <1>1 DEF Enter, Start, Install, Record, Build
<1>2. CASE StartSwitches
  BY <1>2 DEF StartSwitches, SpawnSwitch, AssignSwitch, WaitTcp, StopFailedSwitch,
              ReapFailedSwitch
<1>3. CASE StartControllers
  BY <1>3 DEF StartControllers, SpawnController, AssignController, StartReader,
              CloseFailedController, AppendController
<1>4. CASE EndBody
  BY <1>4 DEF EndBody
<1>5. CASE Teardown
  BY <1>5 DEF Teardown, Close, Ignore, StopController, StopNet, Restore
<1>6. CASE KillTopology
  <2>1. /\ sh = "trapped" /\ sh' \in {"reaping", "exited"} /\ shStatus' = shStatus
        /\ passed' = passed /\ (Receive("SIGTERM") \/ Unreached)
    BY <1>6 DEF KillTopology, Untouched
  <2>2. (pc \in Finishing /\ status = 0 => passed)'
    BY <2>1, ReceiveStatus DEF Signals
  <2> QED
    BY <2>1, <2>2
<1>7. CASE Fork \/ KeepPid \/ SetupFails \/ Waited \/ Reaped
  BY <1>7 DEF Fork, KeepPid, SetupFails, Waited, Reaped
<1>8. CASE CtrlC \/ EndShell
  <2>1. PICK sig \in Signals : /\ Trap(sig) /\ passed' = passed
                               /\ Receive(sig) \/ Unreached
    BY <1>8 DEF CtrlC, EndShell, Untouched, Signals
  <2> QED
    BY <2>1, ReceiveStatus, TrapStatus
<1>9. CASE EndProgram
  <2>1. PICK sig \in Signals : Receive(sig) /\ UNCHANGED <<shell, passed>>
    BY <1>9 DEF EndProgram, Untouched
  <2>2. (pc \in Finishing /\ status = 0 => passed)'
    BY <2>1, ReceiveStatus
  <2> QED
    BY <2>1, <2>2
<1>10. CASE \E p \in alive : Die(p)
  BY <1>10 DEF Die
<1>11. CASE UNCHANGED vars
  BY <1>11 DEF vars
<1> QED
  BY <1>1, <1>2, <1>3, <1>4, <1>5, <1>6, <1>7, <1>8, <1>9, <1>10, <1>11 DEF Next, RunShell

\* run.sh ends with 0 only for a body that passed, with signals at any step,
\* the windows included.
THEOREM SuccessIsTrue == Spec => []SuccessIsReal
<1>1. Init => StatusInv
  BY DEF Init, StatusInv, SuccessIsReal, Finishing
<1>2. StatusInv => SuccessIsReal
  BY DEF StatusInv
<1> QED
  BY <1>1, <1>2, StatusStep, PTL DEF Spec
=============================================================================
