---------------------------- MODULE RunLifecycle ----------------------------
(***************************************************************************)
(* One run of a case: run.sh starts the topology program in the background *)
(* and waits for it (common/run_helpers.sh); the program opens a           *)
(* NetworkRuntime, starts BMv2 switches and controllers, runs its body and *)
(* tears everything down (common/runtime.py, common/p4switch.py).  BMv2    *)
(* and the controllers lead sessions of their own, so what the program     *)
(* does not stop survives it.                                              *)
(*                                                                         *)
(* Python runs a signal handler between two steps of the main thread; pc   *)
(* names the step that is next.  SignalPoints says at which of these steps *)
(* a signal may land, ShellPoints the same for run.sh.                     *)
(***************************************************************************)
EXTENDS Naturals, FiniteSets

CONSTANTS
    NumSwitches,    \* switches of the topology
    NumControllers, \* controllers its body starts
    SignalPoints,   \* steps of the program a signal may land on
    ShellPoints,    \* steps of run.sh a signal may land on
    MaxSignals      \* BOUND: signals sent from outside

ASSUME CountsAssumption == NumSwitches \in Nat \ {0} /\ NumControllers \in Nat \ {0}
ASSUME SignalsAssumption == MaxSignals \in Nat

VARIABLES
    \* run.sh
    sh,             \* what it does next
    topologyPid,    \* TOPOLOGY_PID is set
    shStatus,       \* its exit status
    \* The topology program
    pc,             \* its next step
    n,              \* index of the loop it is in
    disp,           \* disposition of SIGINT and SIGTERM
    handlers,       \* signals whose old handler is in _handlers
    closed,         \* NetworkRuntime._closed
    status,         \* exit status it is heading for
    passed,         \* the body came to its end without an error
    \* The world
    alive,          \* processes that run
    known,          \* switches with proc set, controllers in _controllers
    netUp,          \* Mininet's hosts and links exist
    sent            \* signals sent from outside so far

shell == <<sh, topologyPid, shStatus>>
world == <<alive, known, netUp>>
vars == <<shell, pc, n, disp, handlers, closed, status, passed, world, sent>>

Signals == {"SIGINT", "SIGTERM"}
Order == <<"SIGINT", "SIGTERM">>
Code(sig) == IF sig = "SIGINT" THEN 130 ELSE 143

Switch(i) == <<"switch", i>>
Ctrl(i) == <<"controller", i>>
Switches == {Switch(i) : i \in 1..NumSwitches}
Controllers == {Ctrl(i) : i \in 1..NumControllers}

\* bash starts a background job with SIGINT ignored; Python keeps that.
Original == [SIGINT |-> "ignore", SIGTERM |-> "default"]

Steps == {"none", "start", "install", "record", "build", "swSpawn", "swAssign",
          "swWait", "swStop", "swReap", "ctSpawn", "ctAssign", "ctReader", "ctClose",
          "ctAppend", "body", "close", "ignore", "stopCt", "stopNet",
          "restore", "ended"}
ShellSteps == {"setup", "forked", "waiting", "trapped", "reaping", "exited"}

\* Steps at which the code is not prepared for a signal: a process exists
\* and nothing refers to it yet; stop() has not signalled its process yet and
\* forgets it in any case; a handler is set and not yet in _handlers; close()
\* has begun and the signals are not ignored yet.
SpawnWindow == {"swAssign", "ctAssign", "ctAppend", "ctClose"}
StopWindow == {"swStop"}
RecordWindow == {"record"}
CloseWindow == {"close", "ignore"}
Windows == SpawnWindow \cup StopWindow \cup RecordWindow \cup CloseWindow

TypeOK ==
    /\ sh \in ShellSteps /\ topologyPid \in BOOLEAN /\ shStatus \in Nat
    /\ pc \in Steps /\ n \in Nat
    /\ disp \in [Signals -> {"default", "ignore", "raise"}]
    /\ handlers \subseteq Signals
    /\ closed \in BOOLEAN /\ status \in Nat /\ passed \in BOOLEAN
    /\ alive \subseteq Switches \cup Controllers
    /\ known \subseteq Switches \cup Controllers
    /\ netUp \in BOOLEAN
    /\ sent \in 0..MaxSignals

-----------------------------------------------------------------------------
(***************************************************************************)
(* The topology program.                                                   *)
(***************************************************************************)

\* Seeded faults: the constructor of Controller does not close what it
\* started; the body swallows the exception of a signal.
CatchWithoutClose(p) ==
    CASE p \in {"swAssign", "swWait"} -> "swStop"
      [] p \in {"stopCt", "stopNet"} -> "restore"
      [] p \in {"start", "close", "ignore", "restore"} -> "ended"
      [] OTHER -> "close"
CatchInBody(p) ==
    CASE p \in {"swAssign", "swWait"} -> "swStop"
      [] p = "ctReader" -> "ctClose"
      [] p \in {"stopCt", "stopNet"} -> "restore"
      [] p \in {"start", "close", "ignore", "restore"} -> "ended"
      [] p = "body" -> "body"
      [] OTHER -> "close"

\* Where an exception raised at step p goes on: in the except clause around
\* it, in close() by way of __enter__ or __exit__, in the finally clause of
\* close(), or nowhere.
Catch(p) ==
    CASE p \in {"swAssign", "swWait"} -> "swStop"
      [] p = "ctReader" -> "ctClose"
      [] p \in {"stopCt", "stopNet"} -> "restore"
      [] p \in {"start", "close", "ignore", "restore"} -> "ended"
      [] OTHER -> "close"

Goto(p) == pc' = p
Raise(code) == pc' = Catch(pc) /\ status' = code

\* What the finally clauses do that a signal's exception passes at step pc.
\* P4RuntimeSwitch.stop forgets its process, also one it has not signalled
\* yet (a signal may also come just before its try); stop_process kills a
\* process it waits for.
Unwind ==
    /\ known' \in IF pc = "swStop" THEN {known, known \ {Switch(n)}}
                 ELSE IF pc = "swReap" THEN {known \ {Switch(n)}} ELSE {known}
    /\ alive' \in IF pc = "swReap" THEN {alive \ {Switch(n)}}
                 ELSE IF pc = "ctClose" THEN {alive, alive \ {Ctrl(n)}} ELSE {alive}
    /\ UNCHANGED netUp

Start ==
    /\ pc = "start"
    /\ Goto("install") /\ n' = 1
    /\ UNCHANGED <<shell, disp, handlers, closed, status, passed, world, sent>>

\* signal.signal(signum, self._interrupt), then _handlers[signum] = ...
Install ==
    /\ pc = "install"
    /\ disp' = [disp EXCEPT ![Order[n]] = "raise"]
    /\ Goto("record")
    /\ UNCHANGED <<shell, n, handlers, closed, status, passed, world, sent>>

Record ==
    /\ pc = "record"
    /\ handlers' = handlers \cup {Order[n]}
    /\ IF n = 2 THEN Goto("build") /\ n' = 1 ELSE Goto("install") /\ n' = 2
    /\ UNCHANGED <<shell, disp, closed, status, passed, world, sent>>

\* net.build(); what was built before a failure is there too.
Build ==
    /\ pc = "build"
    /\ netUp' = TRUE
    /\ (Goto("swSpawn") /\ UNCHANGED status) \/ Raise(1)
    /\ UNCHANGED <<shell, n, disp, handlers, closed, passed, alive, known, sent>>

\* net.start() reaches the next switch: the checks of P4RuntimeSwitch.start
\* (binary, free ports) and Popen; both may raise.
SpawnSwitch ==
    /\ pc = "swSpawn"
    /\ \/ alive' = alive \cup {Switch(n)} /\ Goto("swAssign") /\ UNCHANGED status
       \/ Raise(1) /\ UNCHANGED alive
    /\ UNCHANGED <<shell, n, disp, handlers, closed, passed, known, netUp, sent>>

AssignSwitch ==
    /\ pc = "swAssign"
    /\ known' = known \cup {Switch(n)}
    /\ Goto("swWait")
    /\ UNCHANGED <<shell, n, disp, handlers, closed, status, passed, alive, netUp, sent>>

\* Seeded fault: one switch too many.
WaitTcpPastEnd ==
    /\ pc = "swWait"
    /\ \/ /\ Switch(n) \in alive /\ UNCHANGED status
          /\ IF n <= NumSwitches THEN n' = n + 1 /\ Goto("swSpawn")
                                 ELSE n' = 1 /\ Goto("ctSpawn")
       \/ Raise(1) /\ UNCHANGED n
    /\ UNCHANGED <<shell, disp, handlers, closed, passed, world, sent>>

\* The gRPC port opens, or the process dies or stays silent for 10 s.
WaitTcp ==
    /\ pc = "swWait"
    /\ \/ /\ Switch(n) \in alive /\ UNCHANGED status
          /\ IF n < NumSwitches THEN n' = n + 1 /\ Goto("swSpawn")
                                ELSE n' = 1 /\ Goto("ctSpawn")
       \/ Raise(1) /\ UNCHANGED n
    /\ UNCHANGED <<shell, disp, handlers, closed, passed, world, sent>>

\* except BaseException in start(): stop(), which sends SIGTERM to the group
\* of proc if proc is set.
StopFailedSwitch ==
    /\ pc = "swStop"
    /\ Goto(IF Switch(n) \in known THEN "swReap" ELSE "close")
    /\ UNCHANGED <<shell, n, disp, handlers, closed, status, passed, world, sent>>

\* The process ends within 3 s or is killed; then proc = None.
ReapFailedSwitch ==
    /\ pc = "swReap"
    /\ alive' = alive \ {Switch(n)}
    /\ known' = known \ {Switch(n)}
    /\ Goto("close")
    /\ UNCHANGED <<shell, n, disp, handlers, closed, status, passed, netUp, sent>>

\* start_controller: Popen in Controller.__init__, which may raise (as may
\* the wait for the banner of the controller before).
SpawnController ==
    /\ pc = "ctSpawn"
    /\ \/ alive' = alive \cup {Ctrl(n)} /\ Goto("ctAssign") /\ UNCHANGED status
       \/ \E code \in {1, 2} : Raise(code) /\ UNCHANGED alive
    /\ UNCHANGED <<shell, n, disp, handlers, closed, passed, known, netUp, sent>>

AssignController ==
    /\ pc = "ctAssign"
    /\ Goto("ctReader")
    /\ UNCHANGED <<shell, n, disp, handlers, closed, status, passed, world, sent>>

\* self._reader.start(), inside the try of the constructor.
StartReader ==
    /\ pc = "ctReader"
    /\ (Goto("ctAppend") /\ UNCHANGED status) \/ Raise(1)
    /\ UNCHANGED <<shell, n, disp, handlers, closed, passed, world, sent>>

CloseFailedController ==
    /\ pc = "ctClose"
    /\ alive' = alive \ {Ctrl(n)}
    /\ Goto("close")
    /\ UNCHANGED <<shell, n, disp, handlers, closed, status, passed, known, netUp, sent>>

\* The controller is constructed; _controllers.append(controller).
AppendController ==
    /\ pc = "ctAppend"
    /\ known' = known \cup {Ctrl(n)}
    /\ IF n < NumControllers THEN n' = n + 1 /\ Goto("ctSpawn")
                             ELSE n' = 1 /\ Goto("body")
    /\ UNCHANGED <<shell, disp, handlers, closed, status, passed, alive, netUp, sent>>

\* The test or the CLI ends; sys.exit gets its verdict after the teardown.
EndBody ==
    /\ pc = "body"
    /\ \/ passed' = TRUE /\ status' = 0
       \/ status' \in {1, 2} /\ UNCHANGED passed
    /\ Goto("close")
    /\ UNCHANGED <<shell, n, disp, handlers, closed, world, sent>>

Close ==
    /\ pc = "close"
    /\ closed' = TRUE
    /\ n' = 1
    /\ Goto(IF closed THEN "ended" ELSE "ignore")
    /\ UNCHANGED <<shell, disp, handlers, status, passed, world, sent>>

\* for signum in self._handlers: signal.signal(signum, SIG_IGN)
Ignore ==
    /\ pc = "ignore"
    /\ disp' = IF Order[n] \in handlers THEN [disp EXCEPT ![Order[n]] = "ignore"] ELSE disp
    /\ IF n = 2 THEN Goto("stopCt") /\ UNCHANGED n ELSE n' = 2 /\ UNCHANGED pc
    /\ UNCHANGED <<shell, handlers, closed, status, passed, world, sent>>

\* Seeded fault: only the last controller is stopped before the network.
StopLastController ==
    /\ pc = "stopCt"
    /\ LET cs == {i \in 1..NumControllers : Ctrl(i) \in known}
       IN  /\ alive' = alive \ {Ctrl(i) : i \in {j \in cs : \A k \in cs : k <= j}}
           /\ Goto("stopNet")
    /\ UNCHANGED <<shell, n, disp, handlers, closed, status, passed, known, netUp, sent>>

\* Controllers in reverse order; an error of one is logged, not raised.
\* stop_process ends the process in any case: SIGTERM, SIGKILL after 3 s.
StopController ==
    /\ pc = "stopCt"
    /\ IF known \cap Controllers = {} THEN Goto("stopNet") /\ UNCHANGED <<alive, known>>
       ELSE \E i \in 1..NumControllers :
              /\ Ctrl(i) \in known
              /\ \A j \in i + 1 .. NumControllers : Ctrl(j) \notin known
              /\ alive' = alive \ {Ctrl(i)} /\ known' = known \ {Ctrl(i)}
              /\ UNCHANGED pc
    /\ UNCHANGED <<shell, n, disp, handlers, closed, status, passed, netUp, sent>>

\* net.stop(): P4RuntimeSwitch.stop for every switch, then hosts and links.
StopNet ==
    /\ pc = "stopNet"
    /\ IF known = {} THEN netUp' = FALSE /\ Goto("restore") /\ UNCHANGED <<alive, known>>
       ELSE /\ \E s \in known : alive' = alive \ {s} /\ known' = known \ {s}
            /\ UNCHANGED <<netUp, pc>>
    /\ UNCHANGED <<shell, n, disp, handlers, closed, status, passed, sent>>

\* Seeded fault: the old handlers are not put back.
RestoreNothing ==
    /\ pc = "restore"
    /\ Goto("ended")
    /\ UNCHANGED <<shell, n, disp, handlers, closed, status, passed, world, sent>>

\* The finally clause of close().
Restore ==
    /\ pc = "restore"
    /\ disp' = [sig \in Signals |-> IF sig \in handlers THEN Original[sig] ELSE disp[sig]]
    /\ Goto("ended")
    /\ UNCHANGED <<shell, n, handlers, closed, status, passed, world, sent>>

\* A process of the run dies by itself.
Die(p) ==
    /\ p \in alive
    /\ alive' = alive \ {p}
    /\ UNCHANGED <<shell, pc, n, disp, handlers, closed, status, passed, known, netUp, sent>>

-----------------------------------------------------------------------------
(***************************************************************************)
(* Signals and run.sh.                                                     *)
(***************************************************************************)

Unreached == UNCHANGED <<pc, status, world>>

\* The program receives sig: _interrupt raises SystemExit, the default
\* action ends it on the spot.
Receive(sig) ==
    \/ pc \in {"none", "ended"} /\ Unreached
    \/ /\ pc \in SignalPoints \ {"none", "ended"}
       /\ \/ disp[sig] = "ignore" /\ Unreached
          \/ disp[sig] = "default" /\ Goto("ended") /\ status' = Code(sig) /\ UNCHANGED world
          \/ disp[sig] = "raise" /\ Raise(Code(sig)) /\ Unwind

\* The shell's trap: it leaves the step it is in and runs its EXIT trap.  A
\* trap that runs within the EXIT trap ends the shell at once.
Trap(sig) ==
    \/ sh = "exited" /\ UNCHANGED shell
    \/ /\ sh \in ShellPoints \cap {"setup", "forked", "waiting"}
       /\ sh' = "trapped" /\ shStatus' = Code(sig) /\ UNCHANGED topologyPid
    \/ /\ sh \in ShellPoints \cap {"trapped", "reaping"}
       /\ sh' = "exited" /\ shStatus' = Code(sig) /\ UNCHANGED topologyPid

Send == sent < MaxSignals /\ sent' = sent + 1
Untouched == UNCHANGED <<n, disp, handlers, closed, passed>>

\* Ctrl-C reaches the shell and the program, which share a process group.
CtrlC == Send /\ Trap("SIGINT") /\ Receive("SIGINT") /\ Untouched

\* Somebody ends the shell, or the program.
EndShell == Send /\ Trap("SIGTERM") /\ Unreached /\ Untouched
EndProgram ==
    \E sig \in Signals :
        Send /\ pc # "none" /\ Receive(sig) /\ UNCHANGED shell /\ Untouched

\* start_topology: the job is started, then its PID is kept.
Fork ==
    /\ sh = "setup"
    /\ sh' = "forked" /\ pc' = "start"
    /\ UNCHANGED <<topologyPid, shStatus, n, disp, handlers, closed, status,
                   passed, world, sent>>

KeepPid ==
    /\ sh = "forked"
    /\ topologyPid' = TRUE /\ sh' = "waiting"
    /\ UNCHANGED <<shStatus, pc, n, disp, handlers, closed, status, passed, world, sent>>

\* Setting up (compiling the P4 program and the controller) fails.
SetupFails ==
    /\ sh = "setup"
    /\ sh' = "exited" /\ shStatus' = 1
    /\ UNCHANGED <<topologyPid, pc, n, disp, handlers, closed, status, passed, world, sent>>

\* Seeded fault: the script ends with 0 whatever the program ended with.
WaitedForNothing ==
    /\ sh = "waiting" /\ pc = "ended"
    /\ topologyPid' = FALSE /\ shStatus' = 0 /\ sh' = "exited"
    /\ UNCHANGED <<pc, n, disp, handlers, closed, status, passed, world, sent>>

\* wait returns the status of the program, and the script ends with it.
Waited ==
    /\ sh = "waiting" /\ pc = "ended"
    /\ topologyPid' = FALSE /\ shStatus' = status /\ sh' = "exited"
    /\ UNCHANGED <<pc, n, disp, handlers, closed, status, passed, world, sent>>

\* Seeded fault: the EXIT trap sends no signal.
KillNobody ==
    /\ sh = "trapped"
    /\ sh' = "exited"
    /\ UNCHANGED <<topologyPid, shStatus, sent>> /\ Unreached /\ Untouched

\* kill_topology in the EXIT trap.
KillTopology ==
    /\ sh = "trapped"
    /\ IF topologyPid THEN sh' = "reaping" /\ Receive("SIGTERM")
                      ELSE sh' = "exited" /\ Unreached
    /\ UNCHANGED <<topologyPid, shStatus, sent>> /\ Untouched

Reaped ==
    /\ sh = "reaping" /\ pc = "ended"
    /\ topologyPid' = FALSE /\ sh' = "exited"
    /\ UNCHANGED <<shStatus, pc, n, disp, handlers, closed, status, passed, world, sent>>

-----------------------------------------------------------------------------
Init ==
    /\ sh = "setup" /\ topologyPid = FALSE /\ shStatus = 0
    /\ pc = "none" /\ n = 1
    /\ disp = Original /\ handlers = {}
    /\ closed = FALSE /\ status = 0 /\ passed = FALSE
    /\ alive = {} /\ known = {} /\ netUp = FALSE
    /\ sent = 0

Enter == Start \/ Install \/ Record \/ Build
StartSwitches ==
    \/ SpawnSwitch \/ AssignSwitch \/ WaitTcp
    \/ StopFailedSwitch \/ ReapFailedSwitch
StartControllers ==
    \/ SpawnController \/ AssignController \/ StartReader
    \/ CloseFailedController \/ AppendController
Teardown == Close \/ Ignore \/ StopController \/ StopNet \/ Restore
RunShell == Fork \/ KeepPid \/ SetupFails \/ Waited \/ KillTopology \/ Reaped

Next ==
    \/ Enter \/ StartSwitches \/ StartControllers \/ EndBody \/ Teardown
    \/ RunShell
    \/ CtrlC \/ EndShell \/ EndProgram
    \/ \E p \in alive : Die(p)

\* When nothing is left to do the run is over.
Spec == Init /\ [][Next]_vars

\* The program and the shell are scheduled.  The body need not end: a CLI
\* waits for its user, so EndBody has no fairness.
FairSpec ==
    /\ Spec
    /\ WF_vars(Enter \/ StartSwitches \/ StartControllers \/ Teardown)
    /\ WF_vars(RunShell)

-----------------------------------------------------------------------------
(***************************************************************************)
(* Properties.                                                             *)
(***************************************************************************)

\* "Normal end, test errors, SIGINT and SIGTERM all clean up the processes
\* and the network of this run" (README 145): once the program has ended,
\* none of its switches and controllers runs and its network is gone.  So it
\* is for signals outside Windows; what becomes of it within, the runs of
\* SpawnWindow, StopWindow and CloseWindow show.
NothingLeftBehind ==
    pc = "ended" => alive = {} /\ ~netUp

\* A program that tore down leaves the signal handlers it found (runtime.py:
\* 193-195), also when its start failed half-way.
HandlersRestored == pc = "ended" /\ closed => disp = Original

\* Controllers are stopped before the network (common/README 28): while
\* switches are being stopped no controller runs that could see them go.
ControllersStopFirst == pc = "stopNet" => alive \cap Controllers = {}

\* run.sh reports success only for a body that came to its end without an
\* error: neither a signal, nor a failed start, nor waiting on the program
\* turns into status 0.
SuccessIsReal == sh = "exited" /\ shStatus = 0 => passed

\* An interrupted program ends, even while it waits for a CLI user and
\* whatever further signals follow.
InterruptEnds == (status \in {130, 143}) ~> (pc = "ended")

\* When run.sh has ended, its program and what it started do not stay behind:
\* the EXIT trap stops it and waits for its teardown.  Signals outside Windows
\* only, and none to run.sh while its job has started and TOPOLOGY_PID is not
\* set (ShellPoints).
NothingOutlivesShell == (sh = "exited") ~> (pc \in {"none", "ended"} /\ alive = {})
=============================================================================
