SPECIFICATION Spec
CONSTANTS
    NumSwitches = 2
    NumControllers = 2
    SignalPoints <- MCClosePoints
    ShellPoints <- MCShellPoints
    MaxSignals = 2
CHECK_DEADLOCK FALSE
INVARIANTS
    NothingLeftBehind
