SPECIFICATION Spec
CONSTANTS
    NumSwitches = 2
    NumControllers = 2
    SignalPoints <- MCStopPoints
    ShellPoints <- MCShellPoints
    MaxSignals = 1
CHECK_DEADLOCK FALSE
INVARIANTS
    NothingLeftBehind
