SPECIFICATION Spec
CONSTANTS
    NumSwitches = 2
    NumControllers = 2
    SignalPoints <- MCSpawnPoints
    ShellPoints <- MCShellPoints
    MaxSignals = 1
CHECK_DEADLOCK FALSE
INVARIANTS
    NothingLeftBehind
