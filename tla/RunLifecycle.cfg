SPECIFICATION FairSpec
CONSTANTS
    NumSwitches = 2
    NumControllers = 2
    SignalPoints <- MCQuietPoints
    ShellPoints <- MCShellPoints
    MaxSignals = 3
CHECK_DEADLOCK FALSE
INVARIANTS
    TypeOK
    NothingLeftBehind
    HandlersRestored
    ControllersStopFirst
    SuccessIsReal
PROPERTIES
    InterruptEnds
    NothingOutlivesShell
