SPECIFICATION Spec
CONSTANTS
    a = a
    x = x
    Macs <- MCMacs
    UnicastMacs <- MCUnicastMacs
    SwitchPorts <- MCSwitchPorts
    N = 2
    TableSize = 1
    QueueCap = 1
    WireBound = 1
INVARIANTS
    TypeOK
    ForwardBeforeSuppress
    LearnedIsInstalled
    ForwardsWhereSeen
    SubscribedBeforeReports
PROPERTIES
    FirstPortIsFinal
    FloodsToAllOthers
    RefinesMacLearning
