SPECIFICATION FairSpec
CONSTANTS
    a = a
    x = x
    Macs <- MCHosts
    UnicastMacs <- MCHosts
    SwitchPorts <- MCSwitchPorts
    N = 2
    TableSize = 1
    QueueCap = 1
    WireBound = 1
PROPERTIES
    EventuallyLearned
