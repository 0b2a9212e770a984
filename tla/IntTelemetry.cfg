SPECIFICATION FairSpec
CONSTANTS
    MaxHeaders = 9
    Formats <- MCFormats
    Ttls <- MCTtls
    EarlySends = FALSE
INVARIANTS
    TypeOK
    EmitsWellFormed
    TraceIsPath
PROPERTIES
    NothingLostWhenReady
    PacketsLeave
