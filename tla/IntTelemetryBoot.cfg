SPECIFICATION Spec
CONSTANTS
    MaxHeaders = 9
    Formats <- MCEarlyFormats
    Ttls <- MCEarlyTtls
    EarlySends = TRUE
INVARIANTS
    OnlyToOwner
    NoTransientLoop
