SPECIFICATION FairSpec
CONSTANTS
    MaxLen = 2
    MaxLines = 5
INVARIANTS
    TypeOK
    NoLostWakeup
    NotReadyIsTrue
PROPERTIES
    ReadyOnBanner
    RefinesLineStream
    CallsReturn
