\* One page, a connection with one QR code, one schedule.
SPECIFICATION FairSpec
CONSTANTS
    Schedules = {s1}
    MaxVersion = 2
    MaxWire = 3
    MaxCodes = 1
INVARIANTS
    TypeOK
    CodeGoesWithState
    ShownAgrees
    MirrorAgrees
PROPERTIES
    LiveIsShown
