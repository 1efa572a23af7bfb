\* One job with two recipients, every outcome, two process deaths.
SPECIFICATION Spec
CONSTANTS
    j1 = j1
    j2 = j2
    r1 = r1
    r2 = r2
    r3 = r3
    Jobs <- OneJob
    Items <- OneJobItems
    JobOf <- OneJobOf
    Outcomes <- AllOutcomes
    MaxAttempts = 2
    Concurrency = 2
    FailureThreshold = 2
    MaxCrashes = 2
SYMMETRY RecipientSymmetry
INVARIANTS
    TypeOK
    InFlightOwned
    SettledMatchesItems
    CountersAccurate
    DeliveredAtMostOnce
    NoLostReceipt
    AttemptsBounded
    PermitsAccounted
PROPERTIES
    NoStartWhileStopped
