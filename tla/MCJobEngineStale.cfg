\* One process death and a restart.
SPECIFICATION FairSpec
CONSTANTS
    j1 = j1
    j2 = j2
    r1 = r1
    r2 = r2
    r3 = r3
    Jobs <- OneJob
    Items <- OneJobItems
    JobOf <- OneJobOf
    Outcomes <- SentOrError
    MaxAttempts = 1
    Concurrency = 1
    FailureThreshold = 9
    MaxCrashes = 1
PROPERTIES
    StaleClaimsRequeued
