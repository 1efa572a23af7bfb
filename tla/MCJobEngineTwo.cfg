\* Two jobs sharing two permits; no process death, and a breaker that never trips
\* (its threshold exceeds the attempts there are).
SPECIFICATION FairSpec
CONSTANTS
    j1 = j1
    j2 = j2
    r1 = r1
    r2 = r2
    r3 = r3
    Jobs <- TwoJobs
    Items <- TwoJobsItems
    JobOf <- TwoJobsOf
    Outcomes <- SentOrError
    MaxAttempts = 2
    Concurrency = 2
    FailureThreshold = 9
    MaxCrashes = 0
PROPERTIES
    ImplementsLedger
    JobsSettle
