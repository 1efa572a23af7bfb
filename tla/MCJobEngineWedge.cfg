\* Liveness with a breaker that trips; no retries, so no backoff is waited for.
SPECIFICATION FairSpec
CONSTANTS
    j1 = j1
    j2 = j2
    r1 = r1
    r2 = r2
    r3 = r3
    Jobs <- TwoJobs
    Items <- TwoJobsItems
    JobOf <- TwoJobsOf
    Outcomes <- SentOrError
    MaxAttempts = 1
    Concurrency = 2
    FailureThreshold = 2
    MaxCrashes = 0
PROPERTIES
    JobsSettle
