\* Two schedules in the file, one created by a user, two of everything busy.
SPECIFICATION FairSpec
CONSTANTS
    Old = {o1, o2}
    MaxNew = 1
    MaxJobs = 2
    MaxSending = 2
    MaxPages = 2
INVARIANTS
    TypeOK
    MigratedOnce
    CleanExit
PROPERTIES
    ShutdownEnds
