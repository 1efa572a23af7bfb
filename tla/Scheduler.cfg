\* Two schedules, one process death; a step of 2 units leaves instants off the grid.
SPECIFICATION FairSpec
CONSTANTS
    Schedules = {s1, s2}
    MaxTime = 2
    Steps = {0, 2}
    MaxCrashes = 1
INVARIANTS
    TypeOK
    OpenJobIsCurrent
    SendingHasJob
PROPERTIES
    CatchUpOnce
    DueFires
    SendingMovesOn
