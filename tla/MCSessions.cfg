\* Two sessions, two requests at a time, limits of a few ticks.
SPECIFICATION Spec
CONSTANTS
    q1 = q1
    q2 = q2
    s1 = s1
    s2 = s2
    NoSid = NoSid
    NoRequest = NoRequest
    Sids <- TwoSessions
    Slots <- TwoRequests
    IdleTimeout = 1
    AbsoluteTimeout = 2
    Window = 2
    MaxFailures = 1
SYMMETRY Symmetry
INVARIANTS
    TypeOK
    ActiveIsKept
    EndedStaysEnded
    ChecksLimited
PROPERTIES
    OnlyActiveAccepted
