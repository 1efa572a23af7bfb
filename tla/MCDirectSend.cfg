\* Two submissions of one bulk send, a list send and a chat send.
SPECIFICATION Spec
CONSTANTS
    b1 = b1
    b2 = b2
    l = l
    c = c
    kb = kb
    NoKey = NoKey
    Keys = {kb}
    Requests <- Mixed
    RouteOf <- MCRouteOf
    KeyOf <- MCKeyOf
    Recipients = 2
    TTL = 2
    MaxCrashes = 1
SYMMETRY SubmissionSymmetry
INVARIANTS
    TypeOK
    ReplayIsOfCompleted
    AnsweredSendIsAudited
    RowsAreRecent
