\* Each of the four forms, with two requests of a button at a time.
SPECIFICATION Spec
CONSTANTS
    MaxRecipients = 2
    MaxRequests = 2
INVARIANTS
    IdleButtonAgrees
    SecondRequestNeedsRedraw
