\* Two conversations, one of them not begun; two requests under way.
SPECIFICATION Spec
CONSTANTS
    a = a
    b = b
    q1 = q1
    q2 = q2
    NoChat = NoChat
    Chats <- TwoChats
    Searches <- TwoSearches
    Everything = "all"
    Matching <- Finds
    Known <- Begun
    Slots <- TwoRequests
    MaxMessages <- Few
    MaxWire = 2
SYMMETRY Symmetry
INVARIANTS
    TypeOK
    ThreadAgrees
    ListAgrees
