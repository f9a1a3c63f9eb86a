SPECIFICATION FairSpec
CONSTANTS
    c1 = c1
    m1 = m1
    m2 = m2
    m3 = m3
    m4 = m4
    NoMessage = NoMessage
    Chats = {c1}
    Messages = {m1, m2, m3}
    ChatOf <- MCOneChat
    Origin <- MCKindsOrigin
    Kind <- MCKindsKind
    Faults = {}
    MaxDeliveries = 2
    MaxMarks = 1
    MaxCrashes = 1
CHECK_DEADLOCK FALSE
PROPERTY ArrivedIsLogged
