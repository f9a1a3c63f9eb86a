SPECIFICATION Spec
CONSTANTS
    c1 = c1
    m1 = m1
    m2 = m2
    m3 = m3
    m4 = m4
    NoMessage = NoMessage
    Chats = {c1}
    Messages = {m1, m3, m4}
    ChatOf <- MCOneChat
    Origin <- MCBusyOrigin
    Kind <- MCBusyKind
    Faults = {"db", "send", "drop"}
    MaxDeliveries = 2
    MaxMarks = 1
    MaxCrashes = 1
CHECK_DEADLOCK FALSE
INVARIANT TypeOK
INVARIANT StatusIsReported
INVARIANT AnswerMatchesHistory
INVARIANT BadgeCoversUnread
PROPERTY NoWayBack
