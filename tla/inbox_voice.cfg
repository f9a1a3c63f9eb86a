SPECIFICATION Spec
CONSTANTS
    c1 = c1
    m1 = m1
    m2 = m2
    m3 = m3
    m4 = m4
    NoMessage = NoMessage
    Chats = {c1}
    Messages = {m1, m2}
    ChatOf <- MCOneChat
    Origin <- MCVoiceOrigin
    Kind <- MCVoiceKind
    Faults = {}
    MaxDeliveries = 1
    MaxMarks = 0
    MaxCrashes = 0
CHECK_DEADLOCK FALSE
INVARIANT AcceptedIsNotAnError
