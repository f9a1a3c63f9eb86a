SPECIFICATION WebSpec
CONSTANTS
    d1 = d1
    d2 = d2
    c1 = c1
    c2 = c2
    t1 = t1
    t2 = t2
    m1 = m1
    k1 = k1
    k2 = k2
    b1 = b1
    b2 = b2
    None = None
    NoEvent = NoEvent
    NoClient = NoClient
    Pages = {"register"}
    MaxFaults = 1
    Threads = {c1, c2}
    Replies = {t1}
    Incoming = {m1}
    PageLimit = 2
    MaxMessages = 2
    InboxDevices = {d1, d2}
    Recipients = {c1}
    Drafts = {t1, t2}
    MaxPresses = 2
    SenderDevices = {d1, d2}
    FirstDevice = d1
    Contacts = {c1, c2}
    ContactDevice <- MCContactDevice
    Contents = {t1}
    MaxJobs = 4
    DirectoryDevices = {d1, d2}
    Entries = {1, 2}
    OnPhone <- MCOnPhone
    PageSize = 1
    MaxToasts = 2
    KeyNames = {"n1", "n2", "n3"}
    MaxKeys = 2
    MaxRequests = 3
    Texts = {"t1", "t2"}
    FirstText = "t1"
    MaxTemplates = 2
    EventTypes = {"message"}
    Calls = {k1, k2}
    Faults = {"db"}
    MaxCrashes = 1
    CardDevices = {d1, d2}
    Paired = {d1}
    MaxOrders = 2
    PairingDevices = {d1, d2}
    MaxOffers = 3
    Numbers = {"a", "b"}
    MaxRegistrations = 3
    MaxStarts = 2
    MutedSets = {{}, {"pair_success"}}
    MaxDeviceFailures = 1
    MaxDeviceCrashes = 1
    Emails = {"ann", "Ann", "eve"}
    Typed = {"Ann", "eve"}
    Lowercase <- MCLowercase
    Registered = {"ann", "eve"}
    Tabs = {b1, b2}
    MaxSignIns = 2
INVARIANT FailureIsAFailure
CHECK_DEADLOCK FALSE
