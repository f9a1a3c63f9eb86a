SPECIFICATION Spec
CONSTANTS
    j1 = j1
    j2 = j2
    r1 = r1
    r2 = r2
    u1 = u1
    d1 = d1
    NoRequest = NoRequest
    NoJob = NoJob
    NoRecipient = NoRecipient
    Jobs = {j1}
    Recipients = {r1, r2}
    Users = {u1}
    Devices = {d1}
    DeviceOwner <- MCDeviceOwner
    Requests <- MCRequests
    Faults = {}
    MaxTime = 1
    MaxCrashes = 0
INVARIANT CompletedMeansAllTried
