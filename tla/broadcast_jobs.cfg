SPECIFICATION FairSpec
CONSTANTS
    j1 = j1
    j2 = j2
    r1 = r1
    r2 = r2
    u1 = u1
    d1 = d1
    NoRequest = NoRequest
    NoJob = NoJob
    NoRecipient = NoRecipient
    Jobs = {j1, j2}
    Recipients = {r1}
    Users = {u1}
    Devices = {d1}
    DeviceOwner <- MCDeviceOwner
    Requests <- MCNarrowRequests
    Faults = {"db", "send"}
    MaxTime = 1
    MaxCrashes = 1
INVARIANT TypeOK
INVARIANT NoPhantomDelivery
INVARIANT OnlyAsRequested
INVARIANT AtMostOnce
PROPERTY DeliversOnce
PROPERTY DueJobIsPickedUp
PROPERTY OutcomeIsFinal
