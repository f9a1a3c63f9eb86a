SPECIFICATION Spec
CONSTANTS
    k1 = k1
    k2 = k2
    k3 = k3
    NoEvent = NoEvent
    EventTypes = {"message", "receipt"}
    Calls = {k1, k2, k3}
    Faults = {}
    MaxCrashes = 0
SYMMETRY MCCallSymmetry
CHECK_DEADLOCK FALSE
INVARIANT SettledCopyIsStored
