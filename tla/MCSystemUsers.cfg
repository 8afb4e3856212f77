SPECIFICATION Spec
CONSTANTS
    amy = amy
    bob = bob
    r1 = r1
    r2 = r2
    r3 = r3
    Nobody = Nobody
    Requests = {r1, r2, r3}
    Names = {amy, bob}
    Founders = {amy}
    Creates <- MCCreates
    Deletes <- MCDeletes
    MaxFaults = 2
    MaxStops = 1
SYMMETRY Symmetry
INVARIANTS
    AccountsKept
    FailedCreateLeavesNothing
    FailedDeleteLosesNothing
CHECK_DEADLOCK FALSE
