SPECIFICATION Spec
PROPERTY RemovesOnlyUnrecorded
CONSTANTS
    r1 = r1  r2 = r2
    alice = alice  bob = bob
    i1 = i1  i2 = i2
    Requests = {r1, r2}
    Users = {alice, bob}
    Ids = {i1}
    Ops = {"upload", "home", "adminDeleteUser", "adminReassignImage"}
    Backend = "postgres"
    ReuseIds = FALSE
    Faults = {}
    None = None
