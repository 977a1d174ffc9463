SPECIFICATION Spec
SYMMETRY Symmetry
INVARIANTS RowHasFiles OwnerExists WrittenByOwner DeletedOnce
CONSTANTS
    r1 = r1  r2 = r2
    alice = alice  bob = bob
    i1 = i1  i2 = i2
    Requests = {r1, r2}
    Users = {alice, bob}
    Ids = {i1}
    Ops = {"upload", "annotate", "delete", "update", "home", "adminDeleteImage", "adminDeleteUser", "adminReassignImage", "adminReassignAll"}
    Backend = "postgres"
    ReuseIds = FALSE
    Faults = {"db", "disk", "crash"}
    None = None
