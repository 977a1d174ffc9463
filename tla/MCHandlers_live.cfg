SPECIFICATION LiveSpec
INVARIANTS TypeOK RowHasFiles
PROPERTIES RequestsAnswered RemovesOnlyUnrecorded
CONSTANTS
    r1 = r1  r2 = r2
    alice = alice  bob = bob
    i1 = i1  i2 = i2
    Requests = {r1, r2}
    Users = {alice}
    Ids = {i1, i2}
    Ops = {"upload", "delete", "adminDeleteUser"}
    Backend = "sqlite"
    ReuseIds = FALSE
    Faults = {"db", "disk"}
    None = None
