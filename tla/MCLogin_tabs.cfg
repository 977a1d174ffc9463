SPECIFICATION Spec
SYMMETRY Symmetry
INVARIANTS TypeOK OwnLogin LogoutHolds ActiveStays
PROPERTY LastLoginCompletes
CONSTANTS
    t1 = t1  t2 = t2  alice = alice  bob = bob
    Tabs = {t1, t2}
    Users = {alice, bob}
    Dests = {"home", "shot", "other"}
    Unsafe = {"other"}
    Lossy = {}
    Home = "home"
    UsePKCE = TRUE
    TTL = 4
    RenewalDelay = 1
    CookieMaxAge = 2
    MaxDelay = 1
    MaxLogins = 2
    MaxTime = 5
    None = None
