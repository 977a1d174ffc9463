SPECIFICATION Spec
PROPERTY LastLoginCompletes
CONSTANTS
    t1 = t1  t2 = t2  alice = alice  bob = bob
    Tabs = {t1}
    Users = {alice}
    Dests = {"home", "shot", "semicolon"}
    Unsafe = {}
    Lossy = {"semicolon"}
    Home = "home"
    UsePKCE = TRUE
    TTL = 4
    RenewalDelay = 1
    CookieMaxAge = 2
    MaxDelay = 1
    MaxLogins = 2
    MaxTime = 5
    None = None
