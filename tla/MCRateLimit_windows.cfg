SPECIFICATION LiveSpec
INVARIANTS TypeOK WindowsHold
PROPERTIES RefusedForCause SweepForgets AllowReturns
CONSTANTS
    c1 = c1  c2 = c2  a1 = a1  s1 = s1  s2 = s2
    Addrs = {a1}
    Callers = {c1, c2}
    States = {s1, s2}
    RequestsPerSecond = 2
    RequestsPerMinute = 3
    Second = 1
    Minute = 3
    Period = 5
    MaxTime = 7
    None = None
