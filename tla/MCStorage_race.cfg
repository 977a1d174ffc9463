SPECIFICATION Spec
INVARIANT PairsMatch
CONSTANTS
    p1 = p1  p2 = p2
    good1 = good1  good2 = good2  bad = bad  broken = broken
    i1 = i1
    Ids = {i1}
    Bodies = {good1, good2, bad, broken}
    Invalid = {bad}
    Corrupt = {broken}
    Calls = {p1, p2}
    MaxDecodes = 2
    Faults = {}
    None = None
