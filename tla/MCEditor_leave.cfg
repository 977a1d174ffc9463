SPECIFICATION Spec
INVARIANTS WarnsBeforeLoss
CONSTANTS
    w1 = w1  w2 = w2
    Saves = {w1}
    Gestures = {"delete"}
    MaxDrawn = 2
    MaxLost = 1
    None = None
