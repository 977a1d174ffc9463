SPECIFICATION LiveSpec
INVARIANTS TypeOK OneUpload ScreenIsRecorded LeaveIsSafe
PROPERTIES SaveKeepsPromise ChangesAreSaved SavesSettle
CONSTANTS
    w1 = w1  w2 = w2
    Saves = {w1}
    Gestures = {"early", "type", "delete"}
    MaxDrawn = 2
    MaxLost = 1
    None = None
