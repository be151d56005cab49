CONSTANTS
    r1 = r1
    r2 = r2
    NoRoom = NoRoom
    Rooms = {r1, r2}
    PageSize = 2
    MaxMessages = 3
    MaxSelections = 2
    MaxChanges = 0
    MaxDrops = 1
    InOrder = TRUE
SYMMETRY Symmetry
SPECIFICATION Spec
CHECK_DEADLOCK FALSE
INVARIANTS
    ReadIsShown
    NothingElseIsMissed
    HistoryInOrder
