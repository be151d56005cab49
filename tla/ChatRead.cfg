CONSTANTS
    r1 = r1
    r2 = r2
    NoRoom = NoRoom
    Rooms = {r1, r2}
    PageSize = 1
    MaxMessages = 2
    MaxSelections = 2
    MaxChanges = 1
    MaxDrops = 0
    InOrder = TRUE
SPECIFICATION Spec
CHECK_DEADLOCK FALSE
PROPERTIES
    ShownBecomesRead
