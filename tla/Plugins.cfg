CONSTANTS
    general = general
    random = random
    f1 = f1
    f2 = f2
    ann = ann
    bob = bob
    up = up
    Rooms = {general}
    PageRooms = {general, random}
    Files = {f1, f2}
    NoRoom = NoRoom
    PageUser = ann
    OtherUser = bob
    MaxSwitches = 2
    MaxExtras = 1
    Editors = {}
    MaxItems = 1
    MaxEdits = 1
    MessageIds = {1, 2}
    RoomOf <- RoomOfDef
    Emojis = {up}
    MaxChanges = 2
    MaxBatches = 2
    NChunks = 2
    MaxFaults = 1
    MaxFrames = 1
    MaxSelections <- MaxSelectionsDef
    MaxDrops = 1
    DayTicks = 3
    WeekDays = 2
    MonthDays = 4
    Daily = 2
    Weekly = 1
    Monthly = 1
    Hours = {1, 2}
    Longest = 1
    MaxTime = 24
    MaxManual = 1
    MaxEvents = 2
    InOrder = TRUE
SYMMETRY Symmetry
SPECIFICATION PluginsSpec
CHECK_DEADLOCK FALSE
INVARIANTS
    NoOrphanFiles
    
    FilesGoWithOwner
    
    PillsFollow
    ShownIsTyping
    
    LatestIsThere
    OneADay
    EveryMessageIsTold
    BadgesAreRight
