CONSTANTS
    ann = ann
    bob = bob
    general = general
    k1 = k1
    k2 = k2
    Users = {ann, bob}
    Channels = {general}
    DMs = {{ann, bob}}
    Admins = {}
    Moderators = {}
    Epochs = {0, 1}
    Blobs = {k1, k2}
    NoBlob = NoBlob
    Idle = Idle
    DbMayFail = FALSE
    Absent = Absent
    NoRoom = NoRoom
    Unmade = Unmade
    Features = {"dm", "add", "kick", "delete"}
    Losers = {ann}
    StayPut = TRUE
    LetFinish = FALSE
    MaxTargets = 1
SYMMETRY Symmetry
SPECIFICATION Spec
CHECK_DEADLOCK FALSE
INVARIANTS
    OnlyMembersGetKeys
    KeysStayInRoom
PROPERTIES
    RoomsSpec
