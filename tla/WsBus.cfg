CONSTANTS
    ann = ann
    general = general
    bob = bob
    a1 = a1
    a2 = a2
    b1 = b1
    NoSocket = NoSocket
    Members <- OnlyAnn
    Sleepers = {a1}
    Watcher = b1
    Watched = ann
    Users = {ann, bob}
    Sockets = {a1, a2, b1}
    Rooms = {general}
    Owner <- TwoAndOne
SPECIFICATION FairSpec
CHECK_DEADLOCK FALSE
INVARIANTS
    LiveSocketsAreKnown
PROPERTIES
    OfflineIsAnnounced
