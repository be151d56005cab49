CONSTANTS
    s1 = s1
    s2 = s2
    s3 = s3
    general = general
    random = random
    None = None
    Sockets <- SocketsDef
    Rooms <- RoomsDef
    MaxReconnectAttempts = 2
    MaxSelects = 0
    MaxFaults = 1
SPECIFICATION FairSpec
CHECK_DEADLOCK FALSE
PROPERTIES
    SingleConnection
