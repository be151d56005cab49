CONSTANTS
    ann = ann
    bob = bob
    general = general
    sealed = sealed
    t1 = t1
    t2 = t2
    v1 = v1
    v2 = v2
    v3 = v3
    Users = {ann, bob}
    Channels = {general}
    DMs = {{ann, bob}}
    Admins = {ann}
    Moderators = {}
    Epochs = {0}
    Blobs = {sealed}
    NoBlob = NoBlob
    Idle = Idle
    DbMayFail = TRUE
    People = {ann, bob}
    Me = ann
    MeIsAdmin = FALSE
    Topics = {t1, t2}
    SettingsCalls = 2
    SettingsEvents = 2
    ListChoices = {{"users", "preferences"}, {"invites", "log"}, {"pending"}, {"backups"}}
    AdminCalls = 2
    AdminEvents = 1
    AdminLoads = 2
    Values = {v1, v2, v3}
    NoValue = NoValue
    FieldCalls = 3
    FieldEvents = 2
SPECIFICATION RoomsAndPagesSpec
CHECK_DEADLOCK FALSE
INVARIANTS
    RoomsAreSound
    ListsAreShown
    SavesAreShown
    ChangesAreShown
    
PROPERTIES
    MembershipByAuthority
    RequestsAreDecided
