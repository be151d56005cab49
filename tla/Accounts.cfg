CONSTANTS
    ann = ann
    bob = bob
    t1 = t1
    t2 = t2
    t3 = t3
    inv = inv
    NoOne = NoOne
    NoPage = NoPage
    NoInvite = NoInvite
    NoAccount = NoAccount
    Idle = Idle
    Gone = Gone
    Names = {ann, bob}
    Tokens = {t1, t2, t3}
    Invites = {inv}
    MaxCalls = 1
    SlowBroadcast = TRUE
SYMMETRY Symmetry
SPECIFICATION Spec
CHECK_DEADLOCK FALSE
PROPERTIES
    OnlyLateRoleLosesAdmin
    AccountKeepsPasskey
    
