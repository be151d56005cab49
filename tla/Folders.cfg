CONSTANTS
    f1 = f1
    f2 = f2
    f3 = f3
    f4 = f4
    r1 = r1
    p1 = p1
    FolderIds = {f1, f2, f3, f4}
    Rooms = {r1}
    Pages = {p1}
    MaxDepth = 3
    None = None
    Unread = Unread
    MaxCalls = 2
    MaxLoads = 2
SYMMETRY Symmetry
SPECIFICATION Spec
CHECK_DEADLOCK FALSE
INVARIANTS
    SidebarIsFresh

    
