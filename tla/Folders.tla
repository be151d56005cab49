------------------------------ MODULE Folders -------------------------------
(***************************************************************************)
(* Room folders: the service of backend/skrib/room_folders with its        *)
(* endpoints in rooms/routes.py, and the sidebars of frontend/src/app.js   *)
(* in which administrators arrange the channels.                           *)
(*                                                                         *)
(* A handler calls the service without awaiting, so each call is a step.   *)
(* A page is not told what changed, only that something did; it then asks  *)
(* twice, for the rooms and for the folders, and draws when both answers   *)
(* are there.  A drag redraws the page first and posts the whole layout    *)
(* the page then has, so what it posts may be of any age.                  *)
(*                                                                         *)
(* A folder is its uuid, never used again.  The order within a folder and  *)
(* the names are left out.  The channels are those of module Rooms; none   *)
(* is created or deleted here.  Only administrators and moderators act.    *)
(***************************************************************************)
EXTENDS Naturals, FiniteSets, Sequences, SequencesExt

CONSTANTS
    FolderIds, Rooms,
    Pages,      \* the open pages of administrators and moderators
    MaxDepth,   \* MAX_NESTING_DEPTH
    None,       \* NULL, or the root of the sidebar
    Unread,     \* a request that the server has not answered yet
    MaxCalls,   \* bound: calls that change something, or try to
    MaxLoads    \* bound: loads of a page that are under way

ASSUME FoldersAssumption ==
    /\ IsFiniteSet(FolderIds) /\ None \notin FolderIds
    /\ MaxDepth \in Nat \ {0}
    /\ MaxCalls \in Nat /\ MaxLoads \in Nat

VARIABLES
    folders,    \* the rows of room_folders
    parent,     \* [folder]: parent_folder_id (None where there is no row)
    filed,      \* [channel]: rooms.folder_id
    made,       \* the uuids used so far
    view,       \* [page]: the layout its sidebar shows
    loads,      \* [page]: its loadRooms calls under way, oldest first
    late,       \* [page]: how many of them are older than what it shows
    posts,      \* [page]: its reorder request under way, if any
    excused,    \* history: [page]: its sidebar was left behind by a known way
    calls       \* how many calls were made

server == <<folders, parent, filed, made>>
pages == <<view, loads, late, posts, excused>>
vars == <<server, pages, calls>>

OrNone(S) == S \cup {None}
Tree == [FolderIds -> OrNone(FolderIds)]
Filing == [Rooms -> OrNone(FolderIds)]
Layout == [folders : SUBSET FolderIds, parent : Tree, filed : Filing]
Load == [rooms : Filing \cup {Unread}, tree : Layout \cup {Unread}]

Asked == [rooms |-> Unread, tree |-> Unread]
Stored == [folders |-> folders, parent |-> parent, filed |-> filed]

Abstract == INSTANCE FolderTree WITH Folders <- FolderIds

TypeOK ==
    /\ folders \subseteq made /\ made \subseteq FolderIds
    /\ parent \in Tree /\ filed \in Filing
    /\ \A f \in FolderIds \ folders : parent[f] = None
    /\ view \in [Pages -> Layout]
    /\ loads \in [Pages -> Seq(Load)]
    /\ late \in [Pages -> Nat]
    /\ posts \in [Pages -> Seq(Layout)]
    /\ excused \in [Pages -> BOOLEAN]
    /\ calls \in Nat

\* What an earlier run of the server left in its database, and pages that have loaded.
Init ==
    /\ Abstract!Init
    /\ made = folders
    /\ view = [p \in Pages |-> Stored]
    /\ loads = [p \in Pages |-> <<>>]
    /\ late = [p \in Pages |-> 0]
    /\ posts = [p \in Pages |-> <<>>]
    /\ excused = [p \in Pages |-> FALSE]
    /\ calls = 0

-----------------------------------------------------------------------------
(* Walks over a tree, given as the parent of every folder.                 *)

\* The sets that contain the parent of whatever they contain.
ClosedUpwards(tree) ==
    {S \in SUBSET FolderIds : \A g \in S : tree[g] \in OrNone(S)}

_get_ancestor_ids(f, tree) ==
    {g \in FolderIds : tree[f] # None
                       /\ \A S \in ClosedUpwards(tree) : tree[f] \in S => g \in S}

_get_depth(f, tree) == Cardinality(_get_ancestor_ids(f, tree))

_collect_descendants(f, tree) == {g \in FolderIds : f \in _get_ancestor_ids(g, tree)}

\* Whether a folder under g, with f's subtree in it, would be beyond the last level.
TooDeep(f, g, tree) ==
    \E h \in _collect_descendants(f, tree) \cup {f} :
       _get_depth(g, tree) + 1 + (_get_depth(h, tree) - _get_depth(f, tree)) >= MaxDepth

-----------------------------------------------------------------------------
(* The service.                                                            *)

\* Mutant of Notify: the broadcast goes to no other page.
NotifyNobody(R, by) ==
    /\ loads' = [p \in Pages |-> loads[p] \o (IF p \in by THEN <<Asked>> ELSE <<>>)]
    /\ \A p \in Pages : Len(loads'[p]) <= MaxLoads
    /\ UNCHANGED excused

\* room:folders_updated: the pages in R are reached and load again; a page by is
\* about to load by itself.  Another, whose socket is down, is not told.
Notify(R, by) ==
    /\ loads' = [p \in Pages |-> loads[p] \o (IF p \in R THEN <<Asked>> ELSE <<>>)
                                          \o (IF p \in by THEN <<Asked>> ELSE <<>>)]
    /\ \A p \in Pages : Len(loads'[p]) <= MaxLoads
    /\ excused' = [p \in Pages |-> excused[p] \/ p \notin R \cup by]

Call == calls < MaxCalls /\ calls' = calls + 1

CreateFolder(f, g, R, by) ==
    /\ f \notin made
    /\ g # None => g \in folders /\ _get_depth(g, parent) + 1 < MaxDepth
    /\ folders' = folders \cup {f} /\ made' = made \cup {f}
    /\ parent' = [parent EXCEPT ![f] = g]
    /\ Notify(R, by)
    /\ UNCHANGED <<filed, view, late, posts>>

\* A folder's new parent must not be itself nor anything in it; that it exists is
\* left to the foreign key, which fails the statement.
UpdateFolder(f, g, R) ==
    /\ f \in folders
    /\ g # None => /\ g \in folders
                   /\ f \notin _get_ancestor_ids(g, parent) \cup {g}
                   /\ ~TooDeep(f, g, parent)
    /\ parent' = [parent EXCEPT ![f] = g]
    /\ Notify(R, {})
    /\ UNCHANGED <<folders, made, filed, view, late, posts>>

\* Mutant of Doomed: the folder and what is directly in it.
DoomedChildren(f) == {f} \cup {g \in folders : parent[g] = f}

Doomed(f) == {f} \cup (_collect_descendants(f, parent) \cap folders)

DeleteFolder(f, R, by) ==
    /\ f \in folders
    /\ folders' = folders \ Doomed(f)
    /\ parent' = [g \in FolderIds |-> IF g \in Doomed(f) THEN None ELSE parent[g]]
    /\ filed' = [r \in Rooms |-> IF filed[r] \in Doomed(f) THEN None ELSE filed[r]]
    /\ Notify(R, by)
    /\ UNCHANGED <<made, view, late, posts>>

MoveRoom(r, g, R) ==
    /\ g \in OrNone(folders)
    /\ filed' = [filed EXCEPT ![r] = g]
    /\ Notify(R, {})
    /\ UNCHANGED <<folders, parent, made, view, late, posts>>

\* The tree that a layout posted by a page would make of the present one: rows that
\* are gone are skipped, rows the page did not know are left.
Proposed(l) ==
    [f \in FolderIds |-> IF f \in folders \cap l.folders THEN l.parent[f] ELSE parent[f]]

\* The checks of batch_reorder, and the foreign key's.
Acceptable(l) ==
    /\ \A f \in folders :
          /\ Proposed(l)[f] \in OrNone(folders)
          /\ f \notin _get_ancestor_ids(f, Proposed(l))
          /\ _get_depth(f, Proposed(l)) < MaxDepth
    /\ \A r \in Rooms : l.filed[r] \in OrNone(folders)

-----------------------------------------------------------------------------
(* The sidebar.                                                            *)

\* What is drawn of two answers: a channel that the folders' answer has unfiled is
\* put where the rooms' answer has it; what is in no folder that is there, at the root.
Drawn(load) ==
    LET where(r) == IF load.tree.filed[r] # None THEN load.tree.filed[r] ELSE load.rooms[r]
        known(f) == IF f \in load.tree.folders THEN f ELSE None IN
    [folders |-> load.tree.folders,
     parent |-> [f \in FolderIds |-> known(load.tree.parent[f])],
     filed |-> [r \in Rooms |-> known(where(r))]]

ReadRooms(p, i) ==
    /\ loads[p][i].rooms = Unread
    /\ loads' = [loads EXCEPT ![p][i].rooms = filed]
    /\ UNCHANGED <<server, view, late, posts, excused, calls>>

ReadTree(p, i) ==
    /\ loads[p][i].tree = Unread
    /\ loads' = [loads EXCEPT ![p][i].tree = Stored]
    /\ UNCHANGED <<server, view, late, posts, excused, calls>>

\* Both answers are there.  Nothing stops a load that was begun before the one shown.
Draw(p, i) ==
    /\ Unread \notin {loads[p][i].rooms, loads[p][i].tree}
    /\ view' = [view EXCEPT ![p] = Drawn(loads[p][i])]
    /\ loads' = [loads EXCEPT ![p] = RemoveAt(@, i)]
    /\ late' = [late EXCEPT ![p] = IF i > @ THEN i - 1 ELSE @ - 1]
    /\ excused' = [excused EXCEPT ![p] = (@ \/ i <= late[p])
                                     /\ (view'[p] # Stored \/ loads'[p] # <<>>)]
    /\ UNCHANGED <<server, posts, calls>>

\* An exception: the sidebar stays as it is.
LoadFails(p, i) ==
    /\ loads' = [loads EXCEPT ![p] = RemoveAt(@, i)]
    /\ late' = [late EXCEPT ![p] = IF i > @ THEN @ ELSE @ - 1]
    /\ excused' = [excused EXCEPT ![p] = TRUE]
    /\ UNCHANGED <<server, view, posts, calls>>

\* The page's own layout after a drag: a channel anywhere, a folder anywhere but into
\* itself.  The depth is not looked at.
Drag(p, l) ==
    /\ Call
    /\ posts[p] = <<>>
    /\ view' = [view EXCEPT ![p] = l]
    /\ posts' = [posts EXCEPT ![p] = <<l>>]
    /\ UNCHANGED <<server, loads, late, excused>>

DragRoom(p, r, g) ==
    /\ g \in OrNone(view[p].folders) /\ g # view[p].filed[r]
    /\ Drag(p, [view[p] EXCEPT !.filed[r] = g])

DragFolder(p, f, g) ==
    /\ f \in view[p].folders
    /\ g \in OrNone(view[p].folders) \ {view[p].parent[f]}
    /\ g # None => f \notin _get_ancestor_ids(g, view[p].parent) \cup {g}
    /\ Drag(p, [view[p] EXCEPT !.parent[f] = g])

\* The layout is stored; if its answer is lost the page loads.
Reorder(p, R, by) ==
    /\ posts[p] # <<>>
    /\ Acceptable(posts[p][1])
    /\ parent' = Proposed(posts[p][1])
    /\ filed' = [r \in Rooms |-> posts[p][1].filed[r]]
    /\ posts' = [posts EXCEPT ![p] = <<>>]
    /\ Notify(R, by)
    /\ UNCHANGED <<folders, made, view, late, calls>>

\* It is refused: the page does not look at the status of the answer.
ReorderRefused(p) ==
    /\ posts[p] # <<>>
    /\ ~Acceptable(posts[p][1])
    /\ posts' = [posts EXCEPT ![p] = <<>>]
    /\ excused' = [excused EXCEPT ![p] = TRUE]
    /\ UNCHANGED <<server, view, loads, late, calls>>

\* It never arrives: the page loads.
ReorderLost(p) ==
    /\ posts[p] # <<>>
    /\ Len(loads[p]) < MaxLoads
    /\ posts' = [posts EXCEPT ![p] = <<>>]
    /\ loads' = [loads EXCEPT ![p] = Append(@, Asked)]
    /\ UNCHANGED <<server, view, late, excused, calls>>

\* The page's reload after a folder was renamed, or found to be gone already.
Reload(p) ==
    /\ Call
    /\ Len(loads[p]) < MaxLoads
    /\ loads' = [loads EXCEPT ![p] = Append(@, Asked)]
    /\ UNCHANGED <<server, view, late, posts, excused>>

-----------------------------------------------------------------------------
\* The buttons of a page, which loads again whatever the answer to a deletion is.
CreateInPage(p, R) == \E f \in FolderIds : CreateFolder(f, None, R, {p})
DeleteInPage(p, R) == \E f \in FolderIds : DeleteFolder(f, R, {p})

\* Any other client of the API.
Request(R) ==
    \/ \E f \in FolderIds, g \in OrNone(made) :
          CreateFolder(f, g, R, {}) \/ UpdateFolder(f, g, R)
    \/ \E f \in FolderIds : DeleteFolder(f, R, {})
    \/ \E r \in Rooms, g \in OrNone(made) : MoveRoom(r, g, R)

Change(R) ==
    /\ Call
    /\ Request(R) \/ \E p \in Pages : CreateInPage(p, R) \/ DeleteInPage(p, R)

Sidebar(p) ==
    \/ \E i \in DOMAIN loads[p] :
          ReadRooms(p, i) \/ ReadTree(p, i) \/ Draw(p, i) \/ LoadFails(p, i)
    \/ \E r \in Rooms, g \in OrNone(FolderIds) : DragRoom(p, r, g)
    \/ \E f \in FolderIds, g \in OrNone(FolderIds) : DragFolder(p, f, g)
    \/ \E R \in SUBSET Pages, by \in {{}, {p}} : Reorder(p, R, by)
    \/ ReorderRefused(p) \/ ReorderLost(p) \/ Reload(p)

Next ==
    \/ \E R \in SUBSET Pages : Change(R)
    \/ \E p \in Pages : Sidebar(p)

Spec == Init /\ [][Next]_vars

-----------------------------------------------------------------------------
(* Properties.                                                             *)

\* Whatever layouts are posted, of whatever age and in whatever order, the folders
\* are a forest of at most MaxDepth levels and every channel is where it can be
\* found, although a foreign key or one of four separate checks is all that any of
\* the calls looks at.
SoundTree == Abstract!Forest /\ Abstract!Placed

\* The service does what FolderTree promises: nothing is lost but what is in a folder
\* that is deleted, and nothing of that is left.
KeepsPromise == Abstract!Spec

\* Once a page has nothing under way its sidebar shows what is stored, unless it was
\* not told, a load of it failed or was overtaken, or its drag was refused.
SidebarIsFresh ==
    \A p \in Pages :
       loads[p] = <<>> /\ posts[p] = <<>> /\ ~excused[p] => view[p] = Stored
=============================================================================
