-------------------------------- MODULE Todo --------------------------------
(***************************************************************************)
(* Todo rooms (four43.room-type-todo): the items of the server, and one    *)
(* page that shows them.                                                   *)
(*                                                                         *)
(* The page fetches the items of a room over HTTP when the room is         *)
(* selected, and is told of changes on its socket once the server has      *)
(* processed room:join.  Nothing orders the two channels, the answer of    *)
(* the fetch replaces the list whatever happened meanwhile, and nothing is *)
(* fetched again after a reconnection.  The handlers of the server await   *)
(* only to broadcast, so each of them is one step.                         *)
(*                                                                         *)
(* An id is the row's AUTOINCREMENT id, one sequence for all rooms; a text *)
(* (title and description) is a number, fresh for each edit.               *)
(***************************************************************************)
EXTENDS Integers, FiniteSets, Sequences

CONSTANTS
    Rooms, NoRoom,
    Reader,         \* the user of the page
    Writer,         \* another member, at a page or with a script of their own
    Editors,        \* those of the two who are op of the rooms, or admin
    MaxItems,       \* bound: items added
    MaxChanges,     \* bound: items edited, toggled or deleted
    MaxSelections,  \* bound: rooms selected
    MaxFrames,      \* bound: frames of the page under way
    MaxExtras       \* bound: HTTP requests, failed fetches, losses of the connection and
                    \* deletions of a room

VARIABLES
    \* the server
    alive,          \* the rooms that exist
    items,          \* the rows, by id, deleted ones included
    joined,         \* rooms the page's socket is subscribed to
    admitted,       \* HTTP requests past the middleware, their bodies not yet read
    \* between the two
    up,             \* frames of the page, oldest first
    down,           \* broadcasts on their way to it, oldest first
    \* the page
    currentRoom,
    online,         \* whether its socket is open
    selections,     \* the calls of selectRoom so far, and where each one is
    list,           \* the plugin's items
    drawn,          \* the items the document shows, each with its handlers
    editingItemId,
    \* what happened
    follows,        \* whether list was fetched, and has missed nothing since
    changes, extras

server == <<alive, items, joined, admitted>>
page == <<currentRoom, list, drawn, editingItemId>>
vars == <<server, up, down, page, online, selections, follows, changes, extras>>

Ids == 1 .. MaxItems
NoId == 0
Texts == 0 .. MaxChanges
Users == {Reader, Writer}
Shown == [id : Ids, by : Users, text : Texts, done : BOOLEAN]

TypeOK ==
    /\ alive \subseteq Rooms /\ joined \subseteq Rooms /\ admitted \subseteq Rooms
    /\ items \in Seq([room : Rooms, by : Users, text : Texts, done : BOOLEAN,
                      gone : BOOLEAN])
    /\ Len(items) <= MaxItems
    /\ \A n \in DOMAIN up : up[n].room \in Rooms
    /\ \A n \in DOMAIN down : down[n].room \in Rooms /\ down[n].row \in Shown
    /\ currentRoom \in Rooms \cup {NoRoom} /\ online \in BOOLEAN
    /\ selections \in Seq([room : Rooms, at : {"keys", "asked", "answered", "done"},
                           rows : Seq(Shown), calm : BOOLEAN])
    /\ list \in Seq(Shown) /\ drawn \in Seq(Shown)
    /\ editingItemId \in Ids \cup {NoId}
    /\ follows \in BOOLEAN
    /\ changes \in 0 .. MaxChanges /\ extras \in 0 .. MaxExtras

Init ==
    /\ alive = Rooms /\ items = <<>> /\ joined = {} /\ admitted = {}
    /\ up = <<>> /\ down = <<>>
    /\ currentRoom = NoRoom /\ online = TRUE /\ selections = <<>>
    /\ list = <<>> /\ drawn = <<>> /\ editingItemId = NoId
    /\ follows = FALSE
    /\ changes = 0 /\ extras = 0

-----------------------------------------------------------------------------
(* The server.                                                             *)

Row(table, i) ==
    [id |-> i, by |-> table[i].by, text |-> table[i].text, done |-> table[i].done]
ItemsOf(r) == {i \in DOMAIN items : items[i].room = r /\ ~items[i].gone}

\* The numbers of S, smallest first.
Ascending(S) ==
    CHOOSE s \in [1 .. Cardinality(S) -> S] : \A i, j \in DOMAIN s : i < j => s[i] < s[j]

\* Unfinished items first, each part in the order of creation.
get_items(r) ==
    LET part(d) == Ascending({i \in ItemsOf(r) : items[i].done = d})
        ids == part(FALSE) \o part(TRUE)
    IN  [n \in DOMAIN ids |-> Row(items, ids[n])]

(* The room is behind: what the page shows of it, or is about to.          *)
Behind(r) ==
    /\ follows' = (follows /\ currentRoom # r)
    /\ selections' = [n \in DOMAIN selections |->
           [selections[n] EXCEPT !.calm = @ /\ selections[n].room # r]]

(* broadcast_to_room reaches the page if its socket is subscribed.  A      *)
(* change made over HTTP is broadcast to nobody (told = FALSE).            *)
Announce(r, kind, row, told) ==
    IF told /\ r \in joined
    THEN /\ down' = Append(down, [kind |-> kind, room |-> r, row |-> row])
         /\ UNCHANGED <<follows, selections>>
    ELSE Behind(r) /\ UNCHANGED down

add_item(u, m, told) ==
    /\ m.type = "add" /\ Len(items) < MaxItems
    /\ items' = Append(items, [room |-> m.room, by |-> u, text |-> 0, done |-> FALSE,
                               gone |-> FALSE])
    /\ Announce(m.room, "todo_added", Row(items', Len(items) + 1), told)
    /\ UNCHANGED changes

\* Mutant of Found: the row is looked for by its id alone.
FoundAnywhere(m) == m.id \in DOMAIN items /\ ~items[m.id].gone

\* get_item: a row of the room that the request names.
Found(m) == m.id \in ItemsOf(m.room)

(* can_edit_resource: the creator, an op of the room, or an admin.  Anyone *)
(* may toggle an item.                                                     *)
Permitted(u, m) == m.type = "toggle" \/ items[m.id].by = u \/ u \in Editors

update_item(u, m, told) ==
    /\ m.type \in {"edit", "toggle"} /\ Found(m) /\ Permitted(u, m)
    /\ changes < MaxChanges /\ changes' = changes + 1
    /\ items' = IF m.type = "edit" THEN [items EXCEPT ![m.id].text = changes + 1]
                ELSE [items EXCEPT ![m.id].done = m.done]
    /\ Announce(m.room, "todo_updated", Row(items', m.id), told)

delete_item(u, m, told) ==
    /\ m.type = "delete" /\ Found(m) /\ Permitted(u, m)
    /\ changes < MaxChanges /\ changes' = changes + 1
    /\ items' = [items EXCEPT ![m.id].gone = TRUE]
    /\ Announce(m.room, "todo_deleted", Row(items, m.id), told)

Change(u, m, told) ==
    add_item(u, m, told) \/ update_item(u, m, told) \/ delete_item(u, m, told)

\* An error goes to the sender alone.
Refused(u, m) == m.type # "add" /\ ~(Found(m) /\ Permitted(u, m))

Messages == [type : {"add"}, room : Rooms, id : {NoId}, done : {FALSE}]
       \cup [type : {"edit", "delete"}, room : Rooms, id : Ids, done : {FALSE}]
       \cup [type : {"toggle"}, room : Rooms, id : Ids, done : BOOLEAN]

(* The frames of the page, in order: join and leave, and what the todo     *)
(* plugin handles once handle_room has looked for the room.                *)
ServeFrame ==
    /\ up # <<>> /\ up' = Tail(up)
    /\ LET m == Head(up) IN
         \/ /\ m.type \in {"join", "leave"}
            /\ joined' = IF m.type = "leave" THEN joined \ {m.room}
                         ELSE joined \cup ({m.room} \cap alive)
            /\ UNCHANGED <<items, down, follows, selections, changes>>
         \/ m.room \in alive /\ Change(Reader, m, TRUE) /\ UNCHANGED joined
         \/ /\ m.type \notin {"join", "leave"}
            /\ m.room \notin alive \/ Refused(Reader, m)
            /\ UNCHANGED <<items, joined, down, follows, selections, changes>>
    /\ UNCHANGED <<alive, admitted, page, online, extras>>

(* A frame of another member, who may be looking at another room than the  *)
(* one the item was drawn for.                                             *)
WriterActs ==
    /\ \E m \in Messages : m.room \in alive /\ Change(Writer, m, TRUE)
    /\ UNCHANGED <<alive, joined, admitted, up, page, online, extras>>

(* An HTTP request of another member: the middleware looks for the room    *)
(* when the request comes, and the handler runs when its body is there.    *)
Admit(r) ==
    /\ r \in alive \ admitted /\ admitted' = admitted \cup {r}
    /\ extras < MaxExtras /\ extras' = extras + 1
    /\ UNCHANGED <<alive, items, joined, up, down, page, online, selections, follows,
                   changes>>

HandleRequest(r) ==
    /\ r \in admitted /\ admitted' = admitted \ {r}
    /\ \E m \in Messages : m.room = r /\ Change(Writer, m, FALSE)
    /\ UNCHANGED <<alive, joined, up, page, online, extras>>

(* delete_room, and _on_room_deleted by the event that follows it.         *)
DeleteRoom(r) ==
    /\ r \in alive /\ extras < MaxExtras /\ extras' = extras + 1
    /\ alive' = alive \ {r}
    /\ items' = [i \in DOMAIN items |->
                    [items[i] EXCEPT !.gone = @ \/ items[i].room = r]]
    /\ Behind(r)
    /\ UNCHANGED <<joined, admitted, up, down, page, online, changes>>

-----------------------------------------------------------------------------
(* The page.                                                               *)

Send(frame) == up' = IF online THEN Append(up, frame) ELSE up
Frame(type, id, done) == [type |-> type, room |-> currentRoom, id |-> id, done |-> done]

(* selectRoom, up to loadRoomKeys.  onRoomLeft empties the list; what the  *)
(* document shows stays until the plugin of the new room draws.            *)
SelectRoom(r) ==
    /\ r \in alive \ {currentRoom} /\ Len(selections) < MaxSelections
    /\ IF currentRoom = NoRoom THEN UNCHANGED up ELSE Send(Frame("leave", NoId, FALSE))
    /\ currentRoom' = r
    /\ selections' = Append(selections, [room |-> r, at |-> "keys", rows |-> <<>>,
                                         calm |-> FALSE])
    /\ list' = <<>> /\ editingItemId' = NoId /\ follows' = FALSE
    /\ UNCHANGED <<server, down, drawn, online, changes, extras>>

(* The rest of selectRoom, whatever room is current by then, and           *)
(* onRoomSelected up to its fetch.                                         *)
KeysLoaded(n) ==
    /\ selections[n].at = "keys"
    /\ selections' = [selections EXCEPT ![n].at = "asked"]
    /\ Send([type |-> "join", room |-> selections[n].room, id |-> NoId, done |-> FALSE])
    /\ list' = <<>> /\ drawn' = <<>> /\ editingItemId' = NoId /\ follows' = FALSE
    /\ UNCHANGED <<server, down, currentRoom, online, changes, extras>>

(* The answer is calm as long as the broadcasts that reach the page are    *)
(* those it does not yet hold, and all of them.                            *)
ServeItems(n) ==
    /\ selections[n].at = "asked"
    /\ LET r == selections[n].room IN
         selections' = [selections EXCEPT
             ![n].at = "answered",
             ![n].rows = get_items(r),
             ![n].calm = r \in joined \cap alive /\ \A k \in DOMAIN down : down[k].room # r]
    /\ UNCHANGED <<server, up, down, page, online, follows, changes, extras>>

\* loadItems, when the answer comes: the list is replaced.
loadItems(n) ==
    /\ selections[n].at = "answered"
    /\ selections' = [selections EXCEPT ![n].at = "done"]
    /\ list' = selections[n].rows /\ drawn' = list'
    /\ follows' = (selections[n].room = currentRoom /\ selections[n].calm)
    /\ UNCHANGED <<server, up, down, currentRoom, editingItemId, online, changes, extras>>

LoadFails(n) ==
    /\ selections[n].at = "asked" /\ extras < MaxExtras /\ extras' = extras + 1
    /\ selections' = [selections EXCEPT ![n].at = "done"]
    /\ UNCHANGED <<server, up, down, page, online, follows, changes>>

Applied(l, e) ==
    IF e.room # currentRoom THEN l
    ELSE CASE e.kind = "todo_added" -> Append(l, e.row)
           [] e.kind = "todo_updated" ->
                 [k \in DOMAIN l |-> IF l[k].id = e.row.id THEN e.row ELSE l[k]]
           [] e.kind = "todo_deleted" ->
                 LET stay == Ascending({k \in DOMAIN l : l[k].id # e.row.id})
                 IN  [k \in DOMAIN stay |-> l[stay[k]]]

onRoomAction ==
    /\ down # <<>> /\ down' = Tail(down)
    /\ LET e == Head(down) IN
         /\ list' = Applied(list, e)
         /\ drawn' = IF e.room = currentRoom THEN list' ELSE drawn
         /\ editingItemId' = IF /\ e.room = currentRoom /\ e.kind = "todo_deleted"
                                /\ e.row.id = editingItemId
                             THEN NoId ELSE editingItemId
         /\ selections' = [n \in DOMAIN selections |->
                [selections[n] EXCEPT !.calm = @ /\ selections[n].room # e.room]]
    /\ UNCHANGED <<server, up, currentRoom, online, follows, changes, extras>>

(* What the user does with an item that is drawn.  The frame names the     *)
(* room that is current now.                                               *)
Click(k) ==
    /\ online /\ Len(up) < MaxFrames
    /\ \/ up' = Append(up, Frame("toggle", drawn[k].id, ~drawn[k].done))
       \/ drawn[k].by = Reader /\ up' = Append(up, Frame("delete", drawn[k].id, FALSE))
    /\ UNCHANGED <<server, down, page, online, selections, follows, changes, extras>>

addItem ==
    /\ online /\ Len(up) < MaxFrames /\ selections # <<>> /\ selections[1].at # "keys"
    /\ up' = Append(up, Frame("add", NoId, FALSE))
    /\ UNCHANGED <<server, down, page, online, selections, follows, changes, extras>>

Edit(k) ==
    /\ drawn[k].by = Reader /\ editingItemId # drawn[k].id
    /\ editingItemId' = drawn[k].id /\ drawn' = list
    /\ UNCHANGED <<server, up, down, currentRoom, list, online, selections, follows, changes,
                   extras>>

\* The form of the item being edited: save, or cancel.
save(k) ==
    /\ drawn[k].id = editingItemId /\ Len(up) < MaxFrames
    /\ Send(Frame("edit", editingItemId, FALSE)) \/ UNCHANGED up
    /\ editingItemId' = NoId /\ drawn' = list
    /\ UNCHANGED <<server, down, currentRoom, list, online, selections, follows, changes,
                   extras>>

(* The connection is lost with what was on it.  After a reconnection the   *)
(* page joins the current room again; it does not fetch again.             *)
Drop ==
    /\ online /\ extras < MaxExtras /\ extras' = extras + 1
    /\ online' = FALSE /\ joined' = {} /\ up' = <<>> /\ down' = <<>>
    /\ follows' = (follows /\ \A k \in DOMAIN down : down[k].room # currentRoom)
    /\ selections' = [n \in DOMAIN selections |->
           [selections[n] EXCEPT !.calm = @ /\ \A k \in DOMAIN down :
                                                 down[k].room # selections[n].room]]
    /\ UNCHANGED <<alive, items, admitted, page, changes>>

Reconnect ==
    /\ ~online /\ online' = TRUE
    /\ up' = IF currentRoom = NoRoom THEN <<>> ELSE <<Frame("join", NoId, FALSE)>>
    /\ UNCHANGED <<server, down, page, selections, follows, changes, extras>>

Next ==
    \/ ServeFrame \/ WriterActs
    \/ \E r \in Rooms : Admit(r) \/ HandleRequest(r) \/ DeleteRoom(r) \/ SelectRoom(r)
    \/ \E n \in DOMAIN selections :
          KeysLoaded(n) \/ ServeItems(n) \/ loadItems(n) \/ LoadFails(n)
    \/ onRoomAction \/ addItem \/ Drop \/ Reconnect
    \/ \E k \in DOMAIN drawn : Click(k) \/ Edit(k) \/ save(k)

Spec == Init /\ [][Next]_vars

-----------------------------------------------------------------------------
Copies(l, i) == {k \in DOMAIN l : l[k].id = i}
About(r, i) == {k \in DOMAIN down : down[k].room = r /\ down[k].row.id = i}
Additions(r, i) == {k \in About(r, i) : down[k].kind = "todo_added"}
LastAbout(r, i) == {k \in About(r, i) : \A j \in About(r, i) : j <= k}

\* Item i of room r is in the list l or about to be added, never both and never twice,
\* and the last that the page hears of it is its row.
Shows(l, r, i) ==
    /\ \A j, k \in Copies(l, i) : j = k
    /\ \A j, k \in Additions(r, i) : j = k
    /\ Copies(l, i) = {} <=> Additions(r, i) # {}
    /\ \A k \in About(r, i) : down[k].kind # "todo_deleted"
    /\ \A k \in LastAbout(r, i) : down[k].row = Row(items, i)
    /\ About(r, i) = {} => \A k \in Copies(l, i) : l[k] = Row(items, i)

\* The page has never heard of i in room r, or the last that it hears is its end.
Hides(l, r, i) ==
    \/ Copies(l, i) = {} /\ About(r, i) = {}
    \/ \E k \in LastAbout(r, i) : down[k].kind = "todo_deleted"

(* A list that was fetched for the current room, and has missed nothing    *)
(* since, becomes the items of the room by the broadcasts under way: no    *)
(* item is missing, stale or shown twice.  The ways to miss something are  *)
(* the changes made while the socket is not subscribed, lost with the      *)
(* connection, or made over HTTP, and a broadcast that overtakes the       *)
(* answer of the fetch, or is overtaken by it (plugin.js 68-121).          *)
ListFollows ==
    follows =>
        \A i \in Ids : IF i \in ItemsOf(currentRoom) THEN Shows(list, currentRoom, i)
                       ELSE Hides(list, currentRoom, i)
=============================================================================
