------------------------------- MODULE Notices ------------------------------
(***************************************************************************)
(* How a member hears of the messages others send: on the screen, by the   *)
(* number next to a room in the sidebar, or by a push.  The handler of     *)
(* room:message (four43.room-type-chat), the read positions of core/rooms, *)
(* the listener of four43.web-push, and the page of one member.            *)
(*                                                                         *)
(* The handler stores a message, then awaits its broadcast, whose listener *)
(* pushes to members without a socket, then notifies each member; all of   *)
(* that takes time, in which the member opens or closes the page, switches *)
(* rooms or loses the connection.  The numbers come from a request of its  *)
(* own, of which several may be under way, and the current room has none.  *)
(*                                                                         *)
(* Messages are numbered as by AUTOINCREMENT, over all rooms.  All of them *)
(* are sent by others.  A page of history holds all messages of a room and *)
(* is shown when it comes (Chat has the paging and the decryption).  The   *)
(* level of notifications chooses between two notices that both load the   *)
(* rooms, and is left out.                                                 *)
(***************************************************************************)
EXTENDS Naturals, FiniteSets, Sequences, SequencesExt, FiniteSetsExt

CONSTANTS
    Rooms, NoRoom,
    MaxEvents,      \* bound: messages sent, rooms selected, failures, losses of the
                    \* connection, closed pages and readings in another browser
    InOrder         \* whether broadcasts reach the page in the order they were made

VARIABLES
    \* the server
    sent,           \* the messages, and where the handler of each one is
    position,       \* [room]: last_read_message_id of the member
    joined,         \* rooms the member's socket is subscribed to
    ghost,          \* whether the bus still has a socket whose connection is gone
    endpoint,       \* whether push_subscriptions has the member's browser
    \* the page
    page,           \* how far it is: "open", "listed", "plugins", "entered"
    socket,         \* whether its socket is open
    rejoin,         \* whether onopen awaits the keys of the current room
    currentRoom, selections, lastMessageId, badge,
    \* between the two
    up, down,
    asked,          \* calls of loadRooms that the server has not answered yet
    answers,        \* its answers that were not drawn yet, in the order it gave them
    reads,          \* POSTs of read positions for live messages under way
    \* what happened
    told,           \* messages that were shown, counted in a badge or pushed
    missed,         \* messages of which a known way to miss them was taken
    excused,        \* rooms whose badge was left behind in a known way
    events

link == <<joined, socket, rejoin, up, down>>
screen == <<page, currentRoom, selections, lastMessageId>>
sidebar == <<badge, asked, answers, excused>>
vars == <<sent, position, ghost, endpoint, link, screen, sidebar, reads, told, missed, events>>

Ids == DOMAIN sent
OfRoom(r) == {m \in Ids : sent[m].room = r}
Stages == {"open", "listed", "plugins", "entered"}

TypeOK ==
    /\ sent \in Seq([room : Rooms, at : {"broadcast", "push", "notify", "done"}, to : BOOLEAN])
    /\ position \in [Rooms -> 0 .. MaxEvents]
    /\ joined \subseteq Rooms /\ ghost \in BOOLEAN /\ endpoint \in BOOLEAN
    /\ page \subseteq Stages
    /\ socket \in BOOLEAN /\ rejoin \in BOOLEAN
    /\ currentRoom \in Rooms \cup {NoRoom}
    /\ selections \in Seq([room : Rooms, at : {"keys", "asked", "marking", "done"},
                           id : 0 .. MaxEvents])
    /\ lastMessageId \in 0 .. MaxEvents /\ badge \in [Rooms -> Nat]
    /\ up \in Seq([type : {"join", "leave"}, room : Rooms])
    /\ down \in Seq([kind : {"message", "notice"}, id : Ids])
    /\ asked \in Nat
    /\ answers \in Seq([unread : [Rooms -> SUBSET Ids], late : BOOLEAN,
                        clears : SUBSET Rooms])
    /\ reads \subseteq [room : Rooms, id : Ids]
    /\ told \subseteq Ids /\ missed \subseteq Ids /\ excused \subseteq Rooms
    /\ events \in 0 .. MaxEvents

(* A member with a push subscription, whose page is closed or has shown    *)
(* one of the rooms for a while.                                           *)
Init ==
    /\ sent = <<>> /\ position = [r \in Rooms |-> 0] /\ ghost = FALSE /\ endpoint = TRUE
    /\ \/ page = Stages /\ socket = TRUE /\ currentRoom \in Rooms /\ joined = {currentRoom}
       \/ page = {} /\ socket = FALSE /\ currentRoom = NoRoom /\ joined = {}
    /\ rejoin = FALSE /\ up = <<>> /\ down = <<>> /\ selections = <<>> /\ lastMessageId = 0
    /\ badge = [r \in Rooms |-> 0] /\ asked = 0 /\ answers = <<>> /\ excused = {}
    /\ reads = {} /\ told = {} /\ missed = {} /\ events = 0

Event == events < MaxEvents /\ events' = events + 1

(* The server would count the rooms in R otherwise than it last did, and   *)
(* nothing tells the page.                                                 *)
LeftBehind(R) ==
    /\ excused' = excused \cup R
    /\ answers' = [i \in DOMAIN answers |-> [answers[i] EXCEPT !.clears = @ \ R]]

Miss(M) == missed' = missed \cup (M \ told)

-----------------------------------------------------------------------------
(* The server.                                                             *)

\* The messages of a room with a larger id, deleted ones included.
get_unread(r, since) == {m \in OfRoom(r) : m > since}

mark_room_read(r, id) == position' = [position EXCEPT ![r] = Max({@, id})]

is_user_connected == socket \/ ghost

(* What is stored in room r now will be on the page: in the sidebar, as a  *)
(* broadcast, or with the history that is still to be fetched.             *)
Follows(r) ==
    \/ r # currentRoom \/ r \in joined
    \/ \E n \in DOMAIN selections :
          selections[n].room = r /\ selections[n].at \in {"keys", "asked"}

(* The message is stored, and the sockets of its room are copied before    *)
(* the first await.                                                        *)
add_message(r) ==
    /\ Event
    /\ sent' = Append(sent, [room |-> r, at |-> "broadcast", to |-> r \in joined])
    /\ missed' = IF Follows(r) THEN missed ELSE missed \cup {Len(sent) + 1}
    /\ UNCHANGED <<position, ghost, endpoint, link, screen, sidebar, reads, told>>

Proceed(m, from, after) ==
    /\ sent[m].at = from
    /\ sent' = [sent EXCEPT ![m].at = after, ![m].to = FALSE]

\* The turn of the member's socket in broadcast_to_room.
broadcast_to_room(m) ==
    /\ Proceed(m, "broadcast", "push")
    /\ InOrder => \A k \in OfRoom(sent[m].room) : k < m => sent[k].at # "broadcast"
    /\ down' = IF sent[m].to THEN Append(down, [kind |-> "message", id |-> m]) ELSE down
    /\ UNCHANGED <<position, ghost, endpoint, joined, socket, rejoin, up, screen, sidebar,
                   reads, told, missed, events>>

(* _handle_room_message, the listener of the broadcast.                    *)
_handle_room_message(m) ==
    /\ Proceed(m, "push", "notify")
    /\ told' = IF is_user_connected \/ ~endpoint THEN told ELSE told \cup {m}
    /\ UNCHANGED <<position, ghost, endpoint, link, screen, sidebar, reads, missed, events>>

\* The push service refuses; it may know no such subscription (404, 410).
PushFails(m) ==
    /\ Proceed(m, "push", "notify") /\ ~is_user_connected /\ endpoint /\ Event
    /\ endpoint' \in BOOLEAN
    /\ UNCHANGED <<position, ghost, link, screen, sidebar, reads, told, missed>>

Tell(m) ==
    IF socket
    THEN /\ down' = Append(down, [kind |-> "notice", id |-> m])
         /\ UNCHANGED <<missed, excused, answers>>
    ELSE Miss({m}) /\ LeftBehind({sent[m].room}) /\ UNCHANGED down

\* Mutant of notify_user: not for those who have the room open, who were sent the message.
NotifyOthers(m) ==
    /\ Proceed(m, "notify", "done")
    /\ IF sent[m].room \in joined THEN UNCHANGED <<down, missed, excused, answers>> ELSE Tell(m)
    /\ UNCHANGED <<position, ghost, endpoint, joined, socket, rejoin, up, screen, badge, asked,
                   reads, told, events>>

\* The member's turn among those who are notified, muted rooms included.
notify_user(m) ==
    /\ Proceed(m, "notify", "done")
    /\ Tell(m)
    /\ UNCHANGED <<position, ghost, endpoint, joined, socket, rejoin, up, screen, badge, asked,
                   reads, told, events>>

handle_room ==
    /\ up # <<>> /\ up' = Tail(up)
    /\ joined' = IF Head(up).type = "join" THEN joined \cup {Head(up).room}
                 ELSE joined \ {Head(up).room}
    /\ UNCHANGED <<sent, position, ghost, endpoint, socket, rejoin, down, screen, sidebar,
                   reads, told, missed, events>>

(* A position that moves after the numbers were last counted.              *)
mark_read_endpoint(x) ==
    /\ x \in reads /\ reads' = reads \ {x}
    /\ mark_room_read(x.room, x.id)
    /\ IF asked = 0 /\ position' # position THEN LeftBehind({x.room})
       ELSE UNCHANGED <<excused, answers>>
    /\ UNCHANGED <<sent, ghost, endpoint, link, screen, badge, asked, told, missed, events>>

\* The member reads a room in another browser.  Nobody tells this page.
ReadElsewhere(r) ==
    /\ get_unread(r, position[r]) # {} /\ Event
    /\ mark_room_read(r, Max(OfRoom(r)))
    /\ LeftBehind({r}) /\ told' = told \cup OfRoom(r)
    /\ UNCHANGED <<sent, ghost, endpoint, link, screen, badge, asked, reads, missed>>

\* The bus finds out that a connection is gone.
disconnect ==
    /\ ghost /\ ghost' = FALSE
    /\ UNCHANGED <<sent, position, endpoint, link, screen, sidebar, reads, told, missed, events>>

\* list_rooms: every number of one moment.
list_rooms ==
    /\ asked > 0 /\ asked' = asked - 1
    /\ answers' = Append(answers, [unread |-> [r \in Rooms |-> get_unread(r, position[r])],
                                   late |-> FALSE, clears |-> excused])
    /\ UNCHANGED <<sent, position, ghost, endpoint, link, screen, badge, excused, reads, told,
                   missed, events>>

-----------------------------------------------------------------------------
(* The page.                                                               *)

\* initializeChatView, up to its awaits.
OpenPage ==
    /\ page = {} /\ page' = {"open"} /\ asked' = 1 /\ excused' = {}
    /\ UNCHANGED <<sent, position, ghost, endpoint, link, currentRoom, selections,
                   lastMessageId, badge, answers, reads, told, missed, events>>

\* The plugins' scripts have run.  That of web-push sends the subscription again.
loadPlugins ==
    /\ page # {} /\ "plugins" \notin page /\ page' = page \cup {"plugins"}
    /\ endpoint' \in {endpoint, TRUE}
    /\ UNCHANGED <<sent, position, ghost, link, currentRoom, selections, lastMessageId,
                   sidebar, reads, told, missed, events>>

(* selectRoom, up to loadRoomKeys.                                         *)
Choose(r) ==
    /\ up' = IF currentRoom = NoRoom \/ ~socket THEN up
             ELSE Append(up, [type |-> "leave", room |-> currentRoom])
    /\ currentRoom' = r
    /\ lastMessageId' = IF currentRoom # NoRoom /\ "plugins" \in page THEN 0
                        ELSE lastMessageId
    /\ selections' = Append(selections, [room |-> r, at |-> "keys", id |-> 0])

selectRoom(r) ==
    /\ "listed" \in page /\ r # currentRoom /\ Choose(r) /\ Event
    /\ UNCHANGED <<sent, position, ghost, endpoint, joined, socket, rejoin, down, page, sidebar,
                   reads, told, missed>>

\* initializeChatView goes on: a room that is current already is left as it is.
Enter(r) ==
    /\ {"listed", "plugins"} \subseteq page /\ "entered" \notin page
    /\ page' = page \cup {"entered"}
    /\ IF r = currentRoom THEN UNCHANGED <<up, currentRoom, lastMessageId, selections>>
       ELSE Choose(r)
    /\ UNCHANGED <<sent, position, ghost, endpoint, joined, socket, rejoin, down, sidebar,
                   reads, told, missed, events>>

isLoadingMessages == \E n \in DOMAIN selections : selections[n].at = "asked"

\* Mutant of loadRooms: one call at a time.
LoadRoomsOnce == asked' = IF asked > 0 \/ answers # <<>> THEN asked ELSE asked + 1

loadRooms == asked' = asked + 1

(* What is marked as read in a room, or will be when requests under way    *)
(* have been served.                                                       *)
Marked(r) ==
    {m \in OfRoom(r) :
       \/ m <= position[r]
       \/ \E x \in reads : x.room = r /\ m <= x.id
       \/ \E n \in DOMAIN selections :
             selections[n].at = "marking" /\ selections[n].room = r /\ m <= selections[n].id}

(* The history of room r is not fetched, though it is marked as read up to *)
(* id.  Elsewhere than in the current room, the sidebar still counts what  *)
(* is not marked.                                                          *)
MissRoom(r, id) ==
    Miss(IF r = currentRoom THEN OfRoom(r)
         ELSE Marked(r) \cup {m \in OfRoom(r) : m <= id})

(* The rest of selectRoom, and onRoomSelected up to the fetch of           *)
(* loadMessages.  No handler is registered before the plugins are loaded;  *)
(* no second load of history begins while one is under way.                *)
KeysLoaded(n) ==
    LET r == selections[n].room
        fetch == "plugins" \in page /\ ~isLoadingMessages
    IN  /\ selections[n].at = "keys"
        /\ up' = IF socket THEN Append(up, [type |-> "join", room |-> r]) ELSE up
        /\ lastMessageId' = IF "plugins" \in page THEN 0 ELSE lastMessageId
        /\ selections' = [selections EXCEPT ![n].at = IF fetch THEN "asked" ELSE "done"]
        /\ IF fetch THEN UNCHANGED missed ELSE MissRoom(r, 0)
        /\ IF "plugins" \in page /\ ~fetch THEN loadRooms ELSE UNCHANGED asked
    /\ UNCHANGED <<sent, position, ghost, endpoint, joined, socket, rejoin, down, page,
                   currentRoom, badge, answers, excused, reads, told, events>>

\* onRoomSelected after loadMessages: markRoomAsRead, if there is anything to mark.
Loaded(n) ==
    /\ selections' = [selections EXCEPT ![n].id = lastMessageId',
                                        ![n].at = IF lastMessageId' = 0 THEN "done"
                                                  ELSE "marking"]
    /\ IF lastMessageId' = 0 THEN loadRooms ELSE UNCHANGED asked

\* The rows are shown whatever room is current by now.
loadMessages(n) ==
    LET r == selections[n].room IN
    /\ selections[n].at = "asked"
    /\ lastMessageId' = Max(OfRoom(r) \cup {lastMessageId})
    /\ Loaded(n)
    /\ IF r = currentRoom THEN told' = told \cup OfRoom(r) /\ UNCHANGED missed
       ELSE Miss(OfRoom(r)) /\ UNCHANGED told
    /\ UNCHANGED <<sent, position, ghost, endpoint, link, page, currentRoom, badge, answers,
                   excused, reads, events>>

\* lastMessageId may be that of a message of the room that is current by now.
LoadFails(n) ==
    /\ selections[n].at = "asked" /\ Event
    /\ UNCHANGED lastMessageId /\ Loaded(n)
    /\ MissRoom(selections[n].room, lastMessageId)
    /\ UNCHANGED <<sent, position, ghost, endpoint, link, page, currentRoom, badge, answers,
                   excused, reads, told>>

\* The position is stored; onRoomSelected ends with loadRooms.
onRoomSelected(n) ==
    /\ selections[n].at = "marking"
    /\ selections' = [selections EXCEPT ![n].at = "done"]
    /\ mark_room_read(selections[n].room, selections[n].id)
    /\ loadRooms
    /\ UNCHANGED <<sent, ghost, endpoint, link, page, currentRoom, lastMessageId, badge,
                   answers, excused, reads, told, missed, events>>

(* A message is shown if its room is current, and marked as read; a notice *)
(* loads the rooms.  Frames that come before the plugins are lost.         *)
onRoomAction ==
    /\ down # <<>> /\ down' = Tail(down)
    /\ LET e == Head(down)
           r == sent[e.id].room
           seen == "plugins" \in page /\ e.kind = "message" /\ r = currentRoom
       IN  /\ told' = IF seen THEN told \cup {e.id} ELSE told
           /\ lastMessageId' = IF seen THEN Max({lastMessageId, e.id}) ELSE lastMessageId
           /\ reads' = IF seen THEN reads \cup {[room |-> r, id |-> e.id]} ELSE reads
           /\ IF "plugins" \in page /\ e.kind = "notice" THEN loadRooms ELSE UNCHANGED asked
           /\ IF "plugins" \in page THEN UNCHANGED <<missed, excused, answers>>
              ELSE Miss({e.id}) /\ LeftBehind({r})
    /\ UNCHANGED <<sent, position, ghost, endpoint, joined, socket, rejoin, up, page,
                   currentRoom, selections, badge, events>>

(* The end of loadRooms: no number is drawn at the current room.  An       *)
(* answer drawn after one that the server gave later is late.              *)
createRoomItem(i) ==
    LET a == answers[i] IN
    /\ page' = page \cup {"listed"}
    /\ badge' = [r \in Rooms |-> IF r = currentRoom THEN 0 ELSE Cardinality(a.unread[r])]
    /\ told' = told \cup UNION {a.unread[r] : r \in Rooms \ {currentRoom}}
    /\ answers' = RemoveAt([k \in DOMAIN answers |->
                              [answers[k] EXCEPT !.late = @ \/ k < i]], i)
    /\ excused' = IF a.late THEN Rooms ELSE excused \ a.clears
    /\ UNCHANGED <<sent, position, ghost, endpoint, link, currentRoom, selections,
                   lastMessageId, asked, reads, missed, events>>

-----------------------------------------------------------------------------
(* The connection.                                                         *)

Connect ==
    /\ page # {} /\ ~socket /\ socket' = TRUE
    /\ rejoin' = (currentRoom # NoRoom)
    /\ UNCHANGED <<sent, position, ghost, endpoint, joined, up, down, screen, sidebar, reads,
                   told, missed, events>>

\* The end of onopen, for the room that is current by then.
Rejoin ==
    /\ rejoin /\ rejoin' = FALSE
    /\ up' = Append(up, [type |-> "join", room |-> currentRoom])
    /\ UNCHANGED <<sent, position, ghost, endpoint, joined, socket, down, screen, sidebar,
                   reads, told, missed, events>>

(* What the socket carried is lost, and what was about to be sent to it.   *)
Cut ==
    /\ socket' = FALSE /\ rejoin' = FALSE /\ joined' = {} /\ up' = <<>> /\ down' = <<>>
    /\ ghost' = (ghost \/ socket)
    /\ sent' = [m \in Ids |-> [sent[m] EXCEPT !.to = FALSE]]

Drop ==
    /\ socket /\ Cut /\ Event
    /\ Miss({down[k].id : k \in DOMAIN down} \cup {m \in Ids : sent[m].to})
    /\ LeftBehind({sent[down[k].id].room : k \in DOMAIN down})
    /\ UNCHANGED <<position, endpoint, screen, badge, asked, reads, told>>

\* Requests that were sent may still be served.
ClosePage ==
    /\ page # {} /\ Cut /\ Event
    /\ page' = {} /\ currentRoom' = NoRoom /\ selections' = <<>> /\ lastMessageId' = 0
    /\ badge' = [r \in Rooms |-> 0] /\ asked' = 0 /\ answers' = <<>> /\ excused' = {}
    /\ reads' = reads \cup {[room |-> selections[n].room, id |-> selections[n].id] :
                            n \in {k \in DOMAIN selections : selections[k].at = "marking"}}
    /\ Miss({m \in Ids : sent[m].at = "done"} \cup
            UNION {OfRoom(selections[n].room) :
                   n \in {k \in DOMAIN selections : selections[k].at \in {"keys", "asked"}}})
    /\ UNCHANGED <<position, endpoint, told>>

Next ==
    \/ \E r \in Rooms : add_message(r) \/ ReadElsewhere(r) \/ selectRoom(r) \/ Enter(r)
    \/ \E m \in Ids : \/ broadcast_to_room(m) \/ _handle_room_message(m) \/ PushFails(m)
                      \/ notify_user(m)
    \/ handle_room \/ disconnect \/ list_rooms
    \/ \E x \in reads : mark_read_endpoint(x)
    \/ OpenPage \/ loadPlugins
    \/ \E n \in DOMAIN selections :
          KeysLoaded(n) \/ loadMessages(n) \/ LoadFails(n) \/ onRoomSelected(n)
    \/ onRoomAction
    \/ \E i \in DOMAIN answers : createRoomItem(i)
    \/ Connect \/ Rejoin \/ Drop \/ ClosePage

Spec == Init /\ [][Next]_vars

-----------------------------------------------------------------------------
\* Nothing is under way, but for the room being joined or the bus finding out.
Quiet ==
    /\ \A m \in Ids : sent[m].at = "done"
    /\ down = <<>> /\ asked = 0 /\ answers = <<>> /\ reads = {}
    /\ \A n \in DOMAIN selections : selections[n].at = "done"
    /\ page = {} \/ "entered" \in page

(* Every message was shown, counted next to its room, or pushed: none      *)
(* falls between the socket, the sidebar that has no number for the        *)
(* current room, and a push that was not sent because a socket was there.  *)
(* The ways to miss one are those of missed: its notice found no socket    *)
(* though the push had (or there was no subscription), frames were lost    *)
(* with the connection or before the plugins were loaded, the history of   *)
(* its room was not fetched (and the room marked as read, or current) or   *)
(* came when another room was current, the room was not joined again yet,  *)
(* or the page was closed first.  It rests on InOrder.                     *)
EveryMessageIsTold == Quiet => Ids \subseteq told \cup missed

(* When all is quiet, the number next to a room is that of the messages    *)
(* after its read position, unless the page was not told (a notice was     *)
(* lost, the room was read elsewhere, a position was stored after the      *)
(* numbers were counted) or an older answer was drawn last.                *)
BadgesAreRight ==
    Quiet /\ page # {} =>
        \A r \in Rooms \ (excused \cup {currentRoom}) :
           badge[r] = Cardinality({m \in OfRoom(r) : m > position[r]})
=============================================================================
