-------------------------------- MODULE Chat --------------------------------
(***************************************************************************)
(* One page that reads chat rooms: the chat plugin's page (four43.room-    *)
(* type-chat/frontend) with selectRoom and the reconnection of app.js, and *)
(* its server side, the messages table and the read positions.             *)
(*                                                                         *)
(* The page hears of a message twice over: from the history it fetches     *)
(* over HTTP when a room is selected, and from the broadcasts its socket   *)
(* gets once the server has processed room:join.  The two channels are not *)
(* ordered with each other, and every await of the page (keys, fetch, the  *)
(* decryption of a message before it is put in the document) lets the      *)
(* other continuations run.                                                *)
(*                                                                         *)
(* Message ids are the rows' AUTOINCREMENT ids: one sequence for all       *)
(* rooms.  A content is a number: 0 for what was sent, and a fresh one for *)
(* each edit.                                                              *)
(***************************************************************************)
EXTENDS Integers, FiniteSets, Sequences, SequencesExt

CONSTANTS
    Rooms,          \* chat rooms the reader is a member of
    NoRoom,
    PageSize,       \* PAGE_SIZE
    MaxMessages,    \* bound: messages stored
    MaxSelections,  \* bound: rooms selected
    MaxChanges,     \* bound: edits and deletions
    MaxDrops,       \* bound: losses of the connection and failed fetches
    InOrder         \* whether broadcasts reach the page in the order they were made

ASSUME ChatAssumption ==
    /\ NoRoom \notin Rooms
    /\ PageSize \in Nat \ {0}
    /\ {MaxMessages, MaxSelections, MaxChanges, MaxDrops} \subseteq Nat
    /\ InOrder \in BOOLEAN

VARIABLES
    \* the server
    messages,       \* the rows, by id: room, content, deleted
    last_read,      \* [room]: the reader's room_users.last_read_message_id
    joined,         \* the rooms the page's socket is subscribed to
    \* between the two
    up,             \* room:join and room:leave frames, oldest first
    down,           \* broadcasts on their way to the page, oldest first
    reads,          \* POST .../read requests in flight
    \* the page
    currentRoom,
    online,         \* whether its socket is open
    rejoining,      \* ws.onopen is waiting for loadRoomKeys
    selections,     \* the calls of selectRoom so far, and where each one is
    isLoadingMessages,
    lastMessageId, oldestMessageId, hasOlderMessages,
    older,          \* the call of loadOlderMessages, if one runs
    view,           \* the elements of #messages, top first
    arrivals,       \* live messages being decrypted for display
    edits,          \* edited contents being decrypted
    \* what happened
    shown,          \* ids of the messages that have been displayed
    unheard,        \* ids the page was not told of (see ServeHistory, Post)
    hasty,          \* whether a room was selected while another was loading
    changes, drops

server == <<messages, last_read, joined>>
wire == <<up, down, reads>>
paging == <<isLoadingMessages, lastMessageId, oldestMessageId, hasOlderMessages>>
document == <<view, arrivals, edits, shown>>
vars == <<server, wire, currentRoom, online, rejoining, selections, paging, older,
          document, unheard, hasty, changes, drops>>

Ids == 1 .. MaxMessages
Contents == 0 .. MaxChanges
Hidden == -1                            \* "[deleted]"
NoMessage == 0                          \* null, or the 0 both counters start with
Elements == [id : Ids, text : Contents \cup {Hidden}, live : BOOLEAN]
Rows == [id : Ids, text : Contents \cup {Hidden}]
NotOlder == [at |-> "idle", room |-> NoRoom, before |-> NoMessage, rows |-> {},
             first |-> NoMessage, size |-> 0, inserted |-> 0, anchor |-> "none"]

TypeOK ==
    /\ messages \in Seq([room : Rooms, content : Contents, deleted : BOOLEAN])
    /\ Len(messages) <= MaxMessages
    /\ last_read \in [Rooms -> 0 .. MaxMessages]
    /\ joined \subseteq Rooms
    /\ up \in Seq([type : {"join", "leave"}, room : Rooms])
    /\ down \in Seq([type : {"message", "message_edited", "message_deleted"},
                     id : Ids, content : Contents])
    /\ reads \subseteq [room : Rooms, id : Ids]
    /\ currentRoom \in Rooms \cup {NoRoom}
    /\ online \in BOOLEAN /\ rejoining \in BOOLEAN
    /\ selections \in Seq([room : Rooms, at : {"keys", "history", "rows", "done"},
                           rows : SUBSET Rows, first : 0 .. MaxMessages,
                           size : 0 .. MaxMessages])
    /\ Len(selections) <= MaxSelections
    /\ isLoadingMessages \in BOOLEAN /\ hasOlderMessages \in BOOLEAN
    /\ lastMessageId \in 0 .. MaxMessages /\ oldestMessageId \in 0 .. MaxMessages
    /\ older \in [at : {"idle", "asked", "rows"}, room : Rooms \cup {NoRoom},
                  before : 0 .. MaxMessages, rows : SUBSET Rows,
                  first : 0 .. MaxMessages, size : 0 .. MaxMessages,
                  inserted : 0 .. MaxMessages, anchor : {"first", "none", "gone"}]
    /\ view \in Seq(Elements)
    /\ arrivals \subseteq Ids
    /\ edits \subseteq [id : Ids, content : Contents]
    /\ shown \subseteq Ids /\ unheard \subseteq Ids /\ hasty \in BOOLEAN
    /\ changes \in 0 .. MaxChanges /\ drops \in 0 .. MaxDrops

Init ==
    /\ messages = <<>>
    /\ last_read = [r \in Rooms |-> NoMessage]
    /\ joined = {}
    /\ up = <<>> /\ down = <<>> /\ reads = {}
    /\ currentRoom = NoRoom
    /\ online = TRUE /\ rejoining = FALSE
    /\ selections = <<>>
    /\ isLoadingMessages = FALSE
    /\ lastMessageId = NoMessage /\ oldestMessageId = NoMessage
    /\ hasOlderMessages = TRUE
    /\ older = NotOlder
    /\ view = <<>> /\ arrivals = {} /\ edits = {}
    /\ shown = {} /\ unheard = {} /\ hasty = FALSE
    /\ changes = 0 /\ drops = 0

Larger(i, j) == IF i > j THEN i ELSE j
IsFirst(m, rows) == m \in rows /\ \A x \in rows : m.id <= x.id
\* data[0].id: the id of the first row of an answer of which m comes next.
FirstOf(load, m) == IF load.first = NoMessage THEN m.id ELSE load.first

-----------------------------------------------------------------------------
(* The server.  Each handler is one synchronous piece up to the broadcast; *)
(* the sends to the other sockets come between it and the send to this     *)
(* page's, which is what InOrder = FALSE is for.                           *)

Stored(r) == {i \in DOMAIN messages : messages[i].room = r}

\* broadcast_to_room, as far as this page is concerned.
Broadcast(r, type, i, content) ==
    down' = IF r \in joined
            THEN Append(down, [type |-> type, id |-> i, content |-> content])
            ELSE down

\* room:message, or POST .../messages, by anybody.
Post(r) ==
    LET i == Len(messages) + 1 IN
    /\ i <= MaxMessages
    /\ messages' = Append(messages, [room |-> r, content |-> 0, deleted |-> FALSE])
    /\ Broadcast(r, "message", i, 0)
    /\ unheard' = IF r = currentRoom /\ r \notin joined
                  THEN unheard \cup {i} ELSE unheard
    /\ UNCHANGED <<last_read, joined, up, reads, currentRoom, online, rejoining,
                   selections, paging, older, document, hasty, changes, drops>>

\* room:edit_message by the author, who may have deleted the message before.
EditMessage(i) ==
    /\ i \in DOMAIN messages /\ changes < MaxChanges
    /\ changes' = changes + 1
    /\ messages' = [messages EXCEPT ![i].content = changes + 1]
    /\ Broadcast(messages[i].room, "message_edited", i, changes + 1)
    /\ UNCHANGED <<last_read, joined, up, reads, currentRoom, online, rejoining,
                   selections, paging, older, document, unheard, hasty, drops>>

\* room:delete_message by the author or an admin: the row stays, marked.
DeleteMessage(i) ==
    /\ i \in DOMAIN messages /\ changes < MaxChanges
    /\ changes' = changes + 1
    /\ messages' = [messages EXCEPT ![i].deleted = TRUE]
    /\ Broadcast(messages[i].room, "message_deleted", i, 0)
    /\ UNCHANGED <<last_read, joined, up, reads, currentRoom, online, rejoining,
                   selections, paging, older, document, unheard, hasty, drops>>

\* room:join and room:leave.
ServeFrame ==
    /\ up # <<>>
    /\ joined' = IF Head(up).type = "join" THEN joined \cup {Head(up).room}
                 ELSE joined \ {Head(up).room}
    /\ up' = Tail(up)
    /\ UNCHANGED <<messages, last_read, down, reads, currentRoom, online, rejoining,
                   selections, paging, older, document, unheard, hasty, changes, drops>>

\* mark_room_read: a position never moves back, in whatever order the requests
\* come.  (Mutant: it is overwritten.)
mark_room_readLast(r, i) == last_read' = [last_read EXCEPT ![r] = i]
mark_room_read(r, i) == last_read' = [last_read EXCEPT ![r] = Larger(@, i)]

ServeRead(x) ==
    /\ x \in reads
    /\ reads' = reads \ {x}
    /\ mark_room_read(x.room, x.id)
    /\ UNCHANGED <<messages, joined, up, down, currentRoom, online, rejoining,
                   selections, paging, older, document, unheard, hasty, changes, drops>>

\* get_messages with a limit: the newest PageSize of S, a deleted one blanked.
\* (Mutant: the first PageSize.)
Newest(S) == {i \in S : Cardinality({j \in S : j > i}) < PageSize}
Row(i) == [id |-> i, text |-> IF messages[i].deleted THEN Hidden
                              ELSE messages[i].content]
get_messagesFirst(S) ==
    {Row(i) : i \in {j \in S : Cardinality({k \in S : k < j}) < PageSize}}
get_messages(S) == {Row(i) : i \in Newest(S)}

-----------------------------------------------------------------------------
(* Selecting a room.                                                       *)

InProgress(n) == selections[n].at # "done"

\* selectRoom, up to its await of loadRoomKeys.
SelectRoom(r) ==
    /\ Len(selections) < MaxSelections
    /\ r # currentRoom
    /\ hasty' = (hasty \/ isLoadingMessages \/ \E n \in DOMAIN selections : InProgress(n))
    /\ up' = IF currentRoom # NoRoom /\ online
             THEN Append(up, [type |-> "leave", room |-> currentRoom]) ELSE up
    /\ currentRoom' = r
    /\ selections' = Append(selections, [room |-> r, at |-> "keys", rows |-> {},
                                         first |-> NoMessage, size |-> 0])
    /\ lastMessageId' = NoMessage /\ oldestMessageId' = NoMessage
    /\ hasOlderMessages' = TRUE
    /\ UNCHANGED <<server, down, reads, online, rejoining, isLoadingMessages, older,
                   document, unheard, changes, drops>>

\* loadMessages, up to its fetch: it returns at once if another load runs.
\* (Mutant: it does not.)
loadMessagesAlways(n) ==
    /\ isLoadingMessages' = TRUE
    /\ selections' = [selections EXCEPT ![n].at = "history"]
loadMessages(n) ==
    /\ isLoadingMessages' = TRUE
    /\ selections' = [selections EXCEPT ![n].at =
                        IF isLoadingMessages THEN "done" ELSE "history"]

\* The rest of it, with onRoomSelected up to the fetch of the history: the room
\* it was called with is joined and cleared for, whichever is current now.
KeysLoaded(n) ==
    LET r == selections[n].room IN
    /\ selections[n].at = "keys"
    /\ up' = IF online THEN Append(up, [type |-> "join", room |-> r]) ELSE up
    /\ lastMessageId' = NoMessage /\ oldestMessageId' = NoMessage
    /\ hasOlderMessages' = TRUE
    /\ view' = <<>> /\ edits' = {}
    /\ older' = [older EXCEPT !.anchor = IF older.at = "rows" THEN "gone" ELSE @]
    /\ loadMessages(n)
    /\ UNCHANGED <<server, down, reads, currentRoom, online, rejoining, arrivals,
                   shown, unheard, hasty, changes, drops>>

\* markRoomAsRead: there is nothing to mark while nothing was displayed.
markRoomAsRead(r, i) ==
    reads' = IF i = NoMessage THEN reads ELSE reads \cup {[room |-> r, id |-> i]}

\* The end of loadMessages and of onRoomSelected.
Loaded(n, last) ==
    /\ isLoadingMessages' = FALSE
    /\ markRoomAsRead(selections[n].room, last)

\* The server answers the fetch of loadMessages.
ServeHistory(n) ==
    LET S == Stored(selections[n].room)
        rows == get_messages(S) IN
    /\ selections[n].at = "history"
    /\ unheard' = (unheard \ S) \cup (S \ Newest(S))
    /\ IF rows = {}
       THEN /\ selections' = [selections EXCEPT ![n].at = "done"]
            /\ hasOlderMessages' = FALSE
            /\ Loaded(n, lastMessageId)
       ELSE /\ selections' = [selections EXCEPT ![n] =
                    [@ EXCEPT !.at = "rows", !.rows = rows, !.size = Cardinality(rows)]]
            /\ UNCHANGED <<hasOlderMessages, isLoadingMessages, reads>>
    /\ UNCHANGED <<server, up, down, currentRoom, online, rejoining, lastMessageId,
                   oldestMessageId, older, document, hasty, changes, drops>>

\* The fetch fails: the error is logged, and the room marked as read all the
\* same, up to what came over the socket meanwhile.
HistoryFails(n) ==
    /\ selections[n].at = "history"
    /\ drops < MaxDrops /\ drops' = drops + 1
    /\ selections' = [selections EXCEPT ![n].at = "done"]
    /\ Loaded(n, lastMessageId)
    /\ unheard' = unheard \cup Stored(selections[n].room)
    /\ UNCHANGED <<server, up, down, currentRoom, online, rejoining, lastMessageId,
                   oldestMessageId, hasOlderMessages, older, document, hasty, changes>>

\* displayMessage for m, the next row of the answer, at the bottom.
ShowRow(n, m) ==
    LET load == selections[n]
        rest == load.rows \ {m} IN
    /\ load.at = "rows" /\ IsFirst(m, load.rows)
    /\ view' = Append(view, [id |-> m.id, text |-> m.text, live |-> FALSE])
    /\ shown' = shown \cup {m.id}
    /\ lastMessageId' = Larger(lastMessageId, m.id)
    /\ IF rest # {}
       THEN /\ selections' = [selections EXCEPT ![n] =
                                [@ EXCEPT !.rows = rest, !.first = FirstOf(load, m)]]
            /\ UNCHANGED <<oldestMessageId, hasOlderMessages, isLoadingMessages, reads>>
       ELSE /\ selections' = [selections EXCEPT ![n] =
                                [@ EXCEPT !.at = "done", !.rows = {}]]
            /\ oldestMessageId' = FirstOf(load, m)
            /\ hasOlderMessages' = (load.size >= PageSize)
            /\ Loaded(n, lastMessageId')
    /\ UNCHANGED <<server, up, down, currentRoom, online, rejoining, older, arrivals,
                   edits, unheard, hasty, changes, drops>>

-----------------------------------------------------------------------------
(* Scrolling back.                                                         *)

\* loadOlderMessages, called when the reader scrolls to the top.
LoadOlder ==
    /\ currentRoom # NoRoom
    /\ ~isLoadingMessages /\ hasOlderMessages /\ oldestMessageId # NoMessage
    /\ isLoadingMessages' = TRUE
    /\ older' = [NotOlder EXCEPT !.at = "asked", !.room = currentRoom,
                                 !.before = oldestMessageId]
    /\ UNCHANGED <<server, wire, currentRoom, online, rejoining, selections,
                   lastMessageId, oldestMessageId, hasOlderMessages, document, unheard,
                   hasty, changes, drops>>

\* The server answers; the rows go above the element that is first now.
ServeOlder ==
    LET rows == get_messages({i \in Stored(older.room) : i < older.before}) IN
    /\ older.at = "asked"
    /\ IF rows = {}
       THEN /\ older' = NotOlder
            /\ hasOlderMessages' = FALSE /\ isLoadingMessages' = FALSE
       ELSE /\ older' = [older EXCEPT !.at = "rows", !.rows = rows,
                                      !.size = Cardinality(rows),
                                      !.anchor = IF view = <<>> THEN "none" ELSE "first"]
            /\ UNCHANGED <<hasOlderMessages, isLoadingMessages>>
    /\ UNCHANGED <<server, wire, currentRoom, online, rejoining, selections,
                   lastMessageId, oldestMessageId, document, unheard, hasty, changes, drops>>

\* displayMessageElement for m, the next row.
ShowOlder(m) ==
    LET rest == older.rows \ {m}
        at == IF older.anchor = "none" THEN Len(view) + 1 ELSE older.inserted + 1 IN
    /\ older.at = "rows" /\ older.anchor # "gone" /\ IsFirst(m, older.rows)
    /\ view' = InsertAt(view, at, [id |-> m.id, text |-> m.text, live |-> FALSE])
    /\ shown' = shown \cup {m.id}
    /\ lastMessageId' = Larger(lastMessageId, m.id)
    /\ IF rest # {}
       THEN /\ older' = [older EXCEPT !.rows = rest, !.inserted = @ + 1,
                                      !.first = FirstOf(older, m)]
            /\ UNCHANGED <<oldestMessageId, hasOlderMessages, isLoadingMessages>>
       ELSE /\ older' = NotOlder
            /\ oldestMessageId' = FirstOf(older, m)
            /\ hasOlderMessages' = (older.size >= PageSize)
            /\ isLoadingMessages' = FALSE
    /\ UNCHANGED <<server, wire, currentRoom, online, rejoining, selections, arrivals,
                   edits, unheard, hasty, changes, drops>>

\* The fetch fails, or the element the rows were to go above has left the
\* document with the room it belonged to (insertBefore throws).
OlderFails ==
    /\ \/ older.at = "asked" /\ drops < MaxDrops /\ drops' = drops + 1
       \/ older.at = "rows" /\ older.anchor = "gone" /\ UNCHANGED drops
    /\ older' = NotOlder
    /\ isLoadingMessages' = FALSE
    /\ UNCHANGED <<server, wire, currentRoom, online, rejoining, selections,
                   lastMessageId, oldestMessageId, hasOlderMessages, document, unheard,
                   hasty, changes>>

-----------------------------------------------------------------------------
(* Live messages, edits and deletions.                                     *)

\* The element querySelector finds for a message: the first.
Shows(i) == {p \in DOMAIN view : view[p].id = i}
SetText(i, text) ==
    view' = IF Shows(i) = {} THEN view
            ELSE LET p == CHOOSE p \in Shows(i) : \A q \in Shows(i) : p <= q
                 IN [view EXCEPT ![p].text = text]

\* (Mutant of the first: messages are not shown while the history is loading.)
IsHereAndLoaded(i) == messages[i].room = currentRoom /\ ~isLoadingMessages
IsHere(i) == messages[i].room = currentRoom

\* onRoomAction.  A message is shown, and marked as read, if it belongs to the
\* current room; an edit or a deletion of a message that is not in the document
\* (not there yet, perhaps) is ignored.
Deliver(k) ==
    LET e == down[k]
        here == IsHere(e.id) IN
    /\ k \in DOMAIN down
    /\ InOrder => k = 1
    /\ down' = RemoveAt(down, k)
    /\ CASE e.type = "message" ->
              /\ arrivals' = IF here THEN arrivals \cup {e.id} ELSE arrivals
              /\ IF here THEN markRoomAsRead(currentRoom, e.id) ELSE UNCHANGED reads
              /\ UNCHANGED <<edits, view>>
         [] e.type = "message_edited" ->
              /\ edits' = IF Shows(e.id) = {} THEN edits
                          ELSE edits \cup {[id |-> e.id, content |-> e.content]}
              /\ UNCHANGED <<arrivals, view, reads>>
         [] e.type = "message_deleted" ->
              /\ SetText(e.id, Hidden)
              /\ UNCHANGED <<arrivals, edits, reads>>
    /\ UNCHANGED <<server, up, currentRoom, online, rejoining, selections, paging,
                   older, shown, unheard, hasty, changes, drops>>

\* displayMessage, once the message is decrypted: at the bottom of whatever the
\* document shows by then.
Arrive(i) ==
    /\ i \in arrivals
    /\ arrivals' = arrivals \ {i}
    /\ view' = Append(view, [id |-> i, text |-> 0, live |-> TRUE])
    /\ shown' = shown \cup {i}
    /\ lastMessageId' = Larger(lastMessageId, i)
    /\ UNCHANGED <<server, wire, currentRoom, online, rejoining, selections,
                   isLoadingMessages, oldestMessageId, hasOlderMessages, older, edits,
                   unheard, hasty, changes, drops>>

\* handleMessageEdited, once the content is decrypted.
ApplyEdit(x) ==
    /\ x \in edits
    /\ edits' = edits \ {x}
    /\ SetText(x.id, x.content)
    /\ UNCHANGED <<server, wire, currentRoom, online, rejoining, selections, paging,
                   older, arrivals, shown, unheard, hasty, changes, drops>>

-----------------------------------------------------------------------------
(* The connection.                                                         *)

\* The socket closes: what is in flight on it is lost either way.
Disconnect ==
    /\ online /\ drops < MaxDrops
    /\ drops' = drops + 1
    /\ online' = FALSE
    /\ joined' = {} /\ up' = <<>> /\ down' = <<>>
    /\ unheard' = unheard \cup {down[k].id : k \in DOMAIN down}
    /\ UNCHANGED <<messages, last_read, reads, currentRoom, rejoining, selections,
                   paging, older, document, hasty, changes>>

\* connectWebSocket and ws.onopen; nothing is fetched again.
Reconnect ==
    /\ ~online
    /\ online' = TRUE
    /\ rejoining' = (rejoining \/ currentRoom # NoRoom)
    /\ UNCHANGED <<server, wire, currentRoom, selections, paging, older, document,
                   unheard, hasty, changes, drops>>

\* The room that is current when its keys have come is joined.
Rejoin ==
    /\ rejoining
    /\ rejoining' = FALSE
    /\ up' = IF online THEN Append(up, [type |-> "join", room |-> currentRoom]) ELSE up
    /\ UNCHANGED <<server, down, reads, currentRoom, online, selections, paging, older,
                   document, unheard, hasty, changes, drops>>

-----------------------------------------------------------------------------
ServerStep ==
    \/ ServeFrame \/ ServeOlder
    \/ \E x \in reads : ServeRead(x)
    \/ \E n \in DOMAIN selections : ServeHistory(n)

PageStep ==
    \/ \E n \in DOMAIN selections :
          KeysLoaded(n) \/ \E m \in selections[n].rows : ShowRow(n, m)
    \/ \E m \in older.rows : ShowOlder(m)
    \/ \E k \in DOMAIN down : Deliver(k)
    \/ \E i \in arrivals : Arrive(i)
    \/ \E x \in edits : ApplyEdit(x)
    \/ Rejoin

UserStep ==
    \/ \E r \in Rooms : Post(r) \/ SelectRoom(r)
    \/ \E i \in DOMAIN messages : EditMessage(i) \/ DeleteMessage(i)
    \/ LoadOlder

Mishap ==
    \/ \E n \in DOMAIN selections : HistoryFails(n)
    \/ OlderFails
    \/ Disconnect \/ Reconnect

Next == ServerStep \/ PageStep \/ UserStep \/ Mishap

Fairness ==
    /\ \A n \in 1 .. MaxSelections :
          WF_vars(/\ n \in DOMAIN selections
                  /\ \/ ServeHistory(n)
                     \/ \E m \in selections[n].rows : ShowRow(n, m))
    /\ \A r \in Rooms, i \in Ids : WF_vars(ServeRead([room |-> r, id |-> i]))

Spec == Init /\ [][Next]_vars /\ Fairness
-----------------------------------------------------------------------------
(* Properties.                                                             *)

IsShown(i) == \E p \in DOMAIN view : view[p].id = i
OnItsWay(i) ==
    \/ i \in arrivals
    \/ \E k \in DOMAIN down : down[k].type = "message" /\ down[k].id = i
Runs(n) == selections[n].at \in {"history", "rows"}
Loading(i) ==
    \E n \in DOMAIN selections :
        \/ /\ selections[n].at \in {"keys", "history"}
           /\ selections[n].room = messages[i].room
        \/ \E x \in selections[n].rows : x.id = i

\* A read position covers no message that the reader was not shown, unless the
\* page is about to show it or could not know of it.
ReadIsShown ==
    ~hasty =>
    \A i \in DOMAIN messages :
        i <= last_read[messages[i].room]
        => i \in shown \/ OnItsWay(i) \/ Loading(i) \/ i \in unheard

\* History and broadcasts leave no other gap than unheard names: once the room
\* is loaded, each of its messages is in the document or on its way to it.
NothingElseIsMissed ==
    (/\ ~hasty
     /\ currentRoom # NoRoom /\ ~isLoadingMessages
     /\ \A n \in DOMAIN selections : ~InProgress(n))
    => \A i \in Stored(currentRoom) : IsShown(i) \/ OnItsWay(i) \/ i \in unheard

\* Pages of history neither overlap nor come in the wrong order, whatever is
\* displayed between their rows.
HistoryInOrder ==
    \A p, q \in DOMAIN view :
        p < q /\ ~view[p].live /\ ~view[q].live => view[p].id < view[q].id

\* isLoadingMessages excludes a second load: of the calls that display pages of
\* history at most one is past its guard.
LoadsExclude ==
    /\ Cardinality({n \in DOMAIN selections : Runs(n)})
           + (IF older.at = "idle" THEN 0 ELSE 1) <= 1
    /\ isLoadingMessages <=> (older.at # "idle" \/ \E n \in DOMAIN selections : Runs(n))

\* What has been displayed is marked as read in the end.
ShownBecomesRead ==
    \A i \in Ids :
        i \in shown ~>
            hasty \/ (i \in DOMAIN messages /\ last_read[messages[i].room] >= i)
=============================================================================
