------------------------------ MODULE Reactions ------------------------------
(***************************************************************************)
(* Reactions to messages (four43.message-reactions): the rows of the       *)
(* server, and one page that shows them under the messages of a chat room. *)
(*                                                                         *)
(* The page asks for the reactions of the messages it has put in the       *)
(* document in batches: the least and the greatest of their ids, and the   *)
(* room that is current when the timer fires.  An answer sets the users of *)
(* each emoji it names and removes nothing.  Broadcasts apply to the       *)
(* message of that id, whatever the room.  The room of a row is the one    *)
(* that was current on the page of the click, and the key of a row does    *)
(* not hold it.                                                            *)
(***************************************************************************)
EXTENDS Integers, FiniteSets, Sequences

CONSTANTS
    Rooms, NoRoom,
    Messages,       \* ids of messages, one sequence for all rooms
    RoomOf,         \* [message]: its room
    Emojis,
    Reader,         \* the user of the page
    Writer,         \* another member
    MaxChanges,     \* bound: reactions added or removed
    MaxSelections,  \* bound: rooms selected
    MaxFrames,      \* bound: frames of the page under way
    MaxBatches,     \* bound: batches asked for
    MaxExtras       \* bound: HTTP requests, failed fetches, losses of the connection

VARIABLES
    \* the server
    rows,           \* message_reactions
    joined,         \* rooms the page's socket is subscribed to
    \* between the two
    up,             \* frames of the page, oldest first
    down,           \* broadcasts on their way to it, oldest first
    \* the page
    currentRoom,
    online,         \* whether its socket is open
    loading,        \* rooms whose selection waits for their keys
    ready,          \* rooms whose selection has cleared the document since
    elements,       \* messages in the document
    pills,          \* the users shown under them
    pending,        \* ids queued for the next batch
    batches,        \* batches asked for, and where each one is
    \* what happened
    settled,        \* messages whose pills were fetched, and have missed nothing since
    selected, changes, extras

page == <<currentRoom, loading, ready, elements, pills, pending>>
vars == <<rows, joined, up, down, page, online, batches, settled, selected, changes,
          extras>>

Users == {Reader, Writer}
Reactions == [msg : Messages, emoji : Emojis, user : Users]

TypeOK ==
    /\ rows \subseteq [msg : Messages, emoji : Emojis, user : Users, room : Rooms]
    /\ joined \subseteq Rooms
    /\ \A n \in DOMAIN up : up[n].room \in Rooms
    /\ \A n \in DOMAIN down : down[n].of \in Reactions
    /\ currentRoom \in Rooms \cup {NoRoom} /\ online \in BOOLEAN
    /\ loading \subseteq Rooms /\ ready \subseteq Rooms
    /\ elements \subseteq Messages /\ pending \subseteq Messages
    /\ pills \subseteq Reactions /\ \A p \in pills : p.msg \in elements
    /\ batches \in Seq([room : Rooms, ids : SUBSET Messages, rows : SUBSET Reactions,
                        at : {"asked", "answered", "done"}, calm : SUBSET Messages])
    /\ settled \subseteq elements

Init ==
    /\ rows = {} /\ joined = {} /\ up = <<>> /\ down = <<>>
    /\ currentRoom = NoRoom /\ online = TRUE /\ loading = {} /\ ready = {}
    /\ elements = {} /\ pills = {} /\ pending = {} /\ batches = <<>>
    /\ settled = {} /\ selected = 0 /\ changes = 0 /\ extras = 0

Reaction(row) == [msg |-> row.msg, emoji |-> row.emoji, user |-> row.user]
Stored == {Reaction(row) : row \in rows}

-----------------------------------------------------------------------------
(* The server.                                                             *)

Uncalm(ms) == [n \in DOMAIN batches |-> [batches[n] EXCEPT !.calm = @ \ ms]]

(* broadcast_to_room, to the room that the request names.  A change over   *)
(* HTTP is broadcast to nobody (told = FALSE).                             *)
Announce(kind, x, room, told) ==
    IF told /\ room \in joined
    THEN down' = Append(down, [kind |-> kind, of |-> x]) /\ UNCHANGED <<settled, batches>>
    ELSE settled' = settled \ {x.msg} /\ batches' = Uncalm({x.msg}) /\ UNCHANGED down

(* A row with the message, the user and the emoji of this one refuses the  *)
(* insertion, whatever its room: nothing is announced.                     *)
add_reaction(x, room, told) ==
    IF x \in Stored THEN UNCHANGED <<rows, down, settled, batches, changes>>
    ELSE /\ changes < MaxChanges /\ changes' = changes + 1
         /\ rows' = rows \cup {[msg |-> x.msg, emoji |-> x.emoji, user |-> x.user,
                                room |-> room]}
         /\ Announce("added", x, room, told)

\* Announced whether or not there was such a row.
remove_reaction(x, room, told) ==
    /\ changes < MaxChanges /\ changes' = changes + 1
    /\ rows' = {row \in rows : Reaction(row) # x}
    /\ Announce("removed", x, room, told)

handle_reaction(x, type, room, told) ==
    \/ type = "add" /\ add_reaction(x, room, told)
    \/ type = "remove" /\ remove_reaction(x, room, told)

ServeFrame ==
    /\ up # <<>> /\ up' = Tail(up)
    /\ LET m == Head(up) IN
         \/ /\ m.type \in {"join", "leave"}
            /\ joined' = IF m.type = "join" THEN joined \cup {m.room} ELSE joined \ {m.room}
            /\ UNCHANGED <<rows, down, settled, batches, changes>>
         \/ handle_reaction(m.of, m.type, m.room, TRUE) /\ UNCHANGED joined
    /\ UNCHANGED <<page, online, selected, extras>>

(* The other member's page shows the room of the message, or has just left *)
(* it for another one.                                                     *)
WriterActs ==
    /\ \E x \in Reactions, type \in {"add", "remove"}, room \in Rooms :
         /\ x.user = Writer /\ handle_reaction(x, type, room, TRUE)
         /\ room # RoomOf[x.msg] => type = "add" /\ extras < MaxExtras
         /\ extras' = IF room = RoomOf[x.msg] THEN extras ELSE extras + 1
    /\ UNCHANGED <<joined, up, page, online, selected>>

HttpRequest ==
    /\ extras < MaxExtras /\ extras' = extras + 1
    /\ \E x \in Reactions, type \in {"add", "remove"} :
         x.user = Writer /\ handle_reaction(x, type, RoomOf[x.msg], FALSE)
    /\ UNCHANGED <<joined, up, page, online, selected>>

-----------------------------------------------------------------------------
(* The page.                                                               *)

Send(frame) == up' = IF online THEN Append(up, frame) ELSE up
Subscription(type, r) == [type |-> type, room |-> r]

SelectRoom(r) ==
    /\ r # currentRoom /\ selected < MaxSelections /\ selected' = selected + 1
    /\ IF currentRoom = NoRoom THEN UNCHANGED up ELSE Send(Subscription("leave", currentRoom))
    /\ currentRoom' = r /\ loading' = loading \cup {r} /\ ready' = ready \ {r}
    /\ UNCHANGED <<rows, joined, down, elements, pills, pending, online, batches, settled,
                   changes, extras>>

(* The rest of selectRoom: the chat plugin clears the document, of the     *)
(* room that is current too if this one no longer is.                      *)
KeysLoaded(r) ==
    /\ r \in loading /\ loading' = loading \ {r} /\ ready' = ready \cup {r}
    /\ Send(Subscription("join", r))
    /\ elements' = {} /\ pills' = {} /\ settled' = {}
    /\ UNCHANGED <<rows, joined, down, currentRoom, pending, online, batches, selected,
                   changes, extras>>

(* A message of the room is put in the document, from the history or when  *)
(* it is sent.                                                             *)
attachReactionButton(m) ==
    /\ RoomOf[m] = currentRoom /\ currentRoom \in ready /\ m \notin elements
    /\ elements' = elements \cup {m} /\ pending' = pending \cup {m}
    /\ UNCHANGED <<rows, joined, up, down, currentRoom, loading, ready, pills, online,
                   batches, settled, selected, changes, extras>>

\* The ids from pendingMinId to pendingMaxId.
Span(ms) == {m \in Messages : \E a, b \in ms : a <= m /\ m <= b}

flushReactionQueue ==
    /\ pending # {} /\ pending' = {} /\ Len(batches) < MaxBatches
    /\ batches' = Append(batches, [room |-> currentRoom, ids |-> Span(pending), rows |-> {},
                                   at |-> "asked", calm |-> {}])
    /\ UNCHANGED <<rows, joined, up, down, currentRoom, loading, ready, elements, pills,
                   online, settled, selected, changes, extras>>

\* Mutant of InRange: the greatest id is left out.
InRangeBelow(b) ==
    {row \in rows : row.room = b.room /\ row.msg \in b.ids /\ \E m \in b.ids : row.msg < m}

\* get_reactions_for_room_range
InRange(b) == {row \in rows : row.room = b.room /\ row.msg \in b.ids}

(* An answer is calm for a message as long as the broadcasts about it that *)
(* reach the page are those it does not yet hold, and all of them.  A row  *)
(* that was stored under another room is not in it.                        *)
ServeBatch(n) ==
    /\ batches[n].at = "asked"
    /\ LET b == batches[n] IN
         batches' = [batches EXCEPT
             ![n].at = "answered",
             ![n].rows = {Reaction(row) : row \in InRange(b)},
             ![n].calm = {m \in b.ids : /\ RoomOf[m] = b.room /\ b.room \in joined
                                        /\ \A k \in DOMAIN down : down[k].of.msg # m
                                        /\ \A row \in rows : row.msg = m => row.room = b.room}]
    /\ UNCHANGED <<rows, joined, up, down, page, online, settled, selected, changes, extras>>

\* updateReactionDisplay for each emoji of each message in the answer
Merged(b) ==
    {p \in pills : ~\E x \in b.rows : x.msg = p.msg /\ x.emoji = p.emoji}
        \cup {x \in b.rows : x.msg \in elements}

OfMessage(m, xs) == {x \in xs : x.msg = m}

BatchArrives(n) ==
    /\ batches[n].at = "answered"
    /\ LET b == batches[n]
           exact == {m \in b.calm \cap elements : OfMessage(m, pills) \subseteq b.rows}
       IN  /\ pills' = Merged(b)
           /\ settled' = (settled \ b.ids) \cup exact \cup (settled \cap b.calm)
    /\ batches' = [batches EXCEPT ![n].at = "done"]
    /\ UNCHANGED <<rows, joined, up, down, currentRoom, loading, ready, elements, pending,
                   online, selected, changes, extras>>

BatchFails(n) ==
    /\ batches[n].at = "asked" /\ extras < MaxExtras /\ extras' = extras + 1
    /\ batches' = [batches EXCEPT ![n].at = "done"]
    /\ UNCHANGED <<rows, joined, up, down, page, online, settled, selected, changes>>

\* addReactionToUI, removeReactionFromUI
Applied(ps, e) ==
    IF e.of.msg \notin elements THEN ps
    ELSE IF e.kind = "added" THEN ps \cup {e.of} ELSE ps \ {e.of}

handleReactionMessage ==
    /\ down # <<>> /\ down' = Tail(down)
    /\ pills' = Applied(pills, Head(down))
    /\ batches' = Uncalm({Head(down).of.msg})
    /\ UNCHANGED <<rows, joined, up, currentRoom, loading, ready, elements, pending, online,
                   settled, selected, changes, extras>>

(* A click in the hover bar adds; one on a pill adds or removes, by what   *)
(* the pill shows.  The frame names the room that is current now.          *)
Click(x) ==
    /\ x.user = Reader /\ x.msg \in elements /\ online /\ Len(up) < MaxFrames
    /\ \E type \in {"add"} \cup (IF x \in pills THEN {"remove"} ELSE {}) :
         up' = Append(up, [type |-> type, room |-> currentRoom, of |-> x])
    /\ UNCHANGED <<rows, joined, down, page, online, batches, settled, selected, changes,
                   extras>>

Drop ==
    /\ online /\ extras < MaxExtras /\ extras' = extras + 1
    /\ online' = FALSE /\ joined' = {} /\ up' = <<>> /\ down' = <<>>
    /\ LET lost == {down[k].of.msg : k \in DOMAIN down}
       IN  settled' = settled \ lost /\ batches' = Uncalm(lost)
    /\ UNCHANGED <<rows, page, selected, changes>>

Reconnect ==
    /\ ~online /\ online' = TRUE
    /\ up' = IF currentRoom = NoRoom THEN <<>> ELSE <<Subscription("join", currentRoom)>>
    /\ UNCHANGED <<rows, joined, down, page, batches, settled, selected, changes, extras>>

Next ==
    \/ ServeFrame \/ WriterActs \/ HttpRequest
    \/ \E r \in Rooms : SelectRoom(r) \/ KeysLoaded(r)
    \/ \E m \in Messages : attachReactionButton(m)
    \/ flushReactionQueue
    \/ \E n \in DOMAIN batches : ServeBatch(n) \/ BatchArrives(n) \/ BatchFails(n)
    \/ handleReactionMessage \/ Drop \/ Reconnect
    \/ \E x \in Reactions : Click(x)

Spec == Init /\ [][Next]_vars

-----------------------------------------------------------------------------
\* Whether x is among the pills ps once the broadcasts under way have come: the last one
\* about it decides.
Becomes(ps, x) ==
    \/ x \in ps /\ \A k \in DOMAIN down : down[k].of # x
    \/ \E k \in DOMAIN down :
          /\ down[k] = [kind |-> "added", of |-> x]
          /\ \A l \in DOMAIN down : l > k => down[l].of # x

(* The pills of a message that were fetched, and have missed nothing since *)
(* become the stored reactions by the broadcasts under way: no reaction is *)
(* missing, and none is shown that was taken back.  The ways to miss       *)
(* something are those of a page that is not subscribed, a broadcast that  *)
(* overtakes the answer of the fetch, or is overtaken by it, a pill too    *)
(* many (which no fetch removes), and a reaction under another room        *)
(* (plugin.js 145-317).                                                    *)
PillsFollow ==
    \A x \in Reactions : x.msg \in settled => (Becomes(pills, x) <=> x \in Stored)
=============================================================================
