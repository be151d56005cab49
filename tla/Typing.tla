------------------------------- MODULE Typing -------------------------------
(***************************************************************************)
(* Typing indicators (four43.chat-typing): the page of someone who types,  *)
(* and the page of another member who sees it.                             *)
(*                                                                         *)
(* The first tells the server that typing has started, at most twice a     *)
(* second, and that it has stopped when three seconds have passed since    *)
(* the last key or the input loses the focus.  The second has no timer of  *)
(* its own: an indicator goes when it is told, or when its page leaves the *)
(* room.  The server relays (what it notes in typing_state nothing reads). *)
(***************************************************************************)
EXTENDS Naturals, Sequences

CONSTANTS
    Rooms, NoRoom,
    MaxFrames,      \* bound: frames under way, each way
    MaxSelections,  \* bound: rooms selected, of the "typist" and of the "watcher"
    MaxDrops        \* bound: losses of a connection

VARIABLES
    \* the page of the one who types
    typistRoom,     \* currentRoom
    messageInput,   \* whether the input is there
    typingTimer,    \* whether it runs
    recent,         \* whether a start was sent in the last half second
    typistUp,
    \* the page of the one who watches
    currentRoom,
    attached,       \* whether its input, and so the indicator, is there
    typingUsers,    \* whether the other one is among them
    up, down,
    \* the server
    joined,         \* rooms that the second page is subscribed to
    \* what happened
    unstopped,      \* rooms left with the timer running, or whose stop a page was not sent
    unheard,        \* whether the second page lost its connection since it came
    visits, drops

typist == <<typistRoom, messageInput, typingTimer, recent, unstopped>>
watcher == <<currentRoom, attached, typingUsers, unheard>>
wires == <<typistUp, up, down>>
vars == <<typist, watcher, wires, joined, visits, drops>>

TypeOK ==
    /\ {typistRoom, currentRoom} \subseteq Rooms \cup {NoRoom}
    /\ {messageInput, typingTimer, recent, attached, typingUsers, unheard} \subseteq BOOLEAN
    /\ typistUp \in Seq([type : {"start", "stop"}, room : Rooms])
    /\ down \in Seq([type : {"start", "stop"}, room : Rooms])
    /\ up \in Seq([type : {"join", "leave"}, room : Rooms])
    /\ joined \subseteq Rooms /\ unstopped \subseteq Rooms
    /\ typingTimer => messageInput

Init ==
    /\ typistRoom = NoRoom /\ messageInput = FALSE /\ typingTimer = FALSE /\ recent = FALSE
    /\ currentRoom = NoRoom /\ attached = FALSE /\ typingUsers = FALSE
    /\ typistUp = <<>> /\ up = <<>> /\ down = <<>> /\ joined = {}
    /\ unstopped = {} /\ unheard = FALSE
    /\ visits = [typist |-> 0, watcher |-> 0] /\ drops = 0

Counted(who) ==
    /\ visits[who] < MaxSelections[who]
    /\ visits' = [visits EXCEPT ![who] = @ + 1]

Frame(type, r) == [type |-> type, room |-> r]

-----------------------------------------------------------------------------
(* The one who types.                                                      *)

handleInputEvent ==
    /\ messageInput /\ Len(typistUp) < MaxFrames
    /\ typistUp' = IF recent THEN typistUp ELSE Append(typistUp, Frame("start", typistRoom))
    /\ recent' = TRUE /\ typingTimer' = TRUE
    /\ UNCHANGED <<typistRoom, messageInput, unstopped, watcher, up, down, joined, visits,
                   drops>>

HalfSecond ==
    /\ recent /\ recent' = FALSE
    /\ UNCHANGED <<typistRoom, messageInput, typingTimer, unstopped, watcher, wires, joined,
                   visits, drops>>

(* The timer fires, or the input loses the focus.                          *)
stopTyping ==
    /\ messageInput /\ Len(typistUp) < MaxFrames
    /\ typistUp' = Append(typistUp, Frame("stop", typistRoom))
    /\ typingTimer' = FALSE /\ unstopped' = unstopped \ {typistRoom}
    /\ UNCHANGED <<typistRoom, messageInput, recent, watcher, up, down, joined, visits,
                   drops>>

(* Another room is selected: the chat plugin removes the input, and        *)
(* detachFromInput clears the timer.  Whether the focus that an element    *)
(* loses by its removal counts as a blur depends on the browser.           *)
TypistSelects(r) ==
    /\ r # typistRoom /\ Counted("typist")
    /\ \/ /\ messageInput /\ Len(typistUp) < MaxFrames
          /\ typistUp' = Append(typistUp, Frame("stop", typistRoom))
          /\ unstopped' = unstopped \ {typistRoom}
       \/ /\ unstopped' = IF typingTimer THEN unstopped \cup {typistRoom} ELSE unstopped
          /\ UNCHANGED typistUp
    /\ typistRoom' = r /\ messageInput' = FALSE /\ typingTimer' = FALSE
    /\ UNCHANGED <<recent, watcher, up, down, joined, drops>>

\* The selection goes on, and a new input is attached.
TypistEnters ==
    /\ typistRoom # NoRoom /\ ~messageInput /\ messageInput' = TRUE
    /\ UNCHANGED <<typistRoom, typingTimer, recent, unstopped, watcher, wires, joined,
                   visits, drops>>

(* The tab is closed, or its connection lost with what was on it.          *)
TypistGone ==
    /\ typistRoom # NoRoom /\ drops < MaxDrops /\ drops' = drops + 1
    /\ unstopped' = unstopped \cup {typistRoom} \cup {typistUp[n].room : n \in DOMAIN typistUp}
    /\ typistRoom' = NoRoom /\ messageInput' = FALSE /\ typingTimer' = FALSE
    /\ recent' = FALSE /\ typistUp' = <<>>
    /\ UNCHANGED <<watcher, up, down, joined, visits>>

-----------------------------------------------------------------------------
(* The server.                                                             *)

\* The second page shows the indicator of the room, or is about to.
Told(r) == \/ typingUsers /\ attached /\ currentRoom = r
           \/ \E n \in DOMAIN down : down[n] = Frame("start", r)

(* To the subscribers of the room, the sender's own pages left out.  The   *)
(* second page may have left the room and come back between the start,     *)
(* which is still on its way, and the stop, which it is not sent.          *)
handle_typing ==
    /\ typistUp # <<>> /\ typistUp' = Tail(typistUp)
    /\ LET frame == Head(typistUp) IN
         IF frame.room \in joined
         THEN Len(down) < MaxFrames /\ down' = Append(down, frame) /\ UNCHANGED unstopped
         ELSE /\ unstopped' = IF frame.type = "stop" /\ Told(frame.room)
                              THEN unstopped \cup {frame.room} ELSE unstopped
              /\ UNCHANGED down
    /\ UNCHANGED <<typistRoom, messageInput, typingTimer, recent, watcher, up, joined,
                   visits, drops>>

Subscribe ==
    /\ up # <<>> /\ up' = Tail(up)
    /\ joined' = IF Head(up).type = "join" THEN joined \cup {Head(up).room}
                 ELSE joined \ {Head(up).room}
    /\ UNCHANGED <<typist, watcher, typistUp, down, visits, drops>>

-----------------------------------------------------------------------------
(* The one who watches.                                                    *)

WatcherSelects(r) ==
    /\ r # currentRoom /\ Counted("watcher")
    /\ up' = IF currentRoom = NoRoom THEN up ELSE Append(up, Frame("leave", currentRoom))
    /\ currentRoom' = r /\ attached' = FALSE
    /\ typingUsers' = IF attached THEN FALSE ELSE typingUsers
    /\ unheard' = FALSE
    /\ UNCHANGED <<typist, typistUp, down, joined, drops>>

\* detachFromInput runs here too, before the new input is attached.
WatcherEnters ==
    /\ currentRoom # NoRoom /\ ~attached /\ attached' = TRUE
    /\ up' = Append(up, Frame("join", currentRoom))
    /\ typingUsers' = FALSE
    /\ UNCHANGED <<typist, currentRoom, unheard, typistUp, down, joined, visits, drops>>

\* Mutant of handleTypingMessage: the room of a message is not looked at.
handleTypingMessageAnywhere ==
    /\ down # <<>> /\ down' = Tail(down)
    /\ typingUsers' = (Head(down).type = "start")
    /\ UNCHANGED <<typist, currentRoom, attached, unheard, typistUp, up, joined, visits,
                   drops>>

handleTypingMessage ==
    /\ down # <<>> /\ down' = Tail(down)
    /\ typingUsers' = IF Head(down).room = currentRoom THEN Head(down).type = "start"
                      ELSE typingUsers
    /\ UNCHANGED <<typist, currentRoom, attached, unheard, typistUp, up, joined, visits,
                   drops>>

\* A reconnection joins the room again and keeps the indicator.
WatcherReconnects ==
    /\ drops < MaxDrops /\ drops' = drops + 1
    /\ unheard' = TRUE /\ down' = <<>> /\ joined' = {}
    /\ up' = IF currentRoom = NoRoom THEN <<>> ELSE <<Frame("join", currentRoom)>>
    /\ UNCHANGED <<typist, currentRoom, attached, typingUsers, typistUp, visits>>

Next ==
    \/ handleInputEvent \/ HalfSecond \/ stopTyping \/ TypistEnters \/ TypistGone
    \/ handle_typing \/ Subscribe
    \/ \E r \in Rooms : TypistSelects(r) \/ WatcherSelects(r)
    \/ WatcherEnters \/ handleTypingMessage \/ WatcherReconnects

Spec == Init /\ [][Next]_vars

-----------------------------------------------------------------------------
(* Whoever is shown as typing types in that room, or has typed and the     *)
(* word of the end is on its way: an indicator stays only if the other one *)
(* left the room, or the connection, before the three seconds were over,   *)
(* if the watching page was disconnected, or if it had left the room when  *)
(* the word came, and was back before the one of the start arrived         *)
(* (plugin.js 94-176).                                                     *)
ShownIsTyping ==
    typingUsers /\ attached /\ ~unheard =>
        \/ typingTimer /\ typistRoom = currentRoom
        \/ currentRoom \in unstopped
        \/ \E n \in DOMAIN down : down[n] = Frame("stop", currentRoom)
        \/ \E n \in DOMAIN typistUp : typistUp[n] = Frame("stop", currentRoom)
=============================================================================
