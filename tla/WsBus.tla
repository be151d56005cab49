-------------------------------- MODULE WsBus --------------------------------
(***************************************************************************)
(* WsBus: the WebSocket bus (backend/skrib/ws).  Its maps of sockets, the  *)
(* coroutine unified_ws that serves one socket from accept to its end, the *)
(* broadcasts of presence and the heartbeat.                               *)
(*                                                                         *)
(* Every send is an await: between two sends of a broadcast other sockets  *)
(* connect, subscribe and end.  A broadcast is therefore one step per      *)
(* socket, over the copies of the maps' keys the code takes.  Any other    *)
(* broadcast (of the rooms or of a plugin) matters here only in that it    *)
(* disconnects a socket that cannot be sent to (Sweep).                    *)
(*                                                                         *)
(* A socket is used once: a page that reconnects opens another.            *)
(***************************************************************************)
EXTENDS Integers, FiniteSets

CONSTANTS
    Users, Rooms, Sockets,
    Owner,          \* [Sockets -> Users]: whom the token of the socket names
    Members,        \* [room]: external, the room service's; it changes in Rooms
    Watcher, Watched,   \* a socket, and a user whose presence it is told of
    Sleepers,       \* the sockets whose client may stop answering pings
    NoSocket

ASSUME WsBusAssumption ==
    /\ Owner \in [Sockets -> Users]
    /\ Members \in [Rooms -> SUBSET Users]
    /\ Watcher \in Sockets /\ Watched \in Users
    /\ Sleepers \subseteq Sockets
    /\ NoSocket \notin Sockets

VARIABLES
    user_connections,   \* [user]: his sockets; no key is kept for an empty set
    room_subscriptions, \* [room]: the sockets that joined; likewise
    ws_to_user,         \* the sockets the reverse map has
    ws_to_rooms,        \* [socket]: the rooms it joined
    last_pong,          \* [socket]: "none", "fresh" or older than HEARTBEAT_TIMEOUT
    task,               \* [socket]: where its unified_ws is
    sending,            \* [socket]: what is left of its broadcast of presence
    link,               \* [socket]: the connection itself
    stale,              \* the sockets the heartbeat has found stale
    closing,            \* the one it is closing
    announced           \* whether Watcher was last told that Watched is online

maps == <<user_connections, room_subscriptions, ws_to_user, ws_to_rooms>>
heart == <<stale, closing>>
vars == <<maps, last_pong, task, sending, link, heart, announced>>

Tasks == {"new", "online", "loop", "failed", "offline", "done"}
Serving == {"online", "loop"}
Broadcast == [users : SUBSET Users, sockets : SUBSET Sockets, broken : SUBSET Sockets]
Nothing == [users |-> {}, sockets |-> {}, broken |-> {}]

TypeOK ==
    /\ user_connections \in [Users -> SUBSET Sockets]
    /\ room_subscriptions \in [Rooms -> SUBSET Sockets]
    /\ ws_to_user \subseteq Sockets
    /\ ws_to_rooms \in [Sockets -> SUBSET Rooms]
    /\ last_pong \in [Sockets -> {"none", "fresh", "stale"}]
    /\ task \in [Sockets -> Tasks]
    /\ sending \in [Sockets -> Broadcast]
    /\ link \in [Sockets -> {"none", "open", "shut"}]
    /\ stale \subseteq Sockets
    /\ closing \in Sockets \cup {NoSocket}
    /\ announced \in BOOLEAN

Init ==
    /\ user_connections = [u \in Users |-> {}]
    /\ room_subscriptions = [r \in Rooms |-> {}]
    /\ ws_to_user = {}
    /\ ws_to_rooms = [s \in Sockets |-> {}]
    /\ last_pong = [s \in Sockets |-> "none"]
    /\ task = [s \in Sockets |-> "new"]
    /\ sending = [s \in Sockets |-> Nothing]
    /\ link = [s \in Sockets |-> "none"]
    /\ stale = {}
    /\ closing = NoSocket
    /\ announced = FALSE

-----------------------------------------------------------------------------
(* The maps.                                                               *)

\* disconnect, of several sockets in a row.  One that is not in the reverse map
\* any more is not looked for in the others.
Disconnect(D) ==
    LET known == D \cap ws_to_user IN
    /\ last_pong' = [s \in Sockets |-> IF s \in D THEN "none" ELSE last_pong[s]]
    /\ ws_to_user' = ws_to_user \ known
    /\ user_connections' = [u \in Users |-> user_connections[u] \ known]
    /\ room_subscriptions' =
          [r \in Rooms |-> room_subscriptions[r] \ {s \in known : r \in ws_to_rooms[s]}]
    /\ ws_to_rooms' = [s \in Sockets |-> IF s \in known THEN {} ELSE ws_to_rooms[s]]

Connected == {u \in Users : user_connections[u] # {}}

\* notify_all_users begins: the users are those that are connected now.
Announcement == [users |-> Connected, sockets |-> {}, broken |-> {}]

\* Where the coroutine is after it has sent s an answer: a send raises if the
\* connection is shut, and whatever happens while it is awaited happens in the loop.
Answered(s) == IF link[s] = "open" THEN "loop" ELSE "failed"

-----------------------------------------------------------------------------
(* unified_ws.                                                             *)

\* accept, connect, and the check whether this is the user's first socket; if it is
\* not, system:connected is sent.
Accept(s) ==
    LET u == Owner[s] IN
    /\ task[s] = "new"
    /\ link' = [link EXCEPT ![s] = "open"]
    /\ ws_to_user' = ws_to_user \cup {s}
    /\ ws_to_rooms' = [ws_to_rooms EXCEPT ![s] = {}]
    /\ last_pong' = [last_pong EXCEPT ![s] = "fresh"]
    /\ user_connections' = [user_connections EXCEPT ![u] = @ \cup {s}]
    /\ IF Cardinality(user_connections'[u]) = 1
       THEN /\ task' = [task EXCEPT ![s] = "online"]
            /\ sending' = [sending EXCEPT ![s] = Announcement']
       ELSE /\ task' = [task EXCEPT ![s] = "loop"]
            /\ UNCHANGED sending
    /\ UNCHANGED <<room_subscriptions, heart, announced>>

\* notify_user for the next user: the sockets that the last one's messages could
\* not be sent to are disconnected, the next one's are copied.
NotifyUser(s) ==
    /\ sending[s].sockets = {}
    /\ Disconnect(sending[s].broken)
    /\ \E u \in sending[s].users :
          sending' = [sending EXCEPT ![s] = [users |-> sending[s].users \ {u},
                                             sockets |-> user_connections'[u],
                                             broken |-> {}]]
    /\ UNCHANGED <<task, link, heart, announced>>

\* One message: that the owner of s is online, or that he is not.
Notify(s) ==
    \E o \in sending[s].sockets :
       /\ sending' = [sending EXCEPT ![s] =
             [users |-> sending[s].users,
              sockets |-> sending[s].sockets \ {o},
              broken |-> sending[s].broken \cup (IF link[o] = "open" THEN {} ELSE {o})]]
       /\ announced' = IF o = Watcher /\ Owner[s] = Watched /\ link[o] = "open"
                       THEN task[s] = "online" ELSE announced
       /\ UNCHANGED <<maps, last_pong, task, link, heart>>

\* The broadcast is over; the one of connect is followed by system:connected.
Notified(s) ==
    /\ task[s] \in {"online", "offline"}
    /\ sending[s].users = {} /\ sending[s].sockets = {}
    /\ Disconnect(sending[s].broken)
    /\ sending' = [sending EXCEPT ![s] = Nothing]
    /\ task' = [task EXCEPT ![s] = IF @ = "online" THEN Answered(s) ELSE "done"]
    /\ UNCHANGED <<link, heart, announced>>

\* room:join, of a member of the room; another is answered with an error (Ask).
\* A frame that was received before the end is served after it.
Join(s, r) ==
    /\ task[s] = "loop"
    /\ Owner[s] \in Members[r]
    /\ task' = [task EXCEPT ![s] = Answered(s)]
    /\ room_subscriptions' = [room_subscriptions EXCEPT ![r] = @ \cup {s}]
    /\ ws_to_rooms' = [ws_to_rooms EXCEPT ![s] = @ \cup {r}]
    /\ UNCHANGED <<user_connections, ws_to_user, last_pong, sending, link, heart,
                   announced>>

\* room:leave.
Leave(s, r) ==
    /\ task[s] = "loop"
    /\ task' = [task EXCEPT ![s] = Answered(s)]
    /\ room_subscriptions' = [room_subscriptions EXCEPT ![r] = @ \ {s}]
    /\ ws_to_rooms' = [ws_to_rooms EXCEPT ![s] = @ \ {r}]
    /\ UNCHANGED <<user_connections, ws_to_user, last_pong, sending, link, heart,
                   announced>>

\* A frame that is only answered: system:ping, or any that is refused.
Ask(s) ==
    /\ task[s] = "loop"
    /\ task' = [task EXCEPT ![s] = Answered(s)]
    /\ UNCHANGED <<maps, last_pong, sending, link, heart, announced>>

\* system:pong, recorded whether or not the socket is still in the other maps.  What
\* is no sleeper answers every ping: its last pong is fresh while it is connected.
Pong(s) ==
    /\ s \in Sleepers
    /\ task[s] = "loop"
    /\ last_pong' = [last_pong EXCEPT ![s] = "fresh"]
    /\ UNCHANGED <<maps, task, sending, link, heart, announced>>

\* Mutant of End: whether it is the last socket is asked before it is disconnected.
EndAskedBefore(s) ==
    /\ task[s] \in {"loop", "failed"}
    /\ link[s] = "shut"
    /\ Disconnect({s})
    /\ IF user_connections[Owner[s]] = {s}
       THEN /\ task' = [task EXCEPT ![s] = "offline"]
            /\ sending' = [sending EXCEPT ![s] = Announcement']
       ELSE /\ task' = [task EXCEPT ![s] = "done"]
            /\ UNCHANGED sending
    /\ UNCHANGED <<link, heart, announced>>

\* receive_text or a send raises.
End(s) ==
    /\ task[s] \in {"loop", "failed"}
    /\ link[s] = "shut"
    /\ Disconnect({s})
    /\ IF user_connections'[Owner[s]] = {}
       THEN /\ task' = [task EXCEPT ![s] = "offline"]
            /\ sending' = [sending EXCEPT ![s] = Announcement']
       ELSE /\ task' = [task EXCEPT ![s] = "done"]
            /\ UNCHANGED sending
    /\ UNCHANGED <<link, heart, announced>>

-----------------------------------------------------------------------------
(* The heartbeat and the other broadcasts.                                 *)

HeartbeatBegin ==
    /\ stale = {} /\ closing = NoSocket
    /\ stale' = {s \in Sockets : last_pong[s] = "stale"}
    /\ UNCHANGED <<maps, last_pong, task, sending, link, closing, announced>>

HeartbeatCut(s) ==
    /\ closing = NoSocket
    /\ s \in stale
    /\ stale' = stale \ {s}
    /\ closing' = s
    /\ Disconnect({s})
    /\ UNCHANGED <<task, sending, link, announced>>

\* Mutant of HeartbeatClose: the connection is left open.
HeartbeatForgets ==
    /\ closing # NoSocket
    /\ closing' = NoSocket
    /\ UNCHANGED <<maps, last_pong, task, sending, link, stale, announced>>

HeartbeatClose ==
    /\ closing # NoSocket
    /\ link' = [link EXCEPT ![closing] = "shut"]
    /\ closing' = NoSocket
    /\ UNCHANGED <<maps, last_pong, task, sending, stale, announced>>

\* The heartbeat's pings, or a broadcast of the rooms or of a plugin.
Sweep(s) ==
    /\ link[s] = "shut"
    /\ s \in ws_to_user \/ \E r \in Rooms : s \in room_subscriptions[r]
    /\ Disconnect({s})
    /\ UNCHANGED <<task, sending, link, heart, announced>>

-----------------------------------------------------------------------------
(* The environment.                                                        *)

Hangup(s) ==
    /\ link[s] = "open"
    /\ link' = [link EXCEPT ![s] = "shut"]
    /\ UNCHANGED <<maps, last_pong, task, sending, heart, announced>>

\* HEARTBEAT_TIMEOUT passes without a pong.
Silence(s) ==
    /\ s \in Sleepers
    /\ last_pong[s] = "fresh"
    /\ last_pong' = [last_pong EXCEPT ![s] = "stale"]
    /\ UNCHANGED <<maps, task, sending, link, heart, announced>>

-----------------------------------------------------------------------------
\* What the event loop runs for s without waiting for a frame.
Serve(s) == NotifyUser(s) \/ Notify(s) \/ Notified(s) \/ End(s)

Frame(s) == Pong(s) \/ Ask(s) \/ \E r \in Rooms : Join(s, r) \/ Leave(s, r)

Heartbeat == HeartbeatBegin \/ HeartbeatClose \/ \E s \in Sockets : HeartbeatCut(s)

Next ==
    \/ \E s \in Sockets :
          Accept(s) \/ Serve(s) \/ Frame(s) \/ Sweep(s) \/ Hangup(s) \/ Silence(s)
    \/ Heartbeat

Spec == Init /\ [][Next]_vars

\* asyncio runs whatever is ready, a send ends or raises, and the end of a
\* connection is noticed.  Nothing is assumed of clients or of time.
Fairness ==
    /\ \A s \in Sockets : WF_vars(Serve(s))
    /\ WF_vars(Heartbeat)

FairSpec == Spec /\ Fairness
-----------------------------------------------------------------------------
(* Properties.                                                             *)

\* The four maps say the same, whatever joins, ends and is cut in whatever order.
MapsAgree ==
    \A s \in Sockets :
       /\ \A u \in Users : s \in user_connections[u] <=> s \in ws_to_user /\ u = Owner[s]
       /\ \A r \in Rooms : s \in room_subscriptions[r] <=> r \in ws_to_rooms[s]

\* A page whose socket works and is not about to be closed is one that the bus
\* knows: disconnect never leaves a page behind that waits for messages in vain.
LiveSocketsAreKnown ==
    \A s \in Sockets :
       task[s] \in Serving /\ link[s] = "open" /\ closing # s
       => s \in user_connections[Owner[s]]

\* Whoever was told that a user is online is told that he is not, once he has no
\* socket left: whichever of his sockets ends last, and whoever disconnects it.
OfflineIsAnnounced ==
    (announced /\ Watched \notin Connected)
       ~> (~announced \/ Watched \in Connected \/ link[Watcher] # "open")
=============================================================================
