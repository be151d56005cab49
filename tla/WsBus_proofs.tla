---------------------------- MODULE WsBus_proofs ----------------------------
(***************************************************************************)
(* Proofs about WsBus: its types, that the maps agree, and that the bus    *)
(* knows every socket that works.  What is eventually announced stays with *)
(* TLC.                                                                    *)
(***************************************************************************)
EXTENDS WsBus, TLAPS

\* Nothing is kept of a socket that was not accepted yet.
Accepted == {s \in Sockets : link[s] # "none"}

NothingOfNew ==
    /\ \A s \in Sockets : task[s] = "new" <=> link[s] = "none"
    /\ ws_to_user \subseteq Accepted
    /\ stale \subseteq Accepted
    /\ closing # NoSocket => closing \in Accepted
    /\ \A s \in Sockets : ws_to_rooms[s] # {} \/ last_pong[s] # "none" => s \in Accepted
    /\ \A t \in Sockets : sending[t].sockets \subseteq Accepted

\* A broadcast gives up only sockets that are shut.
BrokenAreShut == \A t \in Sockets : \A s \in sending[t].broken : link[s] = "shut"

Inv == TypeOK /\ MapsAgree /\ NothingOfNew /\ BrokenAreShut /\ LiveSocketsAreKnown

-----------------------------------------------------------------------------
(* disconnect.                                                             *)

LEMMA DisconnectTypes ==
  ASSUME TypeOK, NEW D \in SUBSET Sockets, Disconnect(D)
  PROVE  /\ user_connections' \in [Users -> SUBSET Sockets]
         /\ room_subscriptions' \in [Rooms -> SUBSET Sockets]
         /\ ws_to_user' \subseteq Sockets
         /\ ws_to_rooms' \in [Sockets -> SUBSET Rooms]
         /\ last_pong' \in [Sockets -> {"none", "fresh", "stale"}]
BY DEF TypeOK, Disconnect

LEMMA DisconnectAgrees ==
  ASSUME TypeOK, MapsAgree, NEW D \in SUBSET Sockets, Disconnect(D)
  PROVE  MapsAgree'
<1> DEFINE known == D \cap ws_to_user
<1>1. /\ ws_to_user' = ws_to_user \ known
      /\ \A u \in Users : user_connections'[u] = user_connections[u] \ known
      /\ \A r \in Rooms : room_subscriptions'[r] =
                             room_subscriptions[r] \ {s \in known : r \in ws_to_rooms[s]}
      /\ \A s \in Sockets : ws_to_rooms'[s] = IF s \in known THEN {} ELSE ws_to_rooms[s]
  BY DEF Disconnect
<1> HIDE DEF known
<1>2. ASSUME NEW s \in Sockets, NEW u \in Users
      PROVE  s \in user_connections'[u] <=> s \in ws_to_user' /\ u = Owner[s]
  BY <1>1, <1>2 DEF MapsAgree
<1>3. ASSUME NEW s \in Sockets, NEW r \in Rooms
      PROVE  s \in room_subscriptions'[r] <=> r \in ws_to_rooms'[s]
  BY <1>1, <1>3 DEF MapsAgree
<1> QED BY <1>2, <1>3 DEF MapsAgree

\* Only the sockets of D are disconnected, and nothing is added.
LEMMA DisconnectOnly ==
  ASSUME TypeOK, NEW D \in SUBSET Sockets, Disconnect(D)
  PROVE  /\ ws_to_user' \subseteq ws_to_user
         /\ \A s \in Sockets : ws_to_rooms'[s] \subseteq ws_to_rooms[s]
         /\ \A s \in Sockets : last_pong'[s] # "none" => last_pong[s] # "none"
         /\ \A u \in Users : \A s \in user_connections[u] :
               s \notin D => s \in user_connections'[u]
         /\ \A u \in Users : user_connections'[u] \subseteq user_connections[u]
BY DEF TypeOK, Disconnect

\* Whoever only disconnects sockets that are shut keeps the live ones known.
LEMMA LiveKept ==
  ASSUME TypeOK, LiveSocketsAreKnown, NEW D \in SUBSET Sockets, Disconnect(D),
         \A s \in D : link[s] = "shut" \/ task'[s] \notin Serving \/ closing' = s,
         UNCHANGED link,
         \A s \in Sockets : task'[s] \in Serving => task[s] \in Serving,
         closing = NoSocket \/ closing' = closing
  PROVE  LiveSocketsAreKnown'
<1> SUFFICES ASSUME NEW s \in Sockets, task'[s] \in Serving, link[s] = "open", closing' # s
             PROVE  s \in user_connections'[Owner[s]]
  BY DEF LiveSocketsAreKnown, Serving
<1>1. Owner[s] \in Users /\ closing # s
  BY WsBusAssumption
<1>2. s \in user_connections[Owner[s]]
  BY <1>1 DEF LiveSocketsAreKnown
<1>3. s \notin D
  OBVIOUS
<1> QED BY <1>1, <1>2, <1>3, DisconnectOnly

-----------------------------------------------------------------------------
(* One lemma per group of actions.                                         *)

LEMMA InitInv == Init => Inv
<1> SUFFICES ASSUME Init PROVE Inv
  OBVIOUS
<1> USE DEF Init
<1>1. TypeOK
  BY DEF TypeOK, Tasks, Broadcast, Nothing
<1>2. MapsAgree
  BY DEF MapsAgree
<1>3. NothingOfNew /\ BrokenAreShut
  BY DEF NothingOfNew, BrokenAreShut, Nothing
<1>4. LiveSocketsAreKnown
  BY DEF LiveSocketsAreKnown, Serving
<1> QED BY <1>1, <1>2, <1>3, <1>4 DEF Inv

LEMMA AnnouncementType ==
  ASSUME TypeOK PROVE Announcement \in Broadcast
BY DEF Announcement, Broadcast, Connected

LEMMA AcceptInv ==
  ASSUME Inv, NEW s \in Sockets, Accept(s) PROVE Inv'
<1> DEFINE u == Owner[s]
<1> USE DEF Inv
<1>1. u \in Users /\ link[s] = "none"
  BY WsBusAssumption DEF Accept, NothingOfNew
<1>2. /\ user_connections' = [user_connections EXCEPT ![u] = @ \cup {s}]
      /\ ws_to_user' = ws_to_user \cup {s}
      /\ ws_to_rooms' = [ws_to_rooms EXCEPT ![s] = {}]
      /\ last_pong' = [last_pong EXCEPT ![s] = "fresh"]
      /\ link' = [link EXCEPT ![s] = "open"]
      /\ UNCHANGED <<room_subscriptions, stale, closing, announced>>
  BY DEF Accept, heart
<1>3. Announcement' \in Broadcast
  <2>1. user_connections' \in [Users -> SUBSET Sockets]
    BY <1>1, <1>2 DEF TypeOK
  <2> QED BY <2>1 DEF Announcement, Broadcast, Connected
<1>4. /\ task' = [task EXCEPT ![s] = task'[s]] /\ task'[s] \in {"online", "loop"}
      /\ \/ UNCHANGED sending
         \/ sending' = [sending EXCEPT ![s] = Announcement']
  BY DEF Accept, TypeOK
<1>5. TypeOK'
  BY <1>1, <1>2, <1>3, <1>4 DEF TypeOK, Tasks
<1>6. MapsAgree'
  <2>1. ws_to_rooms' = ws_to_rooms
    BY <1>1, <1>2 DEF NothingOfNew, Accepted, TypeOK
  <2> QED BY <1>1, <1>2, <2>1, WsBusAssumption DEF MapsAgree, TypeOK
<1>7. /\ Announcement'.sockets = {} /\ Announcement'.broken = {}
  BY DEF Announcement
<1>8. NothingOfNew'
  <2>1. Accepted \subseteq Accepted' /\ s \in Accepted'
    BY <1>2 DEF Accepted, TypeOK
  <2>2. \A t \in Sockets : task'[t] = "new" <=> link'[t] = "none"
    BY <1>2, <1>4 DEF NothingOfNew, TypeOK
  <2>3. \A t \in Sockets : ws_to_rooms'[t] # {} \/ last_pong'[t] # "none" => t \in Accepted'
    BY <1>2, <2>1 DEF NothingOfNew, TypeOK
  <2>4. \A t \in Sockets : sending'[t].sockets \subseteq Accepted'
    BY <1>4, <1>7, <2>1 DEF NothingOfNew, TypeOK
  <2> QED BY <1>2, <2>1, <2>2, <2>3, <2>4 DEF NothingOfNew
<1>9. BrokenAreShut'
  <2>1. \A t \in Sockets : sending'[t].broken \subseteq sending[t].broken
    BY <1>4, <1>7 DEF TypeOK
  <2>2. \A t \in Sockets : sending[t].broken \subseteq Sockets
    BY DEF TypeOK, Broadcast
  <2> QED BY <1>1, <1>2, <2>1, <2>2 DEF BrokenAreShut, TypeOK
<1>10. LiveSocketsAreKnown'
  BY <1>1, <1>2, <1>4, WsBusAssumption DEF LiveSocketsAreKnown, TypeOK
<1> QED BY <1>5, <1>6, <1>8, <1>9, <1>10

\* What is common to every step in which a disconnect happens: NotifyUser, Notified,
\* End, HeartbeatCut and Sweep.
LEMMA DisconnectingInv ==
  ASSUME Inv, NEW D \in SUBSET Sockets, Disconnect(D),
         \A s \in D : link[s] = "shut" \/ task'[s] \notin Serving \/ closing' = s,
         UNCHANGED <<link, announced>>,
         task' \in [Sockets -> Tasks],
         \A s \in Sockets : task'[s] \in Serving => task[s] \in Serving,
         \A s \in Sockets : task'[s] = "new" <=> task[s] = "new",
         closing = NoSocket \/ closing' = closing,
         closing' \in {closing} \cup stale, stale' \subseteq stale,
         sending' \in [Sockets -> Broadcast],
         \A t \in Sockets : /\ \/ sending'[t].sockets \subseteq sending[t].sockets
                               \/ \E u \in Users : sending'[t].sockets = user_connections'[u]
                            /\ sending'[t].broken \subseteq sending[t].broken
  PROVE  Inv'
<1> USE DEF Inv
<1>1. TypeOK'
  <2>1. closing' \in Sockets \cup {NoSocket} /\ stale' \subseteq Sockets
    BY DEF TypeOK
  <2> QED BY <2>1, DisconnectTypes DEF TypeOK
<1>2. MapsAgree'
  BY DisconnectAgrees
<1>3. NothingOfNew'
  <2>1. Accepted' = Accepted
    BY DEF Accepted
  <2>2. \A u \in Users : user_connections'[u] \subseteq Accepted
    <3>1. ASSUME NEW u \in Users, NEW s \in user_connections'[u] PROVE s \in Accepted
      <4>1. s \in user_connections[u] /\ s \in Sockets
        BY <3>1, DisconnectOnly DEF TypeOK
      <4> QED BY <4>1 DEF MapsAgree, NothingOfNew
    <3> QED BY <3>1
  <2>3. \A t \in Sockets : sending'[t].sockets \subseteq Accepted
    BY <2>2 DEF NothingOfNew
  <2>4. \A s \in Sockets : ws_to_rooms'[s] # {} \/ last_pong'[s] # "none" => s \in Accepted
    BY DisconnectOnly DEF NothingOfNew
  <2>5. ws_to_user' \subseteq Accepted
    BY DisconnectOnly DEF NothingOfNew
  <2> QED BY <2>1, <2>3, <2>4, <2>5 DEF NothingOfNew
<1>4. BrokenAreShut'
  BY DEF BrokenAreShut
<1>5. LiveSocketsAreKnown'
  BY LiveKept
<1> QED BY <1>1, <1>2, <1>3, <1>4, <1>5

LEMMA ServeInv ==
  ASSUME Inv, NEW s \in Sockets, Serve(s) PROVE Inv'
<1> USE DEF Inv
<1>1. /\ sending[s].users \subseteq Users /\ sending[s].sockets \subseteq Sockets
      /\ sending[s].broken \subseteq Sockets
      /\ \A o \in sending[s].broken : link[o] = "shut"
  BY DEF TypeOK, Broadcast, BrokenAreShut
<1>2. CASE NotifyUser(s)
  <2>1. PICK u \in sending[s].users :
           sending' = [sending EXCEPT ![s] = [users |-> sending[s].users \ {u},
                                              sockets |-> user_connections'[u],
                                              broken |-> {}]]
    BY <1>2 DEF NotifyUser
  <2>2. Disconnect(sending[s].broken) /\ UNCHANGED <<task, link, stale, closing, announced>>
    BY <1>2 DEF NotifyUser, heart
  <2>3. user_connections'[u] \subseteq Sockets
    BY <1>1, <2>2, DisconnectTypes
  <2>4. sending' \in [Sockets -> Broadcast]
    BY <1>1, <2>1, <2>3 DEF TypeOK, Broadcast
  <2>5. \A t \in Sockets : /\ \/ sending'[t].sockets \subseteq sending[t].sockets
                              \/ \E v \in Users : sending'[t].sockets = user_connections'[v]
                           /\ sending'[t].broken \subseteq sending[t].broken
    BY <1>1, <2>1 DEF TypeOK
  <2>6. task' \in [Sockets -> Tasks] /\ stale' = stale /\ closing' = closing
    BY <2>2 DEF TypeOK
  <2> QED BY <1>1, <2>2, <2>4, <2>5, <2>6, DisconnectingInv
<1>3. CASE Notify(s)
  <2>1. PICK o \in sending[s].sockets :
           /\ sending' = [sending EXCEPT ![s] =
                 [users |-> sending[s].users,
                  sockets |-> sending[s].sockets \ {o},
                  broken |-> sending[s].broken
                             \cup (IF link[o] = "open" THEN {} ELSE {o})]]
           /\ announced' = IF o = Watcher /\ Owner[s] = Watched /\ link[o] = "open"
                           THEN task[s] = "online" ELSE announced
           /\ UNCHANGED <<maps, last_pong, task, link, heart>>
    BY <1>3 DEF Notify
  <2>2. link[o] \in {"open", "shut"}
    BY <1>1, <2>1 DEF NothingOfNew, Accepted, TypeOK
  <2>3. announced' \in BOOLEAN
    BY <2>1 DEF TypeOK
  <2>4. sending' \in [Sockets -> Broadcast]
    BY <1>1, <2>1 DEF TypeOK, Broadcast
  <2>5. TypeOK'
    BY <2>1, <2>3, <2>4 DEF TypeOK, maps, heart
  <2>6. MapsAgree' /\ LiveSocketsAreKnown'
    BY <2>1 DEF MapsAgree, LiveSocketsAreKnown, maps, heart
  <2>7. \A t \in Sockets : sending'[t].sockets \subseteq sending[t].sockets
    BY <2>1 DEF TypeOK
  <2>8. NothingOfNew'
    BY <2>1, <2>7 DEF NothingOfNew, Accepted, maps, heart
  <2>9. \A t \in Sockets : \A b \in sending'[t].broken :
           b \in sending[t].broken \/ link[b] = "shut"
    BY <2>1, <2>2 DEF TypeOK
  <2>10. BrokenAreShut'
    BY <2>1, <2>9 DEF BrokenAreShut
  <2> QED BY <2>5, <2>6, <2>8, <2>10
<1>4. CASE Notified(s)
  <2>1. /\ Disconnect(sending[s].broken)
        /\ sending' = [sending EXCEPT ![s] = Nothing]
        /\ UNCHANGED <<link, stale, closing, announced>>
        /\ task[s] \in {"online", "offline"}
        /\ task' = [task EXCEPT ![s] = IF @ = "online" THEN Answered(s) ELSE "done"]
    BY <1>4 DEF Notified, heart
  <2>2. Nothing \in Broadcast /\ Nothing.sockets = {} /\ Nothing.broken = {}
    BY DEF Nothing, Broadcast
  <2>3. /\ task' \in [Sockets -> Tasks]
        /\ \A t \in Sockets : task'[t] \in Serving => task[t] \in Serving
        /\ \A t \in Sockets : task'[t] = "new" <=> task[t] = "new"
    BY <2>1 DEF TypeOK, Tasks, Serving, Answered
  <2>4. /\ sending' \in [Sockets -> Broadcast]
        /\ \A t \in Sockets : /\ sending'[t].sockets \subseteq sending[t].sockets
                              /\ sending'[t].broken \subseteq sending[t].broken
    BY <2>1, <2>2 DEF TypeOK
  <2>5. stale' = stale /\ closing' = closing
    BY <2>1
  <2> QED BY <1>1, <2>1, <2>3, <2>4, <2>5, DisconnectingInv
<1>5. CASE End(s)
  <2>1. /\ Disconnect({s}) /\ link[s] = "shut" /\ task[s] \in {"loop", "failed"}
        /\ UNCHANGED <<link, stale, closing, announced>>
    BY <1>5 DEF End, heart
  <2>2. user_connections' \in [Users -> SUBSET Sockets]
    BY <2>1, DisconnectTypes
  <2>3. /\ Announcement' \in Broadcast
        /\ Announcement'.sockets = {} /\ Announcement'.broken = {}
    BY <2>2 DEF Announcement, Broadcast, Connected
  <2>4. /\ task' = [task EXCEPT ![s] = task'[s]] /\ task'[s] \in {"offline", "done"}
        /\ \/ UNCHANGED sending
           \/ sending' = [sending EXCEPT ![s] = Announcement']
    BY <1>5 DEF End, TypeOK
  <2>5. /\ task' \in [Sockets -> Tasks]
        /\ \A t \in Sockets : task'[t] \in Serving => task[t] \in Serving
        /\ \A t \in Sockets : task'[t] = "new" <=> task[t] = "new"
    BY <2>1, <2>4 DEF TypeOK, Tasks, Serving
  <2>6. /\ sending' \in [Sockets -> Broadcast]
        /\ \A t \in Sockets : /\ sending'[t].sockets \subseteq sending[t].sockets
                              /\ sending'[t].broken \subseteq sending[t].broken
    BY <2>3, <2>4 DEF TypeOK
  <2>7. stale' = stale /\ closing' = closing
    BY <2>1
  <2> QED BY <2>1, <2>5, <2>6, <2>7, DisconnectingInv
<1> QED BY <1>2, <1>3, <1>4, <1>5 DEF Serve

LEMMA FrameInv ==
  ASSUME Inv, NEW s \in Sockets, Frame(s) PROVE Inv'
<1> USE DEF Inv
\* Frames are served of sockets that were accepted, and only the answer can fail.
<1>1. task[s] = "loop" /\ s \in Accepted
  BY DEF Frame, Pong, Ask, Join, Leave, NothingOfNew, Accepted
<1>2. /\ Answered(s) \in Tasks
      /\ Answered(s) # "new"
      /\ Answered(s) \in Serving => link[s] = "open"
  BY DEF Answered, Tasks, Serving
<1>3. ASSUME task' = task \/ task' = [task EXCEPT ![s] = Answered(s)],
             UNCHANGED <<user_connections, ws_to_user, sending, link, heart, announced>>,
             ws_to_rooms' \in [Sockets -> SUBSET Rooms],
             room_subscriptions' \in [Rooms -> SUBSET Sockets],
             last_pong' \in [Sockets -> {"none", "fresh", "stale"}],
             \A t \in Sockets \ {s} : /\ ws_to_rooms'[t] = ws_to_rooms[t]
                                      /\ last_pong'[t] = last_pong[t],
             \A t \in Sockets, r \in Rooms :
                t \in room_subscriptions'[r] <=> r \in ws_to_rooms'[t]
      PROVE  Inv'
  <2>1. TypeOK'
    BY <1>2, <1>3 DEF TypeOK, heart
  <2>2. MapsAgree'
    BY <1>3 DEF MapsAgree
  <2>3. NothingOfNew'
    <3>1. Accepted' = Accepted
      BY <1>3 DEF Accepted
    <3>2. \A t \in Sockets : task'[t] = "new" <=> task[t] = "new"
      BY <1>1, <1>2, <1>3 DEF TypeOK
    <3> QED BY <1>1, <1>3, <3>1, <3>2 DEF NothingOfNew, heart
  <2>4. BrokenAreShut'
    BY <1>3 DEF BrokenAreShut
  <2>5. LiveSocketsAreKnown'
    BY <1>1, <1>3 DEF LiveSocketsAreKnown, heart, Serving, TypeOK
  <2> QED BY <2>1, <2>2, <2>3, <2>4, <2>5
<1>4. CASE Pong(s)
  <2>1. ws_to_rooms' = ws_to_rooms /\ room_subscriptions' = room_subscriptions
    BY <1>4 DEF Pong, maps
  <2>2. last_pong' = [last_pong EXCEPT ![s] = "fresh"]
    BY <1>4 DEF Pong
  <2> QED BY <1>3, <1>4, <2>1, <2>2 DEF Pong, maps, TypeOK, MapsAgree
<1>5. CASE Ask(s)
  BY <1>3, <1>5 DEF Ask, maps, TypeOK, MapsAgree
<1>6. ASSUME NEW r \in Rooms, Join(s, r) PROVE Inv'
  BY <1>3, <1>6 DEF Join, TypeOK, MapsAgree
<1>7. ASSUME NEW r \in Rooms, Leave(s, r) PROVE Inv'
  BY <1>3, <1>7 DEF Leave, TypeOK, MapsAgree
<1> QED BY <1>4, <1>5, <1>6, <1>7 DEF Frame

LEMMA HeartbeatInv ==
  ASSUME Inv, Heartbeat PROVE Inv'
<1> USE DEF Inv
<1>1. CASE HeartbeatBegin
  <2>1. /\ stale' = {s \in Sockets : last_pong[s] = "stale"}
        /\ UNCHANGED <<maps, last_pong, task, sending, link, closing, announced>>
    BY <1>1 DEF HeartbeatBegin
  <2>2. stale' \subseteq Accepted /\ Accepted' = Accepted
    BY <2>1 DEF NothingOfNew, Accepted
  <2>3. TypeOK'
    BY <2>1 DEF TypeOK, maps
  <2>4. NothingOfNew'
    BY <2>1, <2>2 DEF NothingOfNew, maps
  <2> QED BY <2>1, <2>3, <2>4 DEF MapsAgree, BrokenAreShut, LiveSocketsAreKnown, maps
<1>2. ASSUME NEW s \in Sockets, HeartbeatCut(s) PROVE Inv'
  <2>1. /\ Disconnect({s}) /\ s \in stale /\ closing = NoSocket
        /\ stale' = stale \ {s} /\ closing' = s
        /\ UNCHANGED <<task, sending, link, announced>>
    BY <1>2 DEF HeartbeatCut
  <2>2. task' \in [Sockets -> Tasks] /\ sending' \in [Sockets -> Broadcast]
    BY <2>1 DEF TypeOK
  <2> QED BY <2>1, <2>2, DisconnectingInv
<1>3. CASE HeartbeatClose
  <2>1. /\ closing # NoSocket /\ closing \in Sockets
        /\ link' = [link EXCEPT ![closing] = "shut"] /\ closing' = NoSocket
        /\ UNCHANGED <<maps, last_pong, task, sending, stale, announced>>
    BY <1>3 DEF HeartbeatClose, TypeOK
  <2>2. Accepted' = Accepted
    BY <2>1 DEF NothingOfNew, Accepted, TypeOK
  <2>3. TypeOK'
    BY <2>1 DEF TypeOK, maps
  <2>4. NothingOfNew'
    <3>1. link[closing] # "none"
      BY <2>1 DEF NothingOfNew, Accepted
    <3>2. \A s \in Sockets : link'[s] = "none" <=> link[s] = "none"
      BY <2>1, <3>1 DEF TypeOK
    <3> QED BY <2>1, <2>2, <3>2 DEF NothingOfNew, maps
  <2>5. BrokenAreShut'
    <3>1. \A t \in Sockets : sending[t].broken \subseteq Sockets
      BY DEF TypeOK, Broadcast
    <3> QED BY <2>1, <3>1 DEF BrokenAreShut, TypeOK
  <2>6. LiveSocketsAreKnown'
    BY <2>1 DEF LiveSocketsAreKnown, maps, TypeOK
  <2>7. MapsAgree'
    BY <2>1 DEF MapsAgree, maps
  <2> QED BY <2>3, <2>4, <2>5, <2>6, <2>7
<1> QED BY <1>1, <1>2, <1>3 DEF Heartbeat

LEMMA OtherInv ==
  ASSUME Inv, NEW s \in Sockets, Sweep(s) \/ Hangup(s) \/ Silence(s) PROVE Inv'
<1> USE DEF Inv
<1>1. CASE Sweep(s)
  <2>1. Disconnect({s}) /\ link[s] = "shut"
        /\ UNCHANGED <<task, sending, link, stale, closing, announced>>
    BY <1>1 DEF Sweep, heart
  <2>2. /\ task' \in [Sockets -> Tasks] /\ sending' \in [Sockets -> Broadcast]
        /\ stale' = stale /\ closing' = closing /\ task' = task /\ sending' = sending
    BY <2>1 DEF TypeOK
  <2> QED BY <2>1, <2>2, DisconnectingInv
<1>2. CASE Hangup(s)
  <2>1. /\ link[s] = "open" /\ link' = [link EXCEPT ![s] = "shut"]
        /\ UNCHANGED <<maps, last_pong, task, sending, stale, closing, announced>>
    BY <1>2 DEF Hangup, heart
  <2>2. Accepted' = Accepted
    BY <2>1 DEF Accepted, TypeOK
  <2>3. TypeOK'
    BY <2>1 DEF TypeOK, maps
  <2>4. NothingOfNew'
    <3>1. \A t \in Sockets : link'[t] = "none" <=> link[t] = "none"
      BY <2>1 DEF TypeOK
    <3> QED BY <2>1, <2>2, <3>1 DEF NothingOfNew, maps
  <2>5. BrokenAreShut'
    BY <2>1 DEF BrokenAreShut, TypeOK
  <2>6. LiveSocketsAreKnown'
    BY <2>1 DEF LiveSocketsAreKnown, maps, TypeOK
  <2>7. MapsAgree'
    BY <2>1 DEF MapsAgree, maps
  <2> QED BY <2>3, <2>4, <2>5, <2>6, <2>7
<1>3. CASE Silence(s)
  <2>1. /\ last_pong[s] = "fresh" /\ last_pong' = [last_pong EXCEPT ![s] = "stale"]
        /\ UNCHANGED <<maps, task, sending, link, stale, closing, announced>>
    BY <1>3 DEF Silence, heart
  <2>2. Accepted' = Accepted
    BY <2>1 DEF Accepted
  <2>3. TypeOK'
    BY <2>1 DEF TypeOK, maps
  <2>4. NothingOfNew'
    <3>1. \A t \in Sockets : last_pong'[t] # "none" => last_pong[t] # "none"
      BY <2>1 DEF TypeOK
    <3> QED BY <2>1, <2>2, <3>1 DEF NothingOfNew, maps
  <2> QED BY <2>1, <2>3, <2>4 DEF MapsAgree, BrokenAreShut, LiveSocketsAreKnown, maps
<1> QED BY <1>1, <1>2, <1>3

LEMMA InvStep == Inv /\ [Next]_vars => Inv'
<1> SUFFICES ASSUME Inv, [Next]_vars PROVE Inv'
  OBVIOUS
<1>1. CASE UNCHANGED vars
  <2>1. TypeOK'
    BY <1>1 DEF Inv, TypeOK, vars, maps, heart
  <2>2. MapsAgree' /\ BrokenAreShut' /\ LiveSocketsAreKnown'
    BY <1>1 DEF Inv, MapsAgree, BrokenAreShut, LiveSocketsAreKnown, vars, maps, heart
  <2>3. NothingOfNew'
    BY <1>1 DEF Inv, NothingOfNew, Accepted, vars, maps, heart
  <2> QED BY <2>1, <2>2, <2>3 DEF Inv
<1>2. CASE Next
  BY <1>2, AcceptInv, ServeInv, FrameInv, HeartbeatInv, OtherInv DEF Next
<1> QED BY <1>1, <1>2

LEMMA Invariance == Spec => []Inv
BY InitInv, InvStep, PTL DEF Spec

-----------------------------------------------------------------------------
\* The types, for any sockets, users and rooms.
THEOREM WsBusTypes == Spec => []TypeOK
<1>1. Inv => TypeOK
  BY DEF Inv
<1> QED BY <1>1, Invariance, PTL

\* The four maps agree.
THEOREM MapsStayInStep == Spec => []MapsAgree
<1>1. Inv => MapsAgree
  BY DEF Inv
<1> QED BY <1>1, Invariance, PTL

\* The bus knows every socket that works.
THEOREM NoLiveSocketIsForgotten == Spec => []LiveSocketsAreKnown
<1>1. Inv => LiveSocketsAreKnown
  BY DEF Inv
<1> QED BY <1>1, Invariance, PTL
=============================================================================
