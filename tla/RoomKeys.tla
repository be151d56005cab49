----------------------------- MODULE RoomKeys ------------------------------
(***************************************************************************)
(* End-to-end room keys: the clients of frontend/src/app.js, each with its *)
(* roomKeys cache and its asynchronous flows, against the room service of  *)
(* module Rooms.                                                           *)
(*                                                                         *)
(* A client suspends at every await.  A flow here advances by one request  *)
(* at a time: a step is what the server does with the request together     *)
(* with the synchronous code that runs on its answer, so that the other    *)
(* clients, and the other flows of the same client, act in between.  Of    *)
(* each client there is one page, on which runs at most one of the flows   *)
(* create / start DM / add members, and one key load per room.             *)
(*                                                                         *)
(* A user's public key never changes once registered (auth/routes.py       *)
(* answers 409), so a stored blob always seals a room key for the          *)
(* registered pair: a blob is the room key it seals, and a client can open *)
(* its blobs iff its local private key is of that pair (paired).           *)
(***************************************************************************)
EXTENDS Rooms, Integers, FiniteSets

CONSTANTS
    Absent,     \* roomKeys[room] is undefined
    NoRoom,     \* currentRoom is null
    Unmade,     \* a key that has not been generated yet
    Features,   \* which events of the environment a model considers
    Losers,     \* the users who may lose their private key
    StayPut,    \* whether users keep to the room in which they add members
    LetFinish,  \* whether users leave a page open while it distributes a new key
    MaxTargets  \* how many users one use of the Add Member dialog adds

AllFeatures == {"dm", "add", "kick", "promote", "join", "delete",
                "reload", "reconnect", "send"}

ASSUME RoomKeysAssumption ==
    /\ Epochs \subseteq Nat
    /\ 0 \in Epochs
    /\ NoRoom \notin RoomIds
    /\ Unmade \notin [room : RoomIds, by : Users]
    /\ Absent \notin [Epochs -> Blobs \cup {NoBlob}]
    /\ Features \subseteq AllFeatures
    /\ Losers \subseteq Users
    /\ StayPut \in BOOLEAN
    /\ LetFinish \in BOOLEAN
    /\ MaxTargets \in Nat

VARIABLES
    paired,       \* [user]: the local private key is of the registered pair
    roomKeys,     \* [user][room]: the decrypted keys by epoch, or Absent
    currentRoom,  \* [user]: the room shown
    loads,        \* [user][room]: where loadRoomKeys (and the regeneration) is
    flow,         \* [user]: where the page's other flow is
    messages,     \* what was sent: room, epoch and the key used
    minted,       \* history: for which room, and by whom, each key was generated
    entitled      \* history: who has been in a key's room since it was generated

clientVars == <<paired, roomKeys, currentRoom, loads, flow, messages, minted>>
vars == <<roomVars, clientVars, entitled>>

KeyMap == [Epochs -> Blobs \cup {NoBlob}]
NoMap == [e \in Epochs |-> NoBlob]
Has(map) == {e \in Epochs : map[e] # NoBlob}

NoLoad == [at |-> "idle"]
Load ==
    {NoLoad}
    \cup [at : {"asked"}]
    \cup [at : {"decrypting"}, rows : KeyMap, left : SUBSET Epochs]
    \cup [at : {"regenerate"}, epoch : Epochs]
    \cup [at : {"listed"}, epoch : Epochs, left : SUBSET Users]
    \cup [at : {"posting"}, epoch : Epochs, key : Blobs, left : SUBSET Users]

NoFlow == [at |-> "idle"]
Flow ==
    {NoFlow}
    \cup [at : {"init", "select"}, room : RoomIds]
    \cup [at : {"dmPosting"}, room : RoomIds, key : Blobs, left : SUBSET Users]
    \cup [at : {"added"}, room : RoomIds, live : BOOLEAN,
          held : KeyMap \cup {Absent}, target : Users, todo : SUBSET Users]
    \cup [at : {"sharing"}, room : RoomIds, live : BOOLEAN,
          held : KeyMap \cup {Absent}, target : Users, todo : SUBSET Users,
          left : SUBSET Epochs]
    \cup [at : {"nextTarget"}, room : RoomIds, live : BOOLEAN,
          held : KeyMap \cup {Absent}, todo : SUBSET Users]

Message == [room : RoomIds, epoch : Epochs, key : Blobs]

TypeOK ==
    /\ RoomsTypeOK
    /\ paired \in [Users -> BOOLEAN]
    /\ roomKeys \in [Users -> [RoomIds -> KeyMap \cup {Absent}]]
    /\ currentRoom \in [Users -> RoomIds \cup {NoRoom}]
    /\ loads \in [Users -> [RoomIds -> Load]]
    /\ flow \in [Users -> Flow]
    /\ messages \subseteq Message
    /\ minted \in [Blobs -> [room : RoomIds, by : Users] \cup {Unmade}]
    /\ entitled \in [Blobs -> SUBSET Users]

Init ==
    /\ RoomsInit
    /\ paired = [u \in Users |-> TRUE]
    /\ roomKeys = [u \in Users |-> [r \in RoomIds |-> Absent]]
    /\ currentRoom = [u \in Users |-> NoRoom]
    /\ loads = [u \in Users |-> [r \in RoomIds |-> NoLoad]]
    /\ flow = [u \in Users |-> NoFlow]
    /\ messages = {}
    /\ minted = [k \in Blobs |-> Unmade]
    /\ entitled = [k \in Blobs |-> {}]

-----------------------------------------------------------------------------
(* What the steps share.                                                   *)

\* generateRoomKey: a key nobody has, noted down as generated by u for r.
Generate(u, k, r) ==
    /\ minted[k] = Unmade
    /\ minted' = [minted EXCEPT ![k] = [room |-> r, by |-> u]]

\* Mutant of TryStoreKey: the endpoint stores what it is sent.
TryStoreKeyUnchecked(u, r, t, e, k) ==
    /\ room_keys' = [room_keys EXCEPT ![r][t][e] = k]
    /\ UNCHANGED <<ROOMS, rooms, visibility, room_users, join_requests, suspended>>

\* A POST /rooms/{r}/keys whose answer the client does not look at.
TryStoreKey(u, r, t, e, k) ==
    \/ StoreKey(u, r, t, e, k)
    \/ ~CanStoreKey(u, r, t) /\ UNCHANGED roomVars

\* roomKeys[r] = map: the object that was there is left to whoever holds it, so
\* a flow that adds members keeps the keys it had.
Replace(u, r, map) ==
    /\ roomKeys' = [roomKeys EXCEPT ![u][r] = map]
    /\ flow' = IF flow[u].at \in {"added", "sharing", "nextTarget"}
                  /\ flow[u].room = r /\ flow[u].live
               THEN [flow EXCEPT ![u].live = FALSE, ![u].held = roomKeys[u][r]]
               ELSE flow

\* Mutant of Put: into the room shown by now.
PutCurrent(u, r, e, k) ==
    roomKeys' = [roomKeys EXCEPT ![u][currentRoom[u]] =
                    IF @ = Absent THEN [NoMap EXCEPT ![e] = k]
                                  ELSE [@ EXCEPT ![e] = k]]

\* roomKeys[r][e] = k, the object being created if it is not there.
Put(u, r, e, k) ==
    roomKeys' = [roomKeys EXCEPT ![u][r] =
                    IF @ = Absent THEN [NoMap EXCEPT ![e] = k]
                                  ELSE [@ EXCEPT ![e] = k]]

SetLoad(u, r, load) == loads' = [loads EXCEPT ![u][r] = load]
SetFlow(u, f) == flow' = [flow EXCEPT ![u] = f]

-----------------------------------------------------------------------------
(* loadRoomKeys.                                                           *)

\* selectRoom: the room is shown at once, its keys are asked for.
Select(u, r) ==
    /\ currentRoom' = [currentRoom EXCEPT ![u] = r]
    /\ IF currentRoom[u] = r \/ loads[u][r] # NoLoad
       THEN UNCHANGED loads
       ELSE SetLoad(u, r, [at |-> "asked"])

SelectRoom(u, r) ==
    /\ IsMember(r, u)
    /\ currentRoom[u] # r
    /\ StayPut => flow[u].at \notin {"added", "sharing", "nextTarget"}
    /\ Select(u, r)
    /\ UNCHANGED <<roomVars, paired, roomKeys, flow, messages, minted>>

\* The WebSocket was reconnected, or a message is to be sent without any key.
Reconnect(u) ==
    /\ "reconnect" \in Features
    /\ currentRoom[u] # NoRoom
    /\ loads[u][currentRoom[u]] = NoLoad
    /\ SetLoad(u, currentRoom[u], [at |-> "asked"])
    /\ UNCHANGED <<roomVars, paired, roomKeys, currentRoom, flow, messages, minted>>

\* The user's rows arrive and the cache of the room is emptied.  No access, or no
\* row: the cache is left as it is.
LoadRows(u, r) ==
    LET rows == room_keys[r][u] IN
    /\ loads[u][r].at = "asked"
    /\ IF check_room_access(r, u) /\ rows # NoMap
       THEN /\ SetLoad(u, r, [at |-> "decrypting", rows |-> rows, left |-> Has(rows)])
            /\ Replace(u, r, NoMap)
       ELSE /\ SetLoad(u, r, NoLoad)
            /\ UNCHANGED <<roomKeys, flow>>
    /\ UNCHANGED <<roomVars, paired, currentRoom, messages, minted>>

\* Mutant of AfterLoad: the last epoch again.
AfterLoadSameEpoch(u, r, rows) ==
    IF roomKeys'[u][r] # NoMap THEN SetLoad(u, r, NoLoad)
    ELSE \E top \in Has(rows) :
            /\ \A e \in Has(rows) : e <= top
            /\ SetLoad(u, r, [at |-> "regenerate", epoch |-> top])

\* The epoch after the last one, when none could be decrypted (within Epochs).
AfterLoad(u, r, rows) ==
    IF roomKeys'[u][r] # NoMap THEN SetLoad(u, r, NoLoad)
    ELSE \E top \in Has(rows) :
            /\ \A e \in Has(rows) : e <= top
            /\ SetLoad(u, r, IF top + 1 \in Epochs
                             THEN [at |-> "regenerate", epoch |-> top + 1]
                             ELSE NoLoad)

\* One decryption, in the order of the epochs; it fails without the right pair.
Decrypt(u, r) ==
    LET load == loads[u][r] IN
    /\ load.at = "decrypting"
    /\ \E e \in load.left :
          /\ \A f \in load.left : e <= f
          /\ IF paired[u] THEN Put(u, r, e, load.rows[e]) ELSE UNCHANGED roomKeys
          /\ IF load.left = {e}
             THEN AfterLoad(u, r, load.rows)
             ELSE SetLoad(u, r, [load EXCEPT !.left = @ \ {e}])
    /\ UNCHANGED <<roomVars, paired, currentRoom, flow, messages, minted>>

-----------------------------------------------------------------------------
(* regenerateRoomKey.                                                      *)

\* The members of the room are asked for, and their public keys.
RegenerateBegin(u, r) ==
    LET load == loads[u][r] IN
    /\ load.at = "regenerate"
    /\ SetLoad(u, r, IF check_room_access(r, u)
                     THEN [at |-> "listed", epoch |-> load.epoch,
                           left |-> {t \in Users : IsMember(r, t)}]
                     ELSE NoLoad)
    /\ UNCHANGED <<roomVars, paired, roomKeys, currentRoom, flow, messages, minted>>

\* Then, in one go, a key is generated and a POST sent for each of them.
RegenerateKey(u, r) ==
    LET load == loads[u][r] IN
    /\ load.at = "listed"
    /\ \E k \in Blobs :
          /\ Generate(u, k, r)
          /\ SetLoad(u, r, [at |-> "posting", epoch |-> load.epoch, key |-> k,
                            left |-> load.left])
    /\ UNCHANGED <<roomVars, paired, roomKeys, currentRoom, flow, messages>>

\* After the last answer the new key is put into the cache.
RegeneratePost(u, r, t) ==
    LET load == loads[u][r] IN
    /\ load.at = "posting"
    /\ t \in load.left
    /\ TryStoreKey(u, r, t, load.epoch, load.key)
    /\ IF load.left = {t}
       THEN Put(u, r, load.epoch, load.key) /\ SetLoad(u, r, NoLoad)
       ELSE SetLoad(u, r, [load EXCEPT !.left = @ \ {t}]) /\ UNCHANGED roomKeys
    /\ UNCHANGED <<paired, currentRoom, flow, messages, minted>>

-----------------------------------------------------------------------------
(* createRoom and startDM.                                                 *)

CreateChannel(u, r) ==
    /\ flow[u] = NoFlow
    /\ \E v \in Visibilities : CreateRoom(u, r, v)
    /\ SetFlow(u, [at |-> "init", room |-> r])
    /\ UNCHANGED <<paired, roomKeys, currentRoom, loads, messages, minted>>

\* initRoomKey: epoch 0, for oneself; the room is selected next.
InitRoomKey(u) ==
    LET r == flow[u].room IN
    /\ flow[u].at = "init"
    /\ \E k \in Blobs :
          /\ Generate(u, k, r)
          /\ TryStoreKey(u, r, u, 0, k)
          /\ roomKeys' = [roomKeys EXCEPT ![u][r] = [NoMap EXCEPT ![0] = k]]
    /\ SetFlow(u, [at |-> "select", room |-> r])
    /\ UNCHANGED <<paired, currentRoom, loads, messages>>

\* startDM, and initDMRoomKey unless the page already has keys of that DM.
StartDM(u, d) ==
    /\ "dm" \in Features
    /\ flow[u] = NoFlow
    /\ u \in d
    /\ CreateDM(u, d) \/ (d \in ROOMS /\ UNCHANGED roomVars)
    /\ IF roomKeys[u][d] = Absent
       THEN \E k \in Blobs :
                /\ Generate(u, k, d)
                /\ SetFlow(u, [at |-> "dmPosting", room |-> d, key |-> k, left |-> d])
       ELSE SetFlow(u, [at |-> "select", room |-> d]) /\ UNCHANGED minted
    /\ UNCHANGED <<paired, roomKeys, currentRoom, loads, messages>>

DMPost(u, t) ==
    LET d == flow[u].room IN
    /\ flow[u].at = "dmPosting"
    /\ t \in flow[u].left
    /\ TryStoreKey(u, d, t, 0, flow[u].key)
    /\ IF flow[u].left = {t}
       THEN /\ roomKeys' = [roomKeys EXCEPT ![u][d] = [NoMap EXCEPT ![0] = flow[u].key]]
            /\ SetFlow(u, [at |-> "select", room |-> d])
       ELSE SetFlow(u, [flow[u] EXCEPT !.left = @ \ {t}]) /\ UNCHANGED roomKeys
    /\ UNCHANGED <<paired, currentRoom, loads, messages, minted>>

\* The selectRoom that ends both flows.
SelectAfter(u) ==
    /\ flow[u].at = "select"
    /\ Select(u, flow[u].room)
    /\ SetFlow(u, NoFlow)
    /\ UNCHANGED <<roomVars, paired, roomKeys, messages, minted>>

-----------------------------------------------------------------------------
(* addMembersFromModal, of which /invite is the case of one target and a   *)
(* cache that has keys.  The keys are those of the room shown when the flow *)
(* starts, and shared as they are when the sharing starts; the room they   *)
(* are posted to is the room shown when each request is made.              *)

\* currentEpochs: the cache's object while it is in the cache, then what it held.
Held(u, f) == IF f.live THEN roomKeys[u][f.room] ELSE f.held

\* On to the next target, if any.
NextTarget(f, todo) ==
    IF todo = {} THEN NoFlow
    ELSE [at |-> "nextTarget", room |-> f.room, live |-> f.live, held |-> f.held,
          todo |-> todo]

\* The POST /rooms/{r}/members of target t in flow f; with keys to share, the
\* target's public key is asked for.
AddTo(u, r, t, f) ==
    LET todo == f.todo \ {t} IN
    \/ /\ AddMember(u, r, t)
       /\ SetFlow(u, IF Held(u, f) \in {Absent, NoMap} THEN NextTarget(f, todo)
                     ELSE [at |-> "added", room |-> f.room, live |-> f.live,
                           held |-> f.held, target |-> t, todo |-> todo])
    \/ /\ ~CanAddMember(u, r, t)
       /\ SetFlow(u, NextTarget(f, todo))
       /\ UNCHANGED roomVars

AddMembers(u, targets, t) ==
    /\ "add" \in Features
    /\ flow[u] = NoFlow
    /\ currentRoom[u] # NoRoom
    /\ t \in targets
    /\ Cardinality(targets) <= MaxTargets
    /\ AddTo(u, currentRoom[u], t,
             [at |-> "nextTarget", room |-> currentRoom[u], todo |-> targets,
              live |-> roomKeys[u][currentRoom[u]] # Absent, held |-> Absent])
    /\ UNCHANGED <<paired, roomKeys, currentRoom, loads, messages, minted>>

AddNext(u, t) ==
    /\ flow[u].at = "nextTarget"
    /\ t \in flow[u].todo
    /\ AddTo(u, currentRoom[u], t, flow[u])
    /\ UNCHANGED <<paired, roomKeys, currentRoom, loads, messages, minted>>

\* The target's public key has arrived.
ShareBegin(u) ==
    LET f == flow[u] IN
    /\ f.at = "added"
    /\ SetFlow(u, [at |-> "sharing", room |-> f.room, live |-> f.live,
                   held |-> f.held, target |-> f.target, todo |-> f.todo,
                   left |-> Has(Held(u, f))])
    /\ UNCHANGED <<roomVars, paired, roomKeys, currentRoom, loads, messages, minted>>

SharePost(u) ==
    LET f == flow[u] IN
    /\ f.at = "sharing"
    /\ \E e \in f.left :
          /\ \A other \in f.left : e <= other
          /\ TryStoreKey(u, currentRoom[u], f.target, e, Held(u, f)[e])
          /\ SetFlow(u, IF f.left = {e} THEN NextTarget(f, f.todo)
                        ELSE [f EXCEPT !.left = @ \ {e}])
    /\ UNCHANGED <<paired, roomKeys, currentRoom, loads, messages, minted>>

-----------------------------------------------------------------------------
(* Sending; single requests; the page and the local private key.           *)

\* onSendMessage: the highest epoch in the cache of the room shown.
SendMessage(u) ==
    LET r == currentRoom[u] IN
    /\ "send" \in Features
    /\ r # NoRoom
    /\ check_room_access(r, u)
    /\ roomKeys[u][r] \notin {Absent, NoMap}
    /\ \E e \in Has(roomKeys[u][r]) :
          /\ \A f \in Has(roomKeys[u][r]) : f <= e
          /\ messages' = messages \cup
                {[room |-> r, epoch |-> e, key |-> roomKeys[u][r][e]]}
    /\ UNCHANGED <<roomVars, paired, roomKeys, currentRoom, loads, flow, minted>>

\* One request of a user to the room service that involves no key.
Request(u, r, t) ==
    /\ \/ "kick" \in Features /\ RemoveMember(u, r, t)
       \/ "promote" \in Features /\ SetRole(u, r, t, "op")
       \/ "join" \in Features /\ t = u /\ SubmitJoinRequest(u, r)
       \/ "join" \in Features /\ ApproveJoinRequest(u, r, t)
       \/ "delete" \in Features /\ t = u /\ DeleteRoom(u, r)
    /\ UNCHANGED clientVars

\* The page of u is gone, and with it everything but the private key.
FreshPage(u) ==
    /\ roomKeys' = [roomKeys EXCEPT ![u] = [r \in RoomIds |-> Absent]]
    /\ currentRoom' = [currentRoom EXCEPT ![u] = NoRoom]
    /\ loads' = [loads EXCEPT ![u] = [r \in RoomIds |-> NoLoad]]
    /\ flow' = [flow EXCEPT ![u] = NoFlow]

ReloadPage(u) ==
    /\ "reload" \in Features
    /\ LetFinish => \A r \in RoomIds : loads[u][r].at # "posting"
    /\ FreshPage(u)
    /\ UNCHANGED <<roomVars, paired, messages, minted>>

\* Login on a device without the private key, no recovery: a fresh pair is kept,
\* and the server's refusal (409) to register its public key goes unnoticed.
LoseKey(u) ==
    /\ u \in Losers
    /\ paired[u]
    /\ paired' = [paired EXCEPT ![u] = FALSE]
    /\ FreshPage(u)
    /\ UNCHANGED <<roomVars, messages, minted>>

-----------------------------------------------------------------------------
PageStep(u) ==
    \/ Reconnect(u) \/ InitRoomKey(u) \/ SelectAfter(u)
    \/ ShareBegin(u) \/ SharePost(u)
    \/ SendMessage(u) \/ ReloadPage(u) \/ LoseKey(u)

PageRoomStep(u, r) ==
    \/ SelectRoom(u, r) \/ LoadRows(u, r) \/ Decrypt(u, r)
    \/ RegenerateBegin(u, r) \/ RegenerateKey(u, r)
    \/ CreateChannel(u, r) \/ (r \in DMs /\ StartDM(u, r))

PageUserStep(u, t) ==
    \/ \E r \in RoomIds : RegeneratePost(u, r, t) \/ Request(u, r, t)
    \/ \E targets \in SUBSET Users : AddMembers(u, targets, t)
    \/ DMPost(u, t) \/ AddNext(u, t)

Step ==
    \/ \E u \in Users : PageStep(u)
    \/ \E u \in Users, r \in RoomIds : PageRoomStep(u, r)
    \/ \E u, t \in Users : PageUserStep(u, t)

\* Beside every step: the members of a key's room become entitled to it.
Next ==
    /\ Step
    /\ entitled' = [k \in Blobs |->
          entitled[k] \cup
          {u \in Users : minted'[k] # Unmade /\ room_users'[minted'[k].room][u] # "none"}]

Spec == Init /\ [][Next]_vars
-----------------------------------------------------------------------------
(* Properties.                                                             *)

\* Keys stay in their room: what the server stores under a room, and what a
\* client caches under it, was generated for that room.
KeysStayInRoom ==
    \A u \in Users, r \in RoomIds, e \in Epochs :
        /\ room_keys[r][u][e] # NoBlob => minted[room_keys[r][u][e]].room = r
        /\ (roomKeys[u][r] # Absent /\ e \in Has(roomKeys[u][r]))
           => minted[roomKeys[u][r][e]].room = r

\* Whoever holds a key, in a stored blob or in a cache, generated it or has been
\* in its room at some moment since: a member who is removed gets no later epoch,
\* however long the flow that distributes it has been under way.
Entitled(u, k) == u = minted[k].by \/ u \in entitled[k]

OnlyMembersGetKeys ==
    \A u \in Users, r \in RoomIds, e \in Epochs :
        /\ room_keys[r][u][e] # NoBlob => Entitled(u, room_keys[r][u][e])
        /\ (roomKeys[u][r] # Absent /\ e \in Has(roomKeys[u][r]))
           => Entitled(u, roomKeys[u][r][e])

\* The members of a room agree on the key of an epoch (the epoch numbers are
\* chosen by the clients, each from its own rows).
OneKeyPerEpoch ==
    \A r \in RoomIds, e \in Epochs, u, v \in Users :
        (room_keys[r][u][e] # NoBlob /\ room_keys[r][v][e] # NoBlob)
        => room_keys[r][u][e] = room_keys[r][v][e]

\* docs/end-to-end-encryption.md:91: "Older messages can still be decrypted using
\* their recorded epoch": who has the key a message was encrypted with keeps it.
NoKeyIsLost ==
    [][\A u \in Users, m \in messages :
          room_keys[m.room][u][m.epoch] = m.key
          => room_keys'[m.room][u][m.epoch] = m.key \/ m.room \notin rooms']_vars
=============================================================================
