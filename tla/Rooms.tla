------------------------------- MODULE Rooms -------------------------------
(***************************************************************************)
(* The room service: backend/skrib/rooms (services.py, routes.py) with the *)
(* checks of backend/skrib/permissions.py and the tables rooms,            *)
(* room_users, join_requests and room_keys of backend/skrib/database.py.   *)
(*                                                                         *)
(* Every route handler is a coroutine on one event loop whose database     *)
(* calls are synchronous: it runs without interruption up to its first     *)
(* await.  All handlers but one make their last state change before they   *)
(* first await, so each is one action; update_room awaits a broadcast      *)
(* between the topic and the visibility, so it is two.  The service also   *)
(* keeps ROOMS, an in-memory registry of the rooms that exist, which the   *)
(* handlers consult instead of the table: a database statement that fails  *)
(* (DbMayFail) or a restart between two statements tells the two apart.    *)
(***************************************************************************)
CONSTANTS
    Users,      \* registered, active users
    Channels,   \* channel names
    DMs,        \* the DM rooms considered, each one the set of its participants
    Admins,     \* users whose global role is admin
    Moderators, \* users whose global role is moderator
    Epochs,     \* the key epochs
    Blobs,      \* what can be stored as an encrypted room key
    NoBlob,     \* "no row in room_keys"
    Idle,       \* "no update_room call suspended"
    DbMayFail   \* whether a database statement may raise

RoomIds == Channels \cup DMs

ASSUME RoomsAssumption ==
    /\ DMs \subseteq SUBSET Users
    /\ \A d \in DMs : \E u, v \in d : u # v
    /\ Channels \cap DMs = {}
    /\ Admins \cup Moderators \subseteq Users
    /\ NoBlob \notin Blobs
    /\ Idle \notin RoomIds \X {"private", "public"}
    /\ DbMayFail \in BOOLEAN

Visibilities == {"private", "public"}
Roles == {"owner", "op", "voice", "member"}
Statuses == {"pending", "approved", "denied"}

VARIABLES
    ROOMS,          \* the in-memory registry
    rooms,          \* the rows of table rooms
    visibility,     \* rooms.visibility ("private" where there is no row)
    room_users,     \* [room][user]: the member's role, or "none"
    join_requests,  \* [room][user]: the request's status, or "none"
    room_keys,      \* [room][user][epoch]: the stored blob, or NoBlob
    suspended       \* [user]: the visibility his suspended update_room call will set

roomVars == <<ROOMS, rooms, visibility, room_users, join_requests, room_keys,
              suspended>>

NoMembers == [u \in Users |-> "none"]
NoKeys == [u \in Users |-> [e \in Epochs |-> NoBlob]]

RoomsTypeOK ==
    /\ ROOMS \subseteq RoomIds
    /\ rooms \subseteq RoomIds
    /\ visibility \in [RoomIds -> Visibilities]
    /\ room_users \in [RoomIds -> [Users -> Roles \cup {"none"}]]
    /\ join_requests \in [RoomIds -> [Users -> Statuses \cup {"none"}]]
    /\ room_keys \in [RoomIds -> [Users -> [Epochs -> Blobs \cup {NoBlob}]]]
    /\ suspended \in [Users -> (RoomIds \X Visibilities) \cup {Idle}]

RoomsInit ==
    /\ ROOMS = {}
    /\ rooms = {}
    /\ visibility = [r \in RoomIds |-> "private"]
    /\ room_users = [r \in RoomIds |-> NoMembers]
    /\ join_requests = [r \in RoomIds |-> NoMembers]
    /\ room_keys = [r \in RoomIds |-> NoKeys]
    /\ suspended = [u \in Users |-> Idle]

-----------------------------------------------------------------------------
(* Permissions.                                                            *)

is_dm(r) == r \in DMs

IsMember(r, u) == room_users[r][u] # "none"

\* check_room_access: the registry, then the membership table.
check_room_access(r, u) == r \in ROOMS /\ IsMember(r, u)

\* require_room_op_or_global_mod: note that a global moderator need not be a
\* member; the handlers that also want membership check it separately.
require_room_op_or_global_mod(r, u) ==
    \/ room_users[r][u] \in {"owner", "op"}
    \/ u \in Admins \cup Moderators

-----------------------------------------------------------------------------
(* Creation and deletion.                                                  *)

\* INSERT OR IGNORE INTO rooms: a row that already exists is left as it is.
InsertRoom(r, v) ==
    /\ rooms' = rooms \cup {r}
    /\ visibility' = IF r \in rooms THEN visibility
                     ELSE [visibility EXCEPT ![r] = v]

\* add_room_member: an existing membership is left as it is.
InsertMember(r, u, role) ==
    room_users' = IF IsMember(r, u) THEN room_users
                  ELSE [room_users EXCEPT ![r][u] = role]

\* create_new_room: registry, row, then the creator's membership, in three
\* separate commits.
CreateRoom(u, r, v) ==
    /\ r \in Channels \ ROOMS
    /\ ROOMS' = ROOMS \cup {r}
    /\ InsertRoom(r, v)
    /\ InsertMember(r, u, "owner")
    /\ UNCHANGED <<join_requests, room_keys, suspended>>

\* The same when one of the two statements fails (the request answers 500).
CreateRoomInsertFails(u, r) ==
    /\ DbMayFail
    /\ r \in Channels \ ROOMS
    /\ ROOMS' = ROOMS \cup {r}
    /\ UNCHANGED <<rooms, visibility, room_users, join_requests, room_keys,
                   suspended>>

CreateRoomOwnerFails(u, r, v) ==
    /\ DbMayFail
    /\ r \in Channels \ ROOMS
    /\ ROOMS' = ROOMS \cup {r}
    /\ InsertRoom(r, v)
    /\ UNCHANGED <<room_users, join_requests, room_keys, suspended>>

\* create_dm: rows first, in one transaction, the registry afterwards.  (When
\* the DM is registered already the call changes nothing.)
CreateDM(u, d) ==
    /\ d \in DMs \ ROOMS
    /\ u \in d
    /\ InsertRoom(d, "private")
    /\ room_users' = [room_users EXCEPT ![d] =
                        [v \in Users |-> IF v \in d /\ @[v] = "none"
                                         THEN "member" ELSE @[v]]]
    /\ ROOMS' = ROOMS \cup {d}
    /\ UNCHANGED <<join_requests, room_keys, suspended>>

CanDelete(u, r) ==
    /\ ~is_dm(r)
    /\ room_users[r][u] = "owner" \/ u \in Admins
    /\ r \in ROOMS

\* Mutant of DeleteRoom: the row goes without its cascade.
DeleteRoomNoCascade(u, r) ==
    /\ CanDelete(u, r)
    /\ ROOMS' = ROOMS \ {r}
    /\ rooms' = rooms \ {r}
    /\ visibility' = [visibility EXCEPT ![r] = "private"]
    /\ UNCHANGED <<room_users, join_requests, room_keys, suspended>>

\* delete_room_endpoint: the row's deletion cascades to the three other tables.
DeleteRoom(u, r) ==
    /\ CanDelete(u, r)
    /\ ROOMS' = ROOMS \ {r}
    /\ rooms' = rooms \ {r}
    /\ visibility' = [visibility EXCEPT ![r] = "private"]
    /\ room_users' = [room_users EXCEPT ![r] = NoMembers]
    /\ join_requests' = [join_requests EXCEPT ![r] = NoMembers]
    /\ room_keys' = [room_keys EXCEPT ![r] = NoKeys]
    /\ UNCHANGED suspended

\* The DELETE fails: the registry has already let go of the room.
DeleteRoomFails(u, r) ==
    /\ DbMayFail
    /\ CanDelete(u, r)
    /\ ROOMS' = ROOMS \ {r}
    /\ UNCHANGED <<rooms, visibility, room_users, join_requests, room_keys,
                   suspended>>

\* The process stops, at any point, and starts again: load_rooms_from_db fills
\* an empty registry from the table; suspended handlers are gone.
Restart ==
    /\ ROOMS' = rooms
    /\ suspended' = [u \in Users |-> Idle]
    /\ UNCHANGED <<rooms, visibility, room_users, join_requests, room_keys>>

-----------------------------------------------------------------------------
(* Members and roles.                                                      *)

\* Mutant of CanAddMember: any member may invite.
CanAddMemberAnyone(u, r, t) == check_room_access(r, u) /\ ~IsMember(r, t)

CanAddMember(u, r, t) ==
    /\ check_room_access(r, u)
    /\ is_dm(r) \/ require_room_op_or_global_mod(r, u)
    /\ ~IsMember(r, t)

AddMember(u, r, t) ==
    /\ CanAddMember(u, r, t)
    /\ InsertMember(r, t, "member")
    /\ UNCHANGED <<ROOMS, rooms, visibility, join_requests, room_keys, suspended>>

\* remove_member: the room's keys of the removed member stay.
RemoveMember(u, r, t) ==
    /\ ~is_dm(r)
    /\ r \in ROOMS
    /\ t = u \/ require_room_op_or_global_mod(r, u)
    /\ IsMember(r, t)
    /\ room_users' = [room_users EXCEPT ![r][t] = "none"]
    /\ UNCHANGED <<ROOMS, rooms, visibility, join_requests, room_keys, suspended>>

\* update_member with a room_role: "owner" cannot be given.
SetRole(u, r, t, role) ==
    /\ check_room_access(r, u)
    /\ IsMember(r, t)
    /\ ~is_dm(r)
    /\ require_room_op_or_global_mod(r, u)
    /\ role \in Roles \ {"owner"}
    /\ room_users' = [room_users EXCEPT ![r][t] = role]
    /\ UNCHANGED <<ROOMS, rooms, visibility, join_requests, room_keys, suspended>>

-----------------------------------------------------------------------------
(* update_room.                                                            *)

CanUpdate(u, r) == check_room_access(r, u) /\ require_room_op_or_global_mod(r, u)

\* set_visibility: the registry is asked, the table is written.
WriteVisibility(r, v) ==
    visibility' = IF r \in ROOMS \cap rooms /\ ~is_dm(r)
                  THEN [visibility EXCEPT ![r] = v] ELSE visibility

\* A PATCH with a visibility and no topic.
UpdateVisibility(u, r, v) ==
    /\ CanUpdate(u, r) /\ ~is_dm(r)
    /\ WriteVisibility(r, v)
    /\ UNCHANGED <<ROOMS, rooms, room_users, join_requests, room_keys, suspended>>

\* A PATCH with both: the topic is written and its broadcast awaited ...
UpdateTopicFirst(u, r, v) ==
    /\ suspended[u] = Idle
    /\ CanUpdate(u, r)
    /\ suspended' = [suspended EXCEPT ![u] = <<r, v>>]
    /\ UNCHANGED <<ROOMS, rooms, visibility, room_users, join_requests, room_keys>>

\* ... then the visibility, without another look at the caller's rights.
UpdateVisibilityAfter(u) ==
    /\ suspended[u] # Idle
    /\ WriteVisibility(suspended[u][1], suspended[u][2])
    /\ suspended' = [suspended EXCEPT ![u] = Idle]
    /\ UNCHANGED <<ROOMS, rooms, room_users, join_requests, room_keys>>

-----------------------------------------------------------------------------
(* Join requests.                                                          *)

\* A request that was approved or denied before is reset to pending.
SubmitJoinRequest(u, r) ==
    /\ r \in ROOMS \cap rooms
    /\ visibility[r] = "public"
    /\ ~IsMember(r, u)
    /\ join_requests[r][u] # "pending"
    /\ join_requests' = [join_requests EXCEPT ![r][u] = "pending"]
    /\ UNCHANGED <<ROOMS, rooms, visibility, room_users, room_keys, suspended>>

CanResolve(u, r, t) ==
    /\ check_room_access(r, u)
    /\ require_room_op_or_global_mod(r, u)
    /\ join_requests[r][t] = "pending"

\* Mutant of ApproveJoinRequest: the requester is not made a member.
ApproveJoinRequestOnPaper(u, r, t) ==
    /\ CanResolve(u, r, t)
    /\ join_requests' = [join_requests EXCEPT ![r][t] = "approved"]
    /\ UNCHANGED <<ROOMS, rooms, visibility, room_users, room_keys, suspended>>

ApproveJoinRequest(u, r, t) ==
    /\ CanResolve(u, r, t)
    /\ InsertMember(r, t, "member")
    /\ join_requests' = [join_requests EXCEPT ![r][t] = "approved"]
    /\ UNCHANGED <<ROOMS, rooms, visibility, room_keys, suspended>>

\* The membership is committed by add_room_member before the status is written.
ApproveStatusFails(u, r, t) ==
    /\ DbMayFail
    /\ CanResolve(u, r, t)
    /\ InsertMember(r, t, "member")
    /\ UNCHANGED <<ROOMS, rooms, visibility, join_requests, room_keys, suspended>>

DenyJoinRequest(u, r, t) ==
    /\ CanResolve(u, r, t)
    /\ join_requests' = [join_requests EXCEPT ![r][t] = "denied"]
    /\ UNCHANGED <<ROOMS, rooms, visibility, room_users, room_keys, suspended>>

-----------------------------------------------------------------------------
(* Encrypted room keys.                                                    *)

\* Mutant of CanStoreKey: the target's membership is not asked for.
CanStoreKeyForAnyone(u, r, t) ==
    /\ check_room_access(r, u)
    /\ t # u => require_room_op_or_global_mod(r, u)

CanStoreKey(u, r, t) ==
    /\ check_room_access(r, u)
    /\ t # u => require_room_op_or_global_mod(r, u) /\ IsMember(r, t)

\* store_room_key_endpoint: INSERT OR REPLACE.
StoreKey(u, r, t, e, b) ==
    /\ CanStoreKey(u, r, t)
    /\ room_keys' = [room_keys EXCEPT ![r][t][e] = b]
    /\ UNCHANGED <<ROOMS, rooms, visibility, room_users, join_requests, suspended>>

-----------------------------------------------------------------------------
RoomStep(u, r) ==
    \/ \E v \in Visibilities : CreateRoom(u, r, v)
    \/ CreateRoomInsertFails(u, r)
    \/ \E v \in Visibilities : CreateRoomOwnerFails(u, r, v)
    \/ CreateDM(u, r)
    \/ DeleteRoom(u, r)
    \/ DeleteRoomFails(u, r)
    \/ \E v \in Visibilities : UpdateVisibility(u, r, v)
    \/ \E v \in Visibilities : UpdateTopicFirst(u, r, v)
    \/ SubmitJoinRequest(u, r)

MemberStep(u, r, t) ==
    \/ AddMember(u, r, t)
    \/ RemoveMember(u, r, t)
    \/ \E role \in Roles : SetRole(u, r, t, role)
    \/ ApproveJoinRequest(u, r, t)
    \/ ApproveStatusFails(u, r, t)
    \/ DenyJoinRequest(u, r, t)
    \/ \E e \in Epochs, b \in Blobs : StoreKey(u, r, t, e, b)

RoomsNext ==
    \/ Restart
    \/ \E u \in Users : UpdateVisibilityAfter(u)
    \/ \E u \in Users, r \in RoomIds : RoomStep(u, r)
    \/ \E u \in Users, r \in RoomIds, t \in Users : MemberStep(u, r, t)

RoomsSpec == RoomsInit /\ [][RoomsNext]_roomVars
-----------------------------------------------------------------------------
(* Properties.                                                             *)

\* Nothing is left of a room without a row: no member, no request, no key
\* (the ON DELETE CASCADE of database.py).  A room recreated under an old name
\* therefore starts empty, unless its deletion had failed.
ReferentialIntegrity ==
    \A r \in RoomIds \ rooms :
        /\ room_users[r] = NoMembers
        /\ join_requests[r] = NoMembers
        /\ room_keys[r] = NoKeys

\* A DM keeps all its participants, is never public, and gives nobody a role
\* above member, whatever is called on it (the is_dm checks spread over
\* rooms/routes.py and rooms/services.py).
DMIntegrity ==
    \A d \in DMs :
        /\ d \in rooms => \A u \in d : IsMember(d, u)
        /\ \A u \in Users : room_users[d][u] \in {"none", "member"}
        /\ visibility[d] = "private"

\* Whatever is called, fails or is restarted: nothing is left of a room that is gone, and
\* a DM stays what it is.
RoomsAreSound == ReferentialIntegrity /\ DMIntegrity

\* When no statement fails, the registry and the table name the same rooms at
\* every point where a handler can run, across restarts too.
RegistryAgrees == ~DbMayFail => ROOMS = rooms

\* Someone present in the room who may manage it.
HasManager(r) ==
    \E a \in Users : IsMember(r, a) /\ require_room_op_or_global_mod(r, a)

\* In a channel that both the registry and the table have, nobody becomes a
\* member and no ordinary member becomes an op without a manager in the room at
\* that moment: neither the invitations, nor the join requests, nor a role
\* change, nor a statement that fails half-way opens a side door.  (A room whose
\* deletion failed is not in the registry, and may be created again.)
MembershipByAuthority ==
    [][\A r \in (rooms \cap ROOMS) \ DMs, t \in Users :
          \/ room_users[r][t] = "none" /\ room_users'[r][t] # "none"
          \/ room_users[r][t] \in {"voice", "member"}
             /\ room_users'[r][t] \in {"op", "owner"}
          => HasManager(r)]_roomVars

\* A pending request leaves that state only by a manager's decision or with
\* its room, and "approved" is never written for someone who is not let in.
RequestsAreDecided ==
    [][\A r \in RoomIds, t \in Users :
          join_requests[r][t] = "pending" /\ join_requests'[r][t] # "pending"
          => \/ r \notin rooms'
             \/ /\ \E a \in Users : CanResolve(a, r, t)
                /\ join_requests'[r][t] = "approved" => room_users'[r][t] # "none"
            ]_roomVars
=============================================================================
